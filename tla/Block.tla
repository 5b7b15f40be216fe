------------------------------- MODULE Block --------------------------------
(***************************************************************************)
(* Transactions (blockdata/transaction.rs): their wire format with the     *)
(* segwit and MWEB extensions, the preimages of their identifiers, their   *)
(* sizes and weights, and the prediction of the weight of a transaction    *)
(* that is not signed yet.                                                 *)
(***************************************************************************)
EXTENDS Mimblewimble

SegwitMarker == 0
FlagsSegwit == 1
FlagsMwebTx == 8

ZeroHash == [i \in 1..HashSize |-> 0]
NullOutPoint == [txid |-> ZeroHash, vout |-> MaxUint(W32)]
IsNull(o) == o = NullOutPoint
-----------------------------------------------------------------------------
EncodeVersion(v) == EmitInt(v, W32)
DecodeVersion(b) == ReadInt(W32, b)

EncodeOutPoint(o) == o.txid \o EmitUint(o.vout, W32)
DecodeOutPoint(b) ==
  Then(ReadSlice(HashSize, b), LAMBDA txid, r :
    Then(ReadUint(W32, r), LAMBDA vout, rest : Ok([txid |-> txid, vout |-> vout], rest)))

EncodeTxOut(o) == EmitUint(o.value, W64) \o EncodeBytes(o.script_pubkey)
DecodeTxOut(b) ==
  Then(ReadUint(W64, b), LAMBDA value, r :
    Then(DecodeBytes(r), LAMBDA script, rest : Ok([value |-> value, script_pubkey |-> script], rest)))

EncodeTxIn(i) ==
  EncodeOutPoint(i.previous_output) \o EncodeBytes(i.script_sig) \o EmitUint(i.sequence, W32)
DecodeTxIn(b) ==
  Then(DecodeOutPoint(b), LAMBDA prev, r1 :
  Then(DecodeBytes(r1), LAMBDA script_sig, r2 :
  Then(ReadUint(W32, r2), LAMBDA sequence, rest :
    Ok([previous_output |-> prev, script_sig |-> script_sig, sequence |-> sequence,
        witness |-> NewWitness], rest))))
-----------------------------------------------------------------------------
HasWitnesses(tx) == \E i \in DOMAIN tx.input : ~IsEmpty(tx.input[i].witness)
HasMweb(tx) == tx.mw_tx # {} \/ tx.is_hog_ex
\* Mutant: a transaction without inputs is written in the old form.
SegwitRequiredByWitness(tx) == HasWitnesses(tx)
SegwitRequired(tx) == HasWitnesses(tx) \/ (tx.input = <<>> /\ ~HasMweb(tx))

EncodeWitnesses(tx) == Flatten([i \in DOMAIN tx.input |-> EncodeWitness(tx.input[i].witness)])

EncodeTx(tx) ==
  EncodeVersion(tx.version)
  \o (IF ~SegwitRequired(tx) /\ ~HasMweb(tx) THEN <<>>
      ELSE <<SegwitMarker, (IF SegwitRequired(tx) THEN FlagsSegwit ELSE 0)
                           + (IF HasMweb(tx) THEN FlagsMwebTx ELSE 0)>>)
  \o EncodeVec(EncodeTxIn, tx.input) \o EncodeVec(EncodeTxOut, tx.output)
  \o (IF SegwitRequired(tx) THEN EncodeWitnesses(tx) ELSE <<>>)
  \o (IF HasMweb(tx) THEN (IF tx.mw_tx = {} THEN <<0>> ELSE <<1>> \o EncodeMwebTx(Get(tx.mw_tx))) ELSE <<>>)
  \o EmitUint(tx.lock_time, W32)

\* The witnesses of the inputs, in their order.
ReadWitnesses(input, b) ==
  LET got[i \in 0..Len(input)] ==
        IF i = 0 THEN Ok(<<>>, b)
        ELSE Then(got[i - 1], LAMBDA done, r :
               Then(DecodeWitness(r), LAMBDA w, rest :
                 Ok(Append(done, [input[i] EXCEPT !.witness = w]), rest)))
  IN  Then(got[Len(input)], LAMBDA full, rest :
        IF input # <<>> /\ \A i \in DOMAIN full : IsEmpty(full[i].witness)
          THEN Err("ParseFailed") ELSE Ok(full, rest))

ReadMweb(output, b) ==
  Then(ReadUint(1, b), LAMBDA present, r :
    IF present # 0
      THEN Then(DecodeMwebTx(r), LAMBDA mw, rest : Ok([mw_tx |-> {mw}, is_hog_ex |-> FALSE], rest))
    ELSE IF output = <<>> THEN Err("ParseFailed")
    ELSE Ok([mw_tx |-> {}, is_hog_ex |-> TRUE], r))

KnownFlags(flag) == flag \in {FlagsSegwit, FlagsMwebTx, FlagsSegwit + FlagsMwebTx}

DecodeTx(b) ==
  Then(DecodeVersion(b), LAMBDA version, r0 :
  Then(DecodeVec(DecodeTxIn, r0), LAMBDA first, r1 :
    IF first # <<>>
      THEN Then(DecodeVec(DecodeTxOut, r1), LAMBDA output, r2 :
           Then(ReadUint(W32, r2), LAMBDA lock_time, rest :
             Ok([version |-> version, lock_time |-> lock_time, input |-> first, output |-> output,
                 mw_tx |-> {}, is_hog_ex |-> FALSE], rest)))
      ELSE Then(ReadUint(1, r1), LAMBDA flag, r2 :
           IF ~KnownFlags(flag) THEN Err("UnsupportedSegwitFlag")
           ELSE Then(DecodeVec(DecodeTxIn, r2), LAMBDA bare, r3 :
                Then(DecodeVec(DecodeTxOut, r3), LAMBDA output, r4 :
                Then(IF HasBit(flag, FlagsSegwit) THEN ReadWitnesses(bare, r4) ELSE Ok(bare, r4),
                     LAMBDA input, r5 :
                Then(IF HasBit(flag, FlagsMwebTx) THEN ReadMweb(output, r5)
                       ELSE Ok([mw_tx |-> {}, is_hog_ex |-> FALSE], r5), LAMBDA mw, r6 :
                Then(ReadUint(W32, r6), LAMBDA lock_time, rest :
                  Ok([version |-> version, lock_time |-> lock_time, input |-> input, output |-> output,
                      mw_tx |-> mw.mw_tx, is_hog_ex |-> mw.is_hog_ex], rest)))))))))
-----------------------------------------------------------------------------
\* What the identifiers commit to: a hash stands for its preimage.
TxidPreimage(tx) ==
  EncodeVersion(tx.version) \o EncodeVec(EncodeTxIn, tx.input) \o EncodeVec(EncodeTxOut, tx.output)
  \o EmitUint(tx.lock_time, W32)

WtxidPreimage(tx) == EncodeTx(tx)

NtxidPreimage(tx) ==
  TxidPreimage([tx EXCEPT !.input = [i \in DOMAIN tx.input |->
                                       [tx.input[i] EXCEPT !.script_sig = <<>>, !.witness = NewWitness]],
                          !.mw_tx = {}, !.is_hog_ex = FALSE])
-----------------------------------------------------------------------------
\* Sizes, in bytes, and weights.
OutPointSize == HashSize + W32
SequenceSize == W32
AmountSize == W64
LockTimeSize == W32
BaseWeight == 4 * (OutPointSize + SequenceSize)

TxInBaseSize(i) == OutPointSize + VarIntSize(Len(i.script_sig)) + Len(i.script_sig) + SequenceSize
TxInTotalSize(i) == TxInBaseSize(i) + WitnessSize(i.witness)
LegacyWeight(i) == 4 * TxInBaseSize(i)
SegwitWeight(i) == 4 * TxInBaseSize(i) + WitnessSize(i.witness)

TxOutSize(o) == AmountSize + VarIntSize(Len(o.script_pubkey)) + Len(o.script_pubkey)
TxOutWeight(o) == 4 * TxOutSize(o)

\* Mutant: a transaction without inputs is measured in the old form.
UsesSegwitByWitness(tx) == HasWitnesses(tx)
UsesSegwitSerialization(tx) == HasWitnesses(tx) \/ tx.input = <<>>

BaseSize(tx) ==
  W32 + VarIntSize(Len(tx.input)) + Total(tx.input, TxInBaseSize)
  + VarIntSize(Len(tx.output)) + Total(tx.output, TxOutSize) + LockTimeSize

TotalSize(tx) ==
  W32 + (IF UsesSegwitSerialization(tx) THEN 2 ELSE 0) + VarIntSize(Len(tx.input))
  + Total(tx.input, LAMBDA i : IF UsesSegwitSerialization(tx) THEN TxInTotalSize(i) ELSE TxInBaseSize(i))
  + VarIntSize(Len(tx.output)) + Total(tx.output, TxOutSize) + LockTimeSize

TxWeight(tx) == 3 * BaseSize(tx) + TotalSize(tx)
Vsize(tx) == (TxWeight(tx) + 3) \div 4

IsCoinbase(tx) == Len(tx.input) = 1 /\ IsNull(tx.input[1].previous_output)
-----------------------------------------------------------------------------
\* The prediction from the lengths of scripts and witness elements alone.
Predict(script_len, elem_lens) ==
  [script_size |-> script_len + VarIntSize(script_len),
   witness_size |-> IF elem_lens = <<>> THEN 0
                    ELSE Total(elem_lens, LAMBDA n : n + VarIntSize(n)) + VarIntSize(Len(elem_lens))]

PredictionWeight(p) == 4 * p.script_size + p.witness_size

PredictWeightInternal(count, partial, with_witnesses, outputs, scripts) ==
  4 * (W32 + VarIntSize(count) + VarIntSize(outputs) + W64 * outputs + scripts + W32)
  + partial + count * 4 * (HashSize + W32 + W32)
  + (IF with_witnesses = 0 THEN 0 ELSE (count - with_witnesses) + 2)

PredictWeight(inputs, script_lens) ==
  PredictWeightInternal(
    Len(inputs),
    Total(inputs, PredictionWeight),
    Len(SelectSeq(inputs, LAMBDA p : p.witness_size > 0)),
    Len(script_lens),
    Total(script_lens, LAMBDA n : n + VarIntSize(n)))
-----------------------------------------------------------------------------
(***************************************************************************)
(* Blocks on the wire (blockdata/block.rs): the header, the transactions   *)
(* and, behind a closing HogEx, the MWEB block; sizes and weights; the     *)
(* version bits.                                                           *)
(***************************************************************************)

\* 0x2000_0000: set for version bits signalling, and required of an MWEB block.
UseVersionBits == 256 ^ W32 \div 8
NoSoftForkSignalling == UseVersionBits
VersionBits == 8 * W32 - 3   \* bits below the three of the mask

AsU32(v) == v % 256 ^ W32

IsSignallingSoftFork(v, bit) ==
  /\ bit <= VersionBits - 1
  /\ AsU32(v) \div UseVersionBits = 1
  /\ HasBit(AsU32(v), 2 ^ bit)
-----------------------------------------------------------------------------
EncodeHeader(h) ==
  EncodeVersion(h.version) \o h.prev_blockhash \o h.merkle_root
  \o EmitUint(h.time, W32) \o EmitUint(h.bits, W32) \o EmitUint(h.nonce, W32)

DecodeHeader(b) ==
  Then(DecodeVersion(b), LAMBDA version, r1 :
  Then(ReadSlice(HashSize, r1), LAMBDA prev, r2 :
  Then(ReadSlice(HashSize, r2), LAMBDA root, r3 :
  Then(ReadUint(W32, r3), LAMBDA time, r4 :
  Then(ReadUint(W32, r4), LAMBDA bits, r5 :
  Then(ReadUint(W32, r5), LAMBDA nonce, rest :
    Ok([version |-> version, prev_blockhash |-> prev, merkle_root |-> root,
        time |-> time, bits |-> bits, nonce |-> nonce], rest)))))))

HeaderSize == W32 + HashSize + HashSize + W32 + W32 + W32
-----------------------------------------------------------------------------
EncodeMwebHeader(h) ==
  WriteCompactVarint(h.height)
  \o h.output_root \o h.kernel_root \o h.leafset_root \o h.kernel_offset \o h.stealth_offset
  \o WriteCompactVarint(h.output_mmr_size) \o WriteCompactVarint(h.kernel_mmr_size)

DecodeMwebHeader(b) ==
  Then(ReadCompactVarint(b), LAMBDA height, r0 :
    IF height > MaxUint(W32) THEN Err("ParseFailed")
    ELSE
      Then(ReadSlice(HashSize, r0), LAMBDA output_root, r1 :
      Then(ReadSlice(HashSize, r1), LAMBDA kernel_root, r2 :
      Then(ReadSlice(HashSize, r2), LAMBDA leafset_root, r3 :
      Then(ReadSlice(HashSize, r3), LAMBDA kernel_offset, r4 :
      Then(ReadSlice(HashSize, r4), LAMBDA stealth_offset, r5 :
      Then(ReadCompactVarint(r5), LAMBDA outputs, r6 :
      Then(ReadCompactVarint(r6), LAMBDA kernels, rest :
        Ok([height |-> height, output_root |-> output_root, kernel_root |-> kernel_root,
            leafset_root |-> leafset_root, kernel_offset |-> kernel_offset,
            stealth_offset |-> stealth_offset, output_mmr_size |-> outputs,
            kernel_mmr_size |-> kernels], rest)))))))))

EncodeMwebBlock(m) == EncodeMwebHeader(m.header) \o EncodeTxBody(m.tx_body)

DecodeMwebBlock(b) ==
  Then(DecodeMwebHeader(b), LAMBDA header, r :
    Then(DecodeTxBody(r), LAMBDA body, rest : Ok([header |-> header, tx_body |-> body], rest)))
-----------------------------------------------------------------------------
BlockCarriesMweb(version, txdata) ==
  /\ Len(txdata) >= 2
  /\ HasBit(AsU32(version), UseVersionBits)
  /\ txdata[Len(txdata)].is_hog_ex

EncodeBlock(bl) ==
  EncodeHeader(bl.header) \o EncodeVec(EncodeTx, bl.txdata)
  \o (IF ~BlockCarriesMweb(bl.header.version, bl.txdata) THEN <<>>
      ELSE IF bl.mweb_block = {} THEN <<0>>
      ELSE <<1>> \o EncodeMwebBlock(Get(bl.mweb_block)))

HogExLast(txdata) == \A i \in 1..Len(txdata) - 1 : ~txdata[i].is_hog_ex

DecodeBlock(b) ==
  Then(DecodeHeader(b), LAMBDA header, r0 :
  Then(DecodeVec(DecodeTx, r0), LAMBDA txdata, r1 :
    IF ~HogExLast(txdata) THEN Err("ParseFailed")
    ELSE IF ~BlockCarriesMweb(header.version, txdata)
      THEN Ok([header |-> header, txdata |-> txdata, mweb_block |-> {}], r1)
    ELSE Then(ReadUint(1, r1), LAMBDA present, r2 :
         Then(If(present # 0, DecodeMwebBlock, r2), LAMBDA mweb, rest :
           Ok([header |-> header, txdata |-> txdata, mweb_block |-> mweb], rest)))))

BlockBaseSize(bl) == HeaderSize + VarIntSize(Len(bl.txdata)) + Total(bl.txdata, BaseSize)
BlockTotalSize(bl) == HeaderSize + VarIntSize(Len(bl.txdata)) + Total(bl.txdata, TotalSize)
BlockWeight(bl) == 3 * BlockBaseSize(bl) + BlockTotalSize(bl)
=============================================================================
