------------------------------- MODULE MCWire -------------------------------
(***************************************************************************)
(* The wire formats under damage.  A behaviour encodes a sample value and  *)
(* replaces, removes or adds bytes, until they are received; every         *)
(* property says what the decoder of the subject then makes of them.       *)
(* Other behaviours are MCRetarget's: their subject is "none".             *)
(***************************************************************************)
EXTENDS NetworkMessage, PsbtCodec, Address, MCRetarget

CONSTANTS
  Bytes,       \* bytes that damage puts on the wire
  ShortWire    \* a wire no longer than this is damaged twice, any other once

VARIABLES
  subject,   \* the type on the wire
  sample,    \* the value that was encoded
  wire,      \* the bytes
  damage     \* how many bytes were touched, or Received

Received == 3

wireVars == <<subject, sample, wire, damage>>
vars == <<wireVars, mcVars>>
-----------------------------------------------------------------------------
Hash(n) == [i \in 1..HashSize |-> n]
Prev(n) == [txid |-> Hash(n), vout |-> n]
In(n, script, elems) ==
  [previous_output |-> Prev(n), script_sig |-> script, sequence |-> MaxUint(W32) - n,
   witness |-> FromSlice(elems)]
Out(value, script) == [value |-> value, script_pubkey |-> script]
Tx(ins, outs, mw, hogex) ==
  [version |-> 2, lock_time |-> 5, input |-> ins, output |-> outs, mw_tx |-> mw, is_hog_ex |-> hogex]

Pegout(n) == [amount |-> n, script_pub_key |-> <<81>>]
Kernel(features, fee, pegin, pegouts, lock, stealth, extra) ==
  [features |-> features, fee |-> fee, pegin |-> pegin, pegouts |-> pegouts, lock_height |-> lock,
   stealth_excess |-> stealth, extra_data |-> extra, excess |-> 8, signature |-> 9]
Kernels ==
  <<Kernel(0, {}, {}, <<>>, {}, {}, <<>>),
   Kernel(1 + 4, {300}, {}, <<Pegout(1), Pegout(128)>>, {}, {}, <<>>),
   Kernel(2 + 8 + 16, {}, {MaxAmount}, <<>>, {MaxUint(W32)}, {3}, <<>>),
   Kernel(32 + 64, {}, {}, <<>>, {}, {}, <<1, 2>>)>>
Plain == Kernel(1, {127}, {}, <<>>, {}, {}, <<>>)

MIn(features, key, extra) ==
  [features |-> features, output_id |-> 1, commitment |-> 2, input_public_key |-> key,
   output_public_key |-> 2, extra_data |-> extra, signature |-> 4]
MIns == <<MIn(0, {}, <<>>), MIn(1, {2}, <<>>), MIn(2 + 128, {}, <<7>>), MIn(3, {3}, <<>>)>>

MOut(features, fields, extra) ==
  [commitment |-> 1, sender_public_key |-> 2, receiver_public_key |-> 3,
   message |-> [features |-> features, standard_fields |-> fields, extra_data |-> extra],
   range_proof |-> 5, signature |-> 6]
Fields == [key_exchange_pubkey |-> 2, view_tag |-> 7, masked_value |-> 70000, masked_nonce |-> 1]
MOuts == <<MOut(0, {}, <<>>), MOut(1, {Fields}, <<>>), MOut(3, {Fields}, <<9>>), MOut(6, {}, <<>>)>>

Body(ins, outs, kernels) == [inputs |-> ins, outputs |-> outs, kernels |-> kernels]
MTx == [kernel_offset |-> 1, stealth_offset |-> 2,
        body |-> Body(<<MIn(1, {2}, <<>>)>>, <<>>, <<Plain>>)]

Txs ==
  <<Tx(<<>>, <<>>, {}, FALSE),
   Tx(<<>>, <<Out(1, <<81>>)>>, {}, FALSE),
   Tx(<<In(1, <<>>, <<>>)>>, <<>>, {}, FALSE),
   Tx(<<In(1, <<2, 2>>, <<>>), In(2, <<>>, <<>>)>>, <<Out(70000, <<>>)>>, {}, FALSE),
   Tx(<<In(1, <<>>, <<<<1>>, <<>>>>), In(2, <<>>, <<>>)>>, <<Out(1, <<>>), Out(2, <<81>>)>>, {}, FALSE)>>
MwebTxs ==
  <<Tx(<<>>, <<>>, {MTx}, FALSE),
   Tx(<<In(1, <<>>, <<<<1>>>>)>>, <<Out(3, <<>>)>>, {MTx}, FALSE),
   Tx(<<In(1, <<>>, <<>>)>>, <<Out(3, <<>>)>>, {}, TRUE)>>

Header(version) ==
  [version |-> version, prev_blockhash |-> Hash(1), merkle_root |-> Hash(2), time |-> 3, bits |-> 4,
   nonce |-> 5]
MHeader(h) ==
  [height |-> h, output_root |-> Hash(1), kernel_root |-> Hash(2), leafset_root |-> Hash(3),
   kernel_offset |-> Hash(4), stealth_offset |-> Hash(5), output_mmr_size |-> 128,
   kernel_mmr_size |-> MaxUint(W64)]
Coinbase == Tx(<<[In(1, <<1, 1>>, <<>>) EXCEPT !.previous_output = NullOutPoint]>>,
               <<Out(50, <<81>>)>>, {}, FALSE)
HogEx == Tx(<<In(1, <<>>, <<>>)>>, <<Out(3, <<>>)>>, {}, TRUE)
Blk(version, txs, mweb) == [header |-> Header(version), txdata |-> txs, mweb_block |-> mweb]
Mweb == [header |-> MHeader(1), tx_body |-> Body(<<>>, <<>>, <<Plain>>)]
Blocks ==
  <<Blk(1, <<>>, {}),
   Blk(UseVersionBits, <<Coinbase>>, {}),
   Blk(1, <<Coinbase, HogEx>>, {}),
   Blk(UseVersionBits + 1, <<Coinbase, HogEx>>, {}),
   Blk(UseVersionBits, <<Coinbase, HogEx>>, {Mweb})>>

NetAddr(w) == [services |-> 9, address |-> w, port |-> 33]
V4 == AddressNew([kind |-> "v4", ip |-> <<10, 20>>, port |-> 33]).address
V6 == <<252, 2, 3, 4, 5, 6, 7, 8>>
AddrV2(network, bytes) ==
  [time |-> 1, services |-> 300, addr |-> [network |-> network, bytes |-> bytes], port |-> 4]
Inv(t) == [inv_type |-> t, hash |-> {Hash(t % 256)}]

Messages ==
  <<Known("version", <<7, 1, -1, NetAddr(V4), NetAddr(V6), 5, <<65>>, -2, TRUE>>),
   Known("verack", <<>>),
   Known("addr", <<<<[time |-> 1, addr |-> NetAddr(V6)]>>>>),
   Known("inv", <<<<Inv(1), Inv(WitnessFlag + 2), Inv(9)>>>>),
   Known("getheaders", <<1, <<Hash(1), Hash(2)>>, Hash(0)>>),
   Known("tx", <<Tx(<<In(1, <<>>, <<>>)>>, <<>>, {}, FALSE)>>),
   Known("headers", <<<<Header(1), Header(2)>>>>),
   Known("ping", <<300>>),
   Known("merkleblock", <<Header(1), 3, <<Hash(1)>>, [k \in 1..8 |-> k \in {1, 4}]>>),
   Known("filterload", <<<<1>>, 2, 3, 1>>),
   Known("getcfilters", <<0, 4, Hash(1)>>),
   Known("cfilter", <<0, Hash(1), <<4, 4>>>>),
   Known("cfheaders", <<0, Hash(1), Hash(2), <<Hash(3)>>>>),
   Known("getcfcheckpt", <<0, Hash(1)>>),
   Known("cfcheckpt", <<0, Hash(1), <<>>>>),
   Known("sendcmpct", <<TRUE, 2>>),
   Known("cmpctblock", <<Header(1), 4, <<7>>, <<[idx |-> 0, tx |-> Coinbase]>>>>),
   Known("getblocktxn", <<Hash(1), <<0, 1, 5, MaxUint(W64) - 1>>>>),
   Known("blocktxn", <<Hash(1), <<Coinbase>>>>),
   Known("reject", <<<<65>>, 66, <<>>, Hash(1)>>),
   Known("feefilter", <<-3>>),
   Known("addrv2", <<<<AddrV2(1, <<1, 2, 3, 4>>), AddrV2(2, <<1, 2, 3, 4, 5, 6, 7, 8>>)>>>>),
   Known("addrv2", <<<<AddrV2(4, Hash(1)), AddrV2(6, V6), AddrV2(9, <<>>)>>>>)>>
-----------------------------------------------------------------------------
\* Hash functions that keep small inputs apart.
Mix(b) == Total(b, LAMBDA x : 3 * x + 1) + Len(b)
MCHash160(b) == <<Mix(b) % 251, Len(b)>>
MCHashOf(b) == [i \in 1..HashSize |-> (Mix(b) + i) % 256]
MCTapTweakHash(x, root) == 1 + ((x + Total(IF root = {} THEN <<>> ELSE Get(root), LAMBDA b : b)) % (Order - 2))
MCHmac(code, data) ==
  [left |-> 1 + ((Mix(code) + 2 * Mix(data)) % (Order - 1)), right |-> [i \in 1..HashSize |-> (Mix(data) + 7) % 256]]

Xprv == NewMaster("Main", MCHmac(<<1>>, <<2>>)).val
Xprv1 == CkdPriv(Xprv, Child(TRUE, 3)).val
Xpub1 == FromPriv(Xprv1)
Pk(p, c) == [compressed |-> c, inner |-> p]
Sk(n, c, net) == [compressed |-> c, network |-> net, inner |-> n]
Sig(t) == [signature |-> <<48, 5>>, sighash_type |-> t]
TapSig(t) == [signature |-> <<9>>, sighash_type |-> t]
Source(path) == [fingerprint |-> Zeros(FingerprintSize), path |-> path]
LeafA == Tree!NewLeaf(<<<<81>>, LeafTapscript>>)
LeafB == Tree!NewLeaf(<<<<>>, 194>>)
LeafC == Tree!NewLeaf(<<<<82, 83>>, LeafTapscript>>)
Node == Tree!CombineNodes(LeafA, LeafB)
Node3 == Tree!CombineNodes(Node, LeafC)
Control == ControlBlock(LeafTapscript, 1, 3, <<Hash(4), Hash(9)>>)

Field1(fields, type, key, v) == [NewMap(fields) EXCEPT !.f[type] = With(Empty, key, v)]
In1(type, key, v) == Field1(InputFields, type, key, v)
Out1(type, key, v) == Field1(OutputFields, type, key, v)
KeySourceKey == SerializePoint(3)
PsbtInputs ==
  <<NewMap(InputFields), In1(0, <<>>, Txs[4]), In1(1, <<>>, Out(9, <<81>>)),
    [In1(2, KeyToBytes(Pk(2, TRUE)), Sig(1)) EXCEPT !.f[2] = With(@, KeyToBytes(Pk(Order - 2, TRUE)), Sig(131))],
    In1(3, <<>>, 300), In1(6, KeySourceKey, Source(<<Child(TRUE, 1), Child(FALSE, 2)>>)),
    In1(8, <<>>, FromSlice(<<<<1>>, <<2, 3>>>>)), In1(10, MCHashOf(<<5>>), <<5>>),
    In1(19, <<>>, TapSig(0)), In1(20, <<3>> \o Hash(1), TapSig(1)),
    In1(21, ControlEncode(Control), [script |-> <<81>>, version |-> LeafTapscript]),
    In1(22, <<3>>, [leaves |-> <<Hash(1)>>, source |-> Source(<<>>)]), In1(23, <<>>, 2), In1(24, <<>>, Hash(3)),
    [NewMap(InputFields) EXCEPT !.mweb = With(With(Empty, 144, [key |-> <<>>, value |-> Hash(1)]), 154,
                                                [key |-> KeySourceKey, value |-> KeySourceSer(Source(<<>>))])],
    [NewMap(InputFields) EXCEPT !.proprietary = With(Empty, ProprietarySer([prefix |-> <<1>>, subtype |-> 2, key |-> <<3>>]), <<4>>),
                                !.unknown = With(Empty, KeySer(PsbtKey(99, <<1>>)), <<>>)]>>
PsbtOutputs ==
  <<Out1(0, <<>>, <<81>>), Out1(2, KeySourceKey, Source(<<Child(FALSE, 5)>>)), Out1(5, <<>>, 4),
    Out1(6, <<>>, Node3), Out1(7, <<4>>, [leaves |-> <<>>, source |-> Source(<<>>)]),
    [NewMap(OutputFields) EXCEPT !.mweb = With(Empty, 146, [key |-> <<>>, value |-> <<1>>])]>>
Unsigned == Tx(<<[In(1, <<>>, <<>>) EXCEPT !.sequence = 7]>>, <<Out(3, <<>>)>>, {}, FALSE)
Psbts ==
  <<[unsigned_tx |-> Unsigned, version |-> 0, xpub |-> With(Empty, EncodeXpub(Xpub1), Source(<<Child(TRUE, 3)>>)),
     proprietary |-> Empty, unknown |-> Empty, inputs |-> <<PsbtInputs[5]>>, outputs |-> <<PsbtOutputs[1]>>],
    [unsigned_tx |-> Tx(<<>>, <<>>, {}, FALSE), version |-> 0, xpub |-> Empty, proprietary |-> Empty,
     unknown |-> With(Empty, KeySer(PsbtKey(9, <<>>)), <<1>>), inputs |-> <<>>, outputs |-> <<>>]>>

Addresses ==
  <<P2pkh(MCHash160(<<1>>), "Main"), P2pkh(MCHash160(<<2>>), "Test"), P2sh(<<81>>, "Main").val,
    P2wpkh(3, "Mainnet"), P2wsh(<<81>>, "Testnets"), P2trTweaked(4, "Regtest"),
    FromWitnessProgram(Program(9, <<1, 2, 3>>), "Mainnet"), FromWitnessProgram(Program(16, <<0, 255>>), "Mainnet"),
    FromWitnessProgram(ProgramP2a, "Mainnet"), MwebAddr(2, 9, "Main"), MwebAddr(5, 5, "Test")>>
-----------------------------------------------------------------------------
Samples ==
  [varint |-> <<0, 252, 253, MaxUint(W16), MaxUint(W16) + 1, MaxUint(W32) + 1, MaxUint(W64)>>,
   string |-> <<<<>>, <<65, 66, 67, 68, 69>>>>,
   checked |-> <<<<>>, <<1, 2>>>>,
   amount |-> <<0, 127, 128, 255, 16511, 16512, MaxAmount>>,
   compact |-> <<128, MaxUint(W64)>>,
   witness |-> <<FromSlice(<<>>), FromSlice(<<<<>>>>), FromSlice(<<<<1>>, <<>>, <<2, 3, 4, 5>>>>)>>,
   kernel |-> Kernels,
   mweb_input |-> MIns,
   mweb_output |-> MOuts,
   mweb_tx |-> <<MTx>>,
   tx |-> Txs,
   mweb_tx_in_tx |-> MwebTxs,
   mweb_header |-> <<MHeader(0), MHeader(MaxUint(W32))>>,
   block |-> Blocks,
   message |-> [k \in DOMAIN Messages |-> RawMessage(<<4>>, Messages[k])],
   psbt_input |-> PsbtInputs,
   psbt_output |-> PsbtOutputs,
   psbt |-> Psbts,
   pubkey |-> <<Pk(2, TRUE), Pk(9, FALSE)>>,
   pubkey_text |-> <<Pk(2, TRUE), Pk(9, FALSE)>>,
   ecdsa |-> <<Sig(1), Sig(131)>>,
   tapsig |-> <<TapSig(0), TapSig(3)>>,
   msgsig |-> <<[signature |-> <<7>>, recid |-> 3, compressed |-> TRUE], [signature |-> <<7>>, recid |-> 0, compressed |-> FALSE]>>,
   control |-> <<Control>>,
   tree |-> <<LeafA, Node, Node3>>,
   wif |-> <<Sk(4, TRUE, "Main"), Sk(8, FALSE, "Test")>>,
   xpub |-> <<FromPriv(Xprv), Xpub1>>,
   xpriv |-> <<Xprv, Xprv1>>,
   address |-> Addresses]

Encode(s, v) ==
  CASE s = "varint" -> EncodeVarInt(v)
    [] s = "string" -> EncodeString(v)
    [] s = "checked" -> EncodeCheckedData(v)
    [] s = "amount" -> WriteAmount(v)
    [] s = "compact" -> WriteCompactVarint(v)
    [] s = "witness" -> EncodeWitness(v)
    [] s = "kernel" -> EncodeKernel(v)
    [] s = "mweb_input" -> EncodeMwebInput(v)
    [] s = "mweb_output" -> EncodeMwebOutput(v)
    [] s = "mweb_tx" -> EncodeMwebTx(v)
    [] s \in {"tx", "mweb_tx_in_tx"} -> EncodeTx(v)
    [] s = "mweb_header" -> EncodeMwebHeader(v)
    [] s = "block" -> EncodeBlock(v)
    [] s = "message" -> EncodeRaw(v)
    [] s = "psbt_input" -> SerInput(v)
    [] s = "psbt_output" -> SerOutput(v)
    [] s = "psbt" -> SerPsbt(v)
    [] s = "pubkey" -> KeyToBytes(v)
    [] s = "pubkey_text" -> KeySerialize(TRUE, v)
    [] s = "ecdsa" -> EcdsaToVec(v)
    [] s = "tapsig" -> TapSigToVec(v)
    [] s = "msgsig" -> MessageSigSerialize(v)
    [] s = "control" -> ControlEncode(v)
    [] s = "tree" -> TreeSerialize(v)
    [] s = "wif" -> FmtWif(v)
    [] s = "xpub" -> XpubToStr(v)
    [] s = "xpriv" -> EncodeXpriv(v)
    [] s = "address" -> ToText(v)

Decode(s, b) ==
  CASE s = "varint" -> DecodeVarInt(b)
    [] s = "string" -> DecodeString(b)
    [] s = "checked" -> DecodeCheckedData(b)
    [] s = "amount" -> ReadAmount(b)
    [] s = "compact" -> ReadCompactVarint(b)
    [] s = "witness" -> DecodeWitness(b)
    [] s = "kernel" -> DecodeKernel(b)
    [] s = "mweb_input" -> DecodeMwebInput(b)
    [] s = "mweb_output" -> DecodeMwebOutput(b)
    [] s = "mweb_tx" -> DecodeMwebTx(b)
    [] s \in {"tx", "mweb_tx_in_tx"} -> DecodeTx(b)
    [] s = "mweb_header" -> DecodeMwebHeader(b)
    [] s = "block" -> DecodeBlock(b)
    [] s = "message" -> DecodeRaw(b)
    [] s = "psbt_input" -> DecodeInput(b)
    [] s = "psbt_output" -> DecodeOutput(b)
    [] s = "psbt" -> DePsbt(b)
    [] s = "pubkey" -> KeyReadFrom(b)
    [] s = "pubkey_text" -> KeyDeserialize(TRUE, b)
    [] s = "ecdsa" -> EcdsaFromSlice(b)
    [] s = "tapsig" -> TapSigFromSlice(b)
    [] s = "msgsig" -> MessageSigFromSlice(b)
    [] s = "control" -> ControlDecode(b)
    [] s = "tree" -> TreeDeserialize(b)
    [] s = "wif" -> FromWif(b)
    [] s = "xpub" -> XpubFromStr(b)
    [] s = "xpriv" -> DecodeXpriv(b)
    [] s = "address" -> FromText(b)
-----------------------------------------------------------------------------
WireInit ==
  /\ subject \in DOMAIN Samples
  /\ \E k \in DOMAIN Samples[subject] : sample = Samples[subject][k]
  /\ wire = Encode(subject, sample)
  /\ damage = 0

MayDamage == damage < (IF Len(wire) <= ShortWire THEN 2 ELSE 1)

Replace ==
  /\ MayDamage
  /\ \E i \in DOMAIN wire, x \in Bytes : wire' = [wire EXCEPT ![i] = x]
  /\ damage' = damage + 1
  /\ UNCHANGED <<subject, sample>>

Truncate ==
  /\ MayDamage
  /\ \E n \in 0..Len(wire) - 1 : wire' = SubSeq(wire, 1, n)
  /\ damage' = damage + 1
  /\ UNCHANGED <<subject, sample>>

Extend ==
  /\ MayDamage
  /\ \E x \in Bytes : wire' = Append(wire, x)
  /\ damage' = damage + 1
  /\ UNCHANGED <<subject, sample>>

Receive ==
  /\ damage < Received
  /\ damage' = Received
  /\ wire' = <<>>
  /\ UNCHANGED <<subject, sample>>

WireNext == Replace \/ Truncate \/ Extend \/ Receive

Init ==
  /\ MCInit
  /\ \/ subject = "none" /\ sample = 0 /\ wire = <<>> /\ damage = Received
     \/ Counting /\ lhs = A!Zero /\ WireInit

Next ==
  \/ subject # "none" /\ WireNext /\ UNCHANGED mcVars
  \/ subject = "none" /\ MCNext /\ UNCHANGED wireVars

Spec == Init /\ [][Next]_vars
-----------------------------------------------------------------------------
Got == Decode(subject, wire)
Consumed == Len(wire) - Len(Got.rest)

(* A value that is encoded and decoded again is the same value, with nothing left
   over: consensus_encode against consensus_decode of every type. *)
ReadsBack == damage = 0 => Got.ok /\ Got.rest = <<>> /\ Got.val = sample
\* What arrives undamaged is read back (consensus_decode).
RoundTrip == [][Receive => ReadsBack]_vars

(* The types that are read from a slice or a text as a whole. *)
WholeSlice(s) ==
  s \in {"pubkey_text", "ecdsa", "tapsig", "msgsig", "control", "tree", "wif", "xpub", "xpriv", "address"}

(* Where a decoder succeeds it uses the same bytes whatever follows them, and none of
   the bytes it uses can be missing: no decoder returns early on a shorter input. *)
Delimited ==
  Got.ok /\ ~WholeSlice(subject) =>
    /\ \A n \in 0..Consumed - 1 : ~Decode(subject, SubSeq(wire, 1, n)).ok
    /\ LET more == Decode(subject, wire \o <<255>>)
       IN  more.ok /\ more.val = Got.val /\ more.rest = Got.rest \o <<255>>
\* What arrives is read with the same bytes whatever follows (consensus_decode).
SelfDelimiting == [][Receive => Delimited]_vars

(* The types for which each value has one encoding only. *)
Canonical(s) ==
  s \in {"varint", "string", "checked", "amount", "compact", "witness", "kernel", "mweb_input",
         "mweb_output", "mweb_tx", "mweb_header", "tx", "pubkey", "pubkey_text", "ecdsa", "control", "xpub"}

(* Whatever bytes a decoder accepts, encoding the value gives those bytes back: the
   non minimal VarInt check, the amount groups, the segwit flag and witness checks, the
   prefix check of a public key leave no second form.  Where there is a second form (the
   MWEB part of a transaction, a Psbt, a taproot signature, a private key in its import
   format, an address), the value that was read is the same after it was written again.
   Only messages are left out: their payload may hold more than is read. *)
OneForm ==
  Got.ok =>
    /\ Canonical(subject) /\ (subject = "tx" => ~HasMweb(Got.val))
         => Encode(subject, Got.val) = SubSeq(wire, 1, Consumed)
    /\ subject # "message" => Decode(subject, Encode(subject, Got.val)) = Ok(Got.val, <<>>)

Pairs(b) ==
  LET left[n \in 0..Len(b) \div 3 + 1] ==
        IF n = 0 THEN b
        ELSE LET r == left[n - 1] IN IF r = <<>> THEN r ELSE PairDecode(r).rest
  IN  CHOOSE n \in DOMAIN left : PairDecode(left[n]).val = {}

(* insert_pair keeps every pair of an input or output map it accepts: writing the map
   gives as many pairs as were read.  (The last of two MWEB pairs of one type replaces the
   other, and one of the wrong length is dropped.) *)
PairsKept ==
  Got.ok /\ subject \in {"psbt_input", "psbt_output"} /\ Got.val.mweb = Empty /\ sample.mweb = Empty =>
    Pairs(Encode(subject, Got.val)) = Pairs(wire)

(* The sizes and weights are those of the bytes: total_size of a transaction and of a
   block, the base size of a transaction without its witnesses, and the size of a witness. *)
SizesAgree ==
  Got.ok =>
    /\ subject = "witness" => WitnessSize(Got.val) = Consumed
    /\ subject \in {"tx", "mweb_tx_in_tx"} /\ ~HasMweb(Got.val) =>
         LET tx == Got.val IN
         /\ TotalSize(tx) = Len(EncodeTx(tx))
         /\ BaseSize(tx) = Len(TxidPreimage(tx))
         /\ TxWeight(tx) = 3 * Len(TxidPreimage(tx)) + Len(EncodeTx(tx))
    /\ subject = "block" /\ (\A i \in DOMAIN Got.val.txdata : ~HasMweb(Got.val.txdata[i])) =>
         BlockTotalSize(Got.val) = Len(EncodeBlock(Got.val))

Lens(s) == [i \in DOMAIN s |-> Len(s[i])]
Prediction(i) == Predict(Len(i.script_sig), Lens(ToVec(i.witness)))

(* predict_weight, which sees lengths only, agrees with the weight of the transaction
   they are the lengths of. *)
PredictionsAgree ==
  Got.ok /\ subject \in {"tx", "mweb_tx_in_tx"} =>
    LET tx == Got.val IN
    tx.input # <<>> =>
      PredictWeight([i \in DOMAIN tx.input |-> Prediction(tx.input[i])],
                    [i \in DOMAIN tx.output |-> Len(tx.output[i].script_pubkey)]) = TxWeight(tx)

(* A frame that is accepted carries the length and the checksum of its payload, and
   encodes to itself when its payload was read to the end and its name has no zeros. *)
FramesHold ==
  Got.ok /\ subject = "message" =>
    LET frame == SubSeq(wire, 1, Consumed)
        header == MagicSize + CommandSize + 2 * W32
        payload == Drop(frame, header)
    IN  /\ Got.val.payload_len = Len(payload) /\ Got.val.checksum = Checksum(payload)
        /\ Got.val.msg.cmd # "unknown" /\ EncodePayload(Got.val.msg) = payload
           /\ Command(Got.val.msg) = <<frame[MagicSize + 1]>>
             => EncodeRaw(Got.val) = frame

\* What was read is written again as it came, up to the order of the pairs of a
\* PSBT map, so that passing a value on changes nothing (consensus_encode,
\* Serialize for the PSBT maps, RawNetworkMessage).
NothingLost == [][Receive => OneForm /\ PairsKept /\ FramesHold]_vars

\* Sizes and weights, also those predicted from the parts of an input, are those
\* of the encodings (Transaction::weight, predict_weight, Block::total_size).
SizesHold == [][Receive => SizesAgree /\ PredictionsAgree]_vars
=============================================================================
