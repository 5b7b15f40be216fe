---------------------------- MODULE BlockChecks -----------------------------
(***************************************************************************)
(* Merkle roots (merkle_tree/mod.rs) and the partial merkle trees that     *)
(* show which transactions of a block matched a filter                     *)
(* (merkle_tree/block.rs).  A hash is a sequence, and the hash of two      *)
(* others holds both, so that different inputs have different hashes.      *)
(* Then sigops, compact blocks (bip152.rs) and block filters (bip158.rs).  *)
(***************************************************************************)
EXTENDS Block, Script

CONSTANT MaxTransactions   \* Weight::MAX_BLOCK / Weight::MIN_TRANSACTION

ParentHash(left, right) == <<-1, Len(left)>> \o left \o right

Least(a, b) == IF a < b THEN a ELSE b
-----------------------------------------------------------------------------
\* calculate_root_inline: one level at a time, in place.
Partner(idx1, len) == Least(idx1 + 1, len - 1)

HalfLen(len) == (len \div 2) + (len % 2)

Level(hashes) ==
  LET len == Len(hashes)
      after[n \in 0..HalfLen(len)] ==
        IF n = 0 THEN SubSeq(hashes, 1, len)
        ELSE LET h == after[n - 1]
                 idx == n - 1
             IN  [h EXCEPT ![idx + 1] = ParentHash(h[(2 * idx) + 1], h[Partner(2 * idx, len) + 1])]
  IN  SubSeq(after[HalfLen(len)], 1, HalfLen(len))

MerkleRootR(hashes) ==
  LET level[n \in 0..Len(hashes)] ==
        IF n = 0 THEN hashes
        ELSE LET h == level[n - 1] IN IF Len(h) = 1 THEN h ELSE Level(h)
  IN  level[Len(hashes)][1]

CalculateRootInline(hashes) ==
  CASE Len(hashes) = 0 -> {}
    [] Len(hashes) = 1 -> {hashes[1]}
    [] OTHER -> {MerkleRootR(hashes)}

\* calculate_root: the first level is built while the hashes arrive.
CalculateRoot(hashes) ==
  CASE Len(hashes) = 0 -> {}
    [] Len(hashes) = 1 -> {hashes[1]}
    [] OTHER ->
         {MerkleRootR([k \in 1..HalfLen(Len(hashes)) |->
            LET hash1 == hashes[(2 * k) - 1]
            IN  ParentHash(hash1, IF 2 * k <= Len(hashes) THEN hashes[2 * k] ELSE hash1)])}
-----------------------------------------------------------------------------
\* A partial merkle tree: the number of transactions, one bit for each node that is
\* visited and the hashes of those where the visit stops.
Partial(n, bits, hashes) == [num_transactions |-> n, bits |-> bits, hashes |-> hashes]

CalcTreeWidth(n, height) == (n + 2 ^ height - 1) \div 2 ^ height

CalcTreeHeight(n) ==
  CHOOSE h \in 0..n : CalcTreeWidth(n, h) <= 1 /\ \A g \in 0..h - 1 : CalcTreeWidth(n, g) > 1

CalcHash(txids, height, pos) ==
  LET hash[h \in 0..height] ==
        IF h = 0 THEN txids
        ELSE LET below == hash[h - 1]
             IN  SubSeq([p \in 1..CalcTreeWidth(Len(txids), h) |->
                   ParentHash(below[(2 * p) - 1],
                              IF (2 * p) - 1 < CalcTreeWidth(Len(txids), h - 1) THEN below[2 * p]
                              ELSE below[(2 * p) - 1])], 1, CalcTreeWidth(Len(txids), h))
  IN  hash[height][pos + 1]

\* Whether a leaf below a node matches.
ParentOfMatch(matches, height, pos) ==
  \E p \in (pos * 2 ^ height)..((pos + 1) * 2 ^ height - 1) : p < Len(matches) /\ matches[p + 1]

TraverseAndBuild(txids, matches) ==
  LET n == Len(txids)
      top == CalcTreeHeight(n)
      build[h \in 0..top, pos \in 0..n] ==
        IF pos >= CalcTreeWidth(n, h) THEN Partial(n, <<>>, <<>>)
        ELSE IF h = 0 \/ ~ParentOfMatch(matches, h, pos)
             THEN Partial(n, <<ParentOfMatch(matches, h, pos)>>, <<CalcHash(txids, h, pos)>>)
             ELSE LET left == build[h - 1, 2 * pos]
                      right == IF (2 * pos) + 1 < CalcTreeWidth(n, h - 1) THEN build[h - 1, (2 * pos) + 1]
                               ELSE Partial(n, <<>>, <<>>)
                  IN  Partial(n, <<TRUE>> \o left.bits \o right.bits, left.hashes \o right.hashes)
  IN  build[top, 0]

FromTxids(txids, matches) == TraverseAndBuild(txids, matches)
-----------------------------------------------------------------------------
\* What a visit has used and found, and the hash it returns.
Visit(bits_used, hash_used, matches, indexes, hash) ==
  [err |-> "", bits_used |-> bits_used, hash_used |-> hash_used, matches |-> matches,
   indexes |-> indexes, hash |-> hash]
Start == Visit(0, 0, <<>>, <<>>, <<>>)
Fault(v, kind) == [v EXCEPT !.err = kind]   \* what was found before stays in the vectors

\* Mutant: two equal subtrees are taken.
IdenticalNever(left, right) == FALSE
Identical(left, right) == left = right

RECURSIVE TraverseAndExtract(_, _, _, _)
TraverseAndExtract(t, height, pos, v) ==
  IF v.bits_used >= Len(t.bits) THEN Fault(v, "BitsArrayOverflow")
  ELSE
  LET parent_of_match == t.bits[v.bits_used + 1]
  IN  IF height = 0 \/ ~parent_of_match
      THEN IF v.hash_used >= Len(t.hashes) THEN Fault(v, "HashesArrayOverflow")
           ELSE LET hash == t.hashes[v.hash_used + 1]
                    found == height = 0 /\ parent_of_match
                IN  Visit(v.bits_used + 1, v.hash_used + 1,
                          IF found THEN Append(v.matches, hash) ELSE v.matches,
                          IF found THEN Append(v.indexes, pos) ELSE v.indexes, hash)
      ELSE
      LET left == TraverseAndExtract(t, height - 1, 2 * pos, [v EXCEPT !.bits_used = @ + 1])
      IN  IF left.err # "" THEN left
          ELSE IF (2 * pos) + 1 < CalcTreeWidth(t.num_transactions, height - 1)
          THEN LET right == TraverseAndExtract(t, height - 1, (2 * pos) + 1, left)
               IN  CASE right.err # "" -> right
                     [] right.err = "" /\ Identical(left.hash, right.hash) -> Fault(right, "IdenticalHashesFound")
                     [] OTHER -> [right EXCEPT !.hash = ParentHash(left.hash, right.hash)]
          ELSE [left EXCEPT !.hash = ParentHash(left.hash, left.hash)]

ExtractMatches(t) ==
  IF t.num_transactions = 0 THEN Fault(Start, "NoTransactions")
  ELSE IF t.num_transactions > MaxTransactions THEN Fault(Start, "TooManyTransactions")
  ELSE IF Len(t.hashes) > t.num_transactions THEN Fault(Start, "TooManyHashes")
  ELSE IF Len(t.bits) < Len(t.hashes) THEN Fault(Start, "NotEnoughBits")
  ELSE
  LET v == TraverseAndExtract(t, CalcTreeHeight(t.num_transactions), 0, Start)
  IN  CASE v.err # "" -> v
        [] v.err = "" /\ (v.bits_used + 7) \div 8 # (Len(t.bits) + 7) \div 8 -> Fault(v, "NotAllBitsConsumed")
        [] v.err = "" /\ (v.bits_used + 7) \div 8 = (Len(t.bits) + 7) \div 8
           /\ v.hash_used # Len(t.hashes) -> Fault(v, "NotAllHashesConsumed")
        [] OTHER -> v

\* MerkleBlock::extract_matches: the root must be the one of the header.
BlockExtractMatches(t, merkle_root) ==
  LET v == ExtractMatches(t)
  IN  IF v.err = "" /\ v.hash # merkle_root THEN Fault(v, "MerkleRootMismatch") ELSE v
-----------------------------------------------------------------------------
(***************************************************************************)
(* What a block says about itself (blockdata/block.rs): its merkle root,   *)
(* its witness commitment, its height; and what its transactions cost in   *)
(* signature operations (blockdata/transaction.rs).                        *)
(***************************************************************************)

CONSTANT CommitmentMagic   \* the first bytes of the output with the commitment

Get1(opt) == CHOOSE x \in opt : TRUE

Txid(tx) == HashOf(TxidPreimage(tx))
Wtxid(tx) == HashOf(WtxidPreimage(tx))

ComputeMerkleRoot(block) == CalculateRoot([i \in DOMAIN block.txdata |-> Txid(block.txdata[i])])
CheckMerkleRoot(block) == ComputeMerkleRoot(block) = {block.header.merkle_root}

\* The coinbase takes part with a hash of zeros.
\* Mutant: every transaction takes part with its txid.
WitnessRootOfTxids(block) == CalculateRoot([i \in DOMAIN block.txdata |-> Txid(block.txdata[i])])
WitnessRoot(block) ==
  CalculateRoot([i \in DOMAIN block.txdata |-> IF i = 1 THEN ZeroHash ELSE Wtxid(block.txdata[i])])

ComputeWitnessCommitment(witness_root, reserved) == HashOf(witness_root \o reserved)

CommitmentSize == Len(CommitmentMagic) + HashSize
HoldsCommitment(o) ==
  Len(o.script_pubkey) >= CommitmentSize /\ SubSeq(o.script_pubkey, 1, Len(CommitmentMagic)) = CommitmentMagic

\* The last output that holds one counts.
Commitment(coinbase) ==
  LET at == {k \in DOMAIN coinbase.output : HoldsCommitment(coinbase.output[k])}
      pos == CHOOSE k \in at : \A j \in at : j <= k
  IN  IF at = {} THEN {}
      ELSE {SubSeq(coinbase.output[pos].script_pubkey, Len(CommitmentMagic) + 1, CommitmentSize)}

CheckWitnessCommitment(block) ==
  IF \A k \in DOMAIN block.txdata : ~HasWitnesses(block.txdata[k]) THEN TRUE
  ELSE /\ IsCoinbase(block.txdata[1])
       /\ \E commitment \in Commitment(block.txdata[1]) :
            LET elems == ToVec(block.txdata[1].input[1].witness)
            IN  /\ Len(elems) = 1
                /\ Len(elems[1]) = HashSize
                /\ \E root \in WitnessRoot(block) : commitment = ComputeWitnessCommitment(root, elems[1])

\* bip34_block_height: the first push of the coinbase's script.
Bip34BlockHeight(block) ==
  IF block.header.version < 2 THEN Err("Unsupported")
  ELSE IF block.txdata = <<>> \/ block.txdata[1].input = <<>> \/ block.txdata[1].input[1].script_sig = <<>>
  THEN Err("NotPresent")
  ELSE LET first == NextInstruction(block.txdata[1].input[1].script_sig, TRUE)
       IN  IF ~first.ok \/ ~first.val.push THEN Err("NotPresent")
           ELSE LET h == ReadScriptInt(first.val.data)
                IN  CASE ~h.ok -> Err("UnexpectedPush")
                      [] h.ok /\ h.val < 0 -> Err("NegativeHeight")
                      [] OTHER -> Ok(h.val, <<>>)
-----------------------------------------------------------------------------
\* Signature operations.  `spent` gives the outputs the caller knows.
CountP2pkP2pkhSigops(tx) ==
  Total(tx.input, LAMBDA i : CountSigops(i.script_sig, FALSE))
  + Total(tx.output, LAMBDA o : CountSigops(o.script_pubkey, FALSE))

P2shSigops(script_pubkey, i) ==
  IF ~IsP2sh(script_pubkey) \/ LastPushdata(i.script_sig) = {} THEN 0
  ELSE CountSigops(Get1(LastPushdata(i.script_sig)), TRUE)

SigopsWithWitnessProgram(witness, program) ==
  CASE IsP2wpkh(program) -> 1
    [] IsP2wsh(program) -> IF LastElement(witness) = {} THEN 0 ELSE CountSigops(Get1(LastElement(witness)), TRUE)
    [] OTHER -> 0

WitnessSigops(script_pubkey, i) ==
  IF IsWitnessProgram(script_pubkey) THEN SigopsWithWitnessProgram(i.witness, script_pubkey)
  ELSE IF ~IsP2sh(script_pubkey) \/ ~IsPushOnly(i.script_sig) \/ LastPushdata(i.script_sig) = {} THEN 0
  ELSE SigopsWithWitnessProgram(i.witness, Get1(LastPushdata(i.script_sig)))

\* The inputs whose output `spent` knows.
Known(tx, spent) ==
  LET Has(i) == i.previous_output \in DOMAIN spent IN SelectSeq(tx.input, Has)

TotalSigopCost(tx, spent) ==
  (4 * CountP2pkP2pkhSigops(tx))
  + (4 * Total(Known(tx, spent), LAMBDA i : P2shSigops(spent[i.previous_output], i)))
  + Total(Known(tx, spent), LAMBDA i : WitnessSigops(spent[i.previous_output], i))
-----------------------------------------------------------------------------
(***************************************************************************)
(* Compact blocks (bip152.rs): the message a node builds from a block and  *)
(* the transactions it sends for a request.  The wire forms are in P2p.    *)
(***************************************************************************)

CONSTANTS
  SiphashKeys(_, _),      \* ShortId::calculate_siphash_keys of a header and a nonce
  ShortIdOf(_, _)         \* ShortId::with_siphash_keys of a txid or wtxid

NoWitness(tx) == [tx EXCEPT !.input = [i \in DOMAIN tx.input |-> [tx.input[i] EXCEPT !.witness = NewWitness]]]

\* from_block, one transaction at a time: what is left of the caller's prefill list,
\* the index after the last prefilled transaction, and the two lists.
Building(prefill, last, prefilled, short_ids) ==
  [prefill |-> prefill, last |-> last, prefilled |-> prefilled, short_ids |-> short_ids]

\* Mutant: an index is counted from the last prefilled transaction itself.
AfterPrefillSame(idx) == idx
AfterPrefill(idx) == idx + 1

AddTransaction(b, idx, tx, version, keys) ==
  LET listed == b.prefill # <<>> /\ b.prefill[1] = idx
  IN  IF listed \/ idx = 0
      THEN Building(IF listed THEN Tail(b.prefill) ELSE b.prefill, AfterPrefill(idx),
                    Append(b.prefilled, [idx |-> (idx - b.last) % (MaxUint(W16) + 1),
                                         tx |-> IF version = 1 THEN NoWitness(tx) ELSE tx]),
                    b.short_ids)
      ELSE Building(b.prefill, b.last, b.prefilled,
                    Append(b.short_ids,
                           ShortIdOf(IF version = 1 THEN TxidPreimage(tx) ELSE WtxidPreimage(tx), keys)))

\* The capacity of the list of short ids is a difference of lengths: with more indices
\* to prefill than transactions it underflows.
FromBlock(block, nonce, version, prefill) ==
  IF version \notin {1, 2} THEN Err("UnknownVersion")
  ELSE IF Len(prefill) > Len(block.txdata) THEN Err("Underflow")
  ELSE
  LET keys == SiphashKeys(block.header, nonce)
      built[n \in 0..Len(block.txdata)] ==
        IF n = 0 THEN Building(prefill, 0, <<>>, <<>>)
        ELSE LET b == built[n - 1] IN AddTransaction(b, n - 1, block.txdata[n], version, keys)
      end == built[Len(block.txdata)]
  IN  IF end.prefill # <<>> THEN Err("InvalidPrefill")
      ELSE Ok([header |-> block.header, nonce |-> nonce, prefilled_txs |-> end.prefilled,
               short_ids |-> end.short_ids], <<>>)

\* BlockTransactions::from_request.
FromRequest(indexes, block) ==
  IF \E i \in DOMAIN indexes : indexes[i] >= Len(block.txdata) THEN Err("TxIndexOutOfRange")
  ELSE Ok([i \in DOMAIN indexes |-> block.txdata[indexes[i] + 1]], <<>>)
-----------------------------------------------------------------------------
(***************************************************************************)
(* Compact block filters (bip158.rs): Golomb-Rice coded sets of the        *)
(* scripts of a block, written and read through streams of bits.           *)
(***************************************************************************)

CONSTANTS
  P, M,               \* the parameters of the filter, 19 and 784931
  WordBits,           \* bits written at once, 64
  HashRange,          \* values of a SipHash, 2^64
  SipHash(_, _)       \* the SipHash of an element under a key

Bits == INSTANCE SequencesExt
Sorting == INSTANCE TLC
-----------------------------------------------------------------------------
\* BitStreamWriter: `offset` bits of the buffer are used; a full buffer is flushed.
Writer(out, buffer, offset) == [out |-> out, buffer |-> buffer, offset |-> offset]
NewWriter(out) == Writer(out, 0, 0)

\* Mutant: the buffer keeps its bits after it was written.
FlushDirty(w) == IF w.offset > 0 THEN Writer(Append(w.out, w.buffer), w.buffer, 0) ELSE w
Flush(w) == IF w.offset > 0 THEN Writer(Append(w.out, w.buffer), 0, 0) ELSE w

\* The low nbits of the data, of which the buffer takes those it has room for.  The
\* bits below the ones the buffer takes are 0 there until now.
WriteBits(w, data, nbits) ==
  LET step(s) ==
        LET bits == IF 8 - s.w.offset < s.nbits THEN 8 - s.w.offset ELSE s.nbits
            field == data % 2 ^ s.nbits
            taken == IF s.nbits >= 8 - s.w.offset THEN field \div 2 ^ (s.nbits - bits)
                     ELSE field * 2 ^ (8 - s.w.offset - s.nbits)
            next == Writer(s.w.out, s.w.buffer + taken, s.w.offset + bits)
        IN  [w |-> IF next.offset = 8 THEN Flush(next) ELSE next, nbits |-> s.nbits - bits]
      after[n \in 0..(nbits \div 8) + 2] ==
        IF n = 0 THEN [w |-> w, nbits |-> nbits]
        ELSE LET s == after[n - 1] IN IF s.nbits > 0 THEN step(s) ELSE s
  IN  after[(nbits \div 8) + 2].w

\* BitStreamReader: `offset` bits of the buffer were taken.
Reader(rest, buffer, offset) == [rest |-> rest, buffer |-> buffer, offset |-> offset]
NewReader(b) == Reader(b, 0, 8)

Refilled(r) == IF r.offset = 8 THEN Reader(Tail(r.rest), r.rest[1], 0) ELSE r
TakeBits(s, r, bits) ==
  [r |-> Reader(r.rest, r.buffer, r.offset + bits), nbits |-> s.nbits - bits, eof |-> FALSE,
   data |-> (s.data * 2 ^ bits) + (((r.buffer * 2 ^ r.offset) % 256) \div 2 ^ (8 - bits))]
ReadFrom(s, r) == TakeBits(s, r, IF 8 - r.offset < s.nbits THEN 8 - r.offset ELSE s.nbits)
ReadStep(s) ==
  IF s.nbits = 0 THEN s
  ELSE IF s.r.offset = 8 /\ s.r.rest = <<>> THEN [s EXCEPT !.eof = TRUE, !.nbits = 0]
  ELSE ReadFrom(s, Refilled(s.r))
TakenBits(s) == IF s.eof THEN Err("UnexpectedEof") ELSE Ok(s.data, s.r)
ReadBits(reader, nbits) ==
  LET after[n \in 0..(nbits \div 8) + 2] ==
        IF n = 0 THEN [r |-> reader, nbits |-> nbits, eof |-> FALSE, data |-> 0]
        ELSE ReadStep(after[n - 1])
  IN  TakenBits(after[(nbits \div 8) + 2])
-----------------------------------------------------------------------------
\* Golomb-Rice coding: the quotient by 2^P in unary, the remainder in P bits.
GolombRiceEncode(w, n) ==
  LET q == n \div 2 ^ P
      unary[k \in 0..q] ==   \* the writer and the part of q still to write
        IF k = 0 THEN [w |-> w, q |-> q]
        ELSE LET s == unary[k - 1]
                 nbits == IF s.q < WordBits THEN s.q ELSE WordBits
             IN  IF s.q = 0 THEN s ELSE [w |-> WriteBits(s.w, 2 ^ nbits - 1, nbits), q |-> s.q - nbits]
  IN  WriteBits(WriteBits(unary[q].w, 0, 1), n, P)

\* The quotient so far, and the next bit.
UnaryStep(s, b) ==
  CASE ~b.ok -> [s EXCEPT !.state = "eof"]
    [] b.ok /\ b.val = 1 -> [s EXCEPT !.q = @ + 1, !.r = b.rest]
    [] OTHER -> [s EXCEPT !.r = b.rest, !.state = "zero"]
WithRemainder(s) ==
  IF s.state # "zero" THEN Err("UnexpectedEof")
  ELSE Then(ReadBits(s.r, P), LAMBDA low, r : Ok((s.q * 2 ^ P) + low, r))
RECURSIVE ReadUnary(_)
ReadUnary(s) == IF s.state = "more" THEN ReadUnary(UnaryStep(s, ReadBits(s.r, 1))) ELSE s
GolombRiceDecode(reader) == WithRemainder(ReadUnary([q |-> 0, r |-> reader, state |-> "more"]))
-----------------------------------------------------------------------------
\* (hash * nm) >> 64, and the product n * m of u64s.
MapToRange(hash, nm) == (hash * nm) \div HashRange
TimesM(n) == (n * M) % HashRange

Mapped(key, elements, nm) ==
  Sorting!SortSeq([i \in DOMAIN elements |-> MapToRange(SipHash(key, elements[i]), nm)], LAMBDA a, b : a < b)

\* GcsFilterWriter: a set of elements that are not empty, written by finish.
AddElement(elements, e) == IF e = <<>> THEN elements ELSE elements \union {e}

Finish(key, elements) ==
  LET list == Bits!SetToSeq(elements)
      mapped == Mapped(key, list, TimesM(Len(list)))
      written[n \in 0..Len(mapped)] ==
        IF n = 0 THEN NewWriter(EncodeVarInt(Len(mapped)))
        ELSE LET w == written[n - 1]
             IN  GolombRiceEncode(w, mapped[n] - (IF n = 1 THEN 0 ELSE mapped[n - 1]))
  IN  Flush(written[Len(mapped)]).out

\* BlockFilterWriter: the scripts of the outputs that are not OP_RETURN and those of
\* the coins that all but the first transaction spend.
AddOutputScripts(elements, block) ==
  elements \union
    UNION {AddElement({}, o.script_pubkey) :
             o \in {x \in UNION {Bits!ToSet(t.output) : t \in Bits!ToSet(block.txdata)} :
                     ~IsOpReturn(x.script_pubkey)}}

\* `utxos` gives the script of each outpoint the caller knows.
AddInputScripts(elements, block, utxos) ==
  LET spent == UNION {{i.previous_output : i \in Bits!ToSet(block.txdata[k].input)} : k \in 2..Len(block.txdata)}
  IN  IF \E o \in spent : o \notin DOMAIN utxos THEN Err("UtxoMissing")
      ELSE Ok(elements \union UNION {AddElement({}, utxos[o]) : o \in spent}, <<>>)

NewScriptFilter(key, block, utxos) ==
  Then(AddInputScripts(AddOutputScripts({}, block), block, utxos), LAMBDA elements, r :
    Ok(Finish(key, elements), <<>>))
-----------------------------------------------------------------------------
\* GcsFilterReader: the values of the filter are read as far as the sorted values of
\* the query need them.  `p` is the place in the query.
Scan(p, data, remaining, r) == [p |-> p, data |-> data, remaining |-> remaining, r |-> r, result |-> {}]
Stopped(s, answer) == [s EXCEPT !.result = {answer}]

ReadDelta(s, d) ==
  IF ~d.ok THEN Stopped(s, d) ELSE [s EXCEPT !.data = @ + d.val, !.remaining = @ - 1, !.r = d.rest]
ReadOn(s) ==
  IF s.remaining = 0 THEN Stopped(s, Ok(FALSE, <<>>))
  ELSE ReadDelta(s, GolombRiceDecode(s.r))

StepAll(s, mapped) ==
  CASE s.data = mapped[s.p] -> [s EXCEPT !.p = @ + 1]
    [] s.data < mapped[s.p] -> ReadOn(s)
    [] OTHER -> Stopped(s, Ok(FALSE, <<>>))

StepAny(s, mapped) ==
  CASE s.data = mapped[s.p] -> Stopped(s, Ok(TRUE, <<>>))
    [] s.data < mapped[s.p] -> ReadOn(s)
    [] OTHER -> [s EXCEPT !.p = @ + 1]

Count(content) == LET n == DecodeVarInt(content) IN IF n.ok THEN n ELSE Ok(0, <<>>)

RECURSIVE ScanRest(_, _, _)
ScanRest(s, mapped, any) ==
  IF s.result # {} THEN CHOOSE a \in s.result : TRUE
  ELSE IF s.p > Len(mapped) THEN Ok(~any, <<>>)
  ELSE ScanRest(IF any THEN StepAny(s, mapped) ELSE StepAll(s, mapped), mapped, any)
ScanAll(n, mapped, any) ==
  Then(GolombRiceDecode(NewReader(n.rest)), LAMBDA first, r :
    ScanRest(Scan(1, first, n.val - 1, r), mapped, any))

AnyOf(n, mapped) == IF mapped = <<>> \/ n.val = 0 THEN Ok(FALSE, <<>>) ELSE ScanAll(n, mapped, TRUE)
MatchAnyOf(n, key, query) == AnyOf(n, Mapped(key, query, TimesM(n.val)))
MatchAny(key, content, query) == MatchAnyOf(Count(content), key, query)

Dedup(sorted) ==
  LET keep[n \in 0..Len(sorted)] ==
        IF n = 0 THEN <<>>
        ELSE LET k == keep[n - 1]
             IN  IF k # <<>> /\ k[Len(k)] = sorted[n] THEN k ELSE Append(k, sorted[n])
  IN  keep[Len(sorted)]

AllOf(n, mapped) ==
  IF mapped = <<>> THEN Ok(TRUE, <<>>)
  ELSE IF n.val = 0 THEN Ok(FALSE, <<>>)
  ELSE ScanAll(n, mapped, FALSE)
MatchAllOf(n, key, query) == AllOf(n, Dedup(Mapped(key, query, TimesM(n.val))))
MatchAll(key, content, query) == MatchAllOf(Count(content), key, query)
=============================================================================
