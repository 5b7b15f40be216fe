----------------------------- MODULE HashEngine -----------------------------
(***************************************************************************)
(* The buffered hash engines (hashes/src/util.rs and the from_engine of    *)
(* sha1, sha256, sha512 and ripemd160).  What a hash function does with    *)
(* its blocks is left open: the chaining value h is the sequence of bytes  *)
(* compressed so far, and a digest may be any bytes that depend on it.     *)
(***************************************************************************)
EXTENDS Integers, Sequences

CONSTANTS
  BlockSize,        \* bytes of a block, 64 or 128
  LenSize,          \* bytes of the length at the end, 8 or 16
  HashLen,          \* bytes of a digest, 20 to 64
  DigestByte(_, _)  \* a byte of the digest of a chaining value

VARIABLE eng        \* engines that take an input in pieces, and what they took

ASSUME EngineAssumption ==
  /\ BlockSize \in Nat /\ LenSize \in Nat \ {0} /\ 2 * LenSize <= BlockSize
  /\ HashLen \in 1..BlockSize

Least(a, b) == IF a <= b THEN a ELSE b
Zeroes(n) == [i \in 1..n |-> 0]

\* The default engine.
NewEngine == [h |-> <<>>, buffer |-> Zeroes(BlockSize), length |-> 0]

\* The valid bytes of the buffer are the ones in front of buf_idx.
BufIdx(e) == e.length % BlockSize

ProcessBlock(e) == [e EXCEPT !.h = e.h \o e.buffer]

WriteLen(e, inp) == Least(BlockSize - BufIdx(e), Len(inp))

\* One turn of the loop of input: as much as the buffer takes.
Filled(e, inp, n) ==
  [h |-> e.h, length |-> e.length + n,
   buffer |-> SubSeq(e.buffer, 1, BufIdx(e)) \o SubSeq(inp, 1, n) \o SubSeq(e.buffer, BufIdx(e) + n + 1, BlockSize)]
Processed(e) == IF BufIdx(e) = 0 THEN ProcessBlock(e) ELSE e
InputStep(e, inp) == Processed(Filled(e, inp, WriteLen(e, inp)))

LoopTurn(t) ==
  IF t.rest = <<>> THEN t
  ELSE [e |-> InputStep(t.e, t.rest), rest |-> SubSeq(t.rest, WriteLen(t.e, t.rest) + 1, Len(t.rest))]
\* A turn takes a byte at least, so there are no more turns than bytes.
Input(e, inp) ==
  LET turns[k \in 0..Len(inp)] == IF k = 0 THEN [e |-> e, rest |-> inp] ELSE LoopTurn(turns[k - 1])
  IN  turns[Len(inp)].e

\* The bits of the data, most significant byte first.
LengthBytes(n) == [i \in 1..LenSize |-> ((8 * n) \div 256 ^ (LenSize - i)) % 256]

\* Zeros up to the length and the length, with the bits that were fed before.
PaddedTo(e, zeroes, length) == Input(Input(e, Zeroes(zeroes - BufIdx(e))), LengthBytes(length))
\* Mutant: a marker that leaves just the room for the length is taken for too late.
SpilledEarly(e, zeroes) == IF BufIdx(e) >= zeroes THEN Input(e, Zeroes(zeroes)) ELSE e
\* A block that has no room for the length is filled with zeros first.
Spilled(e, zeroes) == IF BufIdx(e) > zeroes THEN Input(e, Zeroes(zeroes)) ELSE e
\* The engine when it has taken the end marker, the zeros and the length.
Finished(e) == PaddedTo(Spilled(Input(e, <<128>>), BlockSize - LenSize), BlockSize - LenSize, e.length)
Digest(h) == [i \in 1..HashLen |-> DigestByte(h, i)]
FromEngine(e) == Digest(Finished(e).h)

Hash(data) == FromEngine(Input(NewEngine, data))
HashByteChunks(slices) ==
  LET fed[k \in 0..Len(slices)] == IF k = 0 THEN NewEngine ELSE Input(fed[k - 1], slices[k])
  IN  FromEngine(fed[Len(slices)])

\* A midstate is taken at the end of a block; from_midstate asserts it.
Midstate(e) == e.h
FromMidstate(h, length) == [h |-> h, buffer |-> Zeroes(BlockSize), length |-> length]
-----------------------------------------------------------------------------
(***************************************************************************)
(* What is built on an engine: hashing at compile time and tagged hashes   *)
(* (hashes/src/sha256.rs, sha256t.rs), double hashes (sha256d.rs)          *)
(* and message authentication codes (hmac.rs).                             *)
(***************************************************************************)

\* Midstate::const_hash: the last block holds the marker or not, and the length.
ConstChunk(bytes, chunk, num_chunks) ==
  LET offset == chunk * BlockSize
      i == IF offset < Len(bytes) THEN Len(bytes) - offset ELSE 0
      marked == Len(bytes) % BlockSize <= BlockSize - (LenSize + 1) \/ chunk + 2 = num_chunks
      length == LengthBytes(Len(bytes))
  IN  IF offset + BlockSize <= Len(bytes) THEN SubSeq(bytes, offset + 1, offset + BlockSize)
      ELSE [k \in 1..BlockSize |->
              IF k <= i THEN bytes[offset + k]
              ELSE IF chunk + 1 = num_chunks /\ k > BlockSize - LenSize THEN length[k - (BlockSize - LenSize)]
              ELSE IF k = i + 1 /\ marked THEN 128 ELSE 0]
ConstHash(bytes, finalize) ==
  LET num_chunks == (Len(bytes) + (LenSize + 1) + (BlockSize - 1)) \div BlockSize
      last == IF finalize THEN num_chunks ELSE num_chunks - 1
      h[c \in 0..last] == IF c = 0 THEN <<>> ELSE h[c - 1] \o ConstChunk(bytes, c - 1, num_chunks)
  IN  h[last]

\* Midstate::hash_tag, and the engine of a tag.
HashTag(tag) ==
  LET hash == Digest(ConstHash(tag, TRUE))
  IN  ConstHash([i \in 1..BlockSize |-> hash[((i - 1) % HashLen) + 1]], FALSE)
TagEngine(tag) == FromMidstate(HashTag(tag), BlockSize)

HashAgain(hash) == Hash(hash)
Sha256d(e) == HashAgain(FromEngine(e))

\* The exclusive or of two bytes.
XorByte(a, b) ==
  LET bit(n, k) == (n \div 2 ^ k) % 2
      sum[k \in 0..8] == IF k = 0 THEN 0 ELSE sum[k - 1] + (IF bit(a, k - 1) = bit(b, k - 1) THEN 0 ELSE 2 ^ (k - 1))
  IN  sum[8]

\* HmacEngine::new: a key that is longer than a block is hashed first.
KeyPad(pad, key) ==
  LET used == IF Len(key) > BlockSize THEN Hash(key) ELSE key
  IN  [i \in 1..BlockSize |-> IF i <= Len(used) THEN XorByte(pad, used[i]) ELSE pad]
HmacNew(key) ==
  [iengine |-> Input(NewEngine, KeyPad(54, key)), oengine |-> Input(NewEngine, KeyPad(92, key))]
HmacInput(hmac, buf) == [hmac EXCEPT !.iengine = Input(hmac.iengine, buf)]
HmacMidstate(hmac) == [inner |-> Midstate(hmac.iengine), outer |-> Midstate(hmac.oengine)]
HmacFromEngine(hmac) == FromEngine(Input(hmac.oengine, FromEngine(hmac.iengine)))
-----------------------------------------------------------------------------
\* The engine of a plain hash and the one of a code under a key take the same pieces.
Fed(key) == [e |-> NewEngine, hmac |-> HmacNew(key), key |-> key, fed |-> <<>>]
Feed(inp) == eng' = [eng EXCEPT !.e = Input(@, inp), !.hmac = HmacInput(@, inp), !.fed = @ \o inp]
Feeding == "fed" \in DOMAIN eng
EngSpec == (\E key \in Seq(0..255) : eng = Fed(key)) /\ [][\E inp \in Seq(0..255) : Feed(inp)]_eng

\* The padding of the standard: a marker, the fewest zeros, the length.
Padded(m) ==
  LET zeroes == CHOOSE k \in 0..BlockSize - 1 : (Len(m) + 1 + k + LenSize) % BlockSize = 0
  IN  m \o <<128>> \o Zeroes(zeroes) \o LengthBytes(Len(m))

\* However an input is cut into pieces, an engine has compressed the whole blocks of it
\* and keeps the rest in the buffer (util.rs:72), from_engine compresses exactly the
\* padded message, also where the marker leaves no room for the length, and const_hash
\* builds the same blocks (sha256.rs:290).
EngineHolds ==
  /\ eng.e.length = Len(eng.fed)
  /\ eng.e.h \o SubSeq(eng.e.buffer, 1, BufIdx(eng.e)) = eng.fed
  /\ Finished(eng.e).h = Padded(eng.fed)
  /\ ConstHash(eng.fed, TRUE) = Padded(eng.fed)

\* The engine of a tag is the engine that was fed the hash of the tag twice
\* (sha256.rs:166), and a code is the hash of the outer key and the hash of the inner
\* key and the data, for keys shorter, as long and longer than a block (hmac.rs:66).
KeyedRight ==
  LET d == Hash(eng.fed)
      twice == Input(NewEngine, [i \in 1..BlockSize |-> d[((i - 1) % HashLen) + 1]])
      key == IF Len(eng.key) > BlockSize THEN Hash(eng.key) ELSE eng.key
  IN  /\ TagEngine(eng.fed).h = twice.h /\ TagEngine(eng.fed).length = twice.length
      /\ Len(KeyPad(54, eng.key)) = BlockSize
      /\ HmacFromEngine(eng.hmac) = Hash(KeyPad(92, key) \o Hash(KeyPad(54, key) \o eng.fed))
      /\ Sha256d(eng.e) = Hash(Hash(eng.fed))

\* A digest, plain, tagged, doubled or keyed, depends on the bytes and not on the
\* pieces in which they came (hashes/src/util.rs, sha256t.rs, hmac.rs).
EnginesHold == Feeding => EngineHolds /\ KeyedRight
=============================================================================
