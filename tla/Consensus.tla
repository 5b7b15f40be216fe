----------------------------- MODULE Consensus ------------------------------
(***************************************************************************)
(* The consensus encoding (consensus/encode.rs) over sequences of bytes.   *)
(*                                                                         *)
(* A decoder takes the bytes the reader still has and returns Ok(value,    *)
(* rest) or Err(kind); an encoder returns the bytes it writes.  Integers   *)
(* keep their little endian form and their order of widths, u16 < u32 <    *)
(* u64, with fewer bytes than the 2, 4 and 8 of the code.                  *)
(***************************************************************************)
EXTENDS Integers, Sequences

LOCAL Folding == INSTANCE SequencesExt

CONSTANTS
  W16, W32, W64,   \* bytes of a u16, a u32 and a u64
  HashSize,        \* bytes of a hash, 32
  MaxVecSize,      \* MAX_VEC_SIZE
  Chunk            \* bytes a buffer grows by while its content arrives, 128 KiB

ASSUME WidthAssumption == 0 < W16 /\ W16 < W32 /\ W32 < W64

Byte == 0..255

Ok(value, rest) == [ok |-> TRUE, val |-> value, rest |-> rest]
Err(kind) == [ok |-> FALSE, val |-> kind, rest |-> <<>>]

\* The `?` of a decoder: go on with the value and the rest, or return the error.
Then(r, Go(_, _)) == IF r.ok THEN Go(r.val, r.rest) ELSE r

Drop(b, n) == SubSeq(b, n + 1, Len(b))

Flatten(ss) == Folding!FoldLeft(LAMBDA acc, s : acc \o s, <<>>, ss)
Total(seq, Size(_)) == Folding!FoldLeft(LAMBDA acc, x : acc + Size(x), 0, seq)
-----------------------------------------------------------------------------
\* The integers.  Signed ones are two's complement.
MaxUint(w) == 256 ^ w - 1

ToLE(n, w) == [i \in 1..w |-> (n \div 256 ^ (i - 1)) % 256]

FromLE(b) ==
  LET v[i \in 0..Len(b)] == IF i = 0 THEN 0 ELSE v[i - 1] + b[i] * 256 ^ (i - 1)
  IN  v[Len(b)]

Signed(n, w) == IF n < 256 ^ w \div 2 THEN n ELSE n - 256 ^ w

EmitUint(n, w) == ToLE(n, w)
EmitInt(n, w) == ToLE(n % 256 ^ w, w)
EmitBool(v) == <<IF v THEN 1 ELSE 0>>

(* ReadSlice with a single read in place of read_exact. *)
ReadSliceShort(n, b) ==
  LET got == IF Len(b) < n THEN Len(b) ELSE n
  IN  Ok(SubSeq(b, 1, got), Drop(b, got))

ReadSlice(n, b) ==
  IF n <= Len(b) THEN Ok(SubSeq(b, 1, n), Drop(b, n)) ELSE Err("UnexpectedEof")

ReadUint(w, b) == Then(ReadSlice(w, b), LAMBDA s, r : Ok(FromLE(s), r))
ReadInt(w, b) == Then(ReadUint(w, b), LAMBDA n, r : Ok(Signed(n, w), r))
ReadBool(b) == Then(ReadUint(1, b), LAMBDA n, r : Ok(n # 0, r))
-----------------------------------------------------------------------------
\* VarInt: one byte, or a marker and a u16, u32 or u64.
VarIntSize(n) ==
  CASE n < 253 -> 1
    [] n >= 253 /\ n <= MaxUint(W16) -> 1 + W16
    [] n > MaxUint(W16) /\ n <= MaxUint(W32) -> 1 + W32
    [] OTHER -> 1 + W64

EncodeVarInt(n) ==
  CASE n < 253 -> <<n>>
    [] n >= 253 /\ n <= MaxUint(W16) -> <<253>> \o EmitUint(n, W16)
    [] n > MaxUint(W16) /\ n <= MaxUint(W32) -> <<254>> \o EmitUint(n, W32)
    [] OTHER -> <<255>> \o EmitUint(n, W64)

AtLeast(min, r) ==
  Then(r, LAMBDA n, rest : IF n < min THEN Err("NonMinimalVarInt") ELSE Ok(n, rest))

DecodeVarInt(b) ==
  Then(ReadUint(1, b), LAMBDA n, r :
    CASE n = 255 -> AtLeast(MaxUint(W32) + 1, ReadUint(W64, r))
      [] n = 254 -> AtLeast(MaxUint(W16) + 1, ReadUint(W32, r))
      [] n = 253 -> AtLeast(253, ReadUint(W16, r))
      [] OTHER -> Ok(n, r))
-----------------------------------------------------------------------------
\* A vector: the number of its items and the items.  The loop stops at the first
\* item that does not decode; an item is at least one byte, so it makes no more
\* rounds than there are bytes.
EncodeVec(E(_), items) ==
  EncodeVarInt(Len(items)) \o Flatten([i \in DOMAIN items |-> E(items[i])])

DecodeItems(D(_), n, b) ==
  LET upTo == IF n > Len(b) + 1 THEN Len(b) + 1 ELSE n
      got[i \in 0..upTo] ==
        IF i = 0 THEN Ok(<<>>, b)
        ELSE Then(got[i - 1], LAMBDA items, r :
               Then(D(r), LAMBDA item, rest : Ok(Append(items, item), rest)))
  IN  got[upTo]

DecodeVec(D(_), b) == Then(DecodeVarInt(b), LAMBDA n, r : DecodeItems(D, n, r))

\* Bytes with their length in front; the buffer grows by a chunk for each chunk
\* that has arrived, so a length that is too large ends at the end of the input.
ReadBytesFromFiniteReader(len, chunk, b) ==
  LET rounds == (len + chunk - 1) \div chunk
      size(i) == IF i = rounds THEN len - chunk * (rounds - 1) ELSE chunk
      upTo == IF rounds > Len(b) + 1 THEN Len(b) + 1 ELSE rounds
      ret[i \in 0..upTo] ==
        IF i = 0 THEN Ok(<<>>, b)
        ELSE Then(ret[i - 1], LAMBDA sofar, r :
               Then(ReadSlice(size(i), r), LAMBDA s, rest : Ok(sofar \o s, rest)))
  IN  ret[upTo]

EncodeBytes(s) == EncodeVarInt(Len(s)) \o s
DecodeBytes(b) ==
  Then(DecodeVarInt(b), LAMBDA n, r : ReadBytesFromFiniteReader(n, Chunk, r))

\* A String must be UTF-8; bytes above 127 stand for what is not.
EncodeString(s) == EncodeBytes(s)
DecodeString(b) ==
  Then(DecodeBytes(b), LAMBDA s, r :
    IF \A i \in DOMAIN s : s[i] < 128 THEN Ok(s, r) ELSE Err("ParseFailed"))
-----------------------------------------------------------------------------
\* Data with its length and the start of its double SHA256, here any function of
\* the data onto the width of a u32 that sees every byte and its place.
Checksum(data) ==
  LET h[i \in 0..Len(data)] == IF i = 0 THEN 7 ELSE (h[i - 1] * 31 + data[i] + 1) % (MaxUint(W32) + 1)
  IN  ToLE(h[Len(data)], W32)

EncodeCheckedData(data) == EmitUint(Len(data), W32) \o Checksum(data) \o data

DecodeCheckedData(b) ==
  Then(ReadUint(W32, b), LAMBDA len, r1 :
    Then(ReadSlice(W32, r1), LAMBDA checksum, r2 :
      Then(ReadBytesFromFiniteReader(len, MaxVecSize, r2), LAMBDA data, rest :
        IF Checksum(data) # checksum THEN Err("InvalidChecksum") ELSE Ok(data, rest))))
-----------------------------------------------------------------------------
\* Decoding from a reader that may not end: at most MAX_VEC_SIZE bytes are taken.
Limited(D(_), b) ==
  LET n == IF Len(b) < MaxVecSize THEN Len(b) ELSE MaxVecSize
      r == D(SubSeq(b, 1, n))
  IN  IF r.ok THEN Ok(r.val, r.rest \o Drop(b, n)) ELSE r

\* deserialize: the whole input must be used.
Deserialize(r) == IF r.ok /\ r.rest # <<>> THEN Err("NotConsumed") ELSE r
-----------------------------------------------------------------------------
(***************************************************************************)
(* The witness of an input (blockdata/witness.rs): one buffer that holds   *)
(* the encoded elements and, after them, one cursor per element with its   *)
(* position.  Positions count from 0, as in the code.                      *)
(***************************************************************************)

CONSTANTS
  Slack,             \* bytes a buffer under construction has to spare at first, 128
  ControlBaseSize    \* bytes of a control block without merkle branch, 33

\* content[from..to] of the code.
Slice(s, from, to) == SubSeq(s, from + 1, to)
Write(s, at, bytes) ==
  [i \in 1..Len(s) |-> IF i > at /\ i <= at + Len(bytes) THEN bytes[i - at] ELSE s[i]]
Resize(s, n) == [i \in 1..n |-> IF i <= Len(s) THEN s[i] ELSE 0]
RotateLeft(s, n) == Drop(s, n) \o SubSeq(s, 1, n)
RotateRight(s, n) == RotateLeft(s, Len(s) - n)

NewWitness == [content |-> <<>>, witness_elements |-> 0, indices_start |-> 0]
-----------------------------------------------------------------------------
EncodeCursor(bytes, start_of_indices, index, value) ==
  Write(bytes, start_of_indices + index * W32, ToLE(value, W32))

\* The cursor in a set, empty where there is none.
DecodeCursor(bytes, start_of_indices, index) ==
  LET start == start_of_indices + index * W32
      end == start + W32
  IN  IF end > Len(bytes) THEN {} ELSE {FromLE(Slice(bytes, start, end))}

ResizeIfNeeded(vec, required_len) ==
  LET len[k \in Nat] == IF k = 0 THEN (IF Len(vec) < 1 THEN 1 ELSE Len(vec)) ELSE 2 * len[k - 1]
      grown == CHOOSE k \in 0..20 : len[k] > required_len /\ \A j \in 0..k - 1 : len[j] <= required_len
  IN  IF required_len >= Len(vec) THEN Resize(vec, len[grown]) ELSE vec

\* One element read into the buffer: its position goes to the head, its length
\* and its bytes to the cursor.
DecodeElement(acc, i, space, b) ==
  Then(DecodeVarInt(b), LAMBDA size, r :
    LET required_len == acc.cursor + size + VarIntSize(size)
    IN  IF required_len > MaxVecSize + space THEN Err("OversizedVectorAllocation")
        ELSE LET indexed == EncodeCursor(acc.content, 0, i, acc.cursor - space)
                 resized == ResizeIfNeeded(indexed, required_len)
                 written == Write(resized, acc.cursor, EncodeVarInt(size))
                 at == acc.cursor + VarIntSize(size)
             IN  Then(ReadSlice(size, r), LAMBDA s, rest :
                   Ok([content |-> Write(written, at, s), cursor |-> at + size], rest)))

DecodeWitness(b) ==
  Then(DecodeVarInt(b), LAMBDA n, r :
    LET space == n * W32
        filled[i \in 0..n] ==
          IF i = 0
            THEN Ok([content |-> Resize(<<>>, space + Slack), cursor |-> space], r)
            ELSE Then(filled[i - 1], LAMBDA acc, r2 : DecodeElement(acc, i - 1, space, r2))
    IN  IF n > MaxVecSize THEN Err("OversizedVectorAllocation")
        ELSE IF n = 0 THEN Ok(NewWitness, r)
        ELSE Then(filled[n], LAMBDA acc, rest :
               Ok([content |-> RotateLeft(SubSeq(acc.content, 1, acc.cursor), space),
                   witness_elements |-> n,
                   indices_start |-> acc.cursor - space], rest)))

EncodeWitness(w) ==
  LET content_len == Len(w.content) - w.witness_elements * W32
  IN  EncodeVarInt(w.witness_elements) \o SubSeq(w.content, 1, content_len)
-----------------------------------------------------------------------------
FromSlice(elems) ==
  LET n == Len(elems)
      size(i) == VarIntSize(Len(elems[i])) + Len(elems[i])
      at[i \in 0..n] == IF i = 0 THEN 0 ELSE at[i - 1] + size(i)
      filled[i \in 0..n] ==
        IF i = 0 THEN Resize(<<>>, at[n] + n * W32)
        ELSE Write(EncodeCursor(filled[i - 1], at[n], i - 1, at[i - 1]),
                   at[i - 1], EncodeBytes(elems[i]))
  IN  [content |-> filled[n], witness_elements |-> n, indices_start |-> at[n]]

\* Mutant: the cursors are not moved behind the new element.
PushSliceInPlace(w, new_element) ==
  LET item == EncodeBytes(new_element)
      indices == w.indices_start + Len(item)
  IN  [content |-> Write(EncodeCursor(Resize(w.content, Len(w.content) + Len(item) + W32),
                                      indices, w.witness_elements, w.indices_start),
                         w.indices_start, item),
       witness_elements |-> w.witness_elements + 1,
       indices_start |-> indices]

PushSlice(w, new_element) ==
  LET item == EncodeBytes(new_element)
      end == w.indices_start
      resized == Resize(w.content, Len(w.content) + Len(item) + W32)
      moved == Slice(resized, 0, end) \o RotateRight(Drop(resized, end), Len(item))
      indices == end + Len(item)
  IN  [content |-> Write(EncodeCursor(moved, indices, w.witness_elements, end), end, item),
       witness_elements |-> w.witness_elements + 1,
       indices_start |-> indices]

Clear(w) == NewWitness
IsEmpty(w) == w.witness_elements = 0
-----------------------------------------------------------------------------
\* Reading: an element in a set, empty where there is none.
ElementAt(w, index) ==
  LET len == DecodeVarInt(Drop(w.content, index))
      start == index + VarIntSize(len.val)
  IN  IF len.ok THEN {Slice(w.content, start, start + len.val)} ELSE {}

Nth(w, index) == UNION {ElementAt(w, pos) : pos \in DecodeCursor(w.content, w.indices_start, index)}

FromEnd(w, k) == IF w.witness_elements <= k THEN {} ELSE Nth(w, w.witness_elements - 1 - k)
LastElement(w) == FromEnd(w, 0)
SecondToLast(w) == FromEnd(w, 1)
ThirdToLast(w) == FromEnd(w, 2)

\* The iterator: it ends at the first cursor that is not there.
IterLen(w) == (Len(w.content) - w.indices_start) \div W32
ToVec(w) == [i \in 1..IterLen(w) |-> CHOOSE e \in Nth(w, i - 1) : TRUE]

WitnessSize(w) ==
  LET v == ToVec(w)
      upTo[i \in 0..Len(v)] == IF i = 0 THEN VarIntSize(w.witness_elements)
                               ELSE upTo[i - 1] + VarIntSize(Len(v[i])) + Len(v[i])
  IN  upTo[Len(v)]
-----------------------------------------------------------------------------
\* The taproot spend a witness stands for.
AnnexPrefix == 80

StartsWithAnnex(w) == \E e \in LastElement(w) : e # <<>> /\ e[1] = AnnexPrefix

P2TrSpend(w) ==
  CASE w.witness_elements = 0 -> {}
    [] w.witness_elements = 1 ->
         {[kind |-> "Key", leaf_script |-> {}, control_block |-> {}, annex |-> {}]}
    [] w.witness_elements = 2 /\ StartsWithAnnex(w) ->
         {[kind |-> "Key", leaf_script |-> {}, control_block |-> {}, annex |-> LastElement(w)]}
    [] w.witness_elements >= 3 /\ StartsWithAnnex(w) ->
         {[kind |-> "Script", leaf_script |-> ThirdToLast(w), control_block |-> SecondToLast(w),
           annex |-> LastElement(w)]}
    [] OTHER ->
         {[kind |-> "Script", leaf_script |-> SecondToLast(w), control_block |-> LastElement(w), annex |-> {}]}

Tapscript(w) == UNION {s.leaf_script : s \in P2TrSpend(w)}
TaprootControlBlock(w) == UNION {s.control_block : s \in P2TrSpend(w)}
TaprootAnnex(w) == UNION {s.annex : s \in P2TrSpend(w)}

\* The leaf version is read off the first byte of a control block long enough; an
\* odd one (its low bit is masked away) or the annex prefix is no version.

LeafVersions(byte) == LET v == 2 * (byte \div 2) IN IF v = AnnexPrefix THEN {} ELSE {v}

TaprootLeafScript(w) ==
  {[version |-> v, script |-> s] :
     s \in Tapscript(w),
     v \in UNION {LeafVersions(c[1]) : c \in {c \in TaprootControlBlock(w) : Len(c) >= ControlBaseSize}}}
=============================================================================
