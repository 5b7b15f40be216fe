---------------------------- MODULE SerdeStreams ----------------------------
(***************************************************************************)
(* Hashes as text, in serde formats and compared in constant time          *)
(* (hashes/src/internal_macros.rs, util.rs, serde_macros.rs, cmp.rs).  A   *)
(* character is the value of a digit, 16 more for a capital letter, or     *)
(* NoDigit.                                                                *)
(***************************************************************************)
EXTENDS Integers, Sequences, SequencesExt

LOCAL INSTANCE Bitwise

CONSTANT Width   \* LEN: bytes of a hash

ASSUME WidthAssumption == Width \in Nat \ {0}

NoDigit == 99
DigitValue(c) == IF c \in 26..31 THEN c - 16 ELSE c
IsDigit(c) == c \in 0..15 \/ c \in 26..31

Invalid == [ok |-> FALSE, hash |-> <<>>]
Valid(h) == [ok |-> TRUE, hash |-> h]

\* from_slice
FromSlice(sl) == IF Len(sl) # Width THEN Invalid ELSE Valid(sl)

\* LowerHex and UpperHex; Display is LowerHex.
HexOf(bytes, upper) ==
  LET digit(d) == IF upper /\ d > 9 THEN d + 16 ELSE d
  IN  SubSeq([i \in 1..2 * Len(bytes) |->
        digit(IF i % 2 = 1 THEN bytes[(i + 1) \div 2] \div 16 ELSE bytes[i \div 2] % 16)], 1, 2 * Len(bytes))
FmtHex(hash, backward, upper) == HexOf(IF backward THEN Reverse(hash) ELSE hash, upper)

\* FromHex for an array, which the hex library provides.
FromHex(s) ==
  IF Len(s) # 2 * Width \/ \E i \in DOMAIN s : ~IsDigit(s[i]) THEN Invalid
  ELSE Valid(SubSeq([i \in 1..Width |-> (16 * DigitValue(s[(2 * i) - 1])) + DigitValue(s[2 * i])], 1, Width))

\* FromStr, which turns the bytes round where Display does.
FromStr(s, backward) ==
  LET r == FromHex(s) IN IF r.ok /\ backward THEN Valid(Reverse(r.hash)) ELSE r

\* FromStr of a type that hash_newtype wraps round a hash: the direction is its own, and
\* the bytes are handed to the hash as they are.
NewtypeFromStr(s, backward) ==
  LET r == FromHex(s) IN IF r.ok THEN FromSlice(IF backward THEN Reverse(r.hash) ELSE r.hash) ELSE Invalid

\* SerdeHash: text for a human, bytes otherwise; the visitor of text also takes bytes
\* that are text.
SerializeHash(hash, backward, human) == IF human THEN FmtHex(hash, backward, FALSE) ELSE hash
DeserializeHash(v, backward, human) == IF human THEN FromStr(v, backward) ELSE FromSlice(v)

\* fixed_time_eq: every bit of r is folded onto the lowest one.
FixedTimeEq(a, b) ==
  LET r[i \in 0..Len(a)] == IF i = 0 THEN 0 ELSE r[i - 1] | (a[i] ^^ b[i])
      t4 == r[Len(a)] | (r[Len(a)] \div 16)
      t2 == t4 | (t4 \div 4)
      t1 == t2 | (t2 \div 2)
  IN  t1 % 2 = 0
-----------------------------------------------------------------------------
(***************************************************************************)
(* Maps, byte strings and structs in serde formats                         *)
(* (litecoin/src/serde_utils.rs): the forms that the fields of a PSBT take *)
(* for a human and in a binary format, and the visitors that read them an  *)
(* entry at a time.  A document is the shape it has and its items: pairs   *)
(* of a key and a value, or bare elements.                                 *)
(***************************************************************************)

VARIABLE doc

Kinds == {"byte_values", "as_seq", "as_seq_byte_values"}
HexValues(kind) == kind \in {"byte_values", "as_seq_byte_values"}

\* hex_bytes: text for a human, the bytes otherwise.
HexBytesSer(bytes, human) == IF human THEN HexOf(bytes, FALSE) ELSE bytes
\* FromHex for a Vec, which the hex library provides.
VecFromHex(s) ==
  IF Len(s) % 2 = 1 \/ \E i \in DOMAIN s : ~IsDigit(s[i]) THEN Invalid
  ELSE Valid(SubSeq([i \in 1..Len(s) \div 2 |-> (16 * DigitValue(s[(2 * i) - 1])) + DigitValue(s[2 * i])], 1, Len(s) \div 2))
HexBytesDe(v, human) == IF human THEN VecFromHex(v) ELSE Valid(v)
-----------------------------------------------------------------------------
\* The keys of a BTreeMap are numbers, in their order.
InOrder(map) == SetToSortSeq(DOMAIN map, LAMBDA a, b : a < b)

WrittenValue(kind, human, v) == IF HexValues(kind) THEN HexBytesSer(v, human) ELSE v

\* serialize of the three modules; a binary format gets the map as it is.
Shape(kind, human) == IF human /\ kind # "byte_values" THEN "seq" ELSE "map"
SerializeMap(kind, map, human) ==
  LET ks == InOrder(map)
  IN  [shape |-> Shape(kind, human),
       items |-> SubSeq([i \in DOMAIN ks |-> <<ks[i], WrittenValue(kind, human, map[ks[i]])>>], 1, Len(ks))]

\* deserialize of the three modules, as a document that is being read; `written` is the
\* value it was written from, if it was.
Reading(kind, human, d, written) ==
  [kind |-> kind, human |-> human, shape |-> d.shape, items |-> d.items, all |-> d.items, got |-> <<>>, written |-> written,
   verdict |-> IF kind \in Kinds /\ d.shape # Shape(kind, human) THEN "invalid_type" ELSE "running"]

InsertKey(map, k, v) == [x \in DOMAIN map \union {k} |-> IF x = k THEN v ELSE map[x]]

\* A turn of the loop in visit_map or visit_seq: a later entry replaces one of its key.
NextEntry ==
  /\ doc.kind \in Kinds /\ doc.verdict = "running" /\ doc.items # <<>>
  /\ LET e == Head(doc.items)
         v == IF HexValues(doc.kind) THEN HexBytesDe(e[2], doc.human) ELSE Valid(e[2])
     IN  doc' = IF v.ok THEN [doc EXCEPT !.items = Tail(@), !.got = InsertKey(@, e[1], v.hash)]
                ELSE [doc EXCEPT !.verdict = "custom"]
EndOfEntries ==
  /\ doc.kind \in Kinds /\ doc.verdict = "running" /\ doc.items = <<>>
  /\ doc' = [doc EXCEPT !.verdict = "ok"]
-----------------------------------------------------------------------------
\* OutPoint in a binary format, which serde_struct_human_string_impl gives its visitors:
\* fields by name, in any order and with others between them, or by position.
StructFields == <<"txid", "vout">>

SerializeStruct(value) == SubSeq([i \in DOMAIN StructFields |-> <<StructFields[i], value[StructFields[i]]>>], 1, Len(StructFields))

StructField(got, f, v) == InsertKey(got, f, v)
NextField ==
  /\ doc.kind = "struct" /\ doc.shape = "map" /\ doc.verdict = "running" /\ doc.items # <<>>
  /\ LET e == Head(doc.items)
     IN  doc' = [doc EXCEPT !.items = Tail(@),
                            !.got = IF \E i \in DOMAIN StructFields : StructFields[i] = e[1] THEN StructField(@, e[1], e[2]) ELSE @]
EndOfFields ==
  /\ doc.kind = "struct" /\ doc.shape = "map" /\ doc.verdict = "running" /\ doc.items = <<>>
  /\ LET absent == {i \in DOMAIN StructFields : StructFields[i] \notin DOMAIN doc.got}
     IN  doc' = [doc EXCEPT !.verdict = IF absent = {} THEN "ok" ELSE "missing_field"]
\* visit_seq: an element for every field; what is behind them is left to the format.
NextElement ==
  /\ doc.kind = "struct" /\ doc.shape = "seq" /\ doc.verdict = "running"
  /\ LET n == Len(doc.all) - Len(doc.items)
     IN  doc' = IF n = Len(StructFields) THEN [doc EXCEPT !.verdict = "ok"]
                ELSE IF doc.items = <<>> THEN [doc EXCEPT !.verdict = "invalid_length"]
                ELSE [doc EXCEPT !.items = Tail(@), !.got = InsertKey(@, StructFields[n + 1], Head(doc.items)[2])]
-----------------------------------------------------------------------------
\* hex_array_opt: an Option of an array; a sequence is read as far as the array goes.
SerializeOpt(v, human) ==
  IF v = {} THEN [tag |-> "none", form |-> "none", value |-> <<>>]
  ELSE [tag |-> "some", form |-> IF human THEN "str" ELSE "bytes", value |-> HexBytesSer(CHOOSE a \in v : TRUE, human)]
ArrayOf(bytes) == IF Len(bytes) # Width THEN Invalid ELSE Valid(bytes)
VisitArray(form, value) ==
  CASE form = "str" -> LET r == VecFromHex(value) IN IF r.ok THEN ArrayOf(r.hash) ELSE r
    [] form = "bytes" -> ArrayOf(value)
    [] form = "seq" -> IF Len(value) < Width THEN Invalid ELSE Valid(SubSeq(value, 1, Width))
DeserializeOpt(d) ==
  IF d.tag \in {"none", "unit"} THEN [ok |-> TRUE, val |-> {}]
  ELSE LET r == VisitArray(d.form, d.value) IN [ok |-> r.ok, val |-> IF r.ok THEN {r.hash} ELSE {}]

DocNext == NextEntry \/ EndOfEntries \/ NextField \/ EndOfFields \/ NextElement
-----------------------------------------------------------------------------
(***************************************************************************)
(* Consensus encoding inside serde (litecoin/src/consensus/serde.rs) and   *)
(* the reader over an iterator it decodes with (consensus/mod.rs).  A      *)
(* value is encoded as the pieces it writes; the writer of the format may  *)
(* fail at every call and the iterator of the format may end or fail at    *)
(* every byte.                                                             *)
(***************************************************************************)

CONSTANTS
  HexBuf,      \* bytes that the buffer of the hex encoder holds, 256 in the code
  MaxItems     \* the longest vector the decoder accepts

ASSUME SerdeAssumption == HexBuf \in Nat \ {0} /\ MaxItems \in Nat

VARIABLE ser

-----------------------------------------------------------------------------
\* cur: what is left of the piece that is being written; buf: the encoder's buffer;
\* text: what the format has taken; was_error: of the ErrorTrackingWriter.
Encoding(mode, pieces) ==
  [mode |-> mode, pieces |-> pieces, cur |-> <<>>, buf |-> <<>>, text |-> <<>>, was_error |-> FALSE, verdict |-> "running"]
At(mode) == ser.mode = mode /\ ser.verdict = "running"

\* ErrorTrackingWriter::write_str, which panics after an error.
WriteStr(s, fails) ==
  IF s.was_error THEN [s EXCEPT !.verdict = "panic"]
  ELSE IF fails THEN [s EXCEPT !.was_error = TRUE]
  ELSE [s EXCEPT !.text = s.text \o s.buf]
\* Mutant: the buffer keeps what it has handed over.
FlushKeeps(s, fails) == WriteStr(s, fails)
\* Encoder::flush.
Flush(s, fails) == LET w == WriteStr(s, fails) IN IF w.was_error \/ w.verdict = "panic" THEN w ELSE [w EXCEPT !.buf = <<>>]

\* What the error of a write becomes on its way out of consensus_encode: the two
\* debug assertions of DisplayWrapper and IoWrapper are the verdict panic.
EncodeFailed(s) == [s EXCEPT !.verdict = IF s.was_error THEN "fmt_error" ELSE "panic"]

NextPiece ==
  /\ At("hex") \/ At("bin")
  /\ ser.cur = <<>> /\ ser.pieces # <<>>
  /\ ser' = [ser EXCEPT !.cur = Head(ser.pieces), !.pieces = Tail(ser.pieces)]
\* A turn of encode_chunk: flush a full buffer, then put in what it takes.
EncodeChunk ==
  /\ At("hex") /\ ser.cur # <<>>
  /\ \E fails \in BOOLEAN :
       LET f == IF Len(ser.buf) = HexBuf THEN Flush(ser, fails) ELSE ser
           room == Min({HexBuf - Len(f.buf), Len(f.cur)})
       IN  ser' = IF f.was_error THEN EncodeFailed(f)
                  ELSE [f EXCEPT !.buf = f.buf \o SubSeq(f.cur, 1, room), !.cur = SubSeq(f.cur, room + 1, Len(f.cur))]
\* DisplayWrapper::fmt after consensus_encode.
ActuallyFlush ==
  /\ At("hex") /\ ser.cur = <<>> /\ ser.pieces = <<>>
  /\ \E fails \in BOOLEAN :
       LET f == Flush(ser, fails) IN ser' = IF f.was_error THEN EncodeFailed(f) ELSE [f EXCEPT !.verdict = "ok"]

\* BinWriter::write_all, a byte at a time, and the end of With::serialize.
SerializeElement ==
  /\ At("bin") /\ ser.cur # <<>>
  /\ \E fails \in BOOLEAN :
       ser' = IF fails THEN [ser EXCEPT !.was_error = TRUE, !.verdict = "ser_error"]
              ELSE [ser EXCEPT !.text = Append(ser.text, Head(ser.cur)), !.cur = Tail(ser.cur)]
SerializeEnd ==
  /\ At("bin") /\ ser.cur = <<>> /\ ser.pieces = <<>>
  /\ ser' = [ser EXCEPT !.verdict = "ok"]
-----------------------------------------------------------------------------
\* The items of an iterator are bytes; an item that is negative is an error of the
\* format (a character that is no digit, an element that is no byte).
Decoding(items, odd) ==
  [mode |-> "decode", items |-> items, iterator |-> items, odd |-> odd, buf |-> {}, error |-> FALSE,
   length |-> {}, value |-> <<>>, verdict |-> "running"]
IsError(item) == item < 0

\* IterReader::read into a buffer of n bytes, fill_buf and consume.
IterRead(s, n) ==
  LET first == SetToSeq(s.buf)
      m == Min({n - Len(first), Len(s.iterator)})
      bad == {i \in 1..m : IsError(s.iterator[i])}
      stop == IF bad = {} THEN m ELSE CHOOSE i \in bad : \A j \in bad : i <= j
      after == [s EXCEPT !.buf = {}, !.iterator = SubSeq(s.iterator, stop + 1, Len(s.iterator)), !.error = s.error \/ bad # {}]
  IN  IF n = 0 THEN [kind |-> "ok", bytes |-> <<>>, s |-> s]
      ELSE IF bad # {} THEN [kind |-> "Other", bytes |-> <<>>, s |-> after]
      ELSE [kind |-> "ok", bytes |-> first \o SubSeq(s.iterator, 1, m), s |-> after]
IterFillBuf(s) ==
  IF s.buf # {} \/ s.iterator = <<>> THEN [kind |-> "ok", s |-> s]
  ELSE LET after == [s EXCEPT !.iterator = Tail(s.iterator)]
       IN  IF IsError(Head(s.iterator)) THEN [kind |-> "Other", s |-> [after EXCEPT !.error = TRUE]]
           ELSE [kind |-> "ok", s |-> [after EXCEPT !.buf = {Head(s.iterator)}]]
IterConsume(s, len) == IF len > 0 THEN [s EXCEPT !.buf = {}] ELSE s

\* read_exact of n bytes: a second read after a short one finds the end.
IterReadExact(s, n) ==
  LET r == IterRead(s, n)
  IN  IF r.kind = "ok" /\ Len(r.bytes) < n THEN [r EXCEPT !.kind = "UnexpectedEof"] ELSE r

\* The arms of IterReader::decode; result is what consensus_decode returned: ok, the
\* kind of an I/O error, or an error of the encoding.
DecodeResult(s, result) ==
  IF result = "ok" /\ ~s.error THEN IF s.iterator # <<>> THEN "TooManyBytes" ELSE "ok"
  ELSE IF result = "ok" THEN "panic"
  ELSE IF result = "Other" /\ s.error THEN "Other"
  ELSE IF ~s.error THEN "Consensus" ELSE "panic"

\* unify and into_de_error with consensus_error_into_serde: an I/O error of the
\* encoding is a panic.
IntoSerde(decoded, result) ==
  IF decoded = "Consensus" /\ result \in {"UnexpectedEof", "Other"} THEN "io_panic" ELSE decoded
Decided(s, result) == [s EXCEPT !.verdict = IntoSerde(DecodeResult(s, result), result)]

\* HRVisitor::visit_str: a string of an odd length is no hex.
OddLength ==
  /\ At("decode") /\ ser.odd
  /\ ser' = [ser EXCEPT !.verdict = "invalid_length"]
\* The value is a vector: a byte with its length, which the decoder bounds, and then
\* its bytes.
DecodeLength ==
  /\ At("decode") /\ ~ser.odd /\ ser.length = {}
  /\ \E peeked \in BOOLEAN :
       LET p == IF peeked THEN IterFillBuf(ser) ELSE [kind |-> "ok", s |-> ser]
           r == IterReadExact(p.s, 1)
       IN  ser' = IF p.kind # "ok" THEN Decided(p.s, p.kind)
                  ELSE IF r.kind # "ok" THEN Decided(r.s, r.kind)
                  ELSE IF r.bytes[1] > MaxItems THEN Decided(r.s, "OversizedVectorAllocation")
                  ELSE [r.s EXCEPT !.length = {r.bytes[1]}]
DecodeBody ==
  /\ At("decode")
  /\ \E n \in ser.length :
       LET r == IterReadExact(ser, n)
       IN  ser' = IF r.kind # "ok" THEN Decided(r.s, r.kind) ELSE Decided([r.s EXCEPT !.value = r.bytes], "ok")

SerNext ==
  NextPiece \/ EncodeChunk \/ ActuallyFlush \/ SerializeElement \/ SerializeEnd \/ OddLength \/ DecodeLength \/ DecodeBody
=============================================================================
