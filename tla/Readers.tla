------------------------------- MODULE Readers --------------------------------
(***************************************************************************)
(* The readers and writers of io/src/lib.rs.  A call is a loop around an   *)
(* inner reader or writer that may take less than it is offered, may be    *)
(* interrupted and may fail; one step is one turn of the loop.             *)
(***************************************************************************)
EXTENDS Integers, Sequences

CONSTANTS
  ChunkSize,      \* bytes of the buffer of read_to_end, 64 in the code
  MaxInterrupts   \* bound: how often the inner side reports Interrupted

ASSUME ReadersAssumption == ChunkSize \in Nat \ {0} /\ MaxInterrupts \in Nat

VARIABLE io

Lesser(a, b) == IF a <= b THEN a ELSE b

\* data: the bytes on the side they come from; done: how many have been moved; want:
\* the size of the caller's buffer; limit and remaining: the two numbers of a Take.
Call(call, data, want, limit) ==
  [call |-> call, data |-> data, done |-> 0, out |-> <<>>, want |-> want, limit |-> limit,
   remaining |-> limit, pending |-> MaxInterrupts, verdict |-> "running"]

Rest == SubSeq(io.data, io.done + 1, Len(io.data))
Running(call) == io.call = call /\ io.verdict = "running"

\* What an inner side answers when it is offered n places: at least one byte unless
\* there is nothing to give or nothing to fill.
Answers(n) ==
  [kind : {"ok"}, n : IF n = 0 \/ Rest = <<>> THEN {0} ELSE 1..Lesser(n, Len(Rest))]
  \cup [kind : {"broken"}, n : {0}]
  \cup IF io.pending > 0 THEN [kind : {"interrupted"}, n : {0}] ELSE {}

\* Take::read, which offers no more than remaining; Interrupted and other errors pass
\* through it.
TakeLen(n) == Lesser(n, io.remaining)
Moved(n) ==
  [io EXCEPT !.done = @ + n, !.out = @ \o SubSeq(io.data, io.done + 1, io.done + n), !.remaining = @ - n]
Interrupted == io' = [io EXCEPT !.pending = @ - 1]
Verdict(v) == io' = [io EXCEPT !.verdict = v]

\* Mutant: an end of the data in the middle of the buffer is a success.
ReadExactShort ==
  /\ Running("read_exact")
  /\ IF Len(io.out) = io.want THEN Verdict("ok")
     ELSE \E a \in Answers(TakeLen(io.want - Len(io.out))) :
            \/ a.kind = "ok" /\ a.n = 0 /\ Verdict("ok")
            \/ a.kind = "ok" /\ a.n > 0 /\ io' = Moved(a.n)
            \/ a.kind = "interrupted" /\ Interrupted
            \/ a.kind = "broken" /\ Verdict("broken")
\* Read::read_exact, of a Take.
ReadExact ==
  /\ Running("read_exact")
  /\ IF Len(io.out) = io.want THEN Verdict("ok")
     ELSE \E a \in Answers(TakeLen(io.want - Len(io.out))) :
            \/ a.kind = "ok" /\ a.n = 0 /\ Verdict("eof")
            \/ a.kind = "ok" /\ a.n > 0 /\ io' = Moved(a.n)
            \/ a.kind = "interrupted" /\ Interrupted
            \/ a.kind = "broken" /\ Verdict("broken")

\* Mutant: an empty answer does not end the loop.
ReadToEndAgain ==
  /\ Running("read_to_end")
  /\ \E a \in Answers(TakeLen(ChunkSize)) :
       \/ a.kind = "ok" /\ io' = Moved(a.n)
       \/ a.kind = "interrupted" /\ Interrupted
       \/ a.kind = "broken" /\ Verdict("broken")
\* Take::read_to_end, which read_to_limit calls.
ReadToEnd ==
  /\ Running("read_to_end")
  /\ \E a \in Answers(TakeLen(ChunkSize)) :
       \/ a.kind = "ok" /\ a.n = 0 /\ Verdict("ok")
       \/ a.kind = "ok" /\ a.n > 0 /\ io' = Moved(a.n)
       \/ a.kind = "interrupted" /\ Interrupted
       \/ a.kind = "broken" /\ Verdict("broken")

\* Take::fill_buf of what the buffer of the reader shows.
TakeFillBuf(window) ==
  IF io.remaining = 0 THEN <<>> ELSE SubSeq(window, 1, Lesser(Len(window), io.remaining))
\* A caller that looks at the buffer and consumes some of what it saw, until it sees
\* nothing.  A slice and a cursor show all the rest, a BufReader some of it; the
\* assertion of consume is a verdict.
FillAndConsume ==
  /\ Running("fill_buf")
  /\ \/ \E shown \in (IF Rest = <<>> THEN {0} ELSE 1..Len(Rest)) :
          LET window == TakeFillBuf(SubSeq(Rest, 1, shown))
          IN  \/ window = <<>> /\ Verdict("ok")
              \/ \E amount \in 1..Len(window) :
                   io' = IF amount > io.remaining THEN [io EXCEPT !.verdict = "panic"] ELSE Moved(amount)
     \/ io.remaining > 0 /\ Verdict("broken")

\* Write::write_all, into a slice with remaining places; a vector and a sink have as
\* many as the bytes.
WriteAll ==
  /\ Running("write_all")
  /\ IF Rest = <<>> THEN Verdict("ok")
     ELSE \E a \in Answers(TakeLen(Len(Rest))) :
            \/ a.kind = "ok" /\ a.n = 0 /\ Verdict("eof")
            \/ a.kind = "ok" /\ a.n > 0 /\ io' = Moved(a.n)
            \/ a.kind = "interrupted" /\ Interrupted
            \/ a.kind = "broken" /\ Verdict("broken")

-----------------------------------------------------------------------------
\* The readers over bytes in memory, call by call; ok is FALSE where the code panics.
SliceRead(slice, n) ==
  LET cnt == Lesser(Len(slice), n) IN [bytes |-> SubSeq(slice, 1, cnt), rest |-> SubSeq(slice, cnt + 1, Len(slice))]
SliceConsume(slice, amount) == [ok |-> amount <= Len(slice), rest |-> SubSeq(slice, amount + 1, Len(slice))]
CursorNew(inner) == [inner |-> inner, pos |-> 0]
CursorRead(c, n) ==
  LET left == IF c.pos < Len(c.inner) THEN Len(c.inner) - c.pos ELSE 0
      read == Lesser(left, n)
  IN  [ok |-> c.pos <= Len(c.inner), bytes |-> SubSeq(c.inner, c.pos + 1, c.pos + read), cursor |-> [c EXCEPT !.pos = @ + read]]
CursorFillBuf(c) == [ok |-> c.pos <= Len(c.inner), bytes |-> SubSeq(c.inner, c.pos + 1, Len(c.inner))]
CursorConsume(c, amount) ==
  [ok |-> amount <= Len(c.inner), cursor |-> [c EXCEPT !.pos = @ + amount]]

Memory(data) == [call |-> "memory", data |-> data, slice |-> data, cursor |-> CursorNew(data), out |-> <<>>, verdict |-> "running"]
\* A caller that uses a slice and a cursor over the same bytes in the same way, and
\* consumes no more than it was shown.
ReadMemory ==
  /\ Running("memory")
  /\ Len(io.out) < Len(io.data)
  /\ \E n \in 1..Len(io.data) :
       LET r == CursorRead(io.cursor, n)
       IN  io' = [io EXCEPT !.slice = SliceRead(io.slice, n).rest, !.cursor = r.cursor, !.out = @ \o r.bytes,
                            !.verdict = IF r.ok THEN @ ELSE "panic"]
ConsumeMemory ==
  /\ Running("memory")
  /\ LET shown == CursorFillBuf(io.cursor)
     IN  IF ~shown.ok THEN Verdict("panic")
         ELSE \E amount \in 1..Len(shown.bytes) :
           LET s == SliceConsume(io.slice, amount)
               c == CursorConsume(io.cursor, amount)
           IN  io' = [io EXCEPT !.slice = s.rest, !.cursor = c.cursor, !.out = @ \o SubSeq(shown.bytes, 1, amount),
                                !.verdict = IF s.ok /\ c.ok THEN @ ELSE "panic"]

IoNext == ReadExact \/ ReadToEnd \/ FillAndConsume \/ WriteAll \/ ReadMemory \/ ConsumeMemory

StreamCalls == {"read_exact", "read_to_end", "fill_buf", "write_all"}
\* A call is made on any bytes, with a buffer and a Take of any size.
IoInit ==
  \E data \in Seq(0..255) :
    \/ \E call \in StreamCalls, want \in Nat, limit \in Nat : io = Call(call, data, want, limit)
    \/ io = Memory(data)
IoSpec == IoInit /\ [][IoNext]_io
-----------------------------------------------------------------------------
\* A call moves the bytes of its source in order and no others, never more than the
\* limit of its Take, and its verdict is right: ok means that all that was asked for,
\* or all there is below the limit, has been moved; the end is reported only where it
\* came too early (io/src/lib.rs:44, :99, :244).
BytesMove ==
  io.call \in StreamCalls =>
    LET all == Lesser(Len(io.data), io.limit)
    IN  /\ io.out = SubSeq(io.data, 1, Len(io.out))
        /\ Len(io.out) <= io.limit
        /\ io.remaining = io.limit - Len(io.out)
        /\ io.verdict # "panic"
        /\ io.verdict = "ok" => Len(io.out) = CASE io.call = "read_exact" -> io.want
                                               [] io.call \in {"read_to_end", "fill_buf"} -> all
                                               [] io.call = "write_all" -> Len(io.data)
        /\ io.verdict = "eof" => Len(io.out) = all /\ all < IF io.call = "read_exact" THEN io.want ELSE Len(io.data)

\* A cursor and a slice over the same bytes deliver the same ones whatever mix of reads
\* and of looking and consuming they see, and neither panics (io/src/lib.rs:209, :227).
CursorIsSlice ==
  io.call = "memory" =>
    /\ io.verdict # "panic"
    /\ io.out \o io.slice = io.data
    /\ io.cursor.pos = Len(io.out)

\* Bytes pass readers, writers and cursors in order, once, and with the right
\* verdict (io/src/lib.rs).
StreamsHold == BytesMove /\ CursorIsSlice
=============================================================================
