---------------------------- MODULE Streams_proofs ----------------------------
(***************************************************************************)
(* Readers, writers and cursors of io/src/lib.rs over any bytes, with any  *)
(* buffer and any limit, the client of examples/handshake.rs with any      *)
(* number of messages, and the hash engines with any input in any pieces.  *)
(***************************************************************************)
EXTENDS Readers, Networks, HashEngine, SequenceTheorems, Induction

\* A part of a sequence.
LEMMA Part ==
  ASSUME NEW S, NEW d \in Seq(S), NEW a \in Nat, NEW b \in Nat, a <= b, b <= Len(d)
  PROVE  /\ SubSeq(d, a + 1, b) \in Seq(S)
         /\ Len(SubSeq(d, a + 1, b)) = b - a
         /\ \A i \in 1 .. b - a : SubSeq(d, a + 1, b)[i] = d[a + i]
OBVIOUS

\* What was moved before and what is moved now are one part.
LEMMA Joined ==
  ASSUME NEW S, NEW d \in Seq(S), NEW a \in Nat, NEW b \in Nat, a <= b, b <= Len(d)
  PROVE  /\ SubSeq(d, 1, a) \o SubSeq(d, a + 1, b) = SubSeq(d, 1, b)
         /\ Len(SubSeq(d, 1, b)) = b /\ SubSeq(d, 1, b) \in Seq(S)
<1>1. 1 \in 1 .. Len(d) + 1 /\ a \in 1 - 1 .. Len(d) /\ b \in a .. Len(d)
  OBVIOUS
<1>2. SubSeq(d, 1, a) \o SubSeq(d, a + 1, b) = SubSeq(d, 1, b)
  BY <1>1, ConcatAdjacentSubSeq, Zenon
<1>3. Len(SubSeq(d, 1, b)) = b /\ SubSeq(d, 1, b) \in Seq(S)
  OBVIOUS
<1>. QED  BY <1>2, <1>3, Zenon

\* The part that is all of a sequence.
LEMMA Whole ==
  ASSUME NEW S, NEW d \in Seq(S)
  PROVE  SubSeq(d, 1, Len(d)) = d
OBVIOUS

\* What is left of what was left, and the first of it.
LEMMA LeftOver ==
  ASSUME NEW S, NEW d \in Seq(S), NEW a \in Nat, NEW k \in Nat, a + k <= Len(d),
         NEW rest, rest = SubSeq(d, a + 1, Len(d))
  PROVE  /\ Len(rest) = Len(d) - a /\ rest \in Seq(S)
         /\ SubSeq(rest, k + 1, Len(rest)) = SubSeq(d, a + k + 1, Len(d))
         /\ SubSeq(rest, 1, k) = SubSeq(d, a + 1, a + k)
<1>1. Len(d) \in Nat
  OBVIOUS
<1>2. /\ rest \in Seq(S) /\ Len(rest) = Len(d) - a
      /\ \A i \in 1 .. Len(d) - a : rest[i] = d[a + i]
  BY <1>1, Part, SMTT(40)
<1>3. SubSeq(rest, k + 1, Len(rest)) = SubSeq(d, a + k + 1, Len(d))
  <2> DEFINE x == SubSeq(rest, k + 1, Len(rest))
             y == SubSeq(d, (a + k) + 1, Len(d))
  <2>1. /\ x \in Seq(S) /\ Len(x) = Len(rest) - k
        /\ \A i \in 1 .. Len(rest) - k : x[i] = rest[k + i]
    BY <1>1, <1>2, Part
  <2>2. /\ y \in Seq(S) /\ Len(y) = Len(d) - (a + k)
        /\ \A i \in 1 .. Len(d) - (a + k) : y[i] = d[(a + k) + i]
    BY <1>1, Part
  <2> HIDE DEF x, y
  <2>3. Len(x) = Len(y)
    BY <1>1, <1>2, <2>1, <2>2
  <2>4. ASSUME NEW i \in 1 .. Len(x) PROVE x[i] = y[i]
    <3>1. k + i \in 1 .. Len(d) - a /\ i \in 1 .. Len(rest) - k /\ i \in 1 .. Len(d) - (a + k)
      BY <1>1, <1>2, <2>1, <2>2
    <3>2. x[i] = rest[k + i] /\ rest[k + i] = d[a + (k + i)] /\ y[i] = d[(a + k) + i]
      BY <1>2, <2>1, <2>2, <3>1, Zenon
    <3>3. a + (k + i) = (a + k) + i
      OBVIOUS
    <3>. QED  BY <3>2, <3>3, Zenon
  <2>5. x \in Seq(S) /\ y \in Seq(S)
    BY <2>1, <2>2, Zenon
  <2>6. x = y
    BY <2>3, <2>4, <2>5, SMTT(40)
  <2>. QED  BY <2>6, Zenon DEF x, y
<1>4. SubSeq(rest, 1, k) = SubSeq(d, a + 1, a + k)
  <2> DEFINE x == SubSeq(rest, 0 + 1, k)
             y == SubSeq(d, a + 1, a + k)
  <2>1. /\ x \in Seq(S) /\ Len(x) = k - 0 /\ \A i \in 1 .. k - 0 : x[i] = rest[0 + i]
    BY <1>1, <1>2, Part
  <2>2. /\ y \in Seq(S) /\ Len(y) = (a + k) - a /\ \A i \in 1 .. (a + k) - a : y[i] = d[a + i]
    <3>1. a + k \in Nat /\ a <= a + k /\ a + k <= Len(d)
      OBVIOUS
    <3>2. SubSeq(d, a + 1, a + k) = y
      BY Zenon
    <3> HIDE DEF y
    <3>. QED  BY <3>1, <3>2, Part, ZenonT(40)
  <2>3. x = SubSeq(rest, 1, k)
    OBVIOUS
  <2> HIDE DEF x, y
  <2>4. Len(x) = Len(y)
    BY <2>1, <2>2
  <2>5. ASSUME NEW i \in 1 .. Len(x) PROVE x[i] = y[i]
    <3>1. i \in 1 .. k - 0 /\ i \in 1 .. (a + k) - a /\ i \in 1 .. Len(d) - a /\ 0 + i = i
      BY <1>1, <2>1
    <3>. QED  BY <1>2, <2>1, <2>2, <3>1, Zenon
  <2>6. x \in Seq(S) /\ y \in Seq(S)
    BY <2>1, <2>2, Zenon
  <2>7. x = y
    BY <2>4, <2>5, <2>6
  <2>. QED  BY <2>3, <2>7, Zenon DEF y
<1>. QED  BY <1>2, <1>3, <1>4, Zenon
-----------------------------------------------------------------------------
Octet == 0 .. 255

\* What a verdict says of a call that has moved this many bytes.
Right(verdict, call, done, data, want, limit) ==
  LET all == Lesser(Len(data), limit)
  IN  /\ verdict # "panic"
      /\ verdict = "ok" => done = CASE call = "read_exact" -> want
                                    [] call \in {"read_to_end", "fill_buf"} -> all
                                    [] call = "write_all" -> Len(data)
      /\ verdict = "eof" => done = all /\ all < IF call = "read_exact" THEN want ELSE Len(data)

\* A call that has moved the first bytes of its source, within its bounds.
StreamState(call, data, done, out, want, limit, remaining, pending, verdict) ==
  /\ call \in StreamCalls /\ data \in Seq(Octet)
  /\ done \in Nat /\ want \in Nat /\ limit \in Nat /\ pending \in Nat
  /\ done <= Len(data) /\ out = SubSeq(data, 1, done)
  /\ done <= limit /\ remaining = limit - done
  /\ call = "read_exact" => done <= want
  /\ Right(verdict, call, done, data, want, limit)
StreamInv ==
  /\ io = [call |-> io.call, data |-> io.data, done |-> io.done, out |-> io.out, want |-> io.want,
           limit |-> io.limit, remaining |-> io.remaining, pending |-> io.pending, verdict |-> io.verdict]
  /\ StreamState(io.call, io.data, io.done, io.out, io.want, io.limit, io.remaining, io.pending, io.verdict)

\* A slice and a cursor that have delivered the same bytes.
MemoryState(data, slice, cursor, out, verdict) ==
  /\ data \in Seq(Octet) /\ verdict # "panic"
  /\ \E pos \in Nat : /\ pos <= Len(data) /\ cursor = [inner |-> data, pos |-> pos]
                      /\ out = SubSeq(data, 1, pos) /\ slice = SubSeq(data, pos + 1, Len(data))
MemoryInv ==
  /\ io = [call |-> "memory", data |-> io.data, slice |-> io.slice, cursor |-> io.cursor,
           out |-> io.out, verdict |-> io.verdict]
  /\ MemoryState(io.data, io.slice, io.cursor, io.out, io.verdict)

IoInv == StreamInv \/ MemoryInv
-----------------------------------------------------------------------------
\* What an inner reader or writer may answer.
LEMMA AnswerBounds ==
  ASSUME StreamInv, NEW n \in Nat, NEW a \in Answers(n)
  PROVE  /\ a.kind = "ok" => /\ a.n \in Nat /\ a.n <= n /\ io.done + a.n <= Len(io.data)
                             /\ a.n = 0 => n = 0 \/ io.done = Len(io.data)
         /\ a.kind = "interrupted" => io.pending > 0
         /\ a.kind \in {"ok", "broken", "interrupted"}
<1>1. io.data \in Seq(Octet) /\ io.done \in Nat /\ io.done <= Len(io.data) /\ Len(io.data) \in Nat
  BY DEF StreamInv, StreamState
<1>2. Rest \in Seq(Octet) /\ Len(Rest) = Len(io.data) - io.done
  BY <1>1, Part, SMTT(40) DEF Rest
<1>3. Rest = <<>> <=> io.done = Len(io.data)
  BY <1>1, <1>2
<1>. QED  BY <1>1, <1>2, <1>3 DEF Answers, Lesser

\* A turn of a loop that moves bytes.
LEMMA MoveKeeps ==
  ASSUME StreamInv, io.verdict = "running", NEW n \in Nat, n <= io.remaining,
         io.done + n <= Len(io.data), io.call = "read_exact" => io.done + n <= io.want,
         io' = Moved(n)
  PROVE  StreamInv'
<1>0. StreamState(io.call, io.data, io.done, io.out, io.want, io.limit, io.remaining, io.pending, io.verdict)
  BY Zenon DEF StreamInv
<1>1. io' = [call |-> io.call, data |-> io.data, done |-> io.done + n,
             out |-> io.out \o SubSeq(io.data, io.done + 1, io.done + n), want |-> io.want,
             limit |-> io.limit, remaining |-> io.remaining - n, pending |-> io.pending,
             verdict |-> io.verdict]
  BY Zenon DEF StreamInv, Moved
<1> DEFINE d == io.data
           k == io.done
           out == io.out \o SubSeq(d, k + 1, k + n)
<1>2. d \in Seq(Octet) /\ k \in Nat /\ k + n \in Nat /\ k <= k + n /\ k + n <= Len(d) /\ io.out = SubSeq(d, 1, k)
  BY <1>0, SMTT(40) DEF StreamState
<1>3. out = SubSeq(d, 1, k + n)
  <2> HIDE DEF d, k
  <2>1. SubSeq(d, 1, k) \o SubSeq(d, k + 1, k + n) = SubSeq(d, 1, k + n)
    BY <1>2, Joined, Zenon
  <2>. QED  BY <1>2, <2>1, Zenon
<1>4. Right(io.verdict, io.call, k + n, d, io.want, io.limit)
  BY Zenon DEF Right
<1>5. k + n <= io.limit /\ io.remaining - n = io.limit - (k + n)
  BY <1>0 DEF StreamState
<1> HIDE DEF out
<1>6. StreamState(io.call, d, k + n, out, io.want, io.limit, io.remaining - n, io.pending, io.verdict)
  BY <1>0, <1>2, <1>3, <1>4, <1>5, Zenon DEF StreamState
<1>. QED  BY <1>1, <1>6 DEF StreamInv, out

\* A turn that ends the call.
LEMMA VerdictKeeps ==
  ASSUME StreamInv, NEW v, Right(v, io.call, io.done, io.data, io.want, io.limit), Verdict(v)
  PROVE  StreamInv'
<1>1. io' = [call |-> io.call, data |-> io.data, done |-> io.done, out |-> io.out, want |-> io.want,
             limit |-> io.limit, remaining |-> io.remaining, pending |-> io.pending, verdict |-> v]
  BY Zenon DEF StreamInv, Verdict
<1>2. StreamState(io.call, io.data, io.done, io.out, io.want, io.limit, io.remaining, io.pending, v)
  BY Zenon DEF StreamInv, StreamState
<1>. QED  BY <1>1, <1>2, Zenon DEF StreamInv

\* A turn that the inner side interrupts.
LEMMA InterruptKeeps ==
  ASSUME StreamInv, io.pending > 0, Interrupted
  PROVE  StreamInv'
<1>1. io' = [call |-> io.call, data |-> io.data, done |-> io.done, out |-> io.out, want |-> io.want,
             limit |-> io.limit, remaining |-> io.remaining, pending |-> io.pending - 1,
             verdict |-> io.verdict]
  BY Zenon DEF StreamInv, Interrupted
<1>2. StreamState(io.call, io.data, io.done, io.out, io.want, io.limit, io.remaining, io.pending - 1, io.verdict)
  BY DEF StreamInv, StreamState
<1>. QED  BY <1>1, <1>2, Zenon DEF StreamInv

\* The numbers of a call.
LEMMA Numbers ==
  ASSUME StreamInv
  PROVE  /\ io.done \in Nat /\ io.want \in Nat /\ io.limit \in Nat /\ io.remaining \in Nat
         /\ io.done <= io.limit /\ io.remaining = io.limit - io.done
         /\ io.call = "read_exact" => io.done <= io.want
         /\ io.call \in StreamCalls
         /\ Len(io.data) \in Nat /\ io.done <= Len(io.data) /\ io.data \in Seq(Octet)
         /\ Len(io.out) = io.done /\ io.out = SubSeq(io.data, 1, io.done)
         /\ Len(Rest) = Len(io.data) - io.done /\ Rest \in Seq(Octet)
         /\ Rest = <<>> <=> io.done = Len(io.data)
         /\ Right(io.verdict, io.call, io.done, io.data, io.want, io.limit)
<1>1. /\ io.done \in Nat /\ io.want \in Nat /\ io.limit \in Nat /\ io.remaining \in Nat
      /\ io.done <= io.limit /\ io.remaining = io.limit - io.done
      /\ io.call = "read_exact" => io.done <= io.want
      /\ io.call \in StreamCalls
      /\ Len(io.data) \in Nat /\ io.done <= Len(io.data) /\ io.data \in Seq(Octet)
      /\ io.out = SubSeq(io.data, 1, io.done)
      /\ Right(io.verdict, io.call, io.done, io.data, io.want, io.limit)
  BY DEF StreamInv, StreamState
<1>2. Len(io.out) = io.done
  BY <1>1, Joined
<1>3. Len(Rest) = Len(io.data) - io.done /\ Rest \in Seq(Octet)
  BY <1>1, Part, SMTT(40) DEF Rest
<1>4. Rest = <<>> <=> io.done = Len(io.data)
  BY <1>1, <1>3
<1>. QED  BY <1>1, <1>2, <1>3, <1>4, Zenon

\* A call that can move no more has moved all there is below the limit.
LEMMA NoMore ==
  ASSUME StreamInv, io.remaining = 0 \/ io.done = Len(io.data)
  PROVE  io.done = Lesser(Len(io.data), io.limit)
<1>1. /\ io.done \in Nat /\ io.limit \in Nat /\ io.done <= io.limit /\ io.remaining = io.limit - io.done
      /\ Len(io.data) \in Nat /\ io.done <= Len(io.data)
  BY Numbers, Zenon
<1>2. CASE io.remaining = 0
  BY <1>1, <1>2 DEF Lesser
<1>3. CASE io.done = Len(io.data)
  BY <1>1, <1>3, Zenon DEF Lesser
<1>. QED  BY <1>2, <1>3, Zenon

\* A turn of read_exact.
LEMMA ReadExactKeeps ==
  ASSUME StreamInv, ReadExact
  PROVE  StreamInv'
<1>1. io.call = "read_exact" /\ io.verdict = "running"
  BY Zenon DEF ReadExact, Running
<1>2. CASE Len(io.out) = io.want
  <2>1. Verdict("ok")
    BY <1>2, Zenon DEF ReadExact
  <2>2. Right("ok", io.call, io.done, io.data, io.want, io.limit)
    BY <1>1, <1>2, Numbers, Zenon DEF Right
  <2>. QED  BY <2>1, <2>2, VerdictKeeps, Zenon
<1>3. CASE Len(io.out) # io.want
  <2> DEFINE n == TakeLen(io.want - Len(io.out))
  <2>1. PICK a \in Answers(n) : \/ a.kind = "ok" /\ a.n = 0 /\ Verdict("eof")
                                \/ a.kind = "ok" /\ a.n > 0 /\ io' = Moved(a.n)
                                \/ a.kind = "interrupted" /\ Interrupted
                                \/ a.kind = "broken" /\ Verdict("broken")
    BY <1>3, Zenon DEF ReadExact
  <2>2. n \in Nat /\ n <= io.remaining /\ n <= io.want - io.done /\ (n = 0 <=> io.remaining = 0)
    <3>1. /\ io.done \in Nat /\ io.want \in Nat /\ io.remaining \in Nat
          /\ io.done <= io.want /\ Len(io.out) = io.done
      BY <1>1, Numbers, Zenon
    <3>. QED  BY <1>3, <3>1, SMTT(40) DEF TakeLen, Lesser
  <2> HIDE DEF n
  <2>3. /\ a.kind = "ok" => /\ a.n \in Nat /\ a.n <= n /\ io.done + a.n <= Len(io.data)
                            /\ a.n = 0 => n = 0 \/ io.done = Len(io.data)
        /\ a.kind = "interrupted" => io.pending > 0
    BY <2>2, AnswerBounds, Zenon
  <2>4. CASE a.kind = "ok" /\ a.n = 0 /\ Verdict("eof")
    <3>a. io.remaining = 0 \/ io.done = Len(io.data)
      BY <2>2, <2>3, <2>4, Zenon
    <3>b. io.done < io.want
      BY <1>1, <1>3, Numbers
    <3>0. io.done = Lesser(Len(io.data), io.limit) /\ io.done < io.want
      BY <3>a, <3>b, NoMore, Zenon
    <3>1. Right("eof", io.call, io.done, io.data, io.want, io.limit)
      BY <1>1, <3>0, Zenon DEF Right
    <3>. QED  BY <2>4, <3>1, VerdictKeeps, Zenon
  <2>5. CASE a.kind = "ok" /\ a.n > 0 /\ io' = Moved(a.n)
    <3>1. a.n <= io.remaining /\ io.done + a.n <= io.want
      <4>1. io.done \in Nat /\ io.want \in Nat /\ io.remaining \in Nat
        BY Numbers, Zenon
      <4>. QED  BY <2>2, <2>3, <2>5, <4>1, SMTT(40)
    <3>. QED  BY <1>1, <2>3, <2>5, <3>1, MoveKeeps, Zenon
  <2>6. CASE a.kind = "interrupted" /\ Interrupted
    BY <2>3, <2>6, InterruptKeeps, Zenon
  <2>7. CASE a.kind = "broken" /\ Verdict("broken")
    <3>1. Right("broken", io.call, io.done, io.data, io.want, io.limit)
      BY Zenon DEF Right
    <3>. QED  BY <2>7, <3>1, VerdictKeeps, Zenon
  <2>. QED  BY <2>1, <2>4, <2>5, <2>6, <2>7, Zenon
<1>. QED  BY <1>2, <1>3, Zenon

\* A turn of read_to_end.
LEMMA ReadToEndKeeps ==
  ASSUME StreamInv, ReadToEnd
  PROVE  StreamInv'
<1>1. io.call = "read_to_end" /\ io.verdict = "running"
  BY Zenon DEF ReadToEnd, Running
<1> DEFINE n == TakeLen(ChunkSize)
<1>2. PICK a \in Answers(n) : \/ a.kind = "ok" /\ a.n = 0 /\ Verdict("ok")
                              \/ a.kind = "ok" /\ a.n > 0 /\ io' = Moved(a.n)
                              \/ a.kind = "interrupted" /\ Interrupted
                              \/ a.kind = "broken" /\ Verdict("broken")
  BY Zenon DEF ReadToEnd
<1>3. n \in Nat /\ n <= io.remaining /\ (n = 0 <=> io.remaining = 0)
  BY Numbers, ReadersAssumption, SMTT(40) DEF TakeLen, Lesser
<1> HIDE DEF n
<1>4. /\ a.kind = "ok" => /\ a.n \in Nat /\ a.n <= n /\ io.done + a.n <= Len(io.data)
                          /\ a.n = 0 => n = 0 \/ io.done = Len(io.data)
      /\ a.kind = "interrupted" => io.pending > 0
  BY <1>3, AnswerBounds, Zenon
<1>5. CASE a.kind = "ok" /\ a.n = 0 /\ Verdict("ok")
  <2>a. io.remaining = 0 \/ io.done = Len(io.data)
    BY <1>3, <1>4, <1>5, Zenon
  <2>0. io.done = Lesser(Len(io.data), io.limit)
    BY <2>a, NoMore, Zenon
  <2>1. Right("ok", io.call, io.done, io.data, io.want, io.limit)
    BY <1>1, <2>0, Zenon DEF Right
  <2>. QED  BY <1>5, <2>1, VerdictKeeps, Zenon
<1>6. CASE a.kind = "ok" /\ a.n > 0 /\ io' = Moved(a.n)
  <2>1. a.n <= io.remaining
    BY <1>3, <1>4, <1>6, Numbers, SMTT(40)
  <2>. QED  BY <1>1, <1>4, <1>6, <2>1, MoveKeeps, Zenon
<1>7. CASE a.kind = "interrupted" /\ Interrupted
  BY <1>4, <1>7, InterruptKeeps, Zenon
<1>8. CASE a.kind = "broken" /\ Verdict("broken")
  <2>1. Right("broken", io.call, io.done, io.data, io.want, io.limit)
    BY Zenon DEF Right
  <2>. QED  BY <1>8, <2>1, VerdictKeeps, Zenon
<1>. QED  BY <1>2, <1>5, <1>6, <1>7, <1>8, Zenon

\* A turn of write_all.
LEMMA WriteAllKeeps ==
  ASSUME StreamInv, WriteAll
  PROVE  StreamInv'
<1>1. io.call = "write_all" /\ io.verdict = "running"
  BY Zenon DEF WriteAll, Running
<1>2. CASE Rest = <<>>
  <2>1. Verdict("ok")
    BY <1>2, Zenon DEF WriteAll
  <2>2. Right("ok", io.call, io.done, io.data, io.want, io.limit)
    BY <1>1, <1>2, Numbers, Zenon DEF Right
  <2>. QED  BY <2>1, <2>2, VerdictKeeps, Zenon
<1>3. CASE Rest # <<>>
  <2> DEFINE n == TakeLen(Len(Rest))
  <2>1. PICK a \in Answers(n) : \/ a.kind = "ok" /\ a.n = 0 /\ Verdict("eof")
                                \/ a.kind = "ok" /\ a.n > 0 /\ io' = Moved(a.n)
                                \/ a.kind = "interrupted" /\ Interrupted
                                \/ a.kind = "broken" /\ Verdict("broken")
    BY <1>3, Zenon DEF WriteAll
  <2>2. n \in Nat /\ n <= io.remaining /\ (n = 0 <=> io.remaining = 0)
    BY <1>3, Numbers, SMTT(40) DEF TakeLen, Lesser
  <2> HIDE DEF n
  <2>3. /\ a.kind = "ok" => /\ a.n \in Nat /\ a.n <= n /\ io.done + a.n <= Len(io.data)
                            /\ a.n = 0 => n = 0 \/ io.done = Len(io.data)
        /\ a.kind = "interrupted" => io.pending > 0
    BY <2>2, AnswerBounds, Zenon
  <2>4. CASE a.kind = "ok" /\ a.n = 0 /\ Verdict("eof")
    <3>a. io.remaining = 0 \/ io.done = Len(io.data)
      BY <2>2, <2>3, <2>4, Zenon
    <3>b. io.done < Len(io.data)
      BY <1>3, Numbers
    <3>0. io.done = Lesser(Len(io.data), io.limit) /\ io.done < Len(io.data)
      BY <3>a, <3>b, NoMore, Zenon
    <3>1. Right("eof", io.call, io.done, io.data, io.want, io.limit)
      BY <1>1, <3>0, Zenon DEF Right
    <3>. QED  BY <2>4, <3>1, VerdictKeeps, Zenon
  <2>5. CASE a.kind = "ok" /\ a.n > 0 /\ io' = Moved(a.n)
    <3>1. a.n <= io.remaining
      BY <2>2, <2>3, <2>5, Numbers
    <3>. QED  BY <1>1, <2>3, <2>5, <3>1, MoveKeeps, ZenonT(40)
  <2>6. CASE a.kind = "interrupted" /\ Interrupted
    BY <2>3, <2>6, InterruptKeeps, Zenon
  <2>7. CASE a.kind = "broken" /\ Verdict("broken")
    <3>1. Right("broken", io.call, io.done, io.data, io.want, io.limit)
      BY Zenon DEF Right
    <3>. QED  BY <2>7, <3>1, VerdictKeeps, Zenon
  <2>. QED  BY <2>1, <2>4, <2>5, <2>6, <2>7, Zenon
<1>. QED  BY <1>2, <1>3, Zenon

\* What a Take shows of the buffer is no more than may be consumed.
LEMMA Window ==
  ASSUME StreamInv, NEW shown \in (IF Rest = <<>> THEN {0} ELSE 1..Len(Rest)),
         NEW window, window = TakeFillBuf(SubSeq(Rest, 1, shown))
  PROVE  /\ window \in Seq(Octet) /\ Len(window) <= io.remaining /\ io.done + Len(window) <= Len(io.data)
         /\ window = <<>> => io.remaining = 0 \/ io.done = Len(io.data)
<1>1. /\ io.remaining \in Nat /\ Len(io.data) \in Nat /\ io.done \in Nat /\ io.done <= Len(io.data)
      /\ Len(Rest) = Len(io.data) - io.done /\ Rest \in Seq(Octet)
      /\ Rest = <<>> <=> io.done = Len(io.data)
  BY Numbers, Zenon
<1>2. shown \in Nat /\ shown <= Len(Rest) /\ (shown = 0 <=> Rest = <<>>)
  BY <1>1
<1> DEFINE front == SubSeq(Rest, 0 + 1, shown)
<1>3. front \in Seq(Octet) /\ Len(front) = shown
  BY <1>1, <1>2, Part
<1>4. window = IF io.remaining = 0 THEN <<>> ELSE SubSeq(front, 0 + 1, Lesser(Len(front), io.remaining))
  BY DEF TakeFillBuf
<1> HIDE DEF front
<1>5. CASE io.remaining = 0
  <2>1. window = <<>>
    BY <1>4, <1>5, Zenon
  <2>2. window \in Seq(Octet) /\ Len(window) = 0
    BY <2>1, EmptySeq, Zenon
  <2>. QED  BY <1>1, <1>5, <2>2
<1>6. CASE io.remaining # 0
  <2> DEFINE k == Lesser(Len(front), io.remaining)
  <2>1. k \in Nat /\ k <= Len(front) /\ k <= io.remaining /\ (k = 0 <=> shown = 0)
    BY <1>1, <1>2, <1>3, <1>6 DEF Lesser
  <2> HIDE DEF k
  <2>2. window = SubSeq(front, 0 + 1, k)
    BY <1>4, <1>6, Zenon DEF k
  <2>3. window \in Seq(Octet) /\ Len(window) = k
    BY <1>3, <2>1, <2>2, Part
  <2>4. window = <<>> => io.done = Len(io.data)
    BY <1>1, <1>2, <2>1, <2>3, Zenon
  <2>. QED  BY <1>1, <1>2, <1>3, <2>1, <2>3, <2>4, SMTT(40)
<1>. QED  BY <1>5, <1>6, Zenon

\* A turn of a caller that looks and consumes: it never meets the assertion of consume.
LEMMA FillKeeps ==
  ASSUME StreamInv, FillAndConsume
  PROVE  StreamInv'
<1>1. io.call = "fill_buf" /\ io.verdict = "running"
  BY Zenon DEF FillAndConsume, Running
<1>2. CASE Verdict("broken")
  <2>1. Right("broken", io.call, io.done, io.data, io.want, io.limit)
    BY Zenon DEF Right
  <2>. QED  BY <1>2, <2>1, VerdictKeeps, Zenon
<1>3. ASSUME NEW shown \in (IF Rest = <<>> THEN {0} ELSE 1..Len(Rest)),
             NEW window, window = TakeFillBuf(SubSeq(Rest, 1, shown)),
             \/ window = <<>> /\ Verdict("ok")
             \/ \E amount \in 1..Len(window) :
                  io' = IF amount > io.remaining THEN [io EXCEPT !.verdict = "panic"] ELSE Moved(amount)
      PROVE  StreamInv'
  <2>1. /\ window \in Seq(Octet) /\ Len(window) <= io.remaining /\ io.done + Len(window) <= Len(io.data)
        /\ window = <<>> => io.remaining = 0 \/ io.done = Len(io.data)
    BY <1>3, Window, Zenon
  <2>2. CASE window = <<>> /\ Verdict("ok")
    <3>1. io.done = Lesser(Len(io.data), io.limit)
      BY <2>1, <2>2, NoMore, Zenon
    <3>2. Right("ok", io.call, io.done, io.data, io.want, io.limit)
      BY <1>1, <3>1, Zenon DEF Right
    <3>. QED  BY <2>2, <3>2, VerdictKeeps, Zenon
  <2>3. ASSUME NEW amount \in 1..Len(window),
               io' = IF amount > io.remaining THEN [io EXCEPT !.verdict = "panic"] ELSE Moved(amount)
        PROVE  StreamInv'
    <3>0. io.remaining \in Nat /\ Len(io.data) \in Nat /\ io.done \in Nat /\ Len(window) \in Nat
      BY <2>1, Numbers
    <3>1. amount \in Nat /\ amount <= io.remaining /\ io.done + amount <= Len(io.data)
      BY <2>1, <3>0
    <3>2. io' = Moved(amount)
      BY <2>3, <3>0, <3>1
    <3>. QED  BY <1>1, <3>1, <3>2, MoveKeeps, Zenon
  <2>. QED  BY <1>3, <2>2, <2>3, Zenon
<1>. QED  BY <1>2, <1>3, Zenon DEF FillAndConsume
-----------------------------------------------------------------------------
MemoryStep(slice, cursor, out) ==
  io' = [io EXCEPT !.slice = slice, !.cursor = cursor, !.out = out, !.verdict = @]
\* The record of a slice and a cursor after a call.
LEMMA MemoryAfter ==
  ASSUME MemoryInv, NEW slice, NEW cursor, NEW out,
         MemoryStep(slice, cursor, out)
  PROVE  io' = [call |-> "memory", data |-> io.data, slice |-> slice, cursor |-> cursor, out |-> out,
                verdict |-> io.verdict]
<1>1. PICK data, s, c, o, v : io = [call |-> "memory", data |-> data, slice |-> s, cursor |-> c,
                                    out |-> o, verdict |-> v]
  BY Zenon DEF MemoryInv
<1>2. io' = [call |-> "memory", data |-> data, slice |-> slice, cursor |-> cursor, out |-> out, verdict |-> v]
  BY <1>1, Zenon DEF MemoryStep
<1>3. io.data = data /\ io.verdict = v
  BY ONLY <1>1, Zenon
<1>. QED  BY <1>2, <1>3, Zenon

\* A slice and a cursor that deliver the next k bytes.
LEMMA MemoryMoves ==
  ASSUME MemoryInv, NEW pos \in Nat, NEW k \in Nat, NEW slice, NEW cursor, NEW out,
         io.cursor = [inner |-> io.data, pos |-> pos], pos + k <= Len(io.data),
         io.out = SubSeq(io.data, 1, pos), io.slice = SubSeq(io.data, pos + 1, Len(io.data)),
         slice = SubSeq(io.slice, k + 1, Len(io.slice)), cursor = [io.cursor EXCEPT !.pos = @ + k],
         out = io.out \o SubSeq(io.data, pos + 1, pos + k),
         MemoryStep(slice, cursor, out)
  PROVE  MemoryInv'
<1> DEFINE d == io.data
<1>1. d \in Seq(Octet) /\ io.verdict # "panic" /\ pos + k \in Nat /\ pos <= pos + k /\ Len(d) \in Nat
  BY SMTT(40) DEF MemoryInv, MemoryState
<1>2. io' = [call |-> "memory", data |-> d, slice |-> slice, cursor |-> cursor, out |-> out,
             verdict |-> io.verdict]
  BY MemoryAfter, Zenon
<1>3. cursor = [inner |-> d, pos |-> pos + k]
  OBVIOUS
<1>4. out = SubSeq(d, 1, pos + k)
  <2>1. SubSeq(d, 1, pos) \o SubSeq(d, pos + 1, pos + k) = SubSeq(d, 1, pos + k)
    <3> HIDE DEF d
    <3>. QED  BY <1>1, Joined, ZenonT(40) DEF d
  <2>. QED  BY <2>1, Zenon
<1>5. slice = SubSeq(d, pos + k + 1, Len(d))
  <2>1. SubSeq(io.slice, k + 1, Len(io.slice)) = SubSeq(d, pos + k + 1, Len(d))
    <3> DEFINE rest == io.slice
    <3>1. rest = SubSeq(d, pos + 1, Len(d)) /\ pos + k <= Len(d)
      BY Zenon
    <3> HIDE DEF d, rest
    <3>2. SubSeq(rest, k + 1, Len(rest)) = SubSeq(d, pos + k + 1, Len(d))
      BY ONLY pos \in Nat, k \in Nat, <1>1, <3>1, LeftOver
    <3>. QED  BY <3>2, Zenon DEF rest
  <2>. QED  BY <2>1, Zenon
<1>6. MemoryState(d, slice, cursor, out, io.verdict)
  BY <1>1, <1>3, <1>4, <1>5, Zenon DEF MemoryState
<1>. QED  BY <1>2, <1>6, Zenon DEF MemoryInv

\* The position of the cursor.
LEMMA MemoryAt ==
  ASSUME MemoryInv
  PROVE  \E pos \in Nat : /\ pos <= Len(io.data) /\ io.cursor = [inner |-> io.data, pos |-> pos]
                          /\ io.out = SubSeq(io.data, 1, pos)
                          /\ io.slice = SubSeq(io.data, pos + 1, Len(io.data))
                          /\ Len(io.out) = pos /\ Len(io.slice) = Len(io.data) - pos
                          /\ io.data \in Seq(Octet) /\ Len(io.data) \in Nat
<1>1. io.data \in Seq(Octet) /\ Len(io.data) \in Nat
  BY DEF MemoryInv, MemoryState
<1>2. PICK pos \in Nat : /\ pos <= Len(io.data) /\ io.cursor = [inner |-> io.data, pos |-> pos]
                         /\ io.out = SubSeq(io.data, 1, pos)
                         /\ io.slice = SubSeq(io.data, pos + 1, Len(io.data))
  BY Zenon DEF MemoryInv, MemoryState
<1>3. Len(io.out) = pos
  BY <1>1, <1>2, Joined
<1>4. Len(io.slice) = Len(io.data) - pos
  BY <1>1, <1>2, Part
<1>. QED  BY <1>1, <1>2, <1>3, <1>4, Zenon

\* A read from both.
LEMMA ReadMemoryKeeps ==
  ASSUME MemoryInv, ReadMemory
  PROVE  MemoryInv'
<1>1. PICK pos \in Nat : /\ pos <= Len(io.data) /\ io.cursor = [inner |-> io.data, pos |-> pos]
                         /\ io.out = SubSeq(io.data, 1, pos)
                         /\ io.slice = SubSeq(io.data, pos + 1, Len(io.data))
                         /\ Len(io.out) = pos /\ Len(io.slice) = Len(io.data) - pos
                         /\ io.data \in Seq(Octet) /\ Len(io.data) \in Nat
  BY MemoryAt, Zenon
<1>2. PICK n \in 1..Len(io.data) :
        LET r == CursorRead(io.cursor, n)
        IN  io' = [io EXCEPT !.slice = SliceRead(io.slice, n).rest, !.cursor = r.cursor, !.out = @ \o r.bytes,
                             !.verdict = IF r.ok THEN @ ELSE "panic"]
  BY Zenon DEF ReadMemory
<1> DEFINE k == Lesser(Len(io.data) - pos, n)
<1>3. k \in Nat /\ pos + k <= Len(io.data) /\ n \in Nat
  BY <1>1, <1>2, SMTT(40) DEF Lesser
<1>4. io.cursor.pos = pos /\ io.cursor.inner = io.data
  BY <1>1
<1>5. (IF pos < Len(io.data) THEN Len(io.data) - pos ELSE 0) = Len(io.data) - pos
  BY <1>1
<1>6. /\ CursorRead(io.cursor, n).ok
      /\ CursorRead(io.cursor, n).bytes = SubSeq(io.data, pos + 1, pos + k)
      /\ CursorRead(io.cursor, n).cursor = [io.cursor EXCEPT !.pos = @ + k]
  BY <1>1, <1>4, <1>5, Zenon DEF CursorRead
<1>7. SliceRead(io.slice, n).rest = SubSeq(io.slice, k + 1, Len(io.slice))
  BY <1>1, Zenon DEF SliceRead
<1> DEFINE slice == SubSeq(io.slice, k + 1, Len(io.slice))
           cursor == [io.cursor EXCEPT !.pos = @ + k]
           out == io.out \o SubSeq(io.data, pos + 1, pos + k)
<1> HIDE DEF k
<1>8. MemoryStep(slice, cursor, out)
  BY <1>2, <1>6, <1>7, Zenon DEF MemoryStep
<1> HIDE DEF slice, cursor, out
<1>9. /\ slice = SubSeq(io.slice, k + 1, Len(io.slice)) /\ cursor = [io.cursor EXCEPT !.pos = @ + k]
      /\ out = io.out \o SubSeq(io.data, pos + 1, pos + k)
  BY Zenon DEF slice, cursor, out
<1>. QED  BY <1>1, <1>3, <1>8, <1>9, MemoryMoves, Zenon

\* A look at both, and the same number of bytes consumed from both.
LEMMA ConsumeMemoryKeeps ==
  ASSUME MemoryInv, ConsumeMemory
  PROVE  MemoryInv'
<1>1. PICK pos \in Nat : /\ pos <= Len(io.data) /\ io.cursor = [inner |-> io.data, pos |-> pos]
                         /\ io.out = SubSeq(io.data, 1, pos)
                         /\ io.slice = SubSeq(io.data, pos + 1, Len(io.data))
                         /\ Len(io.out) = pos /\ Len(io.slice) = Len(io.data) - pos
                         /\ io.data \in Seq(Octet) /\ Len(io.data) \in Nat
  BY MemoryAt, Zenon
<1>2. io.cursor.pos = pos /\ io.cursor.inner = io.data
  BY <1>1
<1>4. CursorFillBuf(io.cursor).ok /\ CursorFillBuf(io.cursor).bytes = io.slice
  BY <1>1, <1>2, Zenon DEF CursorFillBuf
<1>5. PICK amount \in 1..Len(io.slice) :
        LET s == SliceConsume(io.slice, amount)
            c == CursorConsume(io.cursor, amount)
        IN  io' = [io EXCEPT !.slice = s.rest, !.cursor = c.cursor, !.out = @ \o SubSeq(io.slice, 1, amount),
                             !.verdict = IF s.ok /\ c.ok THEN @ ELSE "panic"]
  BY <1>4, Zenon DEF ConsumeMemory
<1>6. amount \in Nat /\ pos + amount <= Len(io.data) /\ amount <= Len(io.slice) /\ amount <= Len(io.data)
  BY <1>1, <1>5, SMTT(40)
<1>7. SliceConsume(io.slice, amount).ok /\ SliceConsume(io.slice, amount).rest = SubSeq(io.slice, amount + 1, Len(io.slice))
  BY <1>6, Zenon DEF SliceConsume
<1>8. CursorConsume(io.cursor, amount).ok /\ CursorConsume(io.cursor, amount).cursor = [io.cursor EXCEPT !.pos = @ + amount]
  BY <1>2, <1>6, Zenon DEF CursorConsume
<1>9. SubSeq(io.slice, 1, amount) = SubSeq(io.data, pos + 1, pos + amount)
  <2> DEFINE rest == io.slice
             d == io.data
  <2>1. rest = SubSeq(d, pos + 1, Len(d)) /\ pos + amount <= Len(d) /\ d \in Seq(Octet)
    BY <1>1, <1>6, Zenon
  <2> HIDE DEF rest, d
  <2>2. SubSeq(rest, 1, amount) = SubSeq(d, pos + 1, pos + amount)
    BY ONLY pos \in Nat, <1>6, <2>1, LeftOver
  <2>. QED  BY <2>2, Zenon DEF rest, d
<1> DEFINE slice == SubSeq(io.slice, amount + 1, Len(io.slice))
           cursor == [io.cursor EXCEPT !.pos = @ + amount]
           out == io.out \o SubSeq(io.data, pos + 1, pos + amount)
<1>10. MemoryStep(slice, cursor, out)
  BY <1>5, <1>7, <1>8, <1>9, Zenon DEF MemoryStep
<1> HIDE DEF slice, cursor, out
<1>11. /\ slice = SubSeq(io.slice, amount + 1, Len(io.slice)) /\ cursor = [io.cursor EXCEPT !.pos = @ + amount]
       /\ out = io.out \o SubSeq(io.data, pos + 1, pos + amount)
  BY Zenon DEF slice, cursor, out
<1>. QED  BY <1>1, <1>6, <1>10, <1>11, MemoryMoves, Zenon
-----------------------------------------------------------------------------
\* A call that has just been made.
LEMMA IoInitially == IoInit => IoInv
<1> SUFFICES ASSUME IoInit PROVE IoInv
  BY Zenon
<1>1. PICK data \in Seq(Octet) :
        \/ \E call \in StreamCalls, want \in Nat, limit \in Nat : io = Call(call, data, want, limit)
        \/ io = Memory(data)
  BY Zenon DEF IoInit, Octet
<1>2. Len(data) \in Nat /\ SubSeq(data, 1, 0) = <<>> /\ SubSeq(data, 1, Len(data)) = data
  OBVIOUS
<1>3. ASSUME NEW call \in StreamCalls, NEW want \in Nat, NEW limit \in Nat, io = Call(call, data, want, limit)
      PROVE  StreamInv
  <2>1. StreamState(call, data, 0, <<>>, want, limit, limit, MaxInterrupts, "running")
    BY <1>2, ReadersAssumption DEF StreamState, Right
  <2>. QED  BY <1>3, <2>1, Zenon DEF Call, StreamInv
<1>4. ASSUME io = Memory(data) PROVE MemoryInv
  <2>1. MemoryState(data, data, CursorNew(data), <<>>, "running")
    BY <1>2 DEF MemoryState, CursorNew
  <2>. QED  BY <1>4, <2>1, Zenon DEF Memory, MemoryInv
<1>. QED  BY <1>1, <1>3, <1>4, Zenon DEF IoInv

\* Every turn keeps the invariant.
LEMMA IoInductive == IoInv /\ [IoNext]_io => IoInv'
<1> SUFFICES ASSUME IoInv, [IoNext]_io PROVE IoInv'
  BY Zenon
<1>1. CASE StreamInv
  <2>1. io.call # "memory"
    BY <1>1, Numbers, Zenon DEF StreamCalls
  <2>2. CASE ReadExact
    BY <1>1, <2>2, ReadExactKeeps, Zenon DEF IoInv
  <2>3. CASE ReadToEnd
    BY <1>1, <2>3, ReadToEndKeeps, Zenon DEF IoInv
  <2>4. CASE FillAndConsume
    BY <1>1, <2>4, FillKeeps, Zenon DEF IoInv
  <2>5. CASE WriteAll
    BY <1>1, <2>5, WriteAllKeeps, Zenon DEF IoInv
  <2>6. CASE ReadMemory \/ ConsumeMemory
    BY <2>1, <2>6, Zenon DEF ReadMemory, ConsumeMemory, Running
  <2>7. CASE io' = io
    BY <1>1, <2>7, Zenon DEF IoInv, StreamInv
  <2>. QED  BY <2>2, <2>3, <2>4, <2>5, <2>6, <2>7, Zenon DEF IoNext
<1>2. CASE MemoryInv
  <2>1. io.call = "memory"
    BY <1>2 DEF MemoryInv
  <2>2. CASE ReadMemory
    BY <1>2, <2>2, ReadMemoryKeeps, Zenon DEF IoInv
  <2>3. CASE ConsumeMemory
    BY <1>2, <2>3, ConsumeMemoryKeeps, Zenon DEF IoInv
  <2>4. CASE ReadExact \/ ReadToEnd \/ FillAndConsume \/ WriteAll
    BY <2>1, <2>4, Zenon DEF ReadExact, ReadToEnd, FillAndConsume, WriteAll, Running
  <2>5. CASE io' = io
    BY <1>2, <2>5, Zenon DEF IoInv, MemoryInv
  <2>. QED  BY <2>2, <2>3, <2>4, <2>5, Zenon DEF IoNext
<1>. QED  BY <1>1, <1>2, Zenon DEF IoInv

\* The invariant says what a caller is promised.
LEMMA IoImplied == IoInv => StreamsHold
<1> SUFFICES ASSUME IoInv PROVE StreamsHold
  BY Zenon
<1>1. CASE StreamInv
  <2>1. BytesMove
    BY <1>1, Numbers, Zenon DEF BytesMove, Right
  <2>2. CursorIsSlice
    BY <1>1, Numbers, Zenon DEF CursorIsSlice, StreamCalls
  <2>. QED  BY <2>1, <2>2, Zenon DEF StreamsHold
<1>2. CASE MemoryInv
  <2>1. io.call = "memory" /\ io.verdict # "panic"
    BY <1>2 DEF MemoryInv, MemoryState
  <2>2. PICK pos \in Nat : /\ pos <= Len(io.data) /\ io.cursor = [inner |-> io.data, pos |-> pos]
                           /\ io.out = SubSeq(io.data, 1, pos)
                           /\ io.slice = SubSeq(io.data, pos + 1, Len(io.data))
                           /\ Len(io.out) = pos /\ io.data \in Seq(Octet) /\ Len(io.data) \in Nat
    BY <1>2, MemoryAt, Zenon
  <2> DEFINE d == io.data
  <2>3. d \in Seq(Octet) /\ pos <= Len(d) /\ Len(d) \in Nat
    BY <2>2, Zenon
  <2>4. SubSeq(d, 1, pos) \o SubSeq(d, pos + 1, Len(d)) = d
    <3> HIDE DEF d
    <3>1. SubSeq(d, 1, pos) \o SubSeq(d, pos + 1, Len(d)) = SubSeq(d, 1, Len(d))
      <4> DEFINE b == Len(d)
      <4>1. b \in Nat /\ pos <= b /\ b <= Len(d)
        BY <2>3
      <4> HIDE DEF b
      <4>2. SubSeq(d, 1, pos) \o SubSeq(d, pos + 1, b) = SubSeq(d, 1, b)
        BY <2>3, <4>1, Joined, Zenon
      <4>. QED  BY <4>2, Zenon DEF b
    <3>2. SubSeq(d, 1, Len(d)) = d
      BY ONLY <2>3, Whole, Zenon
    <3>. QED  BY <3>1, <3>2, Zenon
  <2>5. io.out \o io.slice = io.data
    BY <2>2, <2>4, Zenon
  <2>7. io.cursor.pos = Len(io.out)
    BY <2>2
  <2>8. CursorIsSlice
    BY <2>1, <2>5, <2>7, Zenon DEF CursorIsSlice
  <2>6. BytesMove
    BY <2>1, Zenon DEF BytesMove, StreamCalls
  <2>. QED  BY <2>6, <2>8, Zenon DEF StreamsHold
<1>. QED  BY <1>1, <1>2, Zenon DEF IoInv

\* Whatever the bytes, the buffer, the limit and the answers of the inner side, bytes
\* pass readers, writers and cursors in order, once, and with the right verdict
\* (io/src/lib.rs:44, :99, :209, :227, :244).
THEOREM StreamsAlwaysHold == IoSpec => []StreamsHold
<1>. QED  BY IoInitially, IoInductive, IoImplied, PTL DEF IoSpec
-----------------------------------------------------------------------------
\* The handshake.
Kinds == {"version", "verack", "other"}
Packets == {Version("node", 1, 7), Message("verack")}

\* The first message sent is the client's version, the others are its answers.
Sent(outbox) ==
  /\ outbox \in Seq(Packets)
  /\ \A i \in DOMAIN outbox : outbox[i].kind = IF i = 1 THEN "version" ELSE "verack"

\* What has been read and how many messages have been sent, by what the client is doing.
Progress(client, outbox, seen, node) ==
  /\ client \in {"connecting", "refused", "waiting", "panicked", "closed"}
  /\ client \in {"connecting", "refused"} => outbox = <<>> /\ seen = <<>>
  /\ client \in {"waiting", "panicked"} =>
       /\ \A i \in 1..Len(seen) : seen[i] = "version"
       /\ Len(outbox) = Len(seen) + 1
  /\ client = "panicked" => node = "closed"
  /\ client = "closed" =>
       /\ Len(seen) > 0 /\ Len(outbox) = Len(seen)
       /\ \A i \in 1..Len(seen) - 1 : seen[i] = "version"
       /\ seen[Len(seen)] # "version"
NetInv ==
  /\ net = [client |-> net.client, inbox |-> net.inbox, outbox |-> net.outbox, seen |-> net.seen,
            sent |-> net.sent, node |-> net.node]
  /\ net.inbox \in Seq([kind : Kinds]) /\ net.seen \in Seq(Kinds)
  /\ Sent(net.outbox)
  /\ Progress(net.client, net.outbox, net.seen, net.node)

\* Another verack.
LEMMA Answered ==
  ASSUME NEW outbox, Sent(outbox), Len(outbox) > 0
  PROVE  Sent(Append(outbox, Message("verack"))) /\ Len(Append(outbox, Message("verack"))) = Len(outbox) + 1
<1> DEFINE verack == Message("verack")
           longer == Append(outbox, verack)
<1>1. verack \in Packets /\ verack.kind = "verack"
  BY Zenon DEF Packets, Message
<1>2. outbox \in Seq(Packets) /\ Len(outbox) \in Nat /\ DOMAIN outbox = 1..Len(outbox)
  BY DEF Sent
<1> HIDE DEF verack
<1>3. longer \in Seq(Packets) /\ Len(longer) = Len(outbox) + 1
  BY <1>1, <1>2
<1>4. DOMAIN longer = 1..Len(outbox) + 1
  BY <1>3
<1>5. ASSUME NEW i \in DOMAIN longer
      PROVE  longer[i].kind = IF i = 1 THEN "version" ELSE "verack"
  <2>1. CASE i \in DOMAIN outbox
    <3>1. longer[i] = outbox[i]
      BY <1>2, <2>1
    <3>. QED  BY <2>1, <3>1, Zenon DEF Sent
  <2>2. CASE i = Len(outbox) + 1
    <3>1. longer[i] = verack
      BY <1>2, <2>2
    <3>. QED  BY <1>1, <1>2, <2>2, <3>1, SMTT(40)
  <2>. QED  BY <1>2, <1>4, <2>1, <2>2
<1> HIDE DEF longer
<1>6. Sent(longer)
  BY <1>3, <1>5, Zenon DEF Sent
<1>. QED  BY <1>3, <1>6, Zenon DEF longer, verack

\* Another kind read.
LEMMA ReadOn ==
  ASSUME NEW seen \in Seq(Kinds), NEW kind \in Kinds
  PROVE  /\ Append(seen, kind) \in Seq(Kinds) /\ Len(Append(seen, kind)) = Len(seen) + 1
         /\ \A i \in 1..Len(seen) : Append(seen, kind)[i] = seen[i]
         /\ Append(seen, kind)[Len(seen) + 1] = kind
  BY DEF Kinds

\* TcpStream::connect and the first message.
LEMMA ConnectKeeps ==
  ASSUME NetInv, Connect
  PROVE  NetInv'
<1> DEFINE version == Version("node", 1, 7)
<1>1. PICK inbox, sent, node :
        /\ net = [client |-> "connecting", inbox |-> inbox, outbox |-> <<>>, seen |-> <<>>, sent |-> sent, node |-> node]
        /\ inbox \in Seq([kind : Kinds])
  BY Zenon DEF NetInv, Connect, Progress
<1>2. CASE net' = [net EXCEPT !.client = "refused"]
  <2>1. net' = [client |-> "refused", inbox |-> inbox, outbox |-> <<>>, seen |-> <<>>, sent |-> sent, node |-> node]
    BY <1>1, <1>2, Zenon
  <2>2. Sent(<<>>) /\ <<>> \in Seq(Kinds)
    BY EmptySeq DEF Sent
  <2>3. Progress("refused", <<>>, <<>>, node)
    BY Zenon DEF Progress
  <2>. QED  BY <1>1, <2>1, <2>2, <2>3, Zenon DEF NetInv
<1>3. CASE net' = [net EXCEPT !.client = "waiting", !.outbox = <<version>>]
  <2>1. version \in Packets /\ version.kind = "version"
    BY Zenon DEF Packets, Version
  <2> HIDE DEF version
  <2> DEFINE outbox == <<version>>
  <2>2. net' = [client |-> "waiting", inbox |-> inbox, outbox |-> outbox, seen |-> <<>>, sent |-> sent, node |-> node]
    BY <1>1, <1>3, Zenon
  <2>3. Sent(outbox) /\ Len(outbox) = 1
    BY <2>1 DEF Sent
  <2> HIDE DEF outbox
  <2>4. <<>> \in Seq(Kinds) /\ Len(<<>>) = 0
    BY EmptySeq, Zenon
  <2>5. Progress("waiting", outbox, <<>>, node)
    BY <2>3, <2>4 DEF Progress
  <2>. QED  BY <1>1, <2>2, <2>3, <2>4, <2>5, Zenon DEF NetInv
<1>. QED  BY <1>2, <1>3, Zenon DEF Connect

\* A turn of the client's loop.
LEMMA ReceiveKeeps ==
  ASSUME NetInv, Receive
  PROVE  NetInv'
<1>1. PICK inbox, outbox, seen, sent, node :
        /\ net = [client |-> "waiting", inbox |-> inbox, outbox |-> outbox, seen |-> seen, sent |-> sent, node |-> node]
        /\ inbox \in Seq([kind : Kinds]) /\ seen \in Seq(Kinds) /\ Sent(outbox)
        /\ Progress("waiting", outbox, seen, node)
  BY DEF NetInv, Receive
<1>2. /\ \A i \in 1..Len(seen) : seen[i] = "version"
      /\ Len(outbox) = Len(seen) + 1 /\ Len(seen) \in Nat
  BY <1>1 DEF Progress
<1>3. ASSUME inbox # <<>>,
             LET kind == Head(inbox).kind
             IN  net' = [net EXCEPT !.inbox = Tail(@), !.seen = Append(@, kind), !.client = AfterReply(kind),
                                    !.outbox = IF kind = "version" THEN Append(@, Message("verack")) ELSE @]
      PROVE  NetInv'
  <2> DEFINE kind == Head(inbox).kind
             read == Append(seen, kind)
             verack == Message("verack")
             answer == IF kind = "version" THEN Append(outbox, verack) ELSE outbox
  <2>1. kind \in Kinds /\ Tail(inbox) \in Seq([kind : Kinds])
    <3>1. Head(inbox) \in [kind : Kinds] /\ Tail(inbox) \in Seq([kind : Kinds])
      BY <1>1, <1>3, HeadTailProperties, Zenon
    <3>. QED  BY <3>1, Zenon
  <2>2. net' = [client |-> AfterReply(kind), inbox |-> Tail(inbox), outbox |-> answer, seen |-> read,
                sent |-> sent, node |-> node]
    BY <1>1, <1>3, Zenon
  <2> HIDE DEF kind
  <2>3. /\ read \in Seq(Kinds) /\ Len(read) = Len(seen) + 1
        /\ \A i \in 1..Len(seen) : read[i] = seen[i]
        /\ read[Len(seen) + 1] = kind
    BY <1>1, <2>1, ReadOn, Zenon
  <2> HIDE DEF read
  <2>4. CASE kind = "version"
    <3>1. Sent(answer) /\ Len(answer) = Len(outbox) + 1
      BY <1>1, <1>2, <2>4, Answered
    <3> HIDE DEF answer
    <3>2. \A i \in 1..Len(read) : read[i] = "version"
      BY <1>2, <2>3, <2>4
    <3>3. Len(answer) = Len(read) + 1
      BY <1>2, <2>3, <3>1, Zenon
    <3>4. Progress("waiting", answer, read, node)
      BY <3>2, <3>3, Zenon DEF Progress
    <3>5. AfterReply(kind) = "waiting"
      BY <2>4, Zenon DEF AfterReply
    <3>. QED  BY <2>1, <2>2, <2>3, <3>1, <3>4, <3>5, Zenon DEF NetInv
  <2>5. CASE kind # "version"
    <3>1. answer = outbox /\ AfterReply(kind) = "closed"
      BY <2>5, Zenon DEF AfterReply
    <3> HIDE DEF answer
    <3>2. Len(read) > 0 /\ Len(outbox) = Len(read) /\ Len(read) - 1 = Len(seen)
      BY <1>2, <2>3
    <3>3. \A i \in 1..Len(read) - 1 : read[i] = "version"
      BY <1>2, <2>3, <3>2, Zenon
    <3>4. read[Len(read)] # "version"
      BY <2>3, <2>5, Zenon
    <3>5. Progress("closed", outbox, read, node)
      BY <3>2, <3>3, <3>4, Zenon DEF Progress
    <3>. QED  BY <1>1, <2>1, <2>2, <2>3, <3>1, <3>5, Zenon DEF NetInv
  <2>. QED  BY <2>4, <2>5, Zenon
<1>4. ASSUME node = "closed", net' = [net EXCEPT !.client = "panicked"]
      PROVE  NetInv'
  <2>1. net' = [client |-> "panicked", inbox |-> inbox, outbox |-> outbox, seen |-> seen, sent |-> sent, node |-> node]
    BY <1>1, <1>4, Zenon
  <2>2. Progress("panicked", outbox, seen, node)
    BY <1>2, <1>4, Zenon DEF Progress
  <2>. QED  BY <1>1, <2>1, <2>2, Zenon DEF NetInv
<1>5. net.inbox = inbox /\ net.node = node
  BY <1>1, Zenon
<1>. QED  BY <1>3, <1>4, <1>5, Zenon DEF Receive

\* The node sends and hangs up.
LEMMA NodeKeeps ==
  ASSUME NetInv, NodeSends \/ NodeCloses
  PROVE  NetInv'
<1>1. PICK client, inbox, outbox, seen, sent, node :
        /\ net = [client |-> client, inbox |-> inbox, outbox |-> outbox, seen |-> seen, sent |-> sent, node |-> node]
        /\ inbox \in Seq([kind : Kinds]) /\ seen \in Seq(Kinds) /\ Sent(outbox)
        /\ Progress(client, outbox, seen, node)
  BY Zenon DEF NetInv
<1>2. CASE NodeSends
  <2>1. PICK kind \in Kinds : net' = [net EXCEPT !.inbox = Append(@, Message(kind)), !.sent = @ + 1]
    BY <1>2, Zenon DEF NodeSends, Kinds
  <2> DEFINE message == Message(kind)
             longer == Append(inbox, message)
  <2>2. message \in [kind : Kinds]
    BY Zenon DEF Message
  <2>3. net' = [client |-> client, inbox |-> longer, outbox |-> outbox, seen |-> seen, sent |-> sent + 1, node |-> node]
    BY <1>1, <2>1, Zenon
  <2> HIDE DEF message
  <2>4. longer \in Seq([kind : Kinds])
    BY <1>1, <2>2
  <2> HIDE DEF longer
  <2>. QED  BY <1>1, <2>3, <2>4, Zenon DEF NetInv
<1>3. CASE NodeCloses
  <2>1. net' = [client |-> client, inbox |-> inbox, outbox |-> outbox, seen |-> seen, sent |-> sent, node |-> "closed"]
    BY <1>1, <1>3, Zenon DEF NodeCloses
  <2>2. Progress(client, outbox, seen, "closed")
    BY <1>1, Zenon DEF Progress
  <2>. QED  BY <1>1, <2>1, <2>2, Zenon DEF NetInv
<1>. QED  BY <1>2, <1>3, Zenon

\* The client of examples/handshake.rs answers every version that it reads and leaves at
\* the first message of another kind, however many messages the node sends and whenever
\* it hangs up.
THEOREM HandshakeAlwaysAnswers == NetSpec => []HandshakeAnswers
<1>1. net = Connecting => NetInv
  <2> SUFFICES ASSUME net = Connecting PROVE NetInv
    BY Zenon
  <2>1. <<>> \in Seq(Kinds) /\ <<>> \in Seq([kind : Kinds]) /\ Sent(<<>>)
    BY EmptySeq DEF Sent
  <2>2. Progress("connecting", <<>>, <<>>, "open")
    BY Zenon DEF Progress
  <2>. QED  BY <2>1, <2>2, Zenon DEF Connecting, NetInv
<1>2. NetInv /\ [NetNext]_net => NetInv'
  <2>1. NetInv /\ net' = net => NetInv'
    BY Zenon DEF NetInv
  <2>. QED  BY <2>1, ConnectKeeps, ReceiveKeeps, NodeKeeps, Zenon DEF NetNext
<1>3. NetInv => HandshakeAnswers
  BY Zenon DEF NetInv, Sent, Progress, HandshakeAnswers
<1>. QED  BY <1>1, <1>2, <1>3, PTL DEF NetSpec
-----------------------------------------------------------------------------
(***************************************************************************)
(* The hash engines, for every size of a block, of the length and of a     *)
(* digest.  The inductive invariant says of each engine what it was fed:   *)
(* it holds the whole blocks of it and keeps the rest in its buffer.       *)
(***************************************************************************)

EngineRecords(S) == [h : Seq(S), buffer : {b \in Seq(S) : Len(b) = BlockSize}, length : Nat]

\* An engine that was fed m, in whatever pieces.
Holds(S, e, m) ==
  /\ e \in EngineRecords(S) /\ m \in Seq(S) /\ e.length = Len(m)
  /\ e.h \o SubSeq(e.buffer, 1, BufIdx(e)) = m

\* buf_idx is a place in the buffer.
LEMMA Place ==
  ASSUME NEW S, NEW e \in EngineRecords(S)
  PROVE  BufIdx(e) \in Nat /\ BufIdx(e) < BlockSize /\ BlockSize \in Nat /\ BlockSize > 0
<1>1. BlockSize \in Nat /\ BlockSize > 0
  BY EngineAssumption
<1>2. e.length \in Nat
  BY DEF EngineRecords
<1>. QED  BY <1>1, <1>2, Division DEF BufIdx

\* Three sequences, in a form that is easy to cite.
Chained(s, t, u) == (s \o t) \o u = s \o (t \o u)
LEMMA Associates ==
  ASSUME NEW S, NEW s \in Seq(S), NEW t \in Seq(S), NEW u \in Seq(S)
  PROVE  Chained(s, t, u)
BY ConcatAssociative, SMTT(40) DEF Chained

\* The front of two sequences.
LEMMA FrontOf ==
  ASSUME NEW S, NEW s \in Seq(S), NEW t \in Seq(S)
  PROVE  SubSeq(s \o t, 1, Len(s)) = s
OBVIOUS

\* What is written behind the valid bytes is the rest of them.
LEMMA Written ==
  ASSUME NEW S, NEW e \in EngineRecords(S), NEW inp \in Seq(S), NEW n \in Nat,
         n <= Len(inp), BufIdx(e) + n <= BlockSize
  PROVE  /\ Filled(e, inp, n) \in EngineRecords(S)
         /\ Filled(e, inp, n).h = e.h /\ Filled(e, inp, n).length = e.length + n
         /\ SubSeq(Filled(e, inp, n).buffer, 1, BufIdx(e) + n) = SubSeq(e.buffer, 1, BufIdx(e)) \o SubSeq(inp, 1, n)
<1> DEFINE i == BufIdx(e)  buf == e.buffer
           front == SubSeq(buf, 1, i)  new == SubSeq(inp, 1, n)  back == SubSeq(buf, i + n + 1, BlockSize)
           both == front \o new
           all == both \o back
<1>0. i \in Nat /\ i < BlockSize /\ BlockSize \in Nat /\ BlockSize > 0 /\ i + n <= BlockSize
  BY Place
<1>1. buf \in Seq(S) /\ Len(buf) = BlockSize /\ e.h \in Seq(S) /\ e.length \in Nat
  BY DEF EngineRecords
<1> HIDE DEF i, buf
<1>2. front \in Seq(S) /\ Len(front) = i
  BY <1>0, <1>1
<1>3. new \in Seq(S) /\ Len(new) = n
  OBVIOUS
<1>4. back \in Seq(S) /\ Len(back) = BlockSize - (i + n)
  BY <1>0, <1>1
<1> HIDE DEF front, new, back
<1>5. both \in Seq(S) /\ Len(both) = i + n
  BY <1>2, <1>3, ConcatProperties, Zenon
<1> HIDE DEF both
<1>6. all \in Seq(S) /\ Len(all) = BlockSize
  <2>1. all \in Seq(S) /\ Len(all) = Len(both) + Len(back)
    BY <1>4, <1>5, ConcatProperties, Zenon
  <2>. QED  BY <1>0, <1>4, <1>5, <2>1, SMTT(40)
<1>7. SubSeq(all, 1, i + n) = both
  BY <1>4, <1>5, FrontOf
<1> HIDE DEF all
<1>8. Filled(e, inp, n) = [h |-> e.h, length |-> e.length + n, buffer |-> all]
  BY Zenon DEF Filled, all, both, front, new, back, i, buf
<1>9. Filled(e, inp, n) \in EngineRecords(S)
  BY <1>1, <1>6, <1>8 DEF EngineRecords
<1>10. SubSeq(all, 1, BufIdx(e) + n) = SubSeq(e.buffer, 1, BufIdx(e)) \o SubSeq(inp, 1, n)
  BY <1>7, Zenon DEF both, front, new, i, buf
<1>11. Filled(e, inp, n).h = e.h /\ Filled(e, inp, n).length = e.length + n /\ Filled(e, inp, n).buffer = all
  BY <1>8
<1>. QED  BY <1>9, <1>10, <1>11, Zenon

\* How much a turn takes.
LEMMA Taken ==
  ASSUME NEW S, NEW e \in EngineRecords(S), NEW inp \in Seq(S), inp # <<>>
  PROVE  WriteLen(e, inp) \in 1 .. Len(inp) /\ BufIdx(e) + WriteLen(e, inp) <= BlockSize
<1>1. BufIdx(e) \in Nat /\ BufIdx(e) < BlockSize /\ BlockSize \in Nat
  BY Place
<1>2. Len(inp) \in Nat /\ Len(inp) > 0
  OBVIOUS
<1>. QED  BY <1>1, <1>2 DEF WriteLen, Least

\* A turn of the loop leaves an engine.
LEMMA StepIsEngine ==
  ASSUME NEW S, NEW e \in EngineRecords(S), NEW inp \in Seq(S), inp # <<>>
  PROVE  InputStep(e, inp) \in EngineRecords(S)
<1> DEFINE n == WriteLen(e, inp)  f == Filled(e, inp, n)
<1>1. n \in Nat /\ n <= Len(inp) /\ BufIdx(e) + n <= BlockSize
  BY Taken
<1> HIDE DEF n
<1>2. f \in EngineRecords(S)
  BY <1>1, Written
<1> HIDE DEF f
<1>3. ProcessBlock(f) \in EngineRecords(S)
  <2>1. f.h \in Seq(S) /\ f.buffer \in Seq(S)
    BY <1>2 DEF EngineRecords
  <2>2. f.h \o f.buffer \in Seq(S)
    BY <2>1, ConcatProperties
  <2>. QED  BY <1>2, <2>2, Zenon DEF ProcessBlock, EngineRecords
<1>4. InputStep(e, inp) = IF BufIdx(f) = 0 THEN ProcessBlock(f) ELSE f
  BY Zenon DEF InputStep, Processed, f, n
<1>. QED  BY <1>2, <1>3, <1>4

\* A turn feeds what it takes.
LEMMA StepHolds ==
  ASSUME NEW S, NEW e, NEW m, Holds(S, e, m), NEW inp \in Seq(S), inp # <<>>
  PROVE  Holds(S, InputStep(e, inp), m \o SubSeq(inp, 1, WriteLen(e, inp)))
<1> DEFINE n == WriteLen(e, inp)  f == Filled(e, inp, n)  new == SubSeq(inp, 1, n)  i == BufIdx(e)
           front == SubSeq(e.buffer, 1, i)
<1>0. e \in EngineRecords(S) /\ m \in Seq(S) /\ e.length = Len(m) /\ e.h \o front = m
  BY Zenon DEF Holds
<1>1. n \in Nat /\ 1 <= n /\ n <= Len(inp) /\ i + n <= BlockSize
  BY <1>0, Taken
<1>2. i \in Nat /\ i < BlockSize /\ BlockSize \in Nat /\ BlockSize > 0
  BY <1>0, Place
<1>3. e.h \in Seq(S) /\ e.buffer \in Seq(S) /\ Len(e.buffer) = BlockSize /\ e.length \in Nat
  BY <1>0 DEF EngineRecords
<1>4. front \in Seq(S)
  BY <1>2, <1>3
<1>5. new \in Seq(S) /\ Len(new) = n
  BY <1>1
<1>6. /\ f \in EngineRecords(S) /\ f.h = e.h /\ f.length = e.length + n
      /\ SubSeq(f.buffer, 1, i + n) = front \o new
  BY <1>0, <1>1, Written, ZenonT(40)
<1>7. BufIdx(f) = IF i + n = BlockSize THEN 0 ELSE i + n
  <2>1. i = e.length % BlockSize
    BY DEF BufIdx
  <2> HIDE DEF i, n, f
  <2>2. (e.length % BlockSize) + n <= BlockSize
    BY <1>1, <2>1
  <2>3. (e.length + n) % BlockSize = IF (e.length % BlockSize) + n = BlockSize THEN 0 ELSE (e.length % BlockSize) + n
    <3> DEFINE len == e.length
    <3>1. len \in Nat /\ (len % BlockSize) + n <= BlockSize
      BY <1>3, <2>2
    <3> HIDE DEF len
    <3>2. (len + n) % BlockSize = IF (len % BlockSize) + n = BlockSize THEN 0 ELSE (len % BlockSize) + n
      BY <1>1, <1>2, <3>1, RemainderGrows, SMTT(40)
    <3>. QED  BY <3>2 DEF len
  <2>. QED  BY <1>6, <2>1, <2>3 DEF BufIdx
<1>8. InputStep(e, inp) = IF BufIdx(f) = 0 THEN ProcessBlock(f) ELSE f
  BY Zenon DEF InputStep, Processed, f, n
<1>9. m \o new \in Seq(S) /\ Len(m \o new) = e.length + n
  BY <1>0, <1>5, ConcatProperties
<1>10. m \o new = e.h \o (front \o new)
  <2> DEFINE h == e.h
  <2>1. h \in Seq(S)
    BY <1>3
  <2> HIDE DEF front, new, h
  <2>2. (h \o front) \o new = h \o (front \o new)
    <3>1. Chained(h, front, new)
      BY <1>4, <1>5, <2>1, Associates, Zenon
    <3>. QED  BY <3>1, Zenon DEF Chained
  <2>. QED  BY <1>0, <2>2, Zenon DEF h
<1> HIDE DEF n, f, new, i, front
<1>11. CASE i + n = BlockSize
  <2>1. BufIdx(f) = 0 /\ InputStep(e, inp) = ProcessBlock(f)
    BY <1>7, <1>8, <1>11
  <2>2. f.buffer = front \o new
    <3>1. f.buffer \in Seq(S) /\ Len(f.buffer) = BlockSize
      BY <1>6 DEF EngineRecords
    <3>2. SubSeq(f.buffer, 1, BlockSize) = f.buffer
      BY <3>1, SubSeqFull
    <3>. QED  BY <1>6, <1>11, <3>2, Zenon
  <2> DEFINE g == ProcessBlock(f)
  <2>3. /\ g.h = m \o new /\ g.buffer = f.buffer /\ g.length = e.length + n
        /\ g \in EngineRecords(S)
    BY <1>6, <1>9, <1>10, <2>2, Zenon DEF ProcessBlock, EngineRecords
  <2>4. BufIdx(g) = 0
    BY <1>6, <2>1, <2>3 DEF BufIdx
  <2> HIDE DEF g
  <2>5. SubSeq(g.buffer, 1, 0) = <<>>
    BY SubSeqEmpty
  <2>6. g.h \o SubSeq(g.buffer, 1, BufIdx(g)) = m \o new
    BY <1>9, <2>3, <2>4, <2>5, ConcatEmptySeq, SMTT(40)
  <2>7. Holds(S, g, m \o new)
    BY <1>9, <2>3, <2>6, Zenon DEF Holds
  <2>. QED  BY <2>1, <2>7 DEF g, n, new
<1>12. CASE i + n # BlockSize
  <2>1. BufIdx(f) = i + n /\ InputStep(e, inp) = f
    BY <1>1, <1>2, <1>7, <1>8, <1>12, SMTT(40)
  <2>2. Holds(S, f, m \o new)
    BY <1>6, <1>9, <1>10, <2>1, Zenon DEF Holds
  <2>. QED  BY <2>1, <2>2 DEF n, new
<1>. QED  BY <1>11, <1>12

Loops(S) == [e : EngineRecords(S), rest : Seq(S)]
Turns(f, e, inp) ==
  /\ f[0] = [e |-> e, rest |-> inp]
  /\ \A k \in 1 .. Len(inp) : f[k] = LoopTurn(f[k - 1])

\* A turn leaves an engine and bytes.
LEMMA TurnIsLoop ==
  ASSUME NEW S, NEW t \in Loops(S)
  PROVE  LoopTurn(t) \in Loops(S)
<1>0. t.e \in EngineRecords(S) /\ t.rest \in Seq(S)
  BY DEF Loops
<1>1. CASE t.rest = <<>>
  BY <1>1 DEF LoopTurn
<1>2. CASE t.rest # <<>>
  <2> DEFINE inp == t.rest  n == WriteLen(t.e, inp)  next == InputStep(t.e, inp)  left == SubSeq(inp, n + 1, Len(inp))
  <2>1. next \in EngineRecords(S)
    BY <1>0, <1>2, StepIsEngine
  <2>2. n \in 1 .. Len(inp)
    BY <1>0, <1>2, Taken
  <2> HIDE DEF n
  <2>3. left \in Seq(S)
    BY <1>0, <2>2
  <2>4. LoopTurn(t) = [e |-> next, rest |-> left]
    BY <1>2 DEF LoopTurn, n
  <2> HIDE DEF left, next
  <2>. QED  BY <2>1, <2>3, <2>4 DEF Loops
<1>. QED  BY <1>1, <1>2

\* The loop of input.
LEMMA InputTurns ==
  ASSUME NEW S, NEW e \in EngineRecords(S), NEW inp \in Seq(S)
  PROVE  \E f : Turns(f, e, inp) /\ Input(e, inp) = f[Len(inp)].e
<1> DEFINE N == Len(inp)
           V == Loops(S)
           base == [e |-> e, rest |-> inp]
           step == [tn \in V \X (1 .. N) |-> LoopTurn(tn[1])]
           turns == CHOOSE f : f = [k \in 0 .. N |-> IF k = 0 THEN base ELSE LoopTurn(f[k - 1])]
<1>1. N \in Nat
  OBVIOUS
<1>2. base \in V
  BY DEF Loops
<1> HIDE DEF V
<1>3. \A t \in V, n \in 1 .. N : step[<<t, n>>] = LoopTurn(t)
  OBVIOUS
<1>4. \A t \in V : LoopTurn(t) \in V
  BY TurnIsLoop DEF V
<1>5. Stepwise(step, V, N)
  <2>1. \A tn \in V \X (1 .. N) : LoopTurn(tn[1]) \in V
    BY <1>4
  <2>. QED  BY <2>1 DEF Stepwise
<1> HIDE DEF step, N, base
<1>6. PICK f : Iterates(f, base, step, V, N)
  BY <1>1, <1>2, <1>5, Recursion, Zenon
<1>7. f = [k \in 0 .. N |-> IF k = 0 THEN base ELSE LoopTurn(f[k - 1])]
  <2>1. ASSUME NEW k \in 1 .. N PROVE f[k] = LoopTurn(f[k - 1])
    <3>1. k - 1 \in 0 .. N
      BY <1>1
    <3>2. f[k - 1] \in V /\ f[k] = step[<<f[k - 1], k>>]
      BY <1>6, <3>1 DEF Iterates
    <3>. QED  BY <1>3, <3>2
  <2>2. f[0] = base /\ f = [k \in 0 .. N |-> f[k]]
    BY <1>6 DEF Iterates
  <2>3. \A k \in 0 .. N : f[k] = IF k = 0 THEN base ELSE LoopTurn(f[k - 1])
    BY <1>1, <2>1, <2>2, SMTT(40)
  <2>. QED  BY <2>2, <2>3, Zenon
<1>8. turns = [k \in 0 .. N |-> IF k = 0 THEN base ELSE LoopTurn(turns[k - 1])]
  BY <1>7, Zenon
<1>9. Input(e, inp) = turns[N].e
  BY DEF Input, base, N
<1> HIDE DEF turns
<1>10. turns[0] = base /\ \A k \in 1 .. N : turns[k] = LoopTurn(turns[k - 1])
  BY <1>1, <1>8
<1>. QED  BY <1>9, <1>10 DEF Turns, base, N

\* Where the loop is after some turns: it has fed the first k bytes.
At(S, t, m, inp, k) ==
  /\ t.rest = SubSeq(inp, k + 1, Len(inp))
  /\ Holds(S, t.e, m \o SubSeq(inp, 1, k))

\* A turn gets further, or the input is fed.
LEMMA TurnGoesOn ==
  ASSUME NEW S, NEW t, NEW m \in Seq(S), NEW inp \in Seq(S), NEW k \in 0 .. Len(inp), At(S, t, m, inp, k)
  PROVE  \E j \in 0 .. Len(inp) : (j > k \/ j = Len(inp)) /\ At(S, LoopTurn(t), m, inp, j)
<1> DEFINE N == Len(inp)
<1>0. N \in Nat /\ k \in Nat /\ k <= N /\ inp \in Seq(S)
  OBVIOUS
<1>1. t.rest \in Seq(S) /\ Len(t.rest) = N - k /\ t.rest = SubSeq(inp, k + 1, N)
  BY DEF At
<1>2. CASE k = N
  <2>1. t.rest = <<>>
    BY <1>1, <1>2, SMTT(40)
  <2>2. LoopTurn(t) = t
    BY <2>1 DEF LoopTurn
  <2>. QED  BY <1>2, <2>2
<1>3. CASE k # N
  <2> DEFINE w == WriteLen(t.e, t.rest)  p == SubSeq(inp, 1, k)  new == SubSeq(t.rest, 1, w)
             left == SubSeq(t.rest, w + 1, Len(t.rest))
  <2>1. t.rest # <<>>
    <3>1. N - k # 0 /\ Len(<<>>) = 0
      BY <1>0, <1>3
    <3>. QED  BY <1>1, <3>1, Zenon
  <2>2. t.e \in EngineRecords(S) /\ Holds(S, t.e, m \o p)
    BY Zenon DEF At, Holds
  <2>3. w \in 1 .. N - k
    BY <1>1, <2>1, <2>2, Taken, Zenon
  <2>4. Holds(S, InputStep(t.e, t.rest), (m \o p) \o new)
    BY <1>1, <2>1, <2>2, StepHolds, Zenon
  <2>5. LoopTurn(t) = [e |-> InputStep(t.e, t.rest), rest |-> left]
    BY <2>1 DEF LoopTurn
  <2> HIDE DEF w, N
  <2>6. left = SubSeq(inp, k + w + 1, N)
    BY <1>0, <1>1, <2>3, SMTT(40) DEF N
  <2>7. p \o new = SubSeq(inp, 1, k + w)
    BY <1>0, <1>1, <2>3, SMTT(40) DEF N
  <2>8. p \in Seq(S) /\ new \in Seq(S)
    BY <1>0, <1>1, <2>3, SMTT(40) DEF N
  <2> HIDE DEF p, new, left
  <2>9. (m \o p) \o new = m \o (p \o new)
    <3>1. Chained(m, p, new)
      BY <2>8, Associates, Zenon
    <3>. QED  BY <3>1, Zenon DEF Chained
  <2>10. k + w \in 0 .. N /\ k + w > k
    BY <1>0, <2>3
  <2>11. At(S, LoopTurn(t), m, inp, k + w)
    <3>1. LoopTurn(t).e = InputStep(t.e, t.rest) /\ LoopTurn(t).rest = left
      BY <2>5
    <3>2. (k + w) + 1 = k + w + 1
      OBVIOUS
    <3>. QED  BY <2>4, <2>6, <2>7, <2>9, <3>1, <3>2, ZenonT(40) DEF At, N
  <2>. QED  BY <2>10, <2>11 DEF N
<1>. QED  BY <1>2, <1>3

\* Input feeds what it is given.
LEMMA InputHolds ==
  ASSUME NEW S, NEW e, NEW m, Holds(S, e, m), NEW inp \in Seq(S)
  PROVE  Holds(S, Input(e, inp), m \o inp)
<1> DEFINE N == Len(inp)
<1>0. e \in EngineRecords(S) /\ m \in Seq(S) /\ N \in Nat
  BY DEF Holds
<1>1. PICK f : Turns(f, e, inp) /\ Input(e, inp) = f[N].e
  BY <1>0, InputTurns
<1> DEFINE P == {n \in 0 .. N : \E k \in 0 .. N : k >= n /\ At(S, f[n], m, inp, k)}
<1>2. 0 \in P
  <2>1. f[0].e = e /\ f[0].rest = inp
    BY <1>1 DEF Turns
  <2>2. SubSeq(inp, 0 + 1, Len(inp)) = inp
    BY SubSeqFull
  <2>3. SubSeq(inp, 1, 0) = <<>>
    BY SubSeqEmpty
  <2>4. m \o SubSeq(inp, 1, 0) = m
    BY <1>0, <2>3, ConcatEmptySeq
  <2>5. At(S, f[0], m, inp, 0)
    BY <2>1, <2>2, <2>4, Zenon DEF At
  <2>. QED  BY <1>0, <2>5
<1>3. ASSUME NEW n \in 1 .. N, n - 1 \in P PROVE n \in P
  <2>1. PICK k \in 0 .. N : k >= n - 1 /\ At(S, f[n - 1], m, inp, k)
    BY <1>3
  <2>2. f[n] = LoopTurn(f[n - 1])
    BY <1>1 DEF Turns
  <2>3. PICK j \in 0 .. N : (j > k \/ j = N) /\ At(S, f[n], m, inp, j)
    BY <1>0, <2>1, <2>2, TurnGoesOn, SMTT(40)
  <2>4. j >= n /\ n \in 0 .. N
    BY <1>0, <2>1, <2>3
  <2>. QED  BY <2>3, <2>4
<1> HIDE DEF P, N
<1>4. \A n \in 0 .. N : n \in P
  BY <1>0, <1>2, <1>3, UpTo, Zenon
<1>5. PICK k \in 0 .. N : k >= N /\ At(S, f[N], m, inp, k)
  <2>1. N \in 0 .. N
    BY <1>0
  <2>. QED  BY <1>4, <2>1, Zenon DEF P
<1>6. k = N
  BY <1>0, <1>5
<1>7. SubSeq(inp, 1, N) = inp
  BY SubSeqFull DEF N
<1>. QED  BY <1>1, <1>5, <1>6, <1>7, Zenon DEF At
-----------------------------------------------------------------------------
\* The blocks of a padded message, and the zeros in it.
Chunks(len) == (len + (LenSize + 1) + (BlockSize - 1)) \div BlockSize
ZeroCount(len) == CHOOSE k \in 0 .. BlockSize - 1 : (len + 1 + k + LenSize) % BlockSize = 0

LEMMA Sizes == BlockSize \in Nat /\ BlockSize > 0 /\ LenSize \in Nat /\ LenSize > 0 /\ 2 * LenSize <= BlockSize
BY EngineAssumption

\* A message that ends with a block has the blocks that const_hash counts.
LEMMA ChunksOf ==
  ASSUME NEW len \in Nat, NEW k \in 0 .. BlockSize - 1, NEW q \in Nat, len + 1 + k + LenSize = q * BlockSize
  PROVE  Chunks(len) = q
<1> DEFINE n == len + (LenSize + 1) + (BlockSize - 1)  r == BlockSize - 1 - k
<1>1. r \in Nat /\ r < BlockSize /\ n = q * BlockSize + r /\ BlockSize \in Nat /\ BlockSize > 0
  BY Sizes
<1> HIDE DEF n, r
<1>2. n \div BlockSize = q
  BY <1>1, DivisionIs, Zenon
<1>. QED  BY <1>2 DEF Chunks, n

\* There is one number of zeros that fills the last block.
LEMMA OneCount ==
  ASSUME NEW len \in Nat, NEW k \in 0 .. BlockSize - 1, NEW q \in Nat, len + 1 + k + LenSize = q * BlockSize
  PROVE  ZeroCount(len) = k
<1> DEFINE Fills(j) == (len + 1 + j + LenSize) % BlockSize = 0
<1>1. Fills(k)
  <2> DEFINE n == len + 1 + k + LenSize  z == 0
  <2>1. z \in Nat /\ z < BlockSize /\ n = q * BlockSize + z /\ BlockSize \in Nat /\ BlockSize > 0
    BY Sizes
  <2> HIDE DEF n, z
  <2>2. n % BlockSize = z
    BY <2>1, DivisionIs, Zenon
  <2>. QED  BY <2>2 DEF n, z
<1>2. ASSUME NEW j \in 0 .. BlockSize - 1, Fills(j) PROVE j = k
  <2> DEFINE n == len + 1 + j + LenSize  p == n \div BlockSize
  <2>1. n \in Nat /\ BlockSize \in Nat /\ BlockSize > 0 /\ n % BlockSize = 0
    BY <1>2, Sizes
  <2> HIDE DEF n
  <2>2. p \in Nat /\ n = p * BlockSize
    BY <2>1, Division
  <2> HIDE DEF p
  <2>3. Chunks(len) = p
    BY <2>2, ChunksOf DEF n
  <2>4. Chunks(len) = q
    BY ChunksOf
  <2>5. n = len + 1 + k + LenSize
    BY <2>2, <2>3, <2>4
  <2>. QED  BY <2>5, Sizes DEF n
<1> HIDE DEF Fills
<1>3. (CHOOSE j \in 0 .. BlockSize - 1 : Fills(j)) = k
  BY <1>1, <1>2
<1>. QED  BY <1>3 DEF ZeroCount, Fills

\* Zeros are the same in one piece and in two.
LEMMA ZeroesJoin ==
  ASSUME NEW a \in Nat, NEW b \in Nat
  PROVE  /\ Zeroes(a) \in Seq({0}) /\ Len(Zeroes(a)) = a
         /\ Zeroes(a) \o Zeroes(b) = Zeroes(a + b)
<1>1. \A n \in Nat : Zeroes(n) \in Seq({0}) /\ Len(Zeroes(n)) = n /\ \A i \in 1 .. n : Zeroes(n)[i] = 0
  BY DEF Zeroes
<1>2. a + b \in Nat
  OBVIOUS
<1> DEFINE s == Zeroes(a)  t == Zeroes(b)  u == Zeroes(a + b)
<1>3. /\ s \in Seq({0}) /\ Len(s) = a /\ t \in Seq({0}) /\ Len(t) = b /\ u \in Seq({0}) /\ Len(u) = a + b
  BY <1>1, <1>2
<1>4. \A i \in 1 .. a + b : u[i] = 0
  BY <1>1, <1>2
<1> HIDE DEF s, t, u
<1>5. s \o t \in Seq({0}) /\ Len(s \o t) = a + b
  BY <1>3, ConcatProperties
<1>6. \A i \in 1 .. a + b : (s \o t)[i] = 0
  BY <1>2, <1>5
<1>7. s \o t = u
  BY <1>3, <1>4, <1>5, <1>6, SeqEqual, SMTT(40)
<1>. QED  BY <1>3, <1>7 DEF s, t, u

\* An engine over some bytes is one over more.
LEMMA Widen ==
  ASSUME NEW S, NEW T, S \subseteq T, NEW e, NEW m, Holds(S, e, m)
  PROVE  Holds(T, e, m)
<1>1. \A s \in Seq(S) : s \in Seq(T)
  BY SeqMonotonic
<1>2. e \in EngineRecords(T)
  BY <1>1 DEF Holds, EngineRecords
<1>. QED  BY <1>1, <1>2, Zenon DEF Holds

\* The zeros of from_engine, in one piece or in two, leave just the room for the length.
LEMMA ZeroesFed ==
  ASSUME NEW T, 0 \in T, NEW e, NEW m, Holds(T, e, m)
  PROVE  LET room == BlockSize - LenSize
             spilled == Spilled(e, room)
         IN  \E k \in 0 .. BlockSize - 1, q \in Nat :
               /\ Len(m) + k + LenSize = q * BlockSize
               /\ Holds(T, Input(spilled, Zeroes(room - BufIdx(spilled))), m \o Zeroes(k))
<1> DEFINE room == BlockSize - LenSize
           spilled == Spilled(e, room)
           idx == BufIdx(spilled)
           last == Input(spilled, Zeroes(room - idx))
           i == BufIdx(e)
           p == Len(m) \div BlockSize
<1>0. BlockSize \in Nat /\ BlockSize > 0 /\ LenSize \in Nat /\ LenSize > 0 /\ 2 * LenSize <= BlockSize /\ room \in Nat
  BY Sizes
<1>1. e \in EngineRecords(T) /\ m \in Seq(T) /\ e.length = Len(m) /\ Len(m) \in Nat
  BY DEF Holds
<1>2. i \in Nat /\ i < BlockSize /\ p \in Nat /\ Len(m) = p * BlockSize + i
  <2>1. i = Len(m) % BlockSize
    BY <1>1 DEF BufIdx
  <2>. QED  BY <1>0, <1>1, <2>1, Division, SMTT(40)
<1>3. \A n \in Nat : Zeroes(n) \in Seq(T) /\ Len(Zeroes(n)) = n
  <2>1. {0} \subseteq T
    OBVIOUS
  <2>2. ASSUME NEW n \in Nat PROVE Zeroes(n) \in Seq({0}) /\ Len(Zeroes(n)) = n
    BY ZeroesJoin, Zenon
  <2>. QED  BY <2>1, <2>2, SeqMonotonic
<1>4. (p + 1) * BlockSize = p * BlockSize + BlockSize /\ (p + 2) * BlockSize = p * BlockSize + 2 * BlockSize
  BY <1>0, <1>2
<1> HIDE DEF i, p, room
<1>5. CASE ~(i > room)
  <2> DEFINE k == room - i
  <2>1. spilled = e /\ idx = i
    BY <1>5 DEF Spilled, i
  <2>2. k \in Nat /\ k \in 0 .. BlockSize - 1 /\ Len(m) + k + LenSize = (p + 1) * BlockSize /\ p + 1 \in Nat
    BY <1>0, <1>2, <1>4, <1>5, SMTT(40) DEF room
  <2> HIDE DEF k
  <2>3. Zeroes(k) \in Seq(T)
    BY <1>3, <2>2
  <2>4. Holds(T, Input(e, Zeroes(k)), m \o Zeroes(k))
    BY <2>3, InputHolds
  <2>5. last = Input(e, Zeroes(k))
    BY <2>1, Zenon DEF k
  <2> HIDE DEF last, spilled, idx
  <2>6. Holds(T, last, m \o Zeroes(k))
    BY <2>4, <2>5
  <2>. QED  BY <2>2, <2>6, Zenon DEF last, idx, spilled, room
<1>6. CASE i > room
  <2> DEFINE k == room + (BlockSize - i)
  <2>1. spilled = Input(e, Zeroes(room))
    BY <1>6, Zenon DEF Spilled, i
  <2>2. k \in Nat /\ k \in 0 .. BlockSize - 1 /\ Len(m) + k + LenSize = (p + 2) * BlockSize /\ p + 2 \in Nat
    BY <1>0, <1>2, <1>4, <1>6, SMTT(40) DEF room
  <2>3. Zeroes(room) \in Seq(T) /\ Len(Zeroes(room)) = room
    BY <1>0, <1>3
  <2>4. Holds(T, spilled, m \o Zeroes(room))
    BY <2>1, <2>3, InputHolds, Zenon
  <2> HIDE DEF spilled
  <2>5. Len(m \o Zeroes(room)) = Len(m) + room /\ m \o Zeroes(room) \in Seq(T)
    BY <1>1, <2>3, ConcatProperties, SMTT(40)
  <2>6. idx = i - LenSize
    <3> DEFINE n == Len(m) + room  q == p + 1  r == i - LenSize
    <3>1. spilled.length = n
      BY <2>4, <2>5, SMTT(40) DEF Holds
    <3>2. q \in Nat /\ r \in Nat /\ r < BlockSize /\ n = q * BlockSize + r
      BY <1>0, <1>2, <1>4, <1>6, SMTT(40) DEF room
    <3>3. idx = n % BlockSize
      BY <3>1 DEF BufIdx
    <3> HIDE DEF n, q, r, idx
    <3>4. n % BlockSize = r
      BY <1>0, <3>2, DivisionIs, SMTT(40)
    <3>. QED  BY <3>3, <3>4, SMTT(40) DEF r
  <2> DEFINE b == BlockSize - i
  <2>7. b \in Nat /\ room - idx = b /\ k = room + b
    BY <1>0, <1>2, <2>6, SMTT(40) DEF room
  <2> HIDE DEF idx, k, b
  <2>8. Zeroes(b) \in Seq(T)
    BY <1>3, <2>7
  <2>9. Holds(T, Input(spilled, Zeroes(b)), (m \o Zeroes(room)) \o Zeroes(b))
    BY <2>4, <2>8, InputHolds, SMTT(40)
  <2>10. (m \o Zeroes(room)) \o Zeroes(b) = m \o Zeroes(k)
    <3>1. Chained(m, Zeroes(room), Zeroes(b))
      BY <1>1, <2>3, <2>8, Associates, Zenon
    <3>2. Zeroes(room) \o Zeroes(b) = Zeroes(k)
      BY <1>0, <2>7, ZeroesJoin, Zenon
    <3>. QED  BY <3>1, <3>2, Zenon DEF Chained
  <2>11. last = Input(spilled, Zeroes(b))
    BY <2>7, Zenon
  <2> HIDE DEF last
  <2>12. Holds(T, last, m \o Zeroes(k))
    BY <2>9, <2>10, <2>11, Zenon
  <2>. QED  BY <2>2, <2>12, Zenon DEF last, idx, spilled, room
<1>. QED  BY <1>5, <1>6

\* An engine whose data are whole blocks has compressed them all.
LEMMA WholeBlocks ==
  ASSUME NEW T, NEW e, NEW m, Holds(T, e, m), NEW q \in Nat, Len(m) = q * BlockSize
  PROVE  e.h = m
<1>1. e \in EngineRecords(T) /\ m \in Seq(T) /\ e.length = Len(m) /\ e.h \o SubSeq(e.buffer, 1, BufIdx(e)) = m
  BY Zenon DEF Holds
<1>2. BufIdx(e) = 0
  <2> DEFINE n == Len(m)  z == 0
  <2>1. n \in Nat /\ z \in Nat /\ z < BlockSize /\ n = q * BlockSize + z /\ BlockSize \in Nat /\ BlockSize > 0
    BY <1>1, Sizes
  <2>2. BufIdx(e) = n % BlockSize
    BY <1>1 DEF BufIdx
  <2> HIDE DEF n, z
  <2>3. n % BlockSize = z
    BY <2>1, DivisionIs, Zenon
  <2>. QED  BY <2>2, <2>3 DEF z
<1>3. SubSeq(e.buffer, 1, 0) = <<>>
  BY SubSeqEmpty
<1> DEFINE h == e.h
<1>4. h \in Seq(T) /\ h \o <<>> = m
  BY <1>1, <1>2, <1>3, Zenon DEF EngineRecords
<1> HIDE DEF h
<1>5. h = m
  BY <1>4, ConcatEmptySeq
<1>. QED  BY <1>5 DEF h

\* from_engine compresses the padded message.
LEMMA FinishedIs ==
  ASSUME NEW S, NEW e, NEW m, Holds(S, e, m)
  PROVE  Finished(e).h = Padded(m)
<1> DEFINE length == LengthBytes(Len(m))
           T == S \union {0, 128} \union {length[i] : i \in 1 .. LenSize}
           marked == m \o <<128>>
           room == BlockSize - LenSize
           e1 == Input(e, <<128>>)
           spilled == Spilled(e1, room)
           e3 == Input(spilled, Zeroes(room - BufIdx(spilled)))
           e4 == Input(e3, length)
<1>0. m \in Seq(S) /\ e.length = Len(m) /\ Len(m) \in Nat /\ LenSize \in Nat
  BY Sizes DEF Holds
<1>1. S \subseteq T /\ 0 \in T /\ 128 \in T
  OBVIOUS
<1>2. length \in Seq(T) /\ Len(length) = LenSize
  <2>1. length = [i \in 1 .. LenSize |-> length[i]]
    BY DEF LengthBytes
  <2> HIDE DEF length
  <2>. QED  BY <1>0, <2>1
<1> HIDE DEF T, length
<1>3. Holds(T, e, m) /\ m \in Seq(T)
  BY <1>0, <1>1, Widen, SeqMonotonic, SMTT(40)
<1>4. <<128>> \in Seq(T) /\ Len(<<128>>) = 1
  BY <1>1
<1>5. Holds(T, e1, marked)
  BY <1>3, <1>4, InputHolds, ZenonT(40)
<1>6. marked \in Seq(T) /\ Len(marked) = Len(m) + 1
  BY <1>3, <1>4, ConcatProperties
<1> HIDE DEF marked, e1
<1>7. PICK k \in 0 .. BlockSize - 1, q \in Nat :
        Len(marked) + k + LenSize = q * BlockSize /\ Holds(T, e3, marked \o Zeroes(k))
  BY <1>1, <1>5, ZeroesFed, Zenon
<1>8. ZeroCount(Len(m)) = k
  BY <1>0, <1>6, <1>7, OneCount, SMTT(40)
<1> DEFINE zeroed == marked \o Zeroes(k)
<1>9. Padded(m) = zeroed \o length
  BY <1>8, Zenon DEF Padded, ZeroCount, marked, length
<1> HIDE DEF e3
<1>10. Holds(T, e4, zeroed \o length)
  BY <1>2, <1>7, InputHolds, Zenon
<1>11. Len(zeroed \o length) = q * BlockSize
  <2>1. k \in Nat
    BY Sizes
  <2>2. Zeroes(k) \in Seq({0}) /\ Len(Zeroes(k)) = k
    BY <2>1, ZeroesJoin, SMTT(40)
  <2>3. Zeroes(k) \in Seq(T)
    BY <1>1, <2>2, SeqMonotonic, SMTT(40)
  <2>4. zeroed \in Seq(T) /\ Len(zeroed) = Len(marked) + k
    <3> DEFINE zeroes == Zeroes(k)
    <3>1. zeroes \in Seq(T) /\ Len(zeroes) = k
      BY <2>2, <2>3
    <3> HIDE DEF zeroes
    <3>2. marked \o zeroes \in Seq(T) /\ Len(marked \o zeroes) = Len(marked) + Len(zeroes)
      BY <1>6, <3>1, ConcatProperties, Zenon
    <3>. QED  BY <3>1, <3>2, SMTT(40) DEF zeroes
  <2> HIDE DEF zeroed
  <2>5. Len(zeroed \o length) = Len(zeroed) + LenSize
    BY <1>2, <2>4, ConcatProperties, Zenon
  <2>. QED  BY <1>7, <2>4, <2>5, SMTT(40)
<1> HIDE DEF zeroed, e4
<1>12. e4.h = zeroed \o length
  BY <1>10, <1>11, WholeBlocks, Zenon
<1>13. Finished(e) = e4
  BY <1>0, Zenon DEF Finished, PaddedTo, e4, e3, e1, length
<1>. QED  BY <1>9, <1>12, <1>13, Zenon
-----------------------------------------------------------------------------
\* The blocks that const_hash counts, by whether the last one of the data has room for
\* the marker and the length.
LEMMA ChunksBy ==
  ASSUME NEW len \in Nat
  PROVE  LET q == len \div BlockSize
             r == len % BlockSize
         IN  /\ q \in Nat /\ r \in Nat /\ r < BlockSize /\ len = q * BlockSize + r
             /\ Chunks(len) = IF r <= BlockSize - (LenSize + 1) THEN q + 1 ELSE q + 2
<1> DEFINE q == len \div BlockSize
           r == len % BlockSize
           n == len + (LenSize + 1) + (BlockSize - 1)
<1>0. BlockSize \in Nat /\ BlockSize > 0 /\ LenSize \in Nat /\ LenSize > 0 /\ 2 * LenSize <= BlockSize
  BY Sizes
<1>1. q \in Nat /\ r \in Nat /\ r < BlockSize /\ len = q * BlockSize + r
  BY <1>0, Division
<1>2. Chunks(len) = n \div BlockSize
  BY DEF Chunks
<1>3. (q + 1) * BlockSize = q * BlockSize + BlockSize /\ (q + 2) * BlockSize = q * BlockSize + 2 * BlockSize
  BY <1>0, <1>1, SMTT(40)
<1> HIDE DEF q, r
<1>4. CASE r <= BlockSize - (LenSize + 1)
  <2> DEFINE p == q + 1  s == r + LenSize
  <2>1. p \in Nat /\ s \in Nat /\ s < BlockSize /\ n = p * BlockSize + s
    BY <1>0, <1>1, <1>3, <1>4, SMTT(40)
  <2> HIDE DEF p, s, n
  <2>2. n \div BlockSize = p
    BY <1>0, <2>1, DivisionIs, SMTT(40)
  <2>. QED  BY <1>1, <1>2, <1>4, <2>2, SMTT(40) DEF p, q, r
<1>5. CASE ~(r <= BlockSize - (LenSize + 1))
  <2> DEFINE p == q + 2  s == r + LenSize - BlockSize
  <2>1. p \in Nat /\ s \in Nat /\ s < BlockSize /\ n = p * BlockSize + s
    BY <1>0, <1>1, <1>3, <1>5, SMTT(40)
  <2> HIDE DEF p, s, n
  <2>2. n \div BlockSize = p
    BY <1>0, <2>1, DivisionIs
  <2>. QED  BY <1>1, <1>2, <1>5, <2>2, SMTT(40) DEF p, q, r
<1>. QED  BY <1>4, <1>5

\* Products of blocks grow with their number.
LEMMA Offsets ==
  ASSUME NEW a \in Nat, NEW b \in Nat, a <= b
  PROVE  /\ a * BlockSize \in Nat /\ b * BlockSize \in Nat /\ a * BlockSize <= b * BlockSize
         /\ (a + 1) * BlockSize = a * BlockSize + BlockSize
         /\ (a + 2) * BlockSize = a * BlockSize + 2 * BlockSize
<1>0. BlockSize \in Nat
  BY Sizes
<1>1. PICK d \in Nat : b = a + d
  <2>1. b - a \in Nat /\ b = a + (b - a)
    OBVIOUS
  <2>. QED  BY <2>1
<1>2. b * BlockSize = a * BlockSize + d * BlockSize /\ d * BlockSize \in Nat /\ a * BlockSize \in Nat
  BY <1>0, <1>1, SMTT(40)
<1>. QED  BY <1>0, <1>2

\* Whether const_hash puts the marker into a block.
IsMarked(len, c) == len % BlockSize <= BlockSize - (LenSize + 1) \/ c + 2 = Chunks(len)

\* Where a block begins, and what the marker and the length have to do with it.
LEMMA ChunkPlace ==
  ASSUME NEW len \in Nat, NEW c \in 0 .. Chunks(len) - 1
  PROVE  LET off == c * BlockSize
             total == Chunks(len) * BlockSize
         IN  /\ off \in Nat /\ total \in Nat /\ off + BlockSize <= total /\ len + 1 + LenSize <= total
             /\ c + 1 = Chunks(len) => off + BlockSize = total
             /\ c + 1 # Chunks(len) => off + 2 * BlockSize <= total
             /\ off <= len /\ off + BlockSize > len => IsMarked(len, c)
             /\ off > len => ~IsMarked(len, c)
<1> DEFINE q == len \div BlockSize
           r == len % BlockSize
           num == Chunks(len)
           off == c * BlockSize
           total == num * BlockSize
           base == q * BlockSize
<1>0. BlockSize \in Nat /\ BlockSize > 0 /\ LenSize \in Nat /\ LenSize > 0 /\ 2 * LenSize <= BlockSize
  BY Sizes
<1>1. /\ q \in Nat /\ r \in Nat /\ r < BlockSize /\ len = base + r
      /\ num = IF r <= BlockSize - (LenSize + 1) THEN q + 1 ELSE q + 2
  BY ChunksBy
<1>2. IsMarked(len, c) <=> r <= BlockSize - (LenSize + 1) \/ c + 2 = num
  BY DEF IsMarked
<1> HIDE DEF q, r, num
<1>3. num \in Nat /\ c \in Nat /\ c + 1 <= num
  BY <1>1 DEF num
<1>4. base \in Nat /\ (q + 1) * BlockSize = base + BlockSize /\ (q + 2) * BlockSize = base + 2 * BlockSize
  BY <1>1, Offsets
<1>5. off \in Nat /\ total \in Nat /\ off + BlockSize <= total
  <2>1. (c + 1) * BlockSize = off + BlockSize /\ off \in Nat
    BY <1>3, Offsets
  <2>2. c + 1 \in Nat
    BY <1>3
  <2>3. (c + 1) * BlockSize <= num * BlockSize /\ num * BlockSize \in Nat
    BY <1>3, <2>2, Offsets, Zenon
  <2>. QED  BY <2>1, <2>3, SMTT(40)
<1>6. total = IF r <= BlockSize - (LenSize + 1) THEN base + BlockSize ELSE base + 2 * BlockSize
  BY <1>1, <1>4, SMTT(40)
<1>7. len + 1 + LenSize <= total
  BY <1>0, <1>1, <1>4, <1>6, SMTT(40)
<1>8. c + 1 = num => off + BlockSize = total
  BY <1>3, Offsets
<1>9. c + 1 # num => off + 2 * BlockSize <= total
  <2>1. ASSUME c + 1 # num PROVE off + 2 * BlockSize <= total
    <3>1. c + 2 \in Nat /\ c + 2 <= num
      BY <1>3, <2>1
    <3>2. (c + 2) * BlockSize <= num * BlockSize
      BY <1>3, <3>1, Offsets
    <3>3. (c + 2) * BlockSize = off + 2 * BlockSize
      BY <1>3, Offsets
    <3>. QED  BY <3>2, <3>3
  <2>. QED  BY <2>1
<1>10. c <= q => off <= base
  BY <1>1, <1>3, Offsets
<1>11. c >= q + 1 => off >= base + BlockSize
  <2>1. ASSUME c >= q + 1 PROVE off >= base + BlockSize
    <3>1. q + 1 \in Nat /\ (q + 1) * BlockSize <= c * BlockSize
      BY <1>1, <1>3, <2>1, Offsets, SMTT(40)
    <3>. QED  BY <1>4, <3>1
  <2>. QED  BY <2>1
<1>12. c + 1 <= q => off + BlockSize <= base
  <2>1. ASSUME c + 1 <= q PROVE off + BlockSize <= base
    <3>1. c + 1 \in Nat /\ (c + 1) * BlockSize <= q * BlockSize
      BY <1>1, <1>3, <2>1, Offsets, SMTT(40)
    <3>2. (c + 1) * BlockSize = off + BlockSize
      BY <1>3, Offsets
    <3>. QED  BY <3>1, <3>2, SMTT(40)
  <2>. QED  BY <2>1
<1> HIDE DEF off, total, base
<1>13. off <= len /\ off + BlockSize > len => c = q
  BY <1>0, <1>1, <1>3, <1>4, <1>5, <1>11, <1>12, SMTT(40)
<1>14. off > len => c = q + 1 /\ num = q + 2
  BY <1>0, <1>1, <1>3, <1>4, <1>5, <1>10, SMTT(40)
<1>15. off <= len /\ off + BlockSize > len => IsMarked(len, c)
  BY <1>1, <1>2, <1>13, SMTT(40)
<1>16. off > len => ~IsMarked(len, c)
  BY <1>1, <1>2, <1>3, <1>14, SMTT(40)
<1>. QED  BY <1>5, <1>7, <1>8, <1>9, <1>15, <1>16, SMTT(40) DEF off, total, num
\* The zeros fill the blocks that const_hash counts.
LEMMA ZeroesFill ==
  ASSUME NEW len \in Nat
  PROVE  /\ ZeroCount(len) \in Nat /\ Chunks(len) \in Nat /\ Chunks(len) > 0 /\ Chunks(len) * BlockSize \in Nat
         /\ len + 1 + ZeroCount(len) + LenSize = Chunks(len) * BlockSize
<1> DEFINE q == len \div BlockSize
           r == len % BlockSize
           num == Chunks(len)
           base == q * BlockSize
           total == num * BlockSize
           k == total - LenSize - 1 - len
<1>0. BlockSize \in Nat /\ BlockSize > 0 /\ LenSize \in Nat /\ LenSize > 0 /\ 2 * LenSize <= BlockSize
  BY Sizes
<1>1. /\ q \in Nat /\ r \in Nat /\ r < BlockSize /\ len = base + r
      /\ num = IF r <= BlockSize - (LenSize + 1) THEN q + 1 ELSE q + 2
  BY ChunksBy
<1> HIDE DEF q, r, num
<1>2. base \in Nat /\ (q + 1) * BlockSize = base + BlockSize /\ (q + 2) * BlockSize = base + 2 * BlockSize
  BY <1>1, Offsets
<1>3. total = IF r <= BlockSize - (LenSize + 1) THEN base + BlockSize ELSE base + 2 * BlockSize
  BY <1>1, <1>2
<1>4. num \in Nat /\ num > 0
  BY <1>1
<1> HIDE DEF base
<1>5. k \in 0 .. BlockSize - 1 /\ total \in Nat /\ len + 1 + k + LenSize = total
  BY <1>0, <1>1, <1>2, <1>3, SMTT(40)
<1>6. len + 1 + k + LenSize = num * BlockSize
  BY <1>5
<1> HIDE DEF k
<1>7. ZeroCount(len) = k
  BY <1>4, <1>5, <1>6, OneCount, SMTT(40)
<1>. QED  BY <1>0, <1>4, <1>5, <1>7, SMTT(40) DEF num

\* The bytes of a padded message.
AreBytes(P, m) ==
  LET total == Chunks(Len(m)) * BlockSize
  IN  /\ \E T : P \in Seq(T) /\ m \in Seq(T)
      /\ Len(P) = total
      /\ \A i \in 1 .. Len(m) : P[i] = m[i]
      /\ P[Len(m) + 1] = 128
      /\ \A i \in Len(m) + 2 .. total - LenSize : P[i] = 0
      /\ \A i \in total - LenSize + 1 .. total : P[i] = LengthBytes(Len(m))[i - (total - LenSize)]
LEMMA PaddedBytes ==
  ASSUME NEW S, NEW m \in Seq(S)
  PROVE  AreBytes(Padded(m), m)
<1> DEFINE len == Len(m)
           length == LengthBytes(len)
           T == S \union {0, 128} \union {length[i] : i \in 1 .. LenSize}
           k == ZeroCount(len)
           zeroes == Zeroes(k)
           marker == <<128>>
           total == Chunks(len) * BlockSize
<1>0. len \in Nat /\ LenSize \in Nat /\ k \in Nat /\ total \in Nat /\ len + 1 + k + LenSize = total
  BY Sizes, ZeroesFill
<1>1. length \in Seq(T) /\ Len(length) = LenSize
  <2>1. length = [i \in 1 .. LenSize |-> length[i]]
    BY DEF LengthBytes
  <2> HIDE DEF length
  <2>. QED  BY <1>0, <2>1, SMTT(40)
<1>2. zeroes \in Seq(T) /\ Len(zeroes) = k /\ \A i \in 1 .. k : zeroes[i] = 0
  BY <1>0 DEF Zeroes
<1>3. m \in Seq(T) /\ marker \in Seq(T) /\ Len(marker) = 1 /\ marker[1] = 128
  BY SeqMonotonic
<1>4. Padded(m) = ((m \o marker) \o zeroes) \o length
  BY Zenon DEF Padded, ZeroCount
<1> HIDE DEF T, length, k, zeroes, marker, total, len
<1> DEFINE data == m
           one == data \o marker
<1>5. /\ one \in Seq(T) /\ Len(one) = len + 1
      /\ \A i \in 1 .. len : one[i] = data[i]
      /\ one[len + 1] = 128
  <2>0. data \in Seq(T) /\ marker \in Seq(T) /\ Len(marker) = 1
    BY <1>3, Zenon
  <2>1. Len(data) = len
    BY DEF len
  <2> HIDE DEF data
  <2>2. one \in Seq(T) /\ Len(one) = len + 1
    <3>1. data \o marker \in Seq(T)
      BY <2>0, ConcatProperties, Zenon
    <3>2. Len(data \o marker) = Len(data) + Len(marker)
      BY <2>0, ConcatProperties, Zenon
    <3>. QED  BY <2>0, <2>1, <3>1, <3>2, Zenon
  <2>3. \A i \in 1 .. len : one[i] = data[i]
    BY <1>0, <2>0, <2>1
  <2>4. one[len + 1] = marker[1]
    <3>1. \A i \in 1 .. Len(data) + Len(marker) :
            one[i] = IF i <= Len(data) THEN data[i] ELSE marker[i - Len(data)]
      BY <2>0, ConcatProperties, Zenon
    <3> HIDE DEF one
    <3>2. len + 1 \in 1 .. len + 1 /\ ~(len + 1 <= len) /\ (len + 1) - len = 1
      BY <1>0
    <3>. QED  BY <2>0, <2>1, <3>1, <3>2, Zenon
  <2>. QED  BY <1>3, <2>2, <2>3, <2>4, Zenon
<1> HIDE DEF one
<1> DEFINE two == one \o zeroes
<1>6. /\ two \in Seq(T) /\ Len(two) = len + 1 + k
      /\ \A i \in 1 .. len + 1 : two[i] = one[i]
      /\ \A i \in len + 2 .. len + 1 + k : two[i] = 0
  BY <1>0, <1>2, <1>5, SMTT(40)
<1> HIDE DEF two
<1> DEFINE P == two \o length
<1>7. /\ P \in Seq(T) /\ Len(P) = total
      /\ \A i \in 1 .. len + 1 + k : P[i] = two[i]
      /\ \A i \in len + 1 + k + 1 .. total : P[i] = length[i - (len + 1 + k)]
  BY <1>0, <1>1, <1>6, SMTT(40)
<1>8. Padded(m) = P
  BY <1>4 DEF P, two, one
<1> HIDE DEF P
<1>9. total - LenSize = len + 1 + k
  BY <1>0
<1>10. \A i \in 1 .. len : P[i] = m[i]
  BY <1>0, <1>5, <1>6, <1>7, SMTT(40)
<1>11. P[len + 1] = 128
  BY <1>0, <1>5, <1>6, <1>7, SMTT(40)
<1>12. \A i \in len + 2 .. total - LenSize : P[i] = 0
  BY <1>0, <1>6, <1>7, SMTT(40)
<1>13. \A i \in total - LenSize + 1 .. total : P[i] = length[i - (total - LenSize)]
  BY <1>7, <1>9
<1>14. \E U : P \in Seq(U) /\ m \in Seq(U)
  BY <1>3, <1>7
<1>. QED  BY <1>7, <1>8, <1>10, <1>11, <1>12, <1>13, <1>14, ZenonT(40) DEF AreBytes, total, len, length

\* A piece of a sequence, byte by byte.
IsPiece(s, a, b) == SubSeq(s, a + 1, a + b) = [k \in 1 .. b |-> s[a + k]]
LEMMA Piece ==
  ASSUME NEW T, NEW s \in Seq(T), NEW a \in Nat, NEW b \in Nat, a + b <= Len(s)
  PROVE  IsPiece(s, a, b)
<1> DEFINE sub == SubSeq(s, a + 1, a + b)
<1>1. sub \in Seq(T) /\ Len(sub) = b /\ \A k \in 1 .. b : sub[k] = s[a + k]
  BY SMTT(40)
<1> HIDE DEF sub
<1>2. sub = [k \in 1 .. b |-> sub[k]]
  BY <1>1
<1>. QED  BY <1>1, <1>2, Zenon DEF sub, IsPiece

\* A block that const_hash builds is a block of the padded message.
LEMMA ChunkIs ==
  ASSUME NEW S, NEW m \in Seq(S), NEW c \in 0 .. Chunks(Len(m)) - 1
  PROVE  ConstChunk(m, c, Chunks(Len(m))) = SubSeq(Padded(m), c * BlockSize + 1, c * BlockSize + BlockSize)
<1> DEFINE len == Len(m)
           num == Chunks(len)
           off == c * BlockSize
           total == num * BlockSize
           P == Padded(m)
           length == LengthBytes(len)
           chunk == ConstChunk(m, c, num)
           i == IF off < len THEN len - off ELSE 0
<1>0. BlockSize \in Nat /\ BlockSize > 0 /\ LenSize \in Nat /\ LenSize > 0 /\ 2 * LenSize <= BlockSize /\ len \in Nat
  BY Sizes
<1>1. /\ off \in Nat /\ total \in Nat /\ off + BlockSize <= total /\ len + 1 + LenSize <= total
      /\ c + 1 = num => off + BlockSize = total
      /\ c + 1 # num => off + 2 * BlockSize <= total
      /\ off <= len /\ off + BlockSize > len => IsMarked(len, c)
      /\ off > len => ~IsMarked(len, c)
  BY <1>0, ChunkPlace
<1>2. /\ \E T : P \in Seq(T) /\ m \in Seq(T)
      /\ Len(P) = total
      /\ \A j \in 1 .. len : P[j] = m[j]
      /\ P[len + 1] = 128
      /\ \A j \in len + 2 .. total - LenSize : P[j] = 0
      /\ \A j \in total - LenSize + 1 .. total : P[j] = length[j - (total - LenSize)]
  BY PaddedBytes, ZenonT(40) DEF AreBytes
<1>3. chunk = IF off + BlockSize <= len THEN SubSeq(m, off + 1, off + BlockSize)
              ELSE [k \in 1 .. BlockSize |->
                      IF k <= i THEN m[off + k]
                      ELSE IF c + 1 = num /\ k > BlockSize - LenSize THEN length[k - (BlockSize - LenSize)]
                      ELSE IF k = i + 1 /\ IsMarked(len, c) THEN 128 ELSE 0]
  BY Zenon DEF ConstChunk, IsMarked
<1> HIDE DEF off, total, P, length, chunk, num
<1>4. PICK T : P \in Seq(T) /\ m \in Seq(T)
  BY <1>2
<1> DEFINE block == SubSeq(P, off + 1, off + BlockSize)
<1>5. block = [k \in 1 .. BlockSize |-> P[off + k]]
  <2>1. off + BlockSize <= Len(P)
    BY <1>1, <1>2
  <2>2. IsPiece(P, off, BlockSize)
    BY <1>0, <1>1, <1>4, <2>1, Piece, Zenon
  <2>. QED  BY <2>2, Zenon DEF IsPiece
<1> HIDE DEF block
<1>6. CASE off + BlockSize <= len
  <2>1. chunk = [k \in 1 .. BlockSize |-> m[off + k]]
    <3>1. SubSeq(m, off + 1, off + BlockSize) = [k \in 1 .. BlockSize |-> m[off + k]]
      <4>1. IsPiece(m, off, BlockSize)
        BY <1>0, <1>1, <1>4, <1>6, Piece, Zenon
      <4>. QED  BY <4>1, Zenon DEF IsPiece
    <3>. QED  BY <1>3, <1>6, <3>1, Zenon
  <2>2. \A k \in 1 .. BlockSize : off + k \in 1 .. len
    BY <1>0, <1>1, <1>6, SMTT(40)
  <2>. QED  BY <1>2, <1>5, <2>1, <2>2, ZenonT(40) DEF block, chunk, num, P, off
<1>7. CASE off + BlockSize > len
  <2>1. chunk = [k \in 1 .. BlockSize |->
                   IF k <= i THEN m[off + k]
                   ELSE IF c + 1 = num /\ k > BlockSize - LenSize THEN length[k - (BlockSize - LenSize)]
                   ELSE IF k = i + 1 /\ IsMarked(len, c) THEN 128 ELSE 0]
    BY <1>0, <1>1, <1>3, <1>7, SMTT(40)
  <2>2. ASSUME NEW k \in 1 .. BlockSize
        PROVE  (IF k <= i THEN m[off + k]
                ELSE IF c + 1 = num /\ k > BlockSize - LenSize THEN length[k - (BlockSize - LenSize)]
                ELSE IF k = i + 1 /\ IsMarked(len, c) THEN 128 ELSE 0) = P[off + k]
    <3>1. CASE k <= i
      <4>1. off + k \in 1 .. len
        BY <1>0, <1>1, <3>1, SMTT(40)
      <4>. QED  BY <1>2, <3>1, <4>1, SMTT(40)
    <3>2. CASE ~(k <= i) /\ c + 1 = num /\ k > BlockSize - LenSize
      <4>1. off + k \in total - LenSize + 1 .. total /\ (off + k) - (total - LenSize) = k - (BlockSize - LenSize)
        BY <1>0, <1>1, <3>2, SMTT(40)
      <4>2. P[off + k] = length[(off + k) - (total - LenSize)]
        <5> DEFINE j == off + k
        <5>1. j \in total - LenSize + 1 .. total
          BY <4>1
        <5> HIDE DEF j
        <5>2. P[j] = length[j - (total - LenSize)]
          BY <1>2, <5>1, Zenon
        <5>. QED  BY <5>2, Zenon DEF j
      <4>. QED  BY <3>2, <4>1, <4>2, SMTT(40)
    <3>3. CASE ~(k <= i) /\ ~(c + 1 = num /\ k > BlockSize - LenSize) /\ k = i + 1 /\ IsMarked(len, c)
      <4>1. off + k = len + 1
        BY <1>0, <1>1, <3>3, SMTT(40)
      <4>. QED  BY <1>2, <3>3, <4>1, SMTT(40)
    <3>4. CASE ~(k <= i) /\ ~(c + 1 = num /\ k > BlockSize - LenSize) /\ ~(k = i + 1 /\ IsMarked(len, c))
      <4>1. off + k <= total - LenSize
        BY <1>0, <1>1, <3>4, SMTT(40)
      <4>2. off + k > len /\ off + k # len + 1
        BY <1>0, <1>1, <1>7, <3>4, SMTT(40)
      <4>3. off + k \in len + 2 .. total - LenSize
        BY <1>0, <1>1, <4>1, <4>2, SMTT(40)
      <4>. QED  BY <1>2, <3>4, <4>3, SMTT(40)
    <3>. QED  BY <3>1, <3>2, <3>3, <3>4, SMTT(40)
  <2> HIDE DEF i
  <2>. QED  BY <1>5, <2>1, <2>2, ZenonT(40) DEF block, chunk, num, P, off
<1>. QED  BY <1>0, <1>1, <1>6, <1>7, SMTT(40)
\* The blocks that const_hash has compressed when it stops are the front of the padded
\* message: all of it, or all but the last block.
LEMMA ConstPrefix ==
  ASSUME NEW S, NEW m \in Seq(S), NEW finalize \in BOOLEAN
  PROVE  LET last == IF finalize THEN Chunks(Len(m)) ELSE Chunks(Len(m)) - 1
         IN  ConstHash(m, finalize) = SubSeq(Padded(m), 1, last * BlockSize)
<1> DEFINE num == Chunks(Len(m))
           last == IF finalize THEN num ELSE num - 1
           P == Padded(m)
           Built(f) == f = [c \in 0 .. last |-> IF c = 0 THEN <<>> ELSE f[c - 1] \o ConstChunk(m, c - 1, num)]
           front == [c \in 0 .. last |-> SubSeq(P, 1, c * BlockSize)]
           h == CHOOSE f : Built(f)
<1>1. ConstHash(m, finalize) = h[last]
  BY Zenon DEF ConstHash, Chunks
<1>2. Len(m) \in Nat
  OBVIOUS
<1>3. num \in Nat /\ num > 0 /\ num * BlockSize \in Nat /\ BlockSize \in Nat
  BY <1>2, ZeroesFill, Sizes, SMTT(40)
<1>4. last \in Nat /\ last <= num
  BY <1>3
<1>5. PICK T : P \in Seq(T)
  BY PaddedBytes, Zenon DEF AreBytes
<1>6. Len(P) = num * BlockSize
  BY PaddedBytes, Zenon DEF AreBytes
<1>7. ASSUME NEW c \in 1 .. last
      PROVE  SubSeq(P, 1, (c - 1) * BlockSize) \o ConstChunk(m, c - 1, num) = SubSeq(P, 1, c * BlockSize)
  <2> DEFINE d == c - 1  a == d * BlockSize
  <2>1. d \in 0 .. num - 1 /\ d \in Nat /\ d + 1 = c
    BY <1>3, <1>4
  <2>2. ConstChunk(m, d, num) = SubSeq(P, a + 1, a + BlockSize)
    BY <2>1, ChunkIs, Zenon
  <2> HIDE DEF d
  <2>3. a \in Nat /\ (d + 1) * BlockSize = a + BlockSize
    BY <2>1, Offsets, SMTT(40)
  <2>4. c * BlockSize <= num * BlockSize
    BY <1>3, <1>4, Offsets, SMTT(40)
  <2>5. c * BlockSize = a + BlockSize
    BY <2>1, <2>3, Zenon
  <2>6. a + BlockSize <= Len(P)
    BY <1>6, <2>4, <2>5, SMTT(40)
  <2> HIDE DEF a, P
  <2>7. SubSeq(P, 1, a) \o SubSeq(P, a + 1, a + BlockSize) = SubSeq(P, 1, a + BlockSize)
    <3> DEFINE b == a + BlockSize
    <3>1. b \in Nat /\ a <= b /\ b <= Len(P)
      BY <1>3, <2>3, <2>6, SMTT(40)
    <3> HIDE DEF b
    <3>2. SubSeq(P, 1, a) \o SubSeq(P, a + 1, b) = SubSeq(P, 1, b)
      BY <1>5, <2>3, <3>1, Joined, ZenonT(40)
    <3>. QED  BY <3>2, Zenon DEF b
  <2>. QED  BY <2>2, <2>5, <2>7, ZenonT(40) DEF a, d
<1> HIDE DEF P, num
<1>8. SubSeq(P, 1, 0 * BlockSize) = <<>>
  <2>1. 0 * BlockSize = 0
    BY <1>3
  <2>2. SubSeq(P, 1, 0) = <<>>
    BY SubSeqEmpty
  <2>. QED  BY <2>1, <2>2, Zenon
<1>9. \A c \in 0 .. last : c # 0 => c \in 1 .. last /\ c - 1 \in 0 .. last
  BY <1>4
<1> HIDE DEF last
<1>10. Built(front)
  <2>1. ASSUME NEW c \in 0 .. last
        PROVE  front[c] = IF c = 0 THEN <<>> ELSE front[c - 1] \o ConstChunk(m, c - 1, num)
    <3>0. front[c] = SubSeq(P, 1, c * BlockSize)
      BY Zenon
    <3>1. CASE c = 0
      BY <1>8, <3>0, <3>1, Zenon
    <3>2. CASE c # 0
      <4>1. c \in 1 .. last /\ c - 1 \in 0 .. last
        BY <1>9, <3>2, Zenon
      <4>2. front[c - 1] = SubSeq(P, 1, (c - 1) * BlockSize)
        BY <4>1, Zenon
      <4>. QED  BY <1>7, <3>0, <3>2, <4>1, <4>2, Zenon
    <3>. QED  BY <3>1, <3>2, Zenon
  <2>2. front = [c \in 0 .. last |-> front[c]]
    BY Zenon
  <2> HIDE DEF front
  <2>. QED  BY <2>1, <2>2, Zenon
<1> HIDE DEF front
<1>11. Built(h)
  <2> HIDE DEF Built
  <2>. QED  BY <1>10, Zenon
<1> HIDE DEF h
<1>12. \A c \in 0 .. last : h[c] = IF c = 0 THEN <<>> ELSE h[c - 1] \o ConstChunk(m, c - 1, num)
  BY <1>11, Zenon
<1> DEFINE Reached == {c \in 0 .. last : h[c] = SubSeq(P, 1, c * BlockSize)}
<1>13. 0 \in Reached
  <2>1. 0 \in 0 .. last
    BY <1>4
  <2>. QED  BY <1>8, <1>12, <2>1, Zenon
<1>14. \A c \in 1 .. last : c - 1 \in Reached => c \in Reached
  <2>1. ASSUME NEW c \in 1 .. last, c - 1 \in Reached PROVE c \in Reached
    <3>1. c \in 0 .. last /\ c # 0
      BY <1>4
    <3>2. h[c] = h[c - 1] \o ConstChunk(m, c - 1, num)
      BY <1>12, <3>1, Zenon
    <3>. QED  BY <1>7, <2>1, <3>1, <3>2, Zenon
  <2>. QED  BY <2>1, Zenon
<1> HIDE DEF Reached
<1>15. \A c \in 0 .. last : c \in Reached
  BY <1>4, <1>13, <1>14, UpTo, Zenon
<1>16. last \in 0 .. last
  BY <1>4
<1>. QED  BY <1>1, <1>15, <1>16, Zenon DEF Reached, last, P, num
\* The default engine was fed nothing.
LEMMA NewHolds ==
  ASSUME NEW S, 0 \in S
  PROVE  Holds(S, NewEngine, <<>>)
<1> DEFINE e == NewEngine  buf == Zeroes(BlockSize)
<1>1. BlockSize \in Nat /\ BlockSize > 0
  BY Sizes
<1>2. buf \in Seq({0}) /\ Len(buf) = BlockSize
  BY <1>1, ZeroesJoin, Zenon
<1>3. buf \in Seq(S)
  BY <1>2, SeqMonotonic, SMTT(40)
<1>4. e.h = <<>> /\ e.buffer = buf /\ e.length = 0 /\ e = [h |-> <<>>, buffer |-> buf, length |-> 0]
  BY DEF NewEngine
<1> HIDE DEF e, buf
<1>5. <<>> \in Seq(S) /\ Len(<<>>) = 0 /\ 0 \in Nat
  OBVIOUS
<1>6. e \in EngineRecords(S)
  BY <1>2, <1>3, <1>4, <1>5, SMTT(40) DEF EngineRecords
<1>7. BufIdx(e) = 0
  BY <1>1, <1>4 DEF BufIdx
<1>8. SubSeq(buf, 1, 0) = <<>>
  BY SubSeqEmpty
<1>9. <<>> \o <<>> = <<>>
  OBVIOUS
<1>. QED  BY <1>4, <1>5, <1>6, <1>7, <1>8, <1>9, ZenonT(40) DEF Holds, e

\* What hashing gives, in pieces or at once: the digest of the padded message.
LEMMA HashIs ==
  ASSUME NEW S, NEW m \in Seq(S)
  PROVE  Hash(m) = Digest(Padded(m))
<1> DEFINE T == S \union {0}  e == Input(NewEngine, m)
<1>1. S \subseteq T /\ 0 \in T
  OBVIOUS
<1> HIDE DEF T
<1>2. m \in Seq(T)
  BY <1>1, SeqMonotonic
<1>3. Holds(T, NewEngine, <<>>)
  BY <1>1, NewHolds, Zenon
<1>4. Holds(T, e, <<>> \o m)
  BY <1>2, <1>3, InputHolds, Zenon
<1>5. <<>> \o m = m
  BY <1>2, ConcatEmptySeq, Zenon
<1>6. Finished(e).h = Padded(m)
  BY <1>4, <1>5, FinishedIs, Zenon
<1>. QED  BY <1>6, Zenon DEF Hash, FromEngine

\* from_engine gives the hash of what the engine was fed.
LEMMA EngineGives ==
  ASSUME NEW S, NEW e, NEW m, Holds(S, e, m)
  PROVE  FromEngine(e) = Hash(m)
<1>1. m \in Seq(S)
  BY Zenon DEF Holds
<1>2. Hash(m) = Digest(Padded(m))
  BY <1>1, HashIs, Zenon
<1>3. Finished(e).h = Padded(m)
  BY FinishedIs, Zenon
<1>. QED  BY <1>2, <1>3, Zenon DEF FromEngine

\* A digest is a sequence of HashLen bytes.
LEMMA HashBytes ==
  ASSUME NEW S, NEW m \in Seq(S)
  PROVE  /\ Len(Hash(m)) = HashLen
         /\ \E T : Hash(m) \in Seq(T)
<1> DEFINE P == Padded(m)  T == {DigestByte(P, i) : i \in 1 .. HashLen}
<1>0. Hash(m) = Digest(P)
  BY HashIs, Zenon
<1> HIDE DEF P
<1>1. HashLen \in Nat
  BY EngineAssumption
<1>2. Digest(P) = [i \in 1 .. HashLen |-> DigestByte(P, i)]
  BY Zenon DEF Digest
<1>3. Digest(P) \in Seq(T) /\ Len(Digest(P)) = HashLen
  BY <1>1, <1>2
<1>. QED  BY <1>0, <1>3, Zenon

\* const_hash compresses the padded message.
LEMMA ConstIs ==
  ASSUME NEW S, NEW m \in Seq(S)
  PROVE  ConstHash(m, TRUE) = Padded(m)
<1> DEFINE P == Padded(m)  total == Chunks(Len(m)) * BlockSize
<1>1. ConstHash(m, TRUE) = SubSeq(P, 1, total)
  BY ConstPrefix, Zenon
<1>2. PICK T : P \in Seq(T)
  BY PaddedBytes, Zenon DEF AreBytes
<1>3. Len(P) = total
  BY PaddedBytes, Zenon DEF AreBytes
<1> HIDE DEF P, total
<1>4. SubSeq(P, 1, Len(P)) = P
  BY <1>2, Whole, Zenon
<1>. QED  BY <1>1, <1>3, <1>4, Zenon DEF P

\* A padded message begins with the message.
LEMMA PaddedFront ==
  ASSUME NEW S, NEW m \in Seq(S)
  PROVE  \A i \in 1 .. Len(m) : Padded(m)[i] = m[i]
<1> DEFINE P == Padded(m)
<1>1. AreBytes(P, m)
  BY PaddedBytes, Zenon
<1> HIDE DEF P
<1>2. \A i \in 1 .. Len(m) : P[i] = m[i]
  BY <1>1 DEF AreBytes
<1>. QED  BY <1>2, Zenon DEF P

\* const_hash without the last block compresses a block of data and no padding.
LEMMA ConstBlock ==
  ASSUME NEW S, NEW m \in Seq(S), Len(m) = BlockSize
  PROVE  ConstHash(m, FALSE) = m
<1> DEFINE P == Padded(m)
<1>0. BlockSize \in Nat /\ BlockSize > 0 /\ LenSize \in Nat /\ LenSize > 0 /\ 2 * LenSize <= BlockSize
  BY Sizes
<1>1. Chunks(Len(m)) = 2
  <2> DEFINE len == Len(m)  k == BlockSize - LenSize - 1
  <2>1. len \in Nat /\ k \in 0 .. BlockSize - 1 /\ 2 \in Nat /\ len + 1 + k + LenSize = 2 * BlockSize
    BY <1>0
  <2> HIDE DEF len, k
  <2>2. Chunks(len) = 2
    BY <2>1, ChunksOf, SMTT(40)
  <2>. QED  BY <2>2 DEF len
<1>2. (2 - 1) * BlockSize = BlockSize
  BY <1>0
<1>3. ConstHash(m, FALSE) = SubSeq(P, 1, (2 - 1) * BlockSize)
  BY <1>1, ConstPrefix, Zenon
<1>4. PICK T : P \in Seq(T) /\ m \in Seq(T)
  BY PaddedBytes, Zenon DEF AreBytes
<1>5. Len(P) = 2 * BlockSize
  BY <1>1, PaddedBytes, ZenonT(40) DEF AreBytes
<1>6. \A i \in 1 .. BlockSize : P[i] = m[i]
  <2>1. \A i \in 1 .. Len(m) : P[i] = m[i]
    BY PaddedFront, Zenon
  <2>. QED  BY <2>1, Zenon
<1> HIDE DEF P
<1>7. SubSeq(P, 1, BlockSize) = m
  <2> DEFINE s == SubSeq(P, 1, BlockSize)
  <2>1. s \in Seq(T) /\ Len(s) = BlockSize /\ \A i \in 1 .. BlockSize : s[i] = P[i]
    BY <1>0, <1>4, <1>5, SMTT(40)
  <2> HIDE DEF s
  <2>2. \A i \in 1 .. Len(s) : s[i] = m[i]
    BY <1>6, <2>1
  <2>3. s = m
    BY <1>4, <2>1, <2>2, SeqEqual, SMTT(40)
  <2>. QED  BY <2>3 DEF s
<1>. QED  BY <1>2, <1>3, <1>7, Zenon

\* A key that was hashed is padded as the key is.
LEMMA KeyPadOf ==
  ASSUME NEW S, NEW key \in Seq(S), NEW pad
  PROVE  LET used == IF Len(key) > BlockSize THEN Hash(key) ELSE key
         IN  KeyPad(pad, used) = KeyPad(pad, key)
<1> DEFINE used == IF Len(key) > BlockSize THEN Hash(key) ELSE key
<1>1. ~(Len(used) > BlockSize)
  <2>1. Len(Hash(key)) = HashLen
    BY HashBytes, Zenon
  <2>2. BlockSize \in Nat /\ HashLen \in Nat /\ HashLen <= BlockSize
    BY EngineAssumption
  <2>. QED  BY <2>1, <2>2
<1>2. \A k : KeyPad(pad, k) = LET u == IF Len(k) > BlockSize THEN Hash(k) ELSE k
                             IN  [i \in 1 .. BlockSize |-> IF i <= Len(u) THEN XorByte(pad, u[i]) ELSE pad]
  BY Zenon DEF KeyPad
<1>. QED  BY <1>1, <1>2, Zenon

\* A padded key is a block.
LEMMA KeyPadIs ==
  ASSUME NEW pad, NEW key
  PROVE  Len(KeyPad(pad, key)) = BlockSize /\ \E T : KeyPad(pad, key) \in Seq(T)
<1> DEFINE k == KeyPad(pad, key)  T == {k[i] : i \in 1 .. BlockSize}
<1>1. BlockSize \in Nat
  BY Sizes
<1>2. k = [i \in 1 .. BlockSize |-> k[i]]
  BY Zenon DEF KeyPad
<1> HIDE DEF k
<1>3. k \in Seq(T) /\ Len(k) = BlockSize
  BY <1>1, <1>2
<1>. QED  BY <1>3, Zenon DEF k-----------------------------------------------------------------------------
\* The engines, and what was fed to each of them: the inner one of a code took its padded
\* key first, the outer one has taken its padded key only.
Engaged(S, g) ==
  /\ g \in [e : EngineRecords(S), hmac : [iengine : EngineRecords(S), oengine : EngineRecords(S)], key : Seq(0 .. 255), fed : Seq(0 .. 255)]
  /\ 0 .. 255 \subseteq S /\ KeyPad(54, g.key) \in Seq(S) /\ KeyPad(92, g.key) \in Seq(S)
  /\ Holds(S, g.e, g.fed)
  /\ Holds(S, g.hmac.iengine, KeyPad(54, g.key) \o g.fed)
  /\ Holds(S, g.hmac.oengine, KeyPad(92, g.key))
EngInv == \E S : Engaged(S, eng)

LEMMA StartsEngaged ==
  ASSUME NEW key \in Seq(0 .. 255)
  PROVE  \E S : Engaged(S, Fed(key))
<1> DEFINE k1 == KeyPad(54, key)  k2 == KeyPad(92, key)
           hmac == HmacNew(key)
           g == Fed(key)
<1>1. PICK T1 : k1 \in Seq(T1)
  BY KeyPadIs, Zenon
<1>2. PICK T2 : k2 \in Seq(T2)
  BY KeyPadIs, Zenon
<1> DEFINE S == (0 .. 255) \union T1 \union T2
<1>3. 0 .. 255 \subseteq S /\ 0 \in S /\ T1 \subseteq S /\ T2 \subseteq S
  OBVIOUS
<1> HIDE DEF S, k1, k2
<1>4. k1 \in Seq(S) /\ k2 \in Seq(S)
  BY <1>1, <1>2, <1>3, SeqMonotonic, Zenon
<1>5. Holds(S, NewEngine, <<>>)
  BY <1>3, NewHolds, Zenon
<1>6. \A k \in Seq(S) : Holds(S, Input(NewEngine, k), k)
  <2>1. ASSUME NEW k \in Seq(S) PROVE Holds(S, Input(NewEngine, k), k)
    <3>1. <<>> \o k = k
      BY ConcatEmptySeq, Zenon
    <3>2. Holds(S, Input(NewEngine, k), <<>> \o k)
      BY <1>5, InputHolds, Zenon
    <3>. QED  BY <3>1, <3>2, Zenon
  <2>. QED  BY <2>1, Zenon
<1> DEFINE e1 == Input(NewEngine, k1)  e2 == Input(NewEngine, k2)
<1>7. hmac = [iengine |-> e1, oengine |-> e2]
  BY Zenon DEF HmacNew, k1, k2
<1>8. g = [e |-> NewEngine, hmac |-> hmac, key |-> key, fed |-> <<>>]
  BY Zenon DEF Fed
<1>9. Holds(S, e1, k1) /\ Holds(S, e2, k2)
  BY <1>4, <1>6, Zenon
<1>10. k1 \o <<>> = k1
  BY <1>4, ConcatEmptySeq, Zenon
<1>11. e1 \in EngineRecords(S) /\ e2 \in EngineRecords(S) /\ NewEngine \in EngineRecords(S)
  BY <1>5, <1>9, Zenon DEF Holds
<1>12. <<>> \in Seq(0 .. 255)
  OBVIOUS
<1> HIDE DEF e1, e2, g, hmac
<1>13. hmac \in [iengine : EngineRecords(S), oengine : EngineRecords(S)] /\ hmac.iengine = e1 /\ hmac.oengine = e2
  BY <1>7, <1>11, SMTT(40)
<1>14. /\ g \in [e : EngineRecords(S), hmac : [iengine : EngineRecords(S), oengine : EngineRecords(S)], key : Seq(0 .. 255), fed : Seq(0 .. 255)]
       /\ g.e = NewEngine /\ g.hmac = hmac /\ g.key = key /\ g.fed = <<>>
  BY <1>8, <1>11, <1>12, <1>13, SMTT(40)
<1>15. Engaged(S, g)
  BY <1>3, <1>4, <1>5, <1>9, <1>10, <1>13, <1>14, ZenonT(40) DEF Engaged, k1, k2
<1>. QED  BY <1>15, Zenon DEF g

LEMMA FeedEngages ==
  ASSUME NEW S, NEW g, Engaged(S, g), NEW inp \in Seq(0 .. 255)
  PROVE  Engaged(S, [g EXCEPT !.e = Input(@, inp), !.hmac = HmacInput(@, inp), !.fed = @ \o inp])
<1> DEFINE k1 == KeyPad(54, g.key)  k2 == KeyPad(92, g.key)
           e == Input(g.e, inp)
           i == Input(g.hmac.iengine, inp)
           hmac == HmacInput(g.hmac, inp)
           fed == g.fed \o inp
           n == [g EXCEPT !.e = Input(@, inp), !.hmac = HmacInput(@, inp), !.fed = @ \o inp]
<1>1. /\ g \in [e : EngineRecords(S), hmac : [iengine : EngineRecords(S), oengine : EngineRecords(S)], key : Seq(0 .. 255), fed : Seq(0 .. 255)]
      /\ 0 .. 255 \subseteq S /\ k1 \in Seq(S) /\ k2 \in Seq(S)
      /\ Holds(S, g.e, g.fed)
      /\ Holds(S, g.hmac.iengine, k1 \o g.fed)
      /\ Holds(S, g.hmac.oengine, k2)
  BY Zenon DEF Engaged
<1>2. inp \in Seq(S)
  BY <1>1, SeqMonotonic, Zenon
<1>3. Holds(S, e, fed)
  BY <1>1, <1>2, InputHolds, ZenonT(40)
<1>4. Holds(S, i, (k1 \o g.fed) \o inp)
  BY <1>1, <1>2, InputHolds, ZenonT(40)
<1>5. g.fed \in Seq(0 .. 255) /\ g.hmac \in [iengine : EngineRecords(S), oengine : EngineRecords(S)]
  BY <1>1
<1>6. g.fed \in Seq(S)
  BY <1>1, <1>5, SeqMonotonic, Zenon
<1>7. Chained(k1, g.fed, inp)
  BY <1>1, <1>2, <1>6, Associates, Zenon
<1>8. Holds(S, i, k1 \o fed)
  BY <1>4, <1>7, Zenon DEF Chained
<1>9. e \in EngineRecords(S) /\ i \in EngineRecords(S)
  BY <1>3, <1>4, Zenon DEF Holds
<1>10. fed \in Seq(0 .. 255)
  BY <1>5, ConcatProperties, Zenon
<1>11. hmac = [g.hmac EXCEPT !.iengine = i]
  BY Zenon DEF HmacInput
<1>12. n = [g EXCEPT !.e = e, !.hmac = hmac, !.fed = fed]
  BY Zenon
<1> HIDE DEF e, i, hmac, fed, n
<1>13. hmac \in [iengine : EngineRecords(S), oengine : EngineRecords(S)] /\ hmac.iengine = i /\ hmac.oengine = g.hmac.oengine
  BY <1>5, <1>9, <1>11, SMTT(40)
<1>14. /\ n \in [e : EngineRecords(S), hmac : [iengine : EngineRecords(S), oengine : EngineRecords(S)], key : Seq(0 .. 255), fed : Seq(0 .. 255)]
       /\ n.e = e /\ n.hmac = hmac /\ n.key = g.key /\ n.fed = fed
  BY <1>1, <1>9, <1>10, <1>12, <1>13, Zenon
<1>15. Engaged(S, n)
  BY <1>1, <1>3, <1>8, <1>13, <1>14, Zenon DEF Engaged
<1>. QED  BY <1>15, Zenon DEF n

LEMMA EngagedRight ==
  ASSUME NEW S, Engaged(S, eng)
  PROVE  EngineHolds /\ KeyedRight
<1> DEFINE fed == eng.fed  k1 == KeyPad(54, eng.key)  k2 == KeyPad(92, eng.key)
           inner == eng.hmac.iengine  outer == eng.hmac.oengine
           used == IF Len(eng.key) > BlockSize THEN Hash(eng.key) ELSE eng.key
           d == Hash(fed)
           block == [i \in 1 .. BlockSize |-> d[((i - 1) % HashLen) + 1]]
           twice == Input(NewEngine, block)
<1>1. /\ Holds(S, eng.e, fed) /\ Holds(S, inner, k1 \o fed) /\ Holds(S, outer, k2)
      /\ k1 \in Seq(S) /\ k2 \in Seq(S) /\ eng.key \in Seq(0 .. 255)
  BY DEF Engaged
<1>2. fed \in Seq(S) /\ k1 \o fed \in Seq(S)
  BY <1>1, Zenon DEF Holds
<1>3. EngineHolds
  <2>1. eng.e.length = Len(fed) /\ eng.e.h \o SubSeq(eng.e.buffer, 1, BufIdx(eng.e)) = fed
    BY <1>1, Zenon DEF Holds
  <2>2. Finished(eng.e).h = Padded(fed)
    BY <1>1, FinishedIs, Zenon
  <2>3. ConstHash(fed, TRUE) = Padded(fed)
    BY <1>2, ConstIs, Zenon
  <2>. QED  BY <2>1, <2>2, <2>3, Zenon DEF EngineHolds
<1>4. d = Digest(ConstHash(fed, TRUE))
  BY <1>2, HashIs, ConstIs, Zenon
<1>5. HashTag(fed) = ConstHash(block, FALSE)
  BY <1>4, Zenon DEF HashTag
<1>6. TagEngine(fed).h = ConstHash(block, FALSE) /\ TagEngine(fed).length = BlockSize
  BY <1>5 DEF TagEngine, FromMidstate
<1>7. twice.h = block /\ twice.length = BlockSize /\ ConstHash(block, FALSE) = block
  <2> DEFINE T == {block[i] : i \in 1 .. BlockSize} \union {0}
  <2>1. block = [i \in 1 .. BlockSize |-> block[i]]
    BY Zenon
  <2> HIDE DEF block
  <2>2. BlockSize \in Nat
    BY Sizes
  <2>3. block \in Seq(T) /\ Len(block) = BlockSize /\ 0 \in T
    BY <2>1, <2>2
  <2> HIDE DEF T
  <2>4. Holds(T, NewEngine, <<>>)
    BY <2>3, NewHolds, Zenon
  <2>5. <<>> \o block = block
    BY <2>3, ConcatEmptySeq, Zenon
  <2>6. Holds(T, twice, block)
    BY <2>3, <2>4, <2>5, InputHolds, Zenon
  <2>7. twice.length = BlockSize
    BY <2>3, <2>6, Zenon DEF Holds
  <2> HIDE DEF twice
  <2> DEFINE q == 1
  <2>8. q \in Nat /\ Len(block) = q * BlockSize
    BY <2>2, <2>3, SMTT(40)
  <2> HIDE DEF q
  <2>9. twice.h = block
    BY <2>6, <2>8, WholeBlocks, Zenon
  <2>10. ConstHash(block, FALSE) = block
    BY <2>3, ConstBlock, Zenon
  <2>. QED  BY <2>7, <2>9, <2>10, Zenon
<1>8. Len(k1) = BlockSize
  BY KeyPadIs, Zenon
<1>9. KeyPad(54, used) = k1 /\ KeyPad(92, used) = k2
  BY <1>1, KeyPadOf, Zenon
<1>10. HmacFromEngine(eng.hmac) = Hash(k2 \o Hash(k1 \o fed))
  <2> DEFINE x == Hash(k1 \o fed)
  <2>1. FromEngine(inner) = x
    BY <1>1, EngineGives, Zenon
  <2>2. PICK U : x \in Seq(U)
    BY <1>2, HashBytes, Zenon
  <2> HIDE DEF x
  <2> DEFINE T == S \union U
  <2>3. S \subseteq T /\ U \subseteq T
    OBVIOUS
  <2> HIDE DEF T
  <2>4. x \in Seq(T)
    BY <2>2, <2>3, SeqMonotonic, Zenon
  <2>5. Holds(T, outer, k2)
    BY <1>1, <2>3, Widen, ZenonT(40)
  <2>6. Holds(T, Input(outer, x), k2 \o x)
    BY <2>4, <2>5, InputHolds, Zenon
  <2>7. FromEngine(Input(outer, x)) = Hash(k2 \o x)
    BY <2>6, EngineGives, Zenon
  <2>. QED  BY <2>1, <2>7, Zenon DEF HmacFromEngine, x
<1>11. Sha256d(eng.e) = Hash(d)
  <2>1. FromEngine(eng.e) = d
    BY <1>1, EngineGives, Zenon
  <2>. QED  BY <2>1, Zenon DEF Sha256d, HashAgain
<1>12. KeyedRight
  BY <1>6, <1>7, <1>8, <1>9, <1>10, <1>11, Zenon DEF KeyedRight
<1>. QED  BY <1>3, <1>12, SMTT(40)

\* However the input of an engine is cut into pieces, for every block, length and digest
\* size the code could choose and every key: the engine keeps the whole blocks compressed
\* and the rest buffered (hashes/src/util.rs:72), from_engine and const_hash compress
\* exactly the padded message, and the tagged, the double and the keyed hash are the
\* hashes that they stand for.
THEOREM EnginesAlwaysHold == EngSpec => []EnginesHold
<1> DEFINE Starts == \E key \in Seq(0 .. 255) : eng = Fed(key)
           Feeds == \E inp \in Seq(0 .. 255) : Feed(inp)
<1>1. Starts => EngInv
  BY StartsEngaged, Zenon DEF EngInv
<1>2. EngInv /\ [Feeds]_eng => EngInv'
  <2> SUFFICES ASSUME EngInv, [Feeds]_eng PROVE EngInv'
    OBVIOUS
  <2>1. PICK S : Engaged(S, eng)
    BY Zenon DEF EngInv
  <2>2. CASE Feeds
    <3>1. PICK inp \in Seq(0 .. 255) : Feed(inp)
      BY <2>2, Zenon
    <3>2. Engaged(S, eng')
      BY <2>1, <3>1, FeedEngages, Zenon DEF Feed
    <3>. QED  BY <3>2, Zenon DEF EngInv
  <2>3. CASE UNCHANGED eng
    BY <2>1, <2>3, Zenon DEF EngInv
  <2>. QED  BY <2>2, <2>3
<1>3. EngInv => EnginesHold
  BY EngagedRight, Zenon DEF EngInv, EnginesHold
<1>4. EngSpec <=> Starts /\ [][Feeds]_eng
  BY DEF EngSpec
<1> HIDE DEF Starts, Feeds
<1>. QED  BY <1>1, <1>2, <1>3, <1>4, PTL
=============================================================================
