------------------------------ MODULE LockTimes ------------------------------
(***************************************************************************)
(* Lock times: absolute (blockdata/locktime/absolute.rs), relative         *)
(* (blockdata/locktime/relative.rs), the heights and times they hold       *)
(* (units/src/locktime) and the sequence numbers of inputs                 *)
(* (blockdata/transaction.rs).  Numbers are as wide as the constants say.  *)
(***************************************************************************)
EXTENDS Integers, Sequences, FiniteSets

CONSTANTS
  U32,         \* one more than the largest u32, 2^32
  U16,         \* one more than the largest u16, 2^16
  Threshold,   \* LOCK_TIME_THRESHOLD, 500000000
  Interval,    \* seconds of a relative unit of time, 512
  TypeFlag     \* LOCK_TYPE_MASK, 2^22

VARIABLES
  height,      \* height of the tip
  time,        \* its median time
  watched      \* the locks and sequence numbers that somebody looks at

ASSUME LockAssumption ==
  /\ U32 \in Nat /\ U16 \in Nat /\ Threshold \in Nat /\ Interval \in Nat /\ TypeFlag \in Nat
  /\ 0 < U16 /\ U16 <= TypeFlag /\ 4 * TypeFlag <= U32 /\ U32 % 2 = 0
  /\ Threshold < U32 /\ 0 < Interval /\ Interval < U32
  /\ TypeFlag % U16 = 0 /\ U32 % (2 * TypeFlag) = 0

Some(v) == [ok |-> TRUE, val |-> v]
None(kind) == [ok |-> FALSE, val |-> kind]
Lock(unit, n) == [unit |-> unit, n |-> n]
-----------------------------------------------------------------------------
\* Absolute: a height below the threshold, a time from it on.
IsBlockHeight(n) == n < Threshold
HeightFromConsensus(n) == IF IsBlockHeight(n) THEN Some(n) ELSE None("Conversion")
TimeFromConsensus(n) == IF ~IsBlockHeight(n) THEN Some(n) ELSE None("Conversion")
FromConsensus(n) == Lock(IF IsBlockHeight(n) THEN "Blocks" ELSE "Seconds", n)
LockFromHeight(n) == IF HeightFromConsensus(n).ok THEN Some(Lock("Blocks", n)) ELSE HeightFromConsensus(n)
LockFromTime(n) == IF TimeFromConsensus(n).ok THEN Some(Lock("Seconds", n)) ELSE TimeFromConsensus(n)

\* A number read from text, as an i64, to a u32 and on to its type.
ParseHeight(n) == IF n \notin 0..U32 - 1 THEN None("Conversion") ELSE HeightFromConsensus(n)
ParseTime(n) == IF n \notin 0..U32 - 1 THEN None("Conversion") ELSE TimeFromConsensus(n)

\* Hexadecimal text: its prefixes and its number.  hex_u32 takes a prefix off itself.
HexU32(t) ==
  IF t.prefixes > 1 THEN None("ParseInt") ELSE IF t.n >= U32 THEN None("ParseInt") ELSE Some(t.n)
StripPrefix(t) == [t EXCEPT !.prefixes = @ - 1]
LockFromHex(t) ==
  IF t.prefixes = 0 THEN None("MissingPrefix")
  ELSE LET n == HexU32(StripPrefix(t)) IN IF n.ok THEN Some(FromConsensus(n.val)) ELSE n
LockFromUnprefixedHex(t) ==
  IF t.prefixes > 0 THEN None("ContainsPrefix")
  ELSE LET n == HexU32(t) IN IF n.ok THEN Some(FromConsensus(n.val)) ELSE n

IsSameUnit(a, b) == a.unit = b.unit

IsSatisfiedBy(lock, h, t) == lock.n <= (IF lock.unit = "Blocks" THEN h ELSE t)

\* Mutant: the units are not compared.
IsImpliedByAnyUnit(this, other) == this.n <= other.n
IsImpliedBy(this, other) == IsSameUnit(this, other) /\ this.n <= other.n

\* partial_cmp has no answer between units; arbitrary_cmp has one for any two.
PartialLess(a, b) == IF IsSameUnit(a, b) THEN {a.n < b.n} ELSE {}
ArbitraryLess(a, b) == IF IsSameUnit(a, b) THEN a.n < b.n ELSE a.unit = "Blocks"
-----------------------------------------------------------------------------
\* Sequence numbers; the bits are tested by division.
SeqMax == U32 - 1
MinNoRbf == U32 - 2
EnablesAbsoluteLockTime(seq) == seq # SeqMax
IsRbf(seq) == seq < MinNoRbf
IsRelativeLockTime(seq) == seq < U32 \div 2
TypeBit(seq) == (seq \div TypeFlag) % 2 = 1
IsHeightLocked(seq) == IsRelativeLockTime(seq) /\ ~TypeBit(seq)
IsTimeLocked(seq) == IsRelativeLockTime(seq) /\ TypeBit(seq)
SeqFromHeight(h) == h
SeqFromIntervals(i) == i + TypeFlag
LowU16(seq) == seq % U16

SeqFromHex(t) == IF t.prefixes = 0 THEN None("MissingPrefix") ELSE HexU32(StripPrefix(t))
SeqFromUnprefixedHex(t) == IF t.prefixes > 0 THEN None("ContainsPrefix") ELSE HexU32(t)

ToRelativeLockTime(seq) ==
  IF ~IsRelativeLockTime(seq) THEN None("Disabled")
  ELSE Some(Lock(IF IsTimeLocked(seq) THEN "Seconds" ELSE "Blocks", LowU16(seq)))

\* Adding to a u32: with overflow checks a panic, without them the low bits.
AddU32(a, b) == IF a + b < U32 THEN {Some(a + b)} ELSE {None("panic"), Some((a + b) % U32)}

\* TimeOverflowError::new: the assertion that the seconds do not fit.
OverflowError(seconds) ==
  {IF s.ok /\ s.val \div Interval >= U16 THEN None("TimeOverflow") ELSE None("panic") :
     s \in AddU32(seconds, Interval - 1)}

\* Relative lock times of seconds; the constructor of Sequence makes its error with
\* TimeOverflowError::new, those of Time do not.
TimeFromSecondsFloor(seconds) ==
  IF seconds \div Interval < U16 THEN Some(seconds \div Interval) ELSE None("TimeOverflow")
TimeFromSecondsCeil(seconds) ==
  {IF ~s.ok THEN s
   ELSE IF s.val \div Interval < U16 THEN Some(s.val \div Interval) ELSE None("TimeOverflow") :
     s \in AddU32(seconds, Interval - 1)}
SeqFromSecondsFloor(seconds) ==
  IF seconds \div Interval < U16 THEN {Some(SeqFromIntervals(seconds \div Interval))} ELSE OverflowError(seconds)
SeqFromSecondsCeil(seconds) ==
  UNION {IF ~s.ok THEN {s}
         ELSE IF s.val \div Interval < U16 THEN {Some(SeqFromIntervals(s.val \div Interval))}
         ELSE OverflowError(seconds) : s \in AddU32(seconds, Interval - 1)}
-----------------------------------------------------------------------------
\* relative::LockTime.
RelToConsensus(lock) == IF lock.unit = "Seconds" THEN lock.n + TypeFlag ELSE lock.n
RelFromConsensus(n) == ToRelativeLockTime(n)
RelFromSequence(seq) == RelFromConsensus(seq)
RelToSequence(lock) == RelToConsensus(lock)

RelSatisfiedByHeight(lock, h) == IF lock.unit = "Blocks" THEN Some(lock.n <= h) ELSE None("IncompatibleHeight")
RelSatisfiedByTime(lock, t) == IF lock.unit = "Seconds" THEN Some(lock.n <= t) ELSE None("IncompatibleTime")
RelIsSatisfiedBy(lock, h, t) ==
  LET byHeight == RelSatisfiedByHeight(lock, h)
      byTime == RelSatisfiedByTime(lock, t)
  IN  (byHeight.ok /\ byHeight.val) \/ (byTime.ok /\ byTime.val)
RelIsImpliedBy(this, other) == IsSameUnit(this, other) /\ this.n <= other.n
RelIsImpliedBySequence(this, seq) ==
  LET other == RelFromSequence(seq) IN other.ok /\ RelIsImpliedBy(this, other.val)
-----------------------------------------------------------------------------
\* The locks of a transaction [lock_time, input], an input being its sequence number.
IsExplicitlyRbf(tx) == \E i \in DOMAIN tx.input : IsRbf(tx.input[i])
IsLockTimeEnabled(tx) == \E i \in DOMAIN tx.input : EnablesAbsoluteLockTime(tx.input[i])
IsAbsoluteTimelockSatisfied(tx, h, t) ==
  ~IsLockTimeEnabled(tx) \/ IsSatisfiedBy(tx.lock_time, h, t)
-----------------------------------------------------------------------------
\* Locks that are looked at while blocks arrive.
Numbers == 0..U32 - 1
Absolute == {FromConsensus(n) : n \in Numbers}
Relative == {Lock(u, n) : u \in {"Blocks", "Seconds"}, n \in 0..U16 - 1}
Watching(absolute, relative, numbers) == [absolute |-> absolute, relative |-> relative, numbers |-> numbers]

\* A block arrives.  Its time may stay behind the one before; what counts is the median
\* of the last ones, which does not.
Tip(t) == height' = height + 1 /\ time' = t

LockInit ==
  /\ height = 0 /\ time = Threshold
  /\ \E a \in SUBSET Absolute, r \in SUBSET Relative, n \in SUBSET Numbers : watched = Watching(a, r, n)
LockNext == (\E t \in Nat : t >= time /\ Tip(t)) /\ UNCHANGED watched
LockSpec == LockInit /\ [][LockNext]_<<height, time, watched>>

(* A lock that is implied by another is open whenever the other is, absolute and
   relative: is_implied_by against is_satisfied_by. *)
ImpliedOpen ==
  /\ \A a \in watched.absolute, b \in watched.absolute :
       IsImpliedBy(a, b) /\ IsSatisfiedBy(b, height, time) => IsSatisfiedBy(a, height, time)
  /\ \A a \in watched.relative, b \in watched.relative :
       RelIsImpliedBySequence(a, RelToSequence(b)) /\ RelIsSatisfiedBy(b, height, time - Threshold)
         => RelIsSatisfiedBy(a, height, time - Threshold)

(* A sequence number is a height lock, a time lock or none, and stands for the lock
   it was made from; the seconds of a time lock are rounded the way the name says. *)
SequencesHold ==
  /\ \A lock \in watched.relative :
       /\ RelFromSequence(RelToSequence(lock)) = Some(lock)
       /\ IsRbf(RelToSequence(lock)) /\ EnablesAbsoluteLockTime(RelToSequence(lock))
       /\ IsTimeLocked(RelToSequence(lock)) <=> lock.unit = "Seconds"
  /\ \A n \in watched.numbers :
       Cardinality({k \in 1..3 : <<IsHeightLocked(n), IsTimeLocked(n), ~RelFromSequence(n).ok>>[k]}) = 1
  /\ \A s \in watched.numbers :
       s + Interval - 1 < U32 =>
         \A f \in {TimeFromSecondsFloor(s)}, c \in TimeFromSecondsCeil(s) :
           /\ f.ok => f.val * Interval <= s /\ s < (f.val + 1) * Interval
           /\ c.ok => s <= c.val * Interval /\ c.val * Interval < s + Interval
           /\ SeqFromSecondsFloor(s) = {IF f.ok THEN Some(SeqFromIntervals(f.val)) ELSE f}
           /\ c.ok => SeqFromSecondsCeil(s) = {Some(SeqFromIntervals(c.val))}

(* Locks that imply each other open in that order, in all of their encodings
   (locktime/absolute.rs, locktime/relative.rs, units/src/locktime). *)
LocksHold == ImpliedOpen /\ SequencesHold
=============================================================================
