------------------------------ MODULE Retarget ------------------------------
(***************************************************************************)
(* Difficulty adjustment: the compact form of targets, and a chain whose   *)
(* next target is computed from the times of two headers with              *)
(* CompactTarget::from_header_difficulty_adjustment.                       *)
(*                                                                         *)
(* A compact target is its size byte and its three mantissa bytes.  Bytes  *)
(* have ByteBits bits, and numbers the width of U256, in proportion to the *)
(* 8 and 256 of the code.                                                  *)
(***************************************************************************)
EXTENDS U256

CONSTANTS
  ByteBits,     \* 8
  MaxSize,      \* 255, the largest size byte
  Timespan,     \* params.pow_target_timespan
  Limits,       \* values of params.max_attainable_target
  Time,         \* header times
  TimeModulus   \* u32::MAX + 1

ASSUME RetargetConstants ==
  /\ ByteBits \in Nat \ {0} /\ MaxSize \in Nat /\ Timespan \in Nat \ {0}
  /\ Time \subseteq 0 .. TimeModulus - 1

ByteBase == 2 ^ ByteBits
Mantissas == 0 .. ByteBase ^ 3 - 1
SignBit == ByteBase ^ 3 \div 2
CompactTarget == [size : 0 .. MaxSize, mant : Mantissas]

\* Target::from_compact
FromCompact(c) ==
  LET mant == IF c.size <= 3 THEN c.mant \div ByteBase ^ (3 - c.size) ELSE c.mant
      shift == IF c.size <= 3 THEN 0 ELSE ByteBits * (c.size - 3)
  IN  IF mant >= SignBit THEN Zero ELSE Shl(From(mant), shift)

\* A mutant: a mantissa that would look negative is not moved down.
ToCompactNegative(t) ==
  LET size == (Bits(t) + ByteBits - 1) \div ByteBits
      mant == IF size <= 3 THEN t.lo * ByteBase ^ (3 - size)
              ELSE Shr(t, ByteBits * (size - 3)).lo % ByteBase ^ 4
  IN  [size |-> size, mant |-> mant]

\* Target::to_compact_lossy
ToCompact(t) ==
  LET size == (Bits(t) + ByteBits - 1) \div ByteBits
      mant == IF size <= 3 THEN t.lo * ByteBase ^ (3 - size)
              ELSE Shr(t, ByteBits * (size - 3)).lo % ByteBase ^ 4
  IN  IF (mant \div SignBit) % 2 = 1
      THEN [size |-> size + 1, mant |-> mant \div ByteBase]
      ELSE [size |-> size, mant |-> mant]

MinOf(x, y) == IF Less(x, y) THEN x ELSE y
Clamp(n, low, high) == IF n < low THEN low ELSE IF n > high THEN high ELSE n

\* min_transition_threshold, max_transition_threshold
MinTransition(t) == Shr(t, 2)
MaxTransition(t, limit) == MinOf(Shl(t, 2), limit)

ActualTimespan(timespan) == Clamp(timespan, Timespan \div 4, 4 * Timespan)

\* A mutant: the division comes first.
NextTargetDividing(prev, timespan, limit) ==
  LET quotient == DivRem(prev, From(Timespan)).quotient
      retarget == OverflowingMul(quotient, From(ActualTimespan(timespan))).product
      maximum == MaxTransition(prev, limit)
  IN  IF ~Less(retarget, maximum) THEN maximum ELSE retarget

\* from_next_work_required, for parameters with a limit and retargeting.
NextTarget(prev, timespan, limit) ==
  LET product == OverflowingMul(prev, From(ActualTimespan(timespan))).product
      retarget == DivRem(product, From(Timespan)).quotient
      maximum == MaxTransition(prev, limit)
  IN  IF ~Less(retarget, maximum) THEN maximum ELSE retarget

NextWorkRequired(last, timespan, params) ==
  IF params.no_pow_retargeting THEN last
  ELSE ToCompact(NextTarget(FromCompact(last), timespan, params.max_attainable_target))

\* from_header_difficulty_adjustment; the times are u32, and their difference
\* wraps in a release build.
HeaderAdjustment(boundary, current, bits, params) ==
  NextWorkRequired(bits, (current - boundary) % TimeModulus, params)

-----------------------------------------------------------------------------
VARIABLES
  params,     \* struct Params, as far as it matters here
  bits,       \* Header.bits of the epoch
  boundary    \* Header.time of the block the epoch began with

workVars == <<params, bits, boundary>>

WorkInit ==
  /\ params \in [max_attainable_target : Limits, no_pow_retargeting : BOOLEAN]
  /\ bits \in CompactTarget
  /\ boundary \in Time

\* An epoch ends with a block of time current.
Adjust(current) ==
  /\ bits' = HeaderAdjustment(boundary, current, bits, params)
  /\ boundary' = current
  /\ UNCHANGED params

WorkNext == \E current \in Time : Adjust(current)

-----------------------------------------------------------------------------
\* bits stays a compact target and the parameters do not change their form.
WorkTypeOK == bits \in CompactTarget /\ boundary \in Time /\ params.no_pow_retargeting \in BOOLEAN

Target == FromCompact(bits)
Limit == params.max_attainable_target
Retargets == ~params.no_pow_retargeting
AtMost(x, y) == ~Less(y, x)
CanonicalBits(c) == ToCompact(FromCompact(c)) = c
Spans == {(t - boundary) % TimeModulus : t \in Time}

\* The compact form of a target is the largest compact target below it, a
\* canonical one, so that a target loses precision once and not at each step.
CompactIsFloor ==
  \A span \in Spans :
    LET t == NextTarget(Target, span, Max)
        c == ToCompact(t)
    IN  /\ CanonicalBits(c)
        /\ AtMost(FromCompact(c), t)
        /\ IF c.size <= 3 THEN FromCompact(c) = t
           ELSE Value(t) < (c.mant + 1) * ByteBase ^ (c.size - 3)

\* No adjustment makes the target larger than the network's limit, whatever
\* the bits and the times of the headers were.
LimitHolds == [][Retargets => AtMost(FromCompact(bits'), Limit)]_workVars

\* An epoch that took the expected time leaves a canonical target as it is.
SteadyEpoch ==
  [][/\ Retargets /\ CanonicalBits(bits) /\ AtMost(Target, Limit)
     /\ (boundary' - boundary) % TimeModulus = Timespan
     => bits' = bits]_workVars

\* Along a chain of epochs the limit holds and a steady epoch changes nothing
\* (CompactTarget::from_next_work_required).
EpochsHold == LimitHolds /\ SteadyEpoch

\* The product of the target and the clamped span fits.
Fits(span) == Value(Target) * ActualTimespan(span) < Modulus

\* A slower epoch never leads to a harder target than a faster one, and the
\* target changes by no more than a factor of four, while the product fits.
SlowerIsEasier ==
  Retargets /\ AtMost(Target, Limit) =>
    \A span \in Spans : Fits(span) =>
      LET next == NextTarget(Target, span, Limit)
      IN  /\ AtMost(MinTransition(Target), next) /\ AtMost(next, MaxTransition(Target, Limit))
          /\ \A faster \in Spans : faster <= span =>
               AtMost(NextTarget(Target, faster, Limit), next)

\* "The CompactTarget may not adjust by more than a factor of 4, or adjust
\* beyond the maximum threshold for the network" (from_next_work_required).
WithinFactorFour ==
  [][Retargets /\ AtMost(Target, Limit) =>
       AtMost(FromCompact(ToCompact(MinTransition(Target))), FromCompact(bits'))]_workVars
=============================================================================
