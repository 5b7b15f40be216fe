----------------------------- MODULE MCRetarget -----------------------------
(***************************************************************************)
(* Chains with 20 bit targets, bytes of 2 bits and a timespan of 4, from   *)
(* every compact target (of two sizes where nothing is retargeted).  The   *)
(* limit is as far from the width as in the code, where 0x0ffff0 << 216    *)
(* times four timespans just exceeds 2^256.                                *)
(*                                                                         *)
(* Where the chain does not retarget, an 8 bit number counts through all   *)
(* values beside another one instead, for the operations of U256.          *)
(***************************************************************************)
EXTENDS Retarget

A == INSTANCE U256 WITH Q <- 2

VARIABLES lhs, rhs

mcVars == <<workVars, lhs, rhs>>

SmallLimits == {U(72, 0)}
Times == {0, 1, 2, 4, 9, 20}

Counting == params.no_pow_retargeting /\ bits.size = 0 /\ bits.mant = 0 /\ boundary = 0

MCInit ==
  /\ WorkInit
  /\ params.no_pow_retargeting => bits.size \in {0, 6}
  /\ lhs \in IF Counting THEN {A!U(hi, lo) : hi \in 0 .. 15, lo \in 0 .. 15} ELSE {A!Zero}
  /\ rhs = A!Zero

Count ==
  /\ Counting
  /\ rhs' = A!WrappingInc(rhs)
  /\ UNCHANGED <<workVars, lhs>>

Chain == WorkNext /\ lhs = A!Zero /\ rhs = A!Zero /\ UNCHANGED <<lhs, rhs>>

MCNext == Chain \/ Count

MCSpec == MCInit /\ [][MCNext]_mcVars

\* A new target is ordered as the spans are, and its compact form is the nearest
\* one below it (CompactTarget::from_next_work_required, to_compact_lossy).
TargetsHold == ~Counting => CompactIsFloor /\ SlowerIsEasier

\* The sums and differences of all 8 bit numbers, and their products with those
\* below 2^192, with the carries between halves and quarters, are those of the
\* numbers they stand for.
SumsAgree == A!SumsRight(lhs, rhs)

\* overflowing_mul returns "a tuple of the multiplication along with a boolean
\* [...] If an overflow would have occurred then the wrapped value is returned".
ProductsAgree == A!ProductsRight(lhs, rhs)

\* So are the shifts, whose distance is taken modulo the width.
ShiftsAgree == A!ShiftsRight(lhs, A!Value(rhs))

\* The long division computes the quotient and the rest.
DivisionAgrees == A!DivisionRight(lhs, rhs)

\* The work of a target falls as the target grows, and is 2^256 / (target + 1).
WorkAgrees == A!WorkRight(lhs, rhs)

\* The operators of U256, word by word, are those of the numbers they stand for,
\* for all pairs that are counted through (each is left by a step).
ArithmeticAgrees == [][Count => SumsAgree /\ ShiftsAgree /\ DivisionAgrees /\ WorkAgrees]_mcVars
=============================================================================
