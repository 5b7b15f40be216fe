-------------------------------- MODULE U256 --------------------------------
(***************************************************************************)
(* The 256 bit integers of pow.rs, for any width: a number is a pair of    *)
(* halves, and a multiplication works on quarters.  Q is the width of a    *)
(* quarter in bits, 64 in the code.                                        *)
(***************************************************************************)
EXTENDS Integers, Sequences

CONSTANT Q

ASSUME QuarterAssumption == Q \in Nat \ {0}

Width == 4 * Q
Word == 2 ^ Q           \* u64::MAX + 1
Half == 2 ^ (2 * Q)     \* u128::MAX + 1
Modulus == 2 ^ Width

U(hi, lo) == [hi |-> hi, lo |-> lo]
Zero == U(0, 0)
One == U(0, 1)
Max == U(Half - 1, Half - 1)

\* From<T: Into<u128>>, and the number a pair stands for.
From(n) == U(0, n)
Value(x) == x.hi * Half + x.lo

\* The derived order.
Less(x, y) == x.hi < y.hi \/ (x.hi = y.hi /\ x.lo < y.lo)

\* The width of n in bits: the width of the type less leading_zeros.
BitLength(n) == CHOOSE k \in 0 .. Width : n < 2 ^ k /\ (k = 0 \/ n >= 2 ^ (k - 1))
Bits(x) == IF x.hi > 0 THEN 2 * Q + BitLength(x.hi) ELSE BitLength(x.lo)

-----------------------------------------------------------------------------
\* A mutant: the carry of the low half is lost.
OverflowingAddNoCarry(x, y) ==
  [sum |-> U((x.hi + y.hi) % Half, (x.lo + y.lo) % Half), overflow |-> x.hi + y.hi >= Half]

\* overflowing_add
OverflowingAdd(x, y) ==
  LET carry == (x.lo + y.lo) \div Half
      high == (x.hi + y.hi) % Half
  IN  [sum |-> U((high + carry) % Half, (x.lo + y.lo) % Half),
       overflow |-> x.hi + y.hi >= Half \/ high + carry >= Half]
WrappingAdd(x, y) == OverflowingAdd(x, y).sum

\* Not, overflowing_sub
Not(x) == U(Half - 1 - x.hi, Half - 1 - x.lo)
OverflowingSub(x, y) ==
  [difference |-> WrappingAdd(WrappingAdd(x, Not(y)), One), overflow |-> Less(x, y)]

WrappingInc(x) ==
  LET low == (x.lo + 1) % Half
  IN  U(IF low = 0 THEN (x.hi + 1) % Half ELSE x.hi, low)

\* wrapping_shl and wrapping_shr; the distance is taken modulo the width.
Shl(x, distance) ==
  LET shift == distance % Width
      bits == shift % (2 * Q)
  IN  IF shift >= 2 * Q THEN U((x.lo * 2 ^ bits) % Half, 0)
      ELSE U(((x.hi * 2 ^ bits) % Half)
               + (IF bits > 0 THEN x.lo \div 2 ^ (2 * Q - bits) ELSE 0),
             (x.lo * 2 ^ bits) % Half)

Shr(x, distance) ==
  LET shift == distance % Width
      bits == shift % (2 * Q)
  IN  IF shift >= 2 * Q THEN U(0, x.hi \div 2 ^ bits)
      ELSE U(x.hi \div 2 ^ bits,
             (x.lo \div 2 ^ bits)
               + (IF bits > 0 THEN (x.hi * 2 ^ (2 * Q - bits)) % Half ELSE 0))

\* mul_u64: one quarter after the other, with a carry.
MulU64(x, r) ==
  LET words == <<x.lo % Word, x.lo \div Word, x.hi % Word, x.hi \div Word>>
      n[i \in 0 .. 4] == IF i = 0 THEN 0 ELSE (n[i - 1] \div Word) + r * words[i]
  IN  [product |-> U((n[3] % Word) + (n[4] % Word) * Word, (n[1] % Word) + (n[2] % Word) * Word),
       overflow |-> n[4] >= Word]

\* overflowing_mul, by the quarters of the right factor.  The product with the
\* top quarter is added where it stands, and only the last two operations
\* contribute to the flag.
OverflowingMul(x, y) ==
  LET Quarter(i) == Shr(y, Q * i).lo % Word
      sum[i \in 0 .. 3] ==
        IF i = 0 THEN Zero
        ELSE WrappingAdd(sum[i - 1], Shl(MulU64(x, Quarter(i - 1)).product, Q * (i - 1)))
      last == MulU64(x, Quarter(3))
      total == OverflowingAdd(sum[3], last.product)
  IN  [product |-> total.sum, overflow |-> last.overflow \/ total.overflow]

Takes(sub, shifted) == ~Less(sub, shifted)

\* div_rem: long division, one bit of the quotient after the other.  The
\* divisor is not zero.
DivRem(x, y) ==
  LET top == Bits(x) - Bits(y)
      start == [quotient |-> Zero, rest |-> x, shifted |-> Shl(y, top)]
      Step(s, shift) ==
        LET takes == Takes(s.rest, s.shifted)
        IN  [quotient |-> IF takes THEN WrappingAdd(s.quotient, Shl(One, shift)) ELSE s.quotient,
             rest |-> IF takes THEN OverflowingSub(s.rest, s.shifted).difference ELSE s.rest,
             shifted |-> Shr(s.shifted, 1)]
      state[k \in 0 .. top + 1] == IF k = 0 THEN start ELSE Step(state[k - 1], top + 1 - k)
  IN  IF top < 0 THEN [quotient |-> Zero, rest |-> x]
      ELSE [quotient |-> state[top + 1].quotient, rest |-> state[top + 1].rest]

\* inverse, the work of a target and the target of a work.
Inverse(x) ==
  IF x \in {Zero, One} THEN Max ELSE IF x = Max THEN One
  ELSE WrappingInc(DivRem(Not(x), WrappingInc(x)).quotient)

-----------------------------------------------------------------------------
\* The operations against the numbers they stand for.
SumsRight(x, y) ==
  LET a == Value(x)
      b == Value(y)
  IN  /\ Value(WrappingAdd(x, y)) = (a + b) % Modulus
      /\ OverflowingAdd(x, y).overflow <=> a + b >= Modulus
      /\ Value(OverflowingSub(x, y).difference) = (a - b) % Modulus
      /\ OverflowingSub(x, y).overflow <=> a < b
      /\ b < Word ^ 3 => Value(OverflowingMul(x, y).product) = (a * b) % Modulus

ProductsRight(x, y) == Value(OverflowingMul(x, y).product) = (Value(x) * Value(y)) % Modulus

ShiftsRight(x, distance) ==
  /\ Value(Shl(x, distance)) = (Value(x) * 2 ^ (distance % Width)) % Modulus
  /\ Value(Shr(x, distance)) = Value(x) \div 2 ^ (distance % Width)

DivisionRight(x, y) ==
  y # Zero => /\ Value(DivRem(x, y).quotient) = Value(x) \div Value(y)
              /\ Value(DivRem(x, y).rest) = Value(x) % Value(y)

\* Less work for a larger target, and 2^256 / (x + 1) but for the values that
\* are defined otherwise.
WorkRight(x, y) ==
  /\ x \notin {Zero, One} => Value(Inverse(x)) = Modulus \div (Value(x) + 1)
  /\ Less(x, y) => ~Less(Inverse(x), Inverse(y))
=============================================================================
