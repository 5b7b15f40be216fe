------------------------------ MODULE Induction ------------------------------
(***************************************************************************)
(* Induction up to a bound, functions defined by recursion up to a bound,  *)
(* and quotients.  The first two are stated with sets: to prove P for      *)
(* 0 .. N, take the set of the n for which P holds.                        *)
(***************************************************************************)
EXTENDS Integers, WellFoundedInduction, TLAPS

\* A set of natural numbers that is not empty has a least element.
LEMMA LeastElement ==
  ASSUME NEW T \in SUBSET Nat, T # {}
  PROVE  \E n \in T : \A m \in T : n <= m
<1> DEFINE R == OpToRel(<, Nat)
<1>1. \A m, n \in Nat : m < n => <<m, n>> \in R
  BY DEF OpToRel
<1>2. IsWellFoundedOn(R, Nat)
  BY NatLessThanWellFounded
<1> HIDE DEF R
<1>3. PICK n \in T : \A m \in T : ~(<<m, n>> \in R)
  BY <1>2, WFMin
<1>4. \A m \in T : ~(m < n)
  BY <1>1, <1>3
<1>. QED  BY <1>4

\* Induction from 0 to N.
LEMMA UpTo ==
  ASSUME NEW N \in Nat, NEW S, 0 \in S,
         \A n \in 1 .. N : n - 1 \in S => n \in S
  PROVE  \A n \in 0 .. N : n \in S
<1> DEFINE T == {n \in 0 .. N : n \notin S}
<1> SUFFICES ASSUME T # {} PROVE FALSE
  OBVIOUS
<1>1. T \in SUBSET Nat
  OBVIOUS
<1>2. PICK n \in T : \A m \in T : n <= m
  BY <1>1, LeastElement
<1>3. n \in 1 .. N /\ n - 1 \in 0 .. N
  BY <1>2
<1>4. n - 1 \in S
  BY <1>2, <1>3
<1>. QED  BY <1>2, <1>3, <1>4

\* A step from the value at n - 1 to the one at n, and a function that takes
\* it from base on.
Stepwise(step, V, N) == step \in [V \X (1 .. N) -> V]
Iterates(f, base, step, V, N) ==
  /\ f \in [0 .. N -> V]
  /\ f[0] = base
  /\ \A n \in 1 .. N : f[n] = step[<<f[n - 1], n>>]

\* Every step is taken by some function.
LEMMA Recursion ==
  ASSUME NEW N \in Nat, NEW V, NEW base \in V, NEW step, Stepwise(step, V, N)
  PROVE  \E f : Iterates(f, base, step, V, N)
<1> USE DEF Stepwise
<1> DEFINE Steps(f, m) ==
             /\ f \in [0 .. m -> V]
             /\ f[0] = base
             /\ \A n \in 1 .. m : f[n] = step[<<f[n - 1], n>>]
           S == {m \in 0 .. N : \E f : Steps(f, m)}
<1>1. 0 \in S
  <2> DEFINE f == [n \in 0 .. 0 |-> base]
  <2>1. Steps(f, 0)
    OBVIOUS
  <2> HIDE DEF f
  <2>. QED  BY <2>1
<1>2. ASSUME NEW m \in 1 .. N, m - 1 \in S PROVE m \in S
  <2>1. PICK f : Steps(f, m - 1)
    BY <1>2
  <2> DEFINE g == [n \in 0 .. m |-> IF n = m THEN step[<<f[m - 1], m>>] ELSE f[n]]
  <2>2. f[m - 1] \in V
    BY <2>1
  <2>3. step[<<f[m - 1], m>>] \in V
    BY <2>2
  <2>4. g \in [0 .. m -> V]
    BY <2>1, <2>3
  <2>5. g[0] = base
    BY <2>1
  <2>6. ASSUME NEW n \in 1 .. m PROVE g[n] = step[<<g[n - 1], n>>]
    <3>1. CASE n = m
      <4>1. g[n] = step[<<f[m - 1], m>>] /\ g[n - 1] = f[m - 1]
        BY <3>1
      <4>. QED  BY <3>1, <4>1
    <3>2. CASE n # m
      <4>1. n \in 1 .. m - 1 /\ g[n] = f[n] /\ g[n - 1] = f[n - 1]
        BY <3>2
      <4>. QED  BY <2>1, <4>1
    <3>. QED  BY <3>1, <3>2
  <2> HIDE DEF g
  <2>7. Steps(g, m)
    BY <2>4, <2>5, <2>6
  <2>. QED  BY <2>7
<1> HIDE DEF S
<1>3. N \in S
  BY <1>1, <1>2, UpTo
<1>4. PICK f : Steps(f, N)
  BY <1>3 DEF S
<1>. QED  BY <1>4 DEF Iterates

-----------------------------------------------------------------------------
\* Quotient and rest.
LEMMA Division ==
  ASSUME NEW a \in Nat, NEW b \in Nat, b > 0
  PROVE  /\ a \div b \in Nat /\ a % b \in Nat /\ a % b < b
         /\ a = (a \div b) * b + (a % b)
OBVIOUS

\* The quotient is the one number that is low enough and not too low.
LEMMA Quotient ==
  ASSUME NEW a \in Nat, NEW b \in Nat, b > 0, NEW q \in Nat, q * b <= a, a < (q + 1) * b
  PROVE  a \div b = q
<1> DEFINE d == a \div b
<1>1. d \in Nat /\ d * b <= a /\ a < (d + 1) * b
  BY Division
<1> HIDE DEF d
<1>2. ASSUME NEW x \in Nat, NEW y \in Nat, x * b <= a, a < (y + 1) * b
      PROVE  x <= y
  <2>1. SUFFICES ASSUME x >= y + 1 PROVE FALSE
    OBVIOUS
  <2>2. PICK k \in Nat : x = y + 1 + k
    <3>1. x = y + 1 + (x - y - 1) /\ x - y - 1 \in Nat
      BY <2>1
    <3>. QED  BY <3>1
  <2>3. x * b = (y + 1) * b + k * b
    BY <2>2
  <2>4. k * b >= 0
    OBVIOUS
  <2>5. (y + 1) * b \in Int /\ x * b \in Int /\ k * b \in Int
    OBVIOUS
  <2>. QED  BY <1>2, <2>3, <2>4, <2>5
<1>3. d <= q /\ q <= d
  BY <1>1, <1>2
<1>. QED  BY <1>1, <1>3 DEF d

\* A larger number has no smaller quotient.
LEMMA QuotientGrows ==
  ASSUME NEW a \in Nat, NEW c \in Nat, a <= c, NEW b \in Nat, b > 0
  PROVE  a \div b <= c \div b
<1> DEFINE d == a \div b  e == c \div b
<1>1. /\ d \in Nat /\ d * b <= a /\ a < (d + 1) * b
      /\ e \in Nat /\ e * b <= c /\ c < (e + 1) * b
  BY Division
<1> HIDE DEF d, e
<1>2. SUFFICES ASSUME d >= e + 1 PROVE FALSE
  BY <1>1 DEF d, e
<1>3. PICK k \in Nat : d = e + 1 + k
  <2>1. d = e + 1 + (d - e - 1) /\ d - e - 1 \in Nat
    BY <1>1, <1>2
  <2>. QED  BY <2>1
<1>4. d * b = (e + 1) * b + k * b
  BY <1>1, <1>3
<1>5. k * b >= 0 /\ (e + 1) * b \in Int /\ d * b \in Int /\ k * b \in Int
  BY <1>1, <1>3
<1>. QED  BY <1>1, <1>4, <1>5

\* The rest of a multiple and a small number is the small number.
LEMMA Remainder ==
  ASSUME NEW b \in Nat, b > 0, NEW m \in Nat, m % b = 0, NEW n \in Nat, n < b
  PROVE  (n + m) % b = n
<1> DEFINE q == m \div b
<1>1. q \in Nat /\ m = q * b
  BY Division
<1> HIDE DEF q
<1>2. q * b <= n + m /\ n + m < (q + 1) * b
  <2>1. (q + 1) * b = q * b + b
    BY <1>1
  <2>. QED  BY <1>1, <2>1
<1>3. (n + m) \div b = q
  BY <1>1, <1>2, Quotient
<1>4. n + m = ((n + m) \div b) * b + ((n + m) % b) /\ (n + m) % b \in Nat
  BY Division
<1>. QED  BY <1>1, <1>3, <1>4

\* Quotient and rest of a sum.
LEMMA DivisionIs ==
  ASSUME NEW b \in Nat, b > 0, NEW q \in Nat, NEW r \in Nat, r < b, NEW n, n = q * b + r
  PROVE  n \in Nat /\ n \div b = q /\ n % b = r
<1>1. (q + 1) * b = q * b + b /\ q * b \in Nat
  OBVIOUS
<1>2. n \in Nat /\ q * b <= n /\ n < (q + 1) * b
  BY <1>1
<1>3. n \div b = q
  BY <1>2, Quotient
<1>4. n = (n \div b) * b + (n % b) /\ n % b \in Nat
  BY <1>2, Division
<1>. QED  BY <1>1, <1>2, <1>3, <1>4

\* The rest when a number grows, as far as the next multiple.
LEMMA RemainderGrows ==
  ASSUME NEW b \in Nat, b > 0, NEW a \in Nat, NEW n \in Nat, (a % b) + n <= b
  PROVE  (a + n) % b = IF (a % b) + n = b THEN 0 ELSE (a % b) + n
<1> DEFINE q == a \div b  r == a % b
<1>1. q \in Nat /\ r \in Nat /\ a = q * b + r
  BY Division
<1> HIDE DEF q, r
<1>2. CASE r + n = b
  <2>1. a + n = (q + 1) * b + 0
    <3>1. (q + 1) * b = q * b + b
      BY <1>1
    <3>. QED  BY <1>1, <1>2, <3>1
  <2>2. (a + n) % b = 0
    <3> DEFINE k == q + 1  z == 0  s == a + n
    <3>1. k \in Nat /\ z \in Nat /\ z < b /\ s = k * b + z
      BY <1>1, <2>1
    <3> HIDE DEF k, z, s
    <3>2. s % b = z
      BY <3>1, DivisionIs
    <3>. QED  BY <3>2 DEF z, s
  <2>. QED  BY <1>2, <2>2 DEF r
<1>3. CASE r + n < b
  <2>1. a + n = q * b + (r + n)
    BY <1>1
  <2>2. (a + n) % b = r + n
    BY <1>1, <1>3, <2>1, DivisionIs
  <2>. QED  BY <1>1, <1>3, <2>2 DEF r
<1>. QED  BY <1>1, <1>2, <1>3 DEF r
===============================================================================
