------------------------------ MODULE Amounts -------------------------------
(***************************************************************************)
(* Amounts of money (units/src/amount.rs): how they are written in a       *)
(* denomination, laid out and read back, and their checked arithmetic.     *)
(*                                                                         *)
(* A text is a sequence of characters: digits are their value, the others  *)
(* have a number above 9.  An Option is a set of one element or none.      *)
(***************************************************************************)
EXTENDS Integers, Sequences

LOCAL INSTANCE FiniteSetsExt
LOCAL INSTANCE SequencesExt

CONSTANTS
  MaxU64,      \* largest u64; the largest i64 is half of it
  InputLimit   \* INPUT_STRING_LEN_LIMIT, 50

MaxI64 == MaxU64 \div 2
MinI64 == -MaxI64 - 1
Checked(n) == IF n \in 0..MaxU64 THEN {n} ELSE {}
CheckedMul(a, b) == IF b # 0 /\ a > MaxU64 \div b THEN {} ELSE {a * b}
CheckedSigned(n) == IF n \in MinI64..MaxI64 THEN {n} ELSE {}

Dot == 10
Minus == 11
Plus == 12
Space == 13
Letter == 14
Digits == 0..9

Good(v) == [ok |-> TRUE, val |-> v, err |-> ""]
Bad(kind) == [ok |-> FALSE, val |-> 0, err |-> kind]
-----------------------------------------------------------------------------
\* Denomination: the power of ten of its unit in satoshis is minus its precision.
Precision == [BTC |-> -8, cBTC |-> -6, mBTC |-> -5, uBTC |-> -2, nBTC |-> 1, pBTC |-> 4,
              bits |-> -2, satoshi |-> 0, msat |-> 3]
Denominations == DOMAIN Precision
NameLen(d) == IF d = "BTC" THEN 3 ELSE IF d = "satoshi" THEN 7 ELSE 4

Forms ==
  [BTC |-> {"BTC", "btc"}, cBTC |-> {"cBTC", "cbtc"}, mBTC |-> {"mBTC", "mbtc"}, uBTC |-> {"uBTC", "ubtc"},
   nBTC |-> {"nBTC", "nbtc"}, pBTC |-> {"pBTC", "pbtc"}, bits |-> {"bit", "bits", "BIT", "BITS"},
   satoshi |-> {"SATOSHI", "satoshi", "SATOSHIS", "satoshis", "SAT", "sat", "SATS", "sats"},
   msat |-> {"mSAT", "msat", "mSATs", "msats"}]
ConfusingForms == {"Msat", "Msats", "MSAT", "MSATS", "MSat", "MSats", "MBTC", "Mbtc", "PBTC"}

DenominationFromStr(s) ==
  LET d == {x \in Denominations : s \in Forms[x]}
  IN  IF s \in ConfusingForms THEN Bad("PossiblyConfusing")
      ELSE IF d = {} THEN Bad("Unknown") ELSE Good(CHOOSE x \in d : TRUE)
-----------------------------------------------------------------------------
\* Whether the last digits before the dot, or any after it, are no zeros; also when
\* there are no more digits than that.
\* Mutant: digits below a satoshi are let through.
IsTooPreciseNever(s, precision) == FALSE
WholeLen(s) == IF \E i \in DOMAIN s : s[i] = Dot THEN SelectInSeq(s, LAMBDA c : c = Dot) - 1 ELSE Len(s)
IsTooPrecise(s, precision) ==
  \/ precision >= WholeLen(s)
  \/ \E i \in WholeLen(s) - precision + 1..Len(s) : s[i] # 0 /\ i # WholeLen(s) + 1

\* str::parse::<i64> has the value 0.
ReadsZero(s) ==
  LET digits == IF s # <<>> /\ s[1] \in {Minus, Plus} THEN Tail(s) ELSE s
  IN  digits # <<>> /\ \A i \in DOMAIN digits : digits[i] = 0

\* The characters up to place k: the value, the decimals (in a set once there is a
\* dot), the error, and whether a dot ended the loop.
Scanned(value, decimals) == [value |-> value, decimals |-> decimals, err |-> "", over |-> FALSE]
ScanChar(at, c, max_decimals) ==
  LET value == Checked((10 * at.value) + c)
  IN  IF c \in Digits
        THEN IF value = {} THEN [at EXCEPT !.err = "Overflow"]
             ELSE IF \E d \in at.decimals : d >= max_decimals THEN [at EXCEPT !.err = "TooPrecise"]
             ELSE Scanned(CHOOSE v \in value : TRUE, {d + 1 : d \in at.decimals})
      ELSE IF c = Dot /\ at.decimals = {}
        THEN IF max_decimals <= 0 THEN [at EXCEPT !.over = TRUE] ELSE Scanned(at.value, {0})
      ELSE [at EXCEPT !.err = "InvalidCharacter"]

ScaleUp(at, max_decimals) ==
  LET missing == max_decimals - (IF at.decimals = {} THEN 0 ELSE CHOOSE d \in at.decimals : TRUE)
      by[k \in 0..missing] == IF k = 0 THEN {at.value} ELSE UNION {Checked(10 * v) : v \in by[k - 1]}
  IN  by[missing]

\* The loop over the characters, which an error or a dot may end.
Scan(chars, max_decimals) ==
  LET at[k \in 0..Len(chars)] ==
        IF k = 0 THEN Scanned(0, {})
        ELSE LET p == at[k - 1] IN IF p.err # "" \/ p.over THEN p ELSE ScanChar(p, chars[k], max_decimals)
  IN  at[Len(chars)]

Satoshis(negative, value) ==
  IF value = {} THEN Bad("Overflow") ELSE Good([negative |-> negative, value |-> CHOOSE v \in value : TRUE])
Scaled(negative, end, max_decimals) ==
  IF end.err # "" THEN Bad(end.err) ELSE Satoshis(negative, ScaleUp(end, max_decimals))

\* The digits of s in a denomination that has diff more decimals than a satoshi; the
\* last ones are cut off where it has fewer.
DigitsToSatoshi(negative, s, diff) ==
  IF diff <= 0 /\ IsTooPrecise(s, -diff)
    THEN IF ReadsZero(s) THEN Satoshis(negative, {0}) ELSE Bad("TooPrecise")
  ELSE Scaled(negative,
              Scan(IF diff > 0 THEN s ELSE SubSeq(s, 1, WholeLen(s) + diff), IF diff > 0 THEN diff ELSE 0),
              IF diff > 0 THEN diff ELSE 0)
ParseSignedToSatoshi(text, denom) ==
  IF text = <<>> THEN Bad("MissingDigits")
  ELSE IF Len(text) > InputLimit THEN Bad("InputTooLarge")
  ELSE IF text = <<Minus>> THEN Bad("MissingDigits")
  ELSE DigitsToSatoshi(text[1] = Minus, IF text[1] = Minus THEN Tail(text) ELSE text, -Precision[denom])

UnsignedOf(p) == IF ~p.ok THEN p ELSE IF p.val.negative THEN Bad("OutOfRange") ELSE Good(p.val.value)
AmountFromStrIn(text, denom) == UnsignedOf(ParseSignedToSatoshi(text, denom))

SignedOf(p) ==
  IF ~p.ok THEN p
  ELSE IF p.val.value > (IF p.val.negative THEN -MinI64 ELSE MaxI64) THEN Bad("OutOfRange")
  ELSE Good(IF p.val.negative THEN -p.val.value ELSE p.val.value)
SignedFromStrIn(text, denom) == SignedOf(ParseSignedToSatoshi(text, denom))

\* A text with a denomination is what is before the space (or the first letter), and
\* the name after it; {} stands for a text with neither.
SplitAmountAndDenomination(number, name) ==
  IF name = {} THEN Bad("MissingDenomination") ELSE DenominationFromStr(CHOOSE n \in name : TRUE)
AmountIn(number, d) == IF d.ok THEN AmountFromStrIn(number, d.val) ELSE d
AmountFromStr(number, name) == AmountIn(number, SplitAmountAndDenomination(number, name))
SignedIn(number, d) == IF d.ok THEN SignedFromStrIn(number, d.val) ELSE d
SignedFromStr(number, name) == SignedIn(number, SplitAmountAndDenomination(number, name))
-----------------------------------------------------------------------------
\* fmt_satoshi_in.  Options: precision (in a set), width, align, sign_plus and
\* sign_aware_zero_pad; the fill is a space.
DefaultOptions == [precision |-> {}, width |-> 0, align |-> "Right", sign_plus |-> FALSE, zero_pad |-> FALSE]

DecWidth(n) == CHOOSE w \in 1..9 : n < 10 ^ w /\ (w = 1 \/ n >= 10 ^ (w - 1))
Written(n, w) == [i \in 1..w |-> (n \div 10 ^ (w - i)) % 10]
RepeatChar(c, n) == [i \in 1..n |-> c]

\* The number in its unit: the whole part, the zeros behind it, the decimals
\* without the zeros at their end, and the zeros that are asked for.
Power(n) == 10 ^ (IF n > 0 THEN n ELSE 0)
EndZeros(n) == IF n = 0 THEN 0 ELSE CHOOSE z \in 0..8 : n % 10 ^ z = 0 /\ n % 10 ^ (z + 1) # 0
PartsOf(sat, p, asked, after, nb) ==
  [before |-> sat \div Power(-p), exp |-> IF p > 0 /\ sat > 0 THEN p ELSE 0,
   after |-> after \div Power(-p - nb), nb |-> nb, trailing |-> IF asked > nb THEN asked - nb ELSE 0]
NumberParts(sat, denom, asked) ==
  PartsOf(sat, Precision[denom], asked, sat % Power(-Precision[denom]),
          IF sat % Power(-Precision[denom]) = 0 THEN 0
          ELSE -Precision[denom] - EndZeros(sat % Power(-Precision[denom])))

NumWidth(n, negative, denom, show, o) ==
  (IF n.nb + n.trailing > 0 THEN 1 + n.nb + n.trailing ELSE 0) + DecWidth(n.before) + n.exp
  + (IF o.sign_plus \/ negative THEN 1 ELSE 0) + (IF show THEN NameLen(denom) + 1 ELSE 0)

\* The number n with left and right characters around it.
LaidOut(n, left, right, negative, denom, show, o) ==
  (IF o.zero_pad THEN <<>> ELSE RepeatChar(Space, left))
  \o (IF negative THEN <<Minus>> ELSE IF o.sign_plus THEN <<Plus>> ELSE <<>>)
  \o (IF o.zero_pad THEN RepeatChar(0, left) ELSE <<>>)
  \o Written(n.before, DecWidth(n.before)) \o RepeatChar(0, n.exp)
  \o (IF n.nb + n.trailing > 0 THEN <<Dot>> ELSE <<>>)
  \o Written(n.after, n.nb) \o RepeatChar(0, n.trailing)
  \o (IF show THEN <<Space>> \o RepeatChar(Letter, NameLen(denom)) ELSE <<>>)
  \o RepeatChar(Space, right)
LeftOf(room, o) == IF o.zero_pad \/ o.align = "Right" THEN room ELSE IF o.align = "Left" THEN 0 ELSE room \div 2
InRoom(n, room, negative, denom, show, o) ==
  LaidOut(n, LeftOf(room, o), room - LeftOf(room, o), negative, denom, show, o)
InWidth(n, natural, negative, denom, show, o) ==
  InRoom(n, IF natural < o.width THEN o.width - natural ELSE 0, negative, denom, show, o)
FmtParts(n, negative, denom, show, o) ==
  InWidth(n, NumWidth(n, negative, denom, show, o), negative, denom, show, o)
FmtSatoshiIn(sat, negative, denom, show, o) ==
  FmtParts(NumberParts(sat, denom, IF o.precision = {} THEN 0 ELSE CHOOSE x \in o.precision : TRUE),
           negative, denom, show, o)

OneBtc == 10 ^ 8
Abs(n) == IF n < 0 THEN -n ELSE n
AmountToStringIn(a, denom) == FmtSatoshiIn(a, FALSE, denom, FALSE, DefaultOptions)
SignedToStringIn(a, denom) == FmtSatoshiIn(Abs(a), a < 0, denom, FALSE, DefaultOptions)
AmountDisplay(a, o) ==
  FmtSatoshiIn(a, FALSE, "BTC", TRUE, IF o.precision = {} /\ a % OneBtc # 0 THEN [o EXCEPT !.precision = {8}] ELSE o)
StringWithDenomination(a, denom) == SignedToStringIn(a, denom) \o <<Space>> \o RepeatChar(Letter, NameLen(denom))

\* display_in and display_dynamic.
DisplayFixed(a, denom, show, o) == FmtSatoshiIn(Abs(a), a < 0, denom, show, o)
DisplayDynamic(a, o) == FmtSatoshiIn(Abs(a), a < 0, IF Abs(a) >= OneBtc THEN "BTC" ELSE "satoshi", TRUE, o)
-----------------------------------------------------------------------------
\* Arithmetic; the operators of the language panic where these have no result.
CheckedOp(op, a, b) ==
  CASE op = "add" -> Checked(a + b)
    [] op = "sub" -> Checked(a - b)
    [] op = "mul" -> CheckedMul(a, b)
    [] op = "div" -> IF b = 0 THEN {} ELSE {a \div b}
    [] op = "rem" -> IF b = 0 THEN {} ELSE {a % b}
ToSigned(a) == IF a > MaxI64 THEN {} ELSE {a}

\* Division and remainder of i64 go towards zero.
Quotient(a, b) == LET q == Abs(a) \div Abs(b) IN IF (a < 0) = (b < 0) THEN q ELSE -q
SignedCheckedOp(op, a, b) ==
  CASE op = "add" -> CheckedSigned(a + b)
    [] op = "sub" -> CheckedSigned(a - b)
    [] op = "mul" -> IF b # 0 /\ Abs(a) > (MaxI64 + 1) \div Abs(b) THEN {} ELSE CheckedSigned(a * b)
    [] op = "div" -> IF b = 0 THEN {} ELSE CheckedSigned(Quotient(a, b))
    [] op = "rem" -> IF b = 0 \/ CheckedSigned(Quotient(a, b)) = {} THEN {} ELSE {a - (b * Quotient(a, b))}
ToUnsigned(a) == IF a < 0 THEN {} ELSE {a}
CheckedAbs(a) == CheckedSigned(Abs(a))
PositiveSub(a, b) == IF a < 0 \/ b < 0 \/ b > a THEN {} ELSE CheckedSigned(a - b)

AmountOps(op, a, b) == IF CheckedOp(op, a, b) = {} THEN Bad("panic") ELSE Good(CHOOSE x \in CheckedOp(op, a, b) : TRUE)
SignedOps(op, a, b) ==
  IF SignedCheckedOp(op, a, b) = {} THEN Bad("panic") ELSE Good(CHOOSE x \in SignedCheckedOp(op, a, b) : TRUE)

CheckedSum(amounts) == FoldLeft(LAMBDA acc, a : UNION {Checked(x + a) : x \in acc}, {0}, amounts)
SignedCheckedSum(amounts) == FoldLeft(LAMBDA acc, a : UNION {CheckedSigned(x + a) : x \in acc}, {0}, amounts)
-----------------------------------------------------------------------------
\* serde as a float; {} is the null of an Option.  A float is the text it is
\* written as.
SerBtc(opt) == {SignedToStringIn(a, "BTC") : a \in opt}
DesBtc(v) == {AmountFromStrIn(t, "BTC") : t \in v}
SignedDesBtc(v) == {SignedFromStrIn(t, "BTC") : t \in v}
-----------------------------------------------------------------------------
(***************************************************************************)
(* Weights and fee rates (units/src/weight.rs, units/src/fee_rate.rs) and  *)
(* what they make of amounts.  A rate is in satoshis per kWu weight units. *)
(***************************************************************************)

CONSTANTS
  Kwu,                 \* weight units of a rate, 1000
  WitnessScaleFactor,  \* weight units of a virtual byte, 4
  TxInBaseWeight       \* TxIn::BASE_WEIGHT

ASSUME RatesAssumption ==
  /\ Kwu \in Nat \ {0}
  /\ WitnessScaleFactor \in Nat \ {0}
  /\ TxInBaseWeight \in Nat
  /\ Kwu % WitnessScaleFactor = 0

Bind(opt, f(_)) == UNION {f(x) : x \in opt}

\* Weight
FromKwu(n) == CheckedMul(n, Kwu)
WeightFromVb(vb) == CheckedMul(vb, WitnessScaleFactor)
ToVbytesFloor(wu) == wu \div WitnessScaleFactor
ToVbytesCeil(wu) == (wu + WitnessScaleFactor - 1) \div WitnessScaleFactor

\* FeeRate
PerVb == Kwu \div WitnessScaleFactor
RateFromSatPerVb(n) == CheckedMul(n, PerVb)
ToSatPerVbFloor(rate) == rate \div PerVb
ToSatPerVbCeil(rate) == (rate + PerVb - 1) \div PerVb

CheckedMulByWeight(rate, wu) == {f \div Kwu : f \in Bind(CheckedMul(rate, wu), LAMBDA p : Checked(p + Kwu - 1))}
FeeVb(rate, vb) == Bind(WeightFromVb(vb), LAMBDA wu : CheckedMulByWeight(rate, wu))

DivByWeightCeil(sat, wu) ==
  Bind(CheckedMul(sat, Kwu), LAMBDA s : IF wu = 0 THEN {} ELSE {n \div wu : n \in Checked(s + wu - 1)})
DivByWeightFloor(sat, wu) == IF wu = 0 THEN {} ELSE {s \div wu : s \in CheckedMul(sat, Kwu)}

\* The value of an output less the fee of spending it.
EffectiveValue(rate, satisfaction_weight, value) ==
  Bind(Checked(satisfaction_weight + TxInBaseWeight), LAMBDA wu :
  Bind(CheckedMulByWeight(rate, wu), LAMBDA fee :
  Bind(ToSigned(fee), LAMBDA f :
  Bind(ToSigned(value), LAMBDA v : SignedCheckedOp("sub", v, f)))))
=============================================================================
