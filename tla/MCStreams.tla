----------------------------- MODULE MCStreams ------------------------------
(***************************************************************************)
(* Small instances of what arrives in pieces.  First the quantities:       *)
(* amounts, fees and lock times.  A behaviour types a text, keeps an       *)
(* account, lets blocks arrive, or leaves coins to an heir while they do.  *)
(***************************************************************************)
EXTENDS Amounts, Inheritance, HashEngine, Compression, Readers, SerdeStreams, Networks

CONSTANTS
  MaxText,    \* characters of a text
  MaxOps,     \* operations on an account
  Opening,    \* its first amounts
  Operands,   \* what is added, subtracted, multiplied or divided by
  RateSet, Weights,
  MaxTip,     \* the last height, and the time that goes with it
  MaxVault    \* bound: the last height of a behaviour of the vault

VARIABLES
  focus,    \* what the behaviour does; of this module: UnitsFocus
  text,     \* the characters typed so far
  amount,   \* the amount in the account
  ops       \* operations so far

own == <<text, amount, ops>>
unitsVars == <<own, watched, vaultVars>>

MCOpening == {0, 1, 99, 100, 12345, 1234500, 100000000, 134217727}
Chars == {0, 1, 7, Dot, Minus, Plus, Letter}

\* Coins of the benefactor: one with plenty, ones that run out, one whose text is broken.
MCCoins ==
  {[outpoint |-> -k, out |-> TxOut(v, P2tr(Benefactor(Bip86), {})), parses |-> p] :
     <<k, v, p>> \in {<<1, 3 * Fee, TRUE>>, <<2, Fee, TRUE>>, <<3, Fee - 1, TRUE>>, <<4, 3 * Fee, FALSE>>}}

UnitsFocus == {"text", "account", "locks", "vault"}
UnitsInit ==
  /\ VaultInit
  /\ text = <<>> /\ ops = 0
  /\ amount \in IF focus = "account" THEN Opening ELSE {0}
  /\ watched = IF focus = "locks" THEN Watching(Absolute, Relative, Numbers) ELSE Watching({}, {}, {})

Type ==
  /\ focus = "text" /\ Len(text) < MaxText
  /\ \E c \in Chars : text' = Append(text, c)
  /\ UNCHANGED <<amount, ops, watched, vaultVars>>

Book ==
  /\ focus = "account" /\ ops < MaxOps
  /\ ops' = ops + 1
  /\ \E op \in {"add", "sub", "mul", "div", "rem"}, b \in Operands : amount' \in CheckedOp(op, amount, b)
  /\ UNCHANGED <<text, watched, vaultVars>>

\* Blocks arrive while a lock is looked at, or while the wallets are used.
Block ==
  /\ \/ focus = "locks" /\ height < MaxTip /\ \E t \in time..Threshold + MaxTip : NextBlock(t)
     \/ focus = "vault" /\ height < MaxVault /\ \E t \in {time, time + 1} : NextBlock(t)
  /\ UNCHANGED <<own, watched>>

Vault ==
  /\ focus = "vault"
  /\ Wallets
  /\ UNCHANGED <<own, height, time, watched>>

UnitsNext == Type \/ Book \/ Block \/ Vault
-----------------------------------------------------------------------------
Magnitude == IF text # <<>> /\ text[1] = Minus THEN Tail(text) ELSE text
DigitsOf(s) == SelectSeq(s, LAMBDA c : c \in Digits)
NumberOf(s) ==
  LET d == DigitsOf(s)
      n[i \in 0..Len(d)] == IF i = 0 THEN 0 ELSE (10 * n[i - 1]) + d[i]
  IN  n[Len(d)]
Dots == {i \in DOMAIN Magnitude : Magnitude[i] = Dot}
Fraction == IF Dots = {} THEN 0 ELSE Len(Magnitude) - CHOOSE i \in Dots : \A j \in Dots : i <= j
Plain == Cardinality(Dots) <= 1 /\ \A i \in DOMAIN Magnitude : Magnitude[i] \in Digits \union {Dot}

\* The satoshis that the digits, with the dot where it is, are in a denomination.
Exactly(v, denom) ==
  LET e == -Precision[denom] - Fraction
      n == NumberOf(Magnitude)
  IN  IF e >= 0 THEN v % 10 ^ e = 0 /\ v \div 10 ^ e = n ELSE n % 10 ^ (-e) = 0 /\ n \div 10 ^ (-e) = v

Largest(denom) == LET e == -Precision[denom] - Fraction IN IF e >= 0 THEN MaxU64 \div 10 ^ e ELSE MaxU64

(* What a text is read as is what it says, to the last digit: no amount is rounded,
   scaled twice or cut off, and a plain number that is a whole count of satoshis, with
   no more decimals than its denomination has, is not refused.  The signed and the unsigned reading agree. *)
TextExact ==
  focus = "text" =>
    \A denom \in Denominations :
      LET p == ParseSignedToSatoshi(text, denom)
          a == AmountFromStrIn(text, denom)
          s == SignedFromStrIn(text, denom)
          n == NumberOf(Magnitude)
          e == -Precision[denom] - Fraction
      IN  /\ p.ok => Exactly(p.val.value, denom)
          /\ Plain /\ n > 0 /\ (e >= 0 \/ (Precision[denom] >= 0 /\ n % 10 ^ (-e) = 0)) /\ n <= Largest(denom) => p.ok
          /\ a.ok /\ a.val <= MaxI64 => s = a
          /\ s.ok /\ s.val >= 0 /\ (text = <<>> \/ text[1] # Minus) => a = s

Layouts ==
  {[precision |-> p, width |-> w, align |-> al, sign_plus |-> s, zero_pad |-> z] :
     p \in {{}, {3}}, w \in {0, 12, 25}, al \in {"Left", "Center", "Right"}, s \in BOOLEAN, z \in BOOLEAN}
NotSpace(s) == SelectSeq(s, LAMBDA c : c # Space)
WithoutDenom(s) == SelectSeq(s, LAMBDA c : c \notin {Letter, Space})

(* An amount that is written in any denomination is read back as the same amount,
   signed or not, and so is the amount in the middle of any layout. *)
AmountReadsBack ==
  focus = "account" =>
    /\ \A denom \in Denominations :
         /\ AmountFromStrIn(AmountToStringIn(amount, denom), denom) = Good(amount)
         /\ amount <= MaxI64 =>
              \A a \in {amount, -amount, -amount - 1} : SignedFromStrIn(SignedToStringIn(a, denom), denom) = Good(a)
    /\ AmountFromStr(WithoutDenom(AmountDisplay(amount, DefaultOptions)), {"BTC"}) = Good(amount)
    /\ DesBtc(SerBtc({amount})) = {Good(amount)}

(* A layout is as wide as it was asked to be, or as wide as its text where that is
   wider: the width is computed before anything is written. *)
LayoutHolds ==
  focus = "account" =>
    \A denom \in {"BTC", "bits", "satoshi", "pBTC"}, show \in BOOLEAN, negative \in BOOLEAN, o \in Layouts :
      LET natural == FmtSatoshiIn(amount, negative, denom, show, [o EXCEPT !.width = 0])
          t == FmtSatoshiIn(amount, negative, denom, show, o)
      IN  /\ Len(t) = IF Len(natural) < o.width THEN o.width ELSE Len(natural)
          /\ o.zero_pad \/ NotSpace(t) = NotSpace(natural)

(* The same account kept with signs holds the same amount, or neither has one: signed
   and unsigned operations agree after a conversion either way, a difference that is
   taken as positive is one that an unsigned account can take, and a sum is refused
   where one of its steps is. *)
AccountsAgree ==
  focus = "account" =>
    \A b \in Operands :
      /\ \A a \in ToSigned(amount), c \in ToSigned(b) :
           /\ PositiveSub(a, c) = CheckedOp("sub", amount, b)
           /\ \A op \in {"add", "sub", "mul", "div", "rem"} :
                /\ UNION {ToUnsigned(x) : x \in SignedCheckedOp(op, a, c)} = UNION {ToSigned(x) : x \in CheckedOp(op, amount, b)}
                /\ AmountOps(op, amount, b).ok /\ AmountOps(op, amount, b).val <= MaxI64 => SignedOps(op, a, c) = AmountOps(op, amount, b)
           /\ SignedCheckedSum(<<a, c, -c>>) = UNION {SignedCheckedOp("sub", x, c) : x \in SignedCheckedOp("add", a, c)}
           /\ CheckedAbs(-a) = {a}
      /\ CheckedSum(<<amount, b, 1>>) = UNION {CheckedOp("add", x, 1) : x \in CheckedOp("add", amount, b)}

(* The fee of a rate is the least amount whose rate is not below it; the rates of an
   amount, rounded down and up, are one apart at most and pay no more and no less
   than it: checked_mul_by_weight against div_by_weight_floor and _ceil. *)
FeesRound ==
  focus = "account" =>
    \A wu \in Weights :
      /\ \A rate \in RateSet :
           \A fee \in CheckedMulByWeight(rate, wu) :
             /\ \A r \in DivByWeightFloor(fee, wu) : r >= rate
             /\ fee > 0 => \A r \in DivByWeightFloor(fee - 1, wu) : r < rate
      /\ \A low \in DivByWeightFloor(amount, wu), high \in DivByWeightCeil(amount, wu) :
           /\ high - low = IF CheckedMul(amount, Kwu) = {low * wu} THEN 0 ELSE 1
           /\ \A fee \in CheckedMulByWeight(low, wu) : fee <= amount
           /\ \A fee \in CheckedMulByWeight(high, wu) : fee >= amount
      /\ \A rate \in RateSet : \A v \in EffectiveValue(rate, wu, amount) :
           CheckedMulByWeight(rate, wu + TxInBaseWeight) = {amount - v}
-----------------------------------------------------------------------------
(***************************************************************************)
(* Small instances of everything that takes bytes in pieces: the buffered  *)
(* hash engines, the compression functions, SipHash, the readers and       *)
(* writers and the serde adapters; of the networks, and of the quantities  *)
(* above.  A behaviour keeps to one focus.                                 *)
(***************************************************************************)

CONSTANTS
  MaxFed,      \* bound: bytes that an engine is fed
  MaxPiece,    \* bound: bytes of one input
  MaxSipPiece, \* bound: bytes of one input of SipHash
  MaxSip       \* bound: bytes that SipHash is fed

VARIABLES sip, txt

Idle == [verdict |-> "idle", call |-> "none"]
-----------------------------------------------------------------------------
\* A digest that depends on every byte and on their order.
MCDigestByte(h, i) ==
  LET d[k \in 0..Len(h)] == IF k = 0 THEN 1 ELSE ((31 * d[k - 1]) + h[k] + 1) % 65521
  IN  IF i = 1 THEN d[Len(h)] \div 256 ELSE d[Len(h)] % 256

Byte(i) == ((37 * i) + 5) % 256
Bytes(from, n) == SubSeq([i \in 1..n |-> Byte(from + i)], 1, n)

FeedEngine == \E n \in 0..MaxPiece : Len(eng.fed) + n <= MaxFed /\ Feed(Bytes(Len(eng.fed), n))

SipK0 == <<\h0706,\h0504,\h0302,\h0100>>
SipK1 == <<\h0f0e,\h0d0c,\h0b0a,\h0908>>
Count(from, n) == SubSeq([i \in 1..n |-> from + i - 1], 1, n)
FeedSip ==
  \E n \in 0..MaxSipPiece :
    /\ sip.n + n <= MaxSip
    /\ sip' = [e |-> SipInput(sip.e, Count(sip.n, n)), n |-> sip.n + n]
-----------------------------------------------------------------------------
\* A text that grows by a character.
Characters == {0, 9, 10, 15, 31, NoDigit}
WriteChar == Len(txt) <= 2 * Width /\ \E c \in Characters : txt' = Append(txt, c)

\* Documents: the ones that the serializers write, and ones with entries twice, missing,
\* out of order or malformed.
SomeBytes == {<<>>, <<5>>, <<171, 9>>}
Maps == UNION {[d -> SomeBytes] : d \in SUBSET {1, 2}}
Struct(t, v) == [f \in {"txid", "vout"} |-> IF f = "txid" THEN t ELSE v]
Entries == {1, 2} \X {<<>>, <<1, 26>>, <<7>>, <<NoDigit, 1>>}
Fields == {"txid", "vout", "other"} \X {1, 2}
UpTo(n, S) == UNION {[1..k -> S] : k \in 0..n}
MapDocs ==
  {Reading(k, h, SerializeMap(k, m, h), {m}) : k \in Kinds, h \in BOOLEAN, m \in Maps}
  \union {Reading(k, TRUE, [shape |-> sh, items |-> e], {}) : k \in Kinds, sh \in {"map", "seq"}, e \in UpTo(3, Entries)}
StructDocs ==
  {Reading("struct", FALSE, [shape |-> sh, items |-> SerializeStruct(Struct(1, v))], {Struct(1, v)}) : v \in {1, 2}, sh \in {"map", "seq"}}
  \union {Reading("struct", FALSE, [shape |-> sh, items |-> e], {}) : sh \in {"map", "seq"}, e \in UpTo(3, Fields)}

\* The network that a text means, in whichever of the places where it may be typed.
Meant ==
  [litecoin |-> "Bitcoin", bitcoin |-> "Bitcoin", main |-> "Bitcoin", test |-> "Testnet4", testnet |-> "Testnet4",
   testnet4 |-> "Testnet4", testnet3 |-> "none", signet |-> "Signet", regtest |-> "Regtest"]
\* Every network, and texts that somebody typed.
Walks ==
  {[network |-> n, was |-> "none", held |-> <<"network", n>>] : n \in AllNetworks}
  \union {[network |-> Meant[t], was |-> "none", held |-> <<"text", t>>] : t \in DOMAIN Meant}

\* Answers from the tests.
Fox == <<84,104,101,32,113,117,105,99,107,32,98,114,111,119,110,32,102,111,120,32,106,117,109,112,115,32,111,118,101,114,32,116,104,101,32,108,97,122,121,32,100,111,103>>

Known == {
   [alg |-> "sha256", data |-> Ended(Fox \o Fox, 64, 8, FALSE), answer |-> <<204,233,112,135,244,119,172,175,166,15,110,116,191,229,221,23,217,208,153,184,127,185,58,47,183,121,219,181,39,160,143,231>>],
   [alg |-> "sha256", data |-> Ended(<<>>, 64, 8, FALSE), answer |-> <<227,176,196,66,152,252,28,20,154,251,244,200,153,111,185,36,39,174,65,228,100,155,147,76,164,149,153,27,120,82,184,85>>],
   [alg |-> "sha256", data |-> Ended(Fox, 64, 8, FALSE), answer |-> <<215,168,251,179,7,215,128,148,105,202,154,188,176,8,46,79,141,86,81,228,109,60,219,118,45,2,208,191,55,201,229,146>>],
   [alg |-> "sha512", data |-> Ended(Fox, 128, 16, FALSE), answer |-> <<7,229,71,217,88,111,106,115,247,63,186,192,67,94,215,105,81,33,143,183,208,200,215,136,163,9,215,133,67,107,187,100,46,147,162,82,169,84,242,57,18,84,125,30,138,59,94,214,225,191,215,9,120,33,35,63,160,83,143,61,184,84,254,230>>],
   [alg |-> "sha384", data |-> Ended(<<>>, 128, 16, FALSE), answer |-> <<56,176,96,167,81,172,150,56,76,217,50,126,177,177,227,106,33,253,183,17,20,190,7,67,76,12,199,191,99,246,225,218,39,78,222,191,231,111,101,251,213,26,210,241,72,152,185,91>>],
   [alg |-> "sha512_256", data |-> Ended(<<>>, 128, 16, FALSE), answer |-> <<198,114,184,209,239,86,237,40,171,135,195,98,44,81,20,6,155,221,58,215,184,249,115,116,152,208,192,30,206,240,150,122>>],
   [alg |-> "sha1", data |-> Ended(Fox, 64, 8, FALSE), answer |-> <<47,212,225,198,122,45,40,252,237,132,158,225,187,118,231,57,27,147,235,18>>],
   [alg |-> "ripemd160", data |-> Ended(<<97,98,99>>, 64, 8, TRUE), answer |-> <<142,178,8,247,224,93,152,122,155,4,74,142,152,198,176,135,241,90,11,252>>],
   [alg |-> "ripemd160", data |-> Ended(Fox, 64, 8, TRUE), answer |-> <<55,243,50,246,141,183,123,217,215,237,212,150,149,113,173,103,28,249,221,59>>]}

SipAnswers == <<
  <<49,14,14,221,71,219,111,114>>,
  <<253,103,220,147,197,57,248,116>>,
  <<90,79,169,217,9,128,108,13>>,
  <<45,126,251,215,150,102,103,133>>,
  <<183,135,113,39,224,148,39,207>>,
  <<141,166,153,205,100,85,118,24>>,
  <<206,227,254,88,110,70,201,203>>,
  <<55,209,1,139,245,0,2,171>>,
  <<98,36,147,154,121,245,245,147>>,
  <<176,228,169,11,223,130,0,158>>,
  <<243,185,221,148,197,187,93,122>>,
  <<167,173,107,34,70,47,179,244>>,
  <<251,229,14,134,188,143,30,117>>,
  <<144,61,132,192,39,86,234,20>>,
  <<238,242,122,142,144,202,35,247>>,
  <<229,69,190,73,97,202,41,161>>,
  <<219,155,194,87,127,204,42,63>>,
  <<148,71,190,44,245,233,154,105>>,
  <<156,211,141,150,240,179,193,75>>,
  <<189,97,121,167,29,201,109,187>>,
  <<152,238,162,26,242,92,214,190>>,
  <<199,103,59,46,176,203,242,208>>,
  <<136,62,163,227,149,103,83,147>>,
  <<200,206,92,205,140,3,12,168>>,
  <<148,175,73,246,198,80,173,184>>,
  <<234,184,133,138,222,146,225,188>>,
  <<243,21,187,91,184,53,216,23>>,
  <<173,207,107,7,99,97,46,47>>,
  <<165,201,29,167,172,170,77,222>>>>
-----------------------------------------------------------------------------
Init ==
  /\ focus \in UnitsFocus \union {"engine", "sip", "blocks", "io", "serde", "digits", "maps", "net", "network", "genesis"}
  /\ eng \in IF focus = "engine" THEN {Fed(Bytes(40, n)) : n \in {0, 1, BlockSize, BlockSize + 1}} ELSE {Idle}
  /\ sip = IF focus = "sip" THEN [e |-> SipNew(SipK0, SipK1), n |-> 0] ELSE Idle
  /\ blk \in IF focus = "blocks" THEN {Hashing(c.alg, c.data, c.answer) : c \in Known}
             ELSE IF focus = "genesis" THEN {HashGenesis} ELSE {Idle}
  /\ io \in IF focus = "io"
       THEN {Call(c, Bytes(0, n), w, l) : c \in StreamCalls, n \in 0..4, w \in 0..3, l \in 0..4}
            \cup {Memory(Bytes(0, n)) : n \in 0..5}
       ELSE {Idle}
  /\ ser \in IF focus = "serde"
       THEN {Encoding(m, <<Bytes(0, a), Bytes(a, b), Bytes(a + b, c)>>) : m \in {"hex", "bin"}, a \in 0..3, b \in 0..7, c \in 0..3}
            \cup {Decoding(items, odd) : items \in UNION {[1..n -> {-1, 0, 1, 2, 3}] : n \in 0..4}, odd \in BOOLEAN}
       ELSE {Idle}
  /\ txt = IF focus = "digits" THEN <<>> ELSE <<NoDigit>>
  /\ IF focus = "maps" THEN doc \in MapDocs \/ doc \in StructDocs ELSE doc = Idle
  /\ net = Connecting
  /\ IF focus = "network" THEN walk \in Walks ELSE walk = Idle
  /\ chain \in IF focus = "genesis" THEN {GenesisOf(n) : n \in AllNetworks} ELSE {Idle}

  /\ UnitsInit

streamVars == <<eng, sip, blk, io, ser, txt, doc, net, walk, chain>>
vars == <<focus, streamVars, unitsVars>>
StreamsNext ==
  \/ focus = "engine" /\ FeedEngine /\ UNCHANGED <<sip, blk, io, ser, txt, doc, net, walk, chain>>
  \/ focus = "sip" /\ FeedSip /\ UNCHANGED <<eng, blk, io, ser, txt, doc, net, walk, chain>>
  \/ focus \in {"blocks", "genesis"} /\ BlkNext /\ UNCHANGED <<eng, sip, io, ser, txt, doc, net, walk, chain>>
  \/ focus = "genesis" /\ NextMessage /\ UNCHANGED <<eng, sip, io, ser, txt, doc, net, walk>>
  \/ focus = "io" /\ IoNext /\ UNCHANGED <<eng, sip, blk, ser, txt, doc, net, walk, chain>>
  \/ focus = "serde" /\ SerNext /\ UNCHANGED <<eng, sip, blk, io, txt, doc, net, walk, chain>>
  \/ focus = "digits" /\ WriteChar /\ UNCHANGED <<eng, sip, blk, io, ser, doc, net, walk, chain>>
  \/ focus = "maps" /\ DocNext /\ UNCHANGED <<eng, sip, blk, io, ser, txt, net, walk, chain>>
  \/ focus = "net" /\ NetNext /\ UNCHANGED <<eng, sip, blk, io, ser, txt, doc, walk, chain>>
  \/ focus = "network" /\ NetworkNext /\ UNCHANGED <<eng, sip, blk, io, ser, txt, doc, net, chain>>
Next ==
  /\ UNCHANGED focus
  /\ \/ StreamsNext /\ UNCHANGED unitsVars
     \/ UnitsNext /\ UNCHANGED streamVars
\* The loops of a call go on until it returns; no fault is owed to them, and nothing is
\* owed by the node.
NoFault == (focus = "io" => io'.verdict # "broken") /\ (focus = "serde" => ser'.verdict \notin {"fmt_error", "ser_error"})
Spec == Init /\ [][Next]_vars /\ WF_<<io, ser, doc>>(focus \in {"io", "serde", "maps"} /\ Next /\ NoFault)
             /\ WF_net(focus = "net" /\ Receive /\ UNCHANGED <<focus, eng, sip, blk, io, ser, txt, doc, walk, chain, unitsVars>>)
-----------------------------------------------------------------------------
\* SipHash gives the answers of the reference for every way to cut the input, with
\* bytes waiting in the tail at every place of an input (siphash24.rs:144).
SipRight ==
  focus = "sip" =>
    /\ ToLE(SipToU64(sip.e)) = SipAnswers[sip.n + 1]
    /\ sip.n <= MaxPiece => SipHash(SipK0, SipK1, Count(0, sip.n)) = SipAnswers[sip.n + 1]
    /\ sip.e.ntail = sip.n % 8

\* After every group of rounds the registers of the intrinsics and the variables of
\* const_hash hold the working variables of the software rounds, and the three give
\* the same chaining value (sha256.rs:462).
LanesAgree ==
  (focus \in {"blocks", "genesis"} /\ blk.alg = "sha256") => \A w \in blk.work :
    LET v == w.soft.v
    IN  /\ w.const = w.soft
        /\ w.simd.state0 = <<v[1], v[2], v[5], v[6]>>
        /\ w.simd.state1 = <<v[3], v[4], v[7], v[8]>>
        /\ blk.group = 16 => /\ SimdEnd(w.simd, w.start) = EndBlock(blk.h, w.soft)
                             /\ EndBlock(blk.h, w.const) = EndBlock(blk.h, w.soft)

\* The hash of a message is the one of the tests (sha256.rs:842, sha512.rs:349,
\* sha384.rs:73, sha512_256.rs:81, sha1.rs:165, ripemd160.rs:437), over one and two blocks.
AnswersKnown ==
  (focus = "blocks" /\ blk.work = {} /\ blk.at = Len(blk.data)) => AsBytes(blk.alg, blk.h) = blk.answer

\* The text holds the bytes of the value in order, none of them twice and none left out
\* at the end, though the buffer fills up in the middle of a piece; a failing format
\* stops it, and no write follows a failed one (consensus/serde.rs:82, :160, :235).
HexWhole ==
  (focus = "serde" /\ ser.mode \in {"hex", "bin"}) =>
    LET rest == ser.cur \o Flatten(ser.pieces)
        held == ser.text \o ser.buf
    IN  /\ ser.verdict # "panic"
        /\ Len(ser.buf) <= HexBuf
        /\ held \o rest = Bytes(0, Len(held) + Len(rest))
        /\ ser.verdict = "ok" => ser.buf = <<>> /\ rest = <<>>
        /\ ser.was_error <=> ser.verdict \in {"fmt_error", "ser_error"}

\* What the items mean, read at once.
Expected(s) ==
  LET items == s.items
      n == items[1]
      bad(upto) == \E i \in 1..Min({upto, Len(items)}) : items[i] < 0
  IN  IF s.odd THEN "invalid_length"
      ELSE IF items = <<>> THEN "io_panic"
      ELSE IF n < 0 THEN "Other"
      ELSE IF n > MaxItems THEN "Consensus"
      ELSE IF bad(n + 1) THEN "Other"
      ELSE IF Len(items) < n + 1 THEN "io_panic"
      ELSE IF Len(items) > n + 1 THEN "TooManyBytes" ELSE "ok"

\* Decoding over an iterator ends as the items say: the error of the format is handed
\* on where one was read, bytes behind the value are refused, the value is the items,
\* and no error is lost or reported for another (consensus/mod.rs:47).
DecodeSettles ==
  (focus = "serde" /\ ser.mode = "decode" /\ ser.verdict # "running") =>
    /\ ser.verdict = Expected(ser)
    /\ ser.verdict = "ok" => <<Len(ser.value)>> \o ser.value = ser.items

\* An I/O error never reaches the conversion of errors to serde.
NoIoError == focus = "serde" => ser.verdict # "io_panic"

\* A text is a hash just where it has two digits for every byte, it is read and shown in
\* the same direction, and the bytes of a hash pass through every format unchanged
\* (internal_macros.rs:89, serde_macros.rs:88); the comparison in constant time is
\* equality, whatever bit differs (cmp.rs:17).
TextReadsBack ==
  focus = "digits" => \A backward \in BOOLEAN :
    LET r == FromStr(txt, backward)
        lower == SubSeq([i \in 1..Len(txt) |-> DigitValue(txt[i])], 1, Len(txt))
    IN  /\ r.ok <=> Len(txt) = 2 * Width /\ \A i \in DOMAIN txt : IsDigit(txt[i])
        /\ r.ok => /\ FmtHex(r.hash, backward, FALSE) = lower
                   /\ FromStr(FmtHex(r.hash, backward, TRUE), backward).hash = r.hash
                   /\ FmtHex(r.hash, ~backward, FALSE) = lower => r.hash = Reverse(r.hash)
                   /\ \A human \in BOOLEAN :
                        LET back == DeserializeHash(SerializeHash(r.hash, backward, human), backward, human)
                        IN  back.ok /\ back.hash = r.hash
                   /\ \A i \in 1..Width, b \in {0, 1, 2, 4, 8, 16, 32, 64, 128, 255} :
                        LET other == [r.hash EXCEPT ![i] = (@ + b) % 256] IN FixedTimeEq(r.hash, other) <=> (other = r.hash)
        /\ NewtypeFromStr(txt, backward).ok = r.ok /\ NewtypeFromStr(txt, backward).hash = r.hash
        /\ FromSlice(txt).ok <=> Len(txt) = Width

\* What was written of a map or of a struct is read back, in a format for humans and in a
\* binary one; of an entry that is there more than once the last one counts, unknown
\* fields are passed over, and an entry that is malformed or a field that is missing is
\* refused (serde_utils.rs:31, :98, :184, :454); an array is read in every form that
\* holds as many bytes as it has (serde_utils.rs:539).
DocsReadBack ==
  (focus = "maps" /\ doc.verdict # "running") =>
    LET last(k) == Max({i \in DOMAIN doc.all : doc.all[i][1] = k})
        named == {doc.all[i][1] : i \in DOMAIN doc.all}
        good(v) == HexValues(doc.kind) /\ doc.human => VecFromHex(v).ok
    IN  /\ \A w \in doc.written : doc.verdict = "ok" /\ doc.got = w
        /\ doc.kind \in Kinds =>
             /\ doc.verdict = "ok" <=> doc.shape = Shape(doc.kind, doc.human) /\ \A i \in DOMAIN doc.all : good(doc.all[i][2])
             /\ doc.verdict = "ok" =>
                  /\ DOMAIN doc.got = named
                  /\ \A k \in named : IF HexValues(doc.kind) /\ doc.human THEN doc.got[k] = VecFromHex(doc.all[last(k)][2]).hash
                                       ELSE doc.got[k] = doc.all[last(k)][2]
        /\ (doc.kind = "struct" /\ doc.shape = "map") =>
             /\ doc.verdict = "ok" <=> {"txid", "vout"} \subseteq named
             /\ \A f \in named \intersect {"txid", "vout"} : doc.got[f] = doc.all[last(f)][2]
        /\ \A b \in SomeBytes, human \in BOOLEAN :
             LET d == SerializeOpt({b}, human)
             IN  /\ DeserializeOpt(d).ok <=> Len(b) = Width
                 /\ DeserializeOpt(d).ok => DeserializeOpt(d).val = {b}
                 /\ DeserializeOpt([d EXCEPT !.form = "seq", !.value = b \o <<1>>]).ok <=> Len(b) + 1 >= Width

\* A network stays the one it was through any chain of conversions: to a name, a
\* configuration, the magic of the wire, a chain hash or parameters, and back.  Only a
\* text can be refused, by the reader that does not know it, and the two readers never
\* take a text for different networks; the parameters retarget every 2016 blocks, and
\* the first target of the chain is within their limit (network.rs:114, :125, :143, :266).
NetworkKept ==
  focus = "network" =>
    /\ Form = "network" => Val = walk.network
    /\ Form = "text" => walk.network = Meant[Val]
    /\ Form = "params" => /\ Val.network = walk.network
                              /\ DifficultyAdjustmentInterval(Val) = 2016
                              /\ AtMost(FromCompactBits(GenesisHeader[walk.network].bits), Val.pow_limit)
                              /\ 4 * Val.rule_change_activation_threshold >= 3 * Val.miner_confirmation_window
    /\ Form = "error" => walk.was = "text"

\* The chain hash of a network is the double hash of its genesis block, whose merkle root
\* is the hash of its one transaction, except for signet: its chain hash is that of the
\* block with Bitcoin's coinbase, and genesis_block puts Litecoin's there
\* (constants.rs:71, :105, :138, :191, :207).
GenesisIsChainHash ==
  (focus = "genesis" /\ BlockHashed) =>
    (AsBytes("sha256", blk.h) = ChainHash[chain.network] <=> chain.network # "Signet")

\* Every call returns and every value is written or refused, however often the inner
\* reader is interrupted or gives a single byte; a node that hangs up ends the handshake.
Returns ==
  /\ (focus = "io" /\ io.call # "memory") ~> (io.verdict # "running")
  /\ (focus = "serde") ~> (ser.verdict # "running")
  /\ (focus = "maps") ~> (doc.verdict # "running")
  /\ (focus = "net" /\ net.node = "closed") ~> (focus = "net" /\ net.client \in {"closed", "panicked"})
-----------------------------------------------------------------------------
\* All ways to compute a hash give the hash of the tests (hashes/src).
HashesKnown == LanesAgree /\ AnswersKnown /\ SipRight

\* A value that was written by a serde adapter or as the text of a hash is read
\* back whole, and what cannot be read is refused for the reason it has.
FormsReadBack == HexWhole /\ DecodeSettles /\ TextReadsBack /\ DocsReadBack

\* A network and its genesis block are the same in all forms, but for signet.
NetworksHold == NetworkKept /\ GenesisIsChainHash

\* Amounts, signed, unsigned, as text and as fees, are exact or refused.
AmountsExact == TextExact /\ AmountReadsBack /\ LayoutHolds /\ AccountsAgree /\ FeesRound

=============================================================================
