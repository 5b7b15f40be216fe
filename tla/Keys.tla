-------------------------------- MODULE Keys --------------------------------
(***************************************************************************)
(* The elliptic curve library (secp256k1), as far as this code uses it: a  *)
(* group of prime order in which a point k stands for k times the          *)
(* generator.  A point and its negation have the same x coordinate; the    *)
(* smaller of the two is the one with the even y.                          *)
(***************************************************************************)
EXTENDS Consensus

LOCAL Folding == INSTANCE SequencesExt

CONSTANT Order   \* the order of the group

ASSUME OrderAssumption == Order \in 5..255 /\ Order % 2 = 1

Point == 1..Order - 1
SecretKey == 1..Order - 1

Negate(p) == Order - p
YParity(p) == IF 2 * p < Order THEN 0 ELSE 1
XOnly(p) == IF YParity(p) = 0 THEN p ELSE Negate(p)
IsX(x) == x > 0 /\ 2 * x < Order
PublicOf(sk) == sk

\* Adding a scalar, or a scalar times the generator: fails (no value) at zero.
AddScalar(p, t) == {(p + t) % Order} \ {0}

\* A keypair whose point has an odd y is negated before the tweak is added.
AddXOnlyTweak(sk, t) == AddScalar(IF YParity(sk) = 0 THEN sk ELSE Negate(sk), t)

\* Points as bytes: 33 and 65 bytes are two and three here.
PointSize == 2
FullSize == 3
SerializePoint(p) == <<2 + YParity(p), XOnly(p)>>
SerializeFull(p) == <<4, XOnly(p), p>>
PointFromSlice(b) ==
  IF Len(b) = PointSize THEN {p \in Point : SerializePoint(p) = b}
  ELSE {p \in Point : Len(b) = FullSize /\ b[2] = XOnly(p) /\ b[3] = p /\ b[1] \in {4, 6 + YParity(p)}}

\* An x-only key and a secret key are one byte, a schnorr signature too; the
\* encoding of an ECDSA signature starts with a tag.
XSize == 1
XFromSlice(b) == {x \in Point : IsX(x) /\ b = <<x>>}
SecretFromSlice(b) == {k \in SecretKey : b = <<k>>}
SchnorrSize == 1
SchnorrFromSlice(b) == IF Len(b) = SchnorrSize THEN {b} ELSE {}
FromDer(b) == IF Len(b) = 2 /\ b[1] = 48 THEN {b} ELSE {}
-----------------------------------------------------------------------------
(***************************************************************************)
(* base58 and base58check.  A text is a sequence of digits, a character    *)
(* that is not in the alphabet is a number from 58 on.                     *)
(***************************************************************************)

\* decode: each digit multiplies the number in scratch by 58 and is added, with the
\* carry going to the front; zeros in front stand for as many leading ones.
MulAdd(scratch, base, modulus, digit) ==
  LET n == Len(scratch)
      carry[i \in 0..n] ==
        IF i = 0 THEN digit ELSE (carry[i - 1] + scratch[n + 1 - i] * base) \div modulus
  IN  [ret |-> SubSeq([i \in 1..n |-> (carry[n - i] + scratch[i] * base) % modulus], 1, n), carry |-> carry[n]]

LeadingZeros(s) == CHOOSE k \in 0..Len(s) :
  (\A i \in 1..k : s[i] = 0) /\ (k < Len(s) => s[k + 1] # 0)
StripZeros(s) == Drop(s, LeadingZeros(s))
Zeros(n) == [i \in 1..n |-> 0]

DecodeBase58(text) ==
  LET n == Len(text)
      scratch[i \in 0..n] ==
        IF i = 0 THEN Zeros(1 + (n * 11) \div 15) ELSE MulAdd(scratch[i - 1], 58, 256, text[i]).ret
  IN  IF \E i \in DOMAIN text : text[i] >= 58 THEN Err("InvalidCharacter")
      ELSE Ok(Zeros(LeadingZeros(text)) \o StripZeros(scratch[n]), <<>>)

\* The assertion in the loop: the digits never outgrow the scratch.
ScratchHolds(text) ==
  LET n == Len(text)
      step[i \in 0..n] ==
        IF i = 0 THEN [ret |-> Zeros(1 + (n * 11) \div 15), carry |-> 0]
        ELSE MulAdd(step[i - 1].ret, 58, 256, text[i])
  IN  \A i \in 1..n : text[i] < 58 => step[i].carry = 0

\* format_iter: the digits grow at the back while there is a carry.
AddByte(digits, byte) ==
  LET n == Len(digits)
      carry[i \in 0..n] == IF i = 0 THEN byte ELSE (digits[i] * 256 + carry[i - 1]) \div 58
      kept == [i \in 1..n |-> (digits[i] * 256 + carry[i - 1]) % 58]
      grow[c \in 0..carry[n]] == IF c = 0 THEN <<>> ELSE <<c % 58>> \o grow[c \div 58]
  IN  kept \o grow[carry[n]]

EncodeBase58(data) ==
  Folding!Reverse(Folding!FoldLeft(AddByte, <<>>, data) \o Zeros(LeadingZeros(data)))

-----------------------------------------------------------------------------
\* With the first four bytes of the double hash behind the data.
CheckSize == W32
EncodeCheck(data) == EncodeBase58(data \o Checksum(data))

DecodeCheck(text) ==
  Then(DecodeBase58(text), LAMBDA ret, r :
    LET start == Len(ret) - CheckSize IN
    IF Len(ret) < CheckSize THEN Err("TooShort")
    ELSE IF Drop(ret, start) # Checksum(SubSeq(ret, 1, start)) THEN Err("IncorrectChecksum")
    ELSE Ok(SubSeq(ret, 1, start), <<>>))
-----------------------------------------------------------------------------
(***************************************************************************)
(* Public and private keys, their signatures and their tweaks              *)
(* (crypto/key.rs, crypto/ecdsa.rs, crypto/taproot.rs, sign_message.rs).   *)
(* A conversion from a whole slice or text leaves no rest.                 *)
(***************************************************************************)

CONSTANTS
  TapTweakHash(_, _),   \* the scalar hashed from an x-only key and a merkle root
  Hash20,               \* bytes of a hash160, 20
  Hash160(_)            \* a hash function, from bytes to Hash20 bytes

\* The value of a library call, or its error.
Given(set, kind) == IF set = {} THEN Err(kind) ELSE Ok(CHOOSE x \in set : TRUE, <<>>)

\* Text in hexadecimal: two digits a byte; 16 and more stand for other characters.
ToHex(b) == Flatten([i \in DOMAIN b |-> <<b[i] \div 16, b[i] % 16>>])
FromHex(text) ==
  IF Len(text) % 2 = 1 THEN Err("OddLength")
  ELSE IF \E i \in DOMAIN text : text[i] >= 16 THEN Err("InvalidChar")
  ELSE Ok([i \in 1..Len(text) \div 2 |-> 16 * text[2 * i - 1] + text[2 * i]], <<>>)
-----------------------------------------------------------------------------
\* PublicKey
KeyToBytes(pk) == IF pk.compressed THEN SerializePoint(pk.inner) ELSE SerializeFull(pk.inner)

KeyFromSlice(data) ==
  IF Len(data) \notin {PointSize, FullSize} THEN Err("InvalidLength")
  ELSE IF Len(data) = FullSize /\ data[1] # 4 THEN Err("InvalidKeyPrefix")
  ELSE Then(Given(PointFromSlice(data), "Secp256k1"), LAMBDA p, r :
         Ok([compressed |-> Len(data) = PointSize, inner |-> p], <<>>))

KeyReadFrom(b) ==
  Then(ReadSlice(1, b), LAMBDA first, r :
  Then(ReadSlice((IF first[1] < 4 THEN PointSize ELSE FullSize) - 1, r), LAMBDA more, rest :
  Then(KeyFromSlice(first \o more), LAMBDA pk, none : Ok(pk, rest))))

KeyFromStr(text) ==
  IF Len(text) \notin {2 * PointSize, 2 * FullSize} THEN Err("InvalidHexLength")
  ELSE Then(FromHex(text), LAMBDA b, r : KeyFromSlice(b))

\* CompressedPublicKey: a point; from_slice hands a slice of any length to the library.
CompressedToBytes(p) == SerializePoint(p)
CompressedFromSlice(data) == Given(PointFromSlice(data), "Secp256k1")
CompressedReadFrom(b) ==
  Then(ReadSlice(PointSize, b), LAMBDA s, rest :
  Then(CompressedFromSlice(s), LAMBDA p, none : Ok(p, rest)))
CompressedFromStr(text) ==
  IF Len(text) # 2 * PointSize THEN Err("InvalidLength")
  ELSE Then(FromHex(text), LAMBDA b, r : CompressedFromSlice(b))
ToCompressed(pk) == IF pk.compressed THEN Ok(pk.inner, <<>>) ELSE Err("UncompressedPublicKey")
FromCompressed(p) == [compressed |-> TRUE, inner |-> p]

PubkeyHash(pk) == Hash160(KeyToBytes(pk))
WPubkeyHash(pk) == Then(ToCompressed(pk), LAMBDA p, r : Ok(Hash160(SerializePoint(p)), <<>>))

\* serde: text for formats that people read, bytes for the others.
KeySerialize(human, pk) == IF human THEN ToHex(KeyToBytes(pk)) ELSE KeyToBytes(pk)
KeyDeserialize(human, s) == IF human THEN KeyFromStr(s) ELSE KeyFromSlice(s)
CompressedSerialize(human, p) == IF human THEN ToHex(SerializePoint(p)) ELSE SerializePoint(p)
CompressedDeserialize(human, s) == IF human THEN CompressedFromStr(s) ELSE CompressedFromSlice(s)
-----------------------------------------------------------------------------
\* PrivateKey and its wallet import format.
WifPrefix(network) == IF network = "Main" THEN 176 ELSE 239

PublicKeyOf(sk) == [compressed |-> sk.compressed, inner |-> PublicOf(sk.inner)]
NegateKey(sk) == [sk EXCEPT !.inner = Negate(@)]

WifData(sk) == <<WifPrefix(sk.network), sk.inner>> \o (IF sk.compressed THEN <<1>> ELSE <<>>)
FmtWif(sk) == EncodeCheck(WifData(sk))

FromWifData(data) ==
  IF Len(data) \notin {2, 3} THEN Err("InvalidBase58PayloadLength")
  ELSE IF data[1] \notin {176, 239} THEN Err("InvalidAddressVersion")
  ELSE Then(Given(SecretFromSlice(<<data[2]>>), "Secp256k1"), LAMBDA k, r :
         Ok([compressed |-> Len(data) = 3, network |-> IF data[1] = 176 THEN "Main" ELSE "Test",
             inner |-> k], <<>>))
FromWif(text) == Then(DecodeCheck(text), LAMBDA data, r : FromWifData(data))
-----------------------------------------------------------------------------
\* Signatures: ECDSA, taproot, and those of messages.
StandardTypes == {1, 2, 3, 129, 130, 131}
Front(s) == SubSeq(s, 1, Len(s) - 1)

EcdsaToVec(s) == Append(s.signature, s.sighash_type)
EcdsaFromSlice(sl) ==
  IF sl = <<>> THEN Err("EmptySignature")
  ELSE IF sl[Len(sl)] \notin StandardTypes THEN Err("SighashType")
  ELSE Then(Given(FromDer(Front(sl)), "Secp256k1"), LAMBDA sig, r :
         Ok([signature |-> sig, sighash_type |-> sl[Len(sl)]], <<>>))
EcdsaFromStr(text) ==
  Then(FromHex(text), LAMBDA b, r :
    IF b = <<>> THEN Err("EmptySignature")
    ELSE Then(Given(FromDer(Front(b)), "Secp256k1"), LAMBDA sig, none :
           IF b[Len(b)] \notin StandardTypes THEN Err("SighashType")
           ELSE Ok([signature |-> sig, sighash_type |-> b[Len(b)]], <<>>)))

TapSigToVec(s) == IF s.sighash_type = 0 THEN s.signature ELSE Append(s.signature, s.sighash_type)
TapSigFromSlice(sl) ==
  IF Len(sl) = SchnorrSize
    THEN Then(Given(SchnorrFromSlice(sl), "Secp256k1"), LAMBDA sig, r :
           Ok([signature |-> sig, sighash_type |-> 0], <<>>))
  ELSE IF Len(sl) # SchnorrSize + 1 THEN Err("InvalidSignatureSize")
  ELSE IF sl[Len(sl)] \notin StandardTypes \union {0} THEN Err("SighashType")
  ELSE Then(Given(SchnorrFromSlice(Front(sl)), "Secp256k1"), LAMBDA sig, r :
         Ok([signature |-> sig, sighash_type |-> sl[Len(sl)]], <<>>))

MessageSigSerialize(s) == <<27 + s.recid + (IF s.compressed THEN 4 ELSE 0)>> \o s.signature
MessageSigFromSlice(b) ==
  IF Len(b) # 1 + SchnorrSize THEN Err("InvalidLength")
  ELSE IF b[1] < 27 THEN Err("InvalidEncoding")
  ELSE Ok([signature |-> Drop(b, 1), recid |-> (b[1] - 27) % 4,
           compressed |-> ((b[1] - 27) \div 4) % 2 = 1], <<>>)
SignedMsgPreimage(prefix, msg) == prefix \o EncodeVarInt(Len(msg)) \o msg
-----------------------------------------------------------------------------
\* The taproot tweak of an x-only key, and of the keypair it belongs to.  The root
\* is in a set, empty where there is none.  (A tweak that hits zero would panic.)
Outcome(p) == [output_key |-> XOnly(p), parity |-> YParity(p)]

TapTweakKey(x, root) == {Outcome(p) : p \in AddScalar(x, TapTweakHash(x, root))}

TapTweakKeypair(sk, root) == AddXOnlyTweak(sk, TapTweakHash(XOnly(PublicOf(sk)), root))
PublicParts(sk) == Outcome(PublicOf(sk))

TweakAddCheck(x, output_key, parity, tweak) ==
  AddScalar(x, tweak) # {} /\ \A p \in AddScalar(x, tweak) : Outcome(p) = [output_key |-> output_key, parity |-> parity]
=============================================================================
