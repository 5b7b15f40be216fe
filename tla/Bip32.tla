-------------------------------- MODULE Bip32 --------------------------------
(***************************************************************************)
(* Extended keys (bip32.rs): child numbers, derivation paths, the          *)
(* derivation of private and public children, and the 78 bytes a key is    *)
(* written as.  The two halves of the HMAC are one external function.      *)
(***************************************************************************)
EXTENDS Keys

CONSTANTS
  Hmac(_, _),   \* chain code and data to [left |-> a number, right |-> a chain code]
  MaxKeyDepth   \* the largest depth a u8 holds, 255

HardenedBit == (MaxUint(W32) + 1) \div 2

\* ChildNumber
Child(hardened, index) == [hardened |-> hardened, index |-> index]
FromNormalIdx(index) == IF index < HardenedBit THEN Ok(Child(FALSE, index), <<>>) ELSE Err("InvalidChildNumber")
FromHardenedIdx(index) == IF index < HardenedBit THEN Ok(Child(TRUE, index), <<>>) ELSE Err("InvalidChildNumber")
Increment(c) == IF c.hardened THEN FromHardenedIdx(c.index + 1) ELSE FromNormalIdx(c.index + 1)
ChildFromU32(n) == IF n >= HardenedBit THEN Child(TRUE, n - HardenedBit) ELSE Child(FALSE, n)
ChildToU32(c) == IF c.hardened THEN c.index + HardenedBit ELSE c.index
ToBE(n, w) == LET le == ToLE(n, w) IN [i \in 1..w |-> le[w + 1 - i]]
FromBE(b) == FromLE([i \in DOMAIN b |-> b[Len(b) + 1 - i]])

\* The children of a path from one number on; the iterator ends when the number
\* cannot be incremented.
ChildrenFrom(path, start) ==
  LET room == HardenedBit - start.index
  IN  [k \in 1..room |-> Append(path, Child(start.hardened, start.index + k - 1))]
-----------------------------------------------------------------------------
\* A path as text is the sequence of its parts between slashes: a number with or
\* without a mark, the letter m, nothing, or something else.
Part(kind, n, mark) == [kind |-> kind, n |-> n, mark |-> mark]
Nothing == Part("empty", 0, "")
Master == Part("m", 0, "")

ChildToPart(c, alternate) == Part("num", c.index, IF ~c.hardened THEN "" ELSE IF alternate THEN "h" ELSE "'")
ChildFromPart(p) ==
  IF p.kind # "num" \/ p.n > MaxUint(W32) THEN Err("InvalidChildNumberFormat")
  ELSE IF p.mark \in {"h", "'"} THEN FromHardenedIdx(p.n) ELSE FromNormalIdx(p.n)

PathToText(path) == IF path = <<>> THEN <<Nothing>> ELSE [i \in DOMAIN path |-> ChildToPart(path[i], FALSE)]

PathFromText(parts) ==
  LET rest == IF Len(parts) > 1 /\ parts[1] = Master THEN Tail(parts) ELSE parts
      got[i \in 0..Len(rest)] ==
        IF i = 0 THEN Ok(<<>>, <<>>)
        ELSE Then(got[i - 1], LAMBDA path, r :
               Then(ChildFromPart(rest[i]), LAMBDA c, none : Ok(Append(path, c), <<>>)))
  IN  IF parts \in {<<Nothing>>, <<Master>>, <<Master, Nothing>>} THEN Ok(<<>>, <<>>) ELSE got[Len(rest)]

ToU32Vec(path) == [i \in DOMAIN path |-> ChildToU32(path[i])]
-----------------------------------------------------------------------------
\* Identifiers: a fingerprint is the first bytes of the hash of the public key.
Identifier(xpub) == Hash160(SerializePoint(xpub.public_key))
FingerprintSize == W32
Fingerprint(xpub) == SubSeq(Identifier(xpub), 1, FingerprintSize)

FromPriv(k) ==
  [network |-> k.network, depth |-> k.depth, parent_fingerprint |-> k.parent_fingerprint,
   child_number |-> k.child_number, public_key |-> PublicOf(k.private_key), chain_code |-> k.chain_code]

NewMaster(network, hmac) ==
  Then(Given(SecretFromSlice(<<hmac.left>>), "Secp256k1"), LAMBDA sk, r :
    Ok([network |-> network, depth |-> 0, parent_fingerprint |-> Zeros(FingerprintSize), child_number |-> Child(FALSE, 0),
        private_key |-> sk, chain_code |-> hmac.right], <<>>))

ToPriv(k) == [compressed |-> TRUE, network |-> k.network, inner |-> k.private_key]

\* What is hashed for a child; a hardened one needs the private key.
PubData(p, i) == SerializePoint(p) \o ToBE(ChildToU32(i), W32)
PrivData(sk, i) == <<0, sk>> \o ToBE(ChildToU32(i), W32)

\* ckd_priv: the two calls it expects to succeed panic with a probability of 2^-127.
CkdPriv(k, i) ==
  LET h == Hmac(k.chain_code, IF i.hardened THEN PrivData(k.private_key, i)
                              ELSE PubData(PublicOf(k.private_key), i))
  IN  Then(Given(UNION {AddScalar(t, k.private_key) : t \in SecretFromSlice(<<h.left>>)}, "panic"), LAMBDA sk, r :
        IF k.depth = MaxKeyDepth THEN Err("MaximumDepthExceeded")
        ELSE Ok([network |-> k.network, depth |-> k.depth + 1,
                 parent_fingerprint |-> Fingerprint(FromPriv(k)), child_number |-> i, private_key |-> sk,
                 chain_code |-> h.right], <<>>))

CkdPubTweak(x, i) ==
  IF i.hardened THEN Err("CannotDeriveFromHardenedKey")
  ELSE LET h == Hmac(x.chain_code, PubData(x.public_key, i))
       IN  Then(Given(SecretFromSlice(<<h.left>>), "Secp256k1"), LAMBDA t, r : Ok(<<t, h.right>>, <<>>))

\* Mutant: the fingerprint of the key itself is passed on.
CkdPubOwnParent(x, i) ==
  Then(CkdPubTweak(x, i), LAMBDA t, r :
  Then(Given(AddScalar(x.public_key, t[1]), "Secp256k1"), LAMBDA p, none :
    IF x.depth = MaxKeyDepth THEN Err("MaximumDepthExceeded")
    ELSE Ok([network |-> x.network, depth |-> x.depth + 1, parent_fingerprint |-> x.parent_fingerprint,
             child_number |-> i, public_key |-> p, chain_code |-> t[2]], <<>>)))

CkdPub(x, i) ==
  Then(CkdPubTweak(x, i), LAMBDA t, r :
  Then(Given(AddScalar(x.public_key, t[1]), "Secp256k1"), LAMBDA p, none :
    IF x.depth = MaxKeyDepth THEN Err("MaximumDepthExceeded")
    ELSE Ok([network |-> x.network, depth |-> x.depth + 1, parent_fingerprint |-> Fingerprint(x),
             child_number |-> i, public_key |-> p, chain_code |-> t[2]], <<>>)))

DerivePriv(k, path) ==
  LET got[i \in 0..Len(path)] ==
        IF i = 0 THEN Ok(k, <<>>) ELSE Then(got[i - 1], LAMBDA sk, r : CkdPriv(sk, path[i]))
  IN  got[Len(path)]

DerivePub(x, path) ==
  LET got[i \in 0..Len(path)] ==
        IF i = 0 THEN Ok(x, <<>>) ELSE Then(got[i - 1], LAMBDA pk, r : CkdPub(pk, path[i]))
  IN  got[Len(path)]
-----------------------------------------------------------------------------
\* The 78 bytes: version, depth, parent, child number, chain code and key.  The
\* version stands for its last byte.
PubVersion(network) == IF network = "Main" THEN 30 ELSE 207
PrivVersion(network) == IF network = "Main" THEN 228 ELSE 148
HeadSize == 1 + 1 + FingerprintSize + W32 + HashSize
KeyHead(k, version) ==
  <<version, k.depth>> \o k.parent_fingerprint \o ToBE(ChildToU32(k.child_number), W32) \o k.chain_code

EncodeXpub(x) == KeyHead(x, PubVersion(x.network)) \o SerializePoint(x.public_key)
EncodeXpriv(k) == KeyHead(k, PrivVersion(k.network)) \o <<0, k.private_key>>

HeadFields(data) ==
  [depth |-> data[2], parent_fingerprint |-> SubSeq(data, 3, 2 + FingerprintSize),
   child_number |-> ChildFromU32(FromBE(SubSeq(data, 3 + FingerprintSize, 2 + FingerprintSize + W32))),
   chain_code |-> SubSeq(data, HeadSize - HashSize + 1, HeadSize)]

DecodeXpub(data) ==
  IF Len(data) # HeadSize + PointSize THEN Err("WrongExtendedKeyLength")
  ELSE IF data[1] \notin {30, 207} THEN Err("UnknownVersion")
  ELSE Then(Given(PointFromSlice(Drop(data, HeadSize)), "Secp256k1"), LAMBDA p, r :
         LET h == HeadFields(data) IN
         Ok([network |-> IF data[1] = 30 THEN "Main" ELSE "Test", depth |-> h.depth,
             parent_fingerprint |-> h.parent_fingerprint, child_number |-> h.child_number,
             public_key |-> p, chain_code |-> h.chain_code], <<>>))

\* The byte in front of the private key is not looked at.
DecodeXpriv(data) ==
  IF Len(data) # HeadSize + 2 THEN Err("WrongExtendedKeyLength")
  ELSE IF data[1] \notin {228, 148} THEN Err("UnknownVersion")
  ELSE Then(Given(SecretFromSlice(Drop(data, HeadSize + 1)), "Secp256k1"), LAMBDA sk, r :
         LET h == HeadFields(data) IN
         Ok([network |-> IF data[1] = 228 THEN "Main" ELSE "Test", depth |-> h.depth,
             parent_fingerprint |-> h.parent_fingerprint, child_number |-> h.child_number,
             private_key |-> sk, chain_code |-> h.chain_code], <<>>))

XpubFromStr(text) == Then(DecodeCheck(text), LAMBDA data, r : DecodeXpub(data))
XprivFromStr(text) == Then(DecodeCheck(text), LAMBDA data, r : DecodeXpriv(data))
XpubToStr(x) == EncodeCheck(EncodeXpub(x))
XprivToStr(k) == EncodeCheck(EncodeXpriv(k))
=============================================================================
