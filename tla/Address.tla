------------------------------- MODULE Address -------------------------------
(***************************************************************************)
(* Addresses (address/mod.rs): made from keys and scripts, written as and  *)
(* read from text, and related to output scripts.                          *)
(*                                                                         *)
(* A text is a sequence: a tag, then either base58 digits, or the number   *)
(* of the human readable part, the kind of the checksum (a text has one    *)
(* that is valid, or none) and five bit groups.  The case of the letters   *)
(* carries nothing and is left out.                                        *)
(***************************************************************************)
EXTENDS Script

CONSTANT MaxLegacyText   \* longest base58 text that is looked at, 50

Networks == {"Bitcoin", "Testnet4", "Signet", "Regtest"}
KindOf(network) == IF network = "Bitcoin" THEN "Main" ELSE "Test"

\* Human readable parts: ltc, tltc, rltc, ltcmweb, tmweb; checksums bech32, bech32m.
HrpOf == [Mainnet |-> 1, Testnets |-> 2, Regtest |-> 3]
HrpFromNetwork(n) ==
  CASE n = "Bitcoin" -> "Mainnet" [] n \in {"Testnet4", "Signet"} -> "Testnets" [] n = "Regtest" -> "Regtest"
MwebHrpFor(kind) == IF kind = "Main" THEN 4 ELSE 5
Bech32 == 1
Bech32m == 2
UsesBech32(version) == version \in {0, 8, 9}

\* The five bit groups of bytes, and the whole bytes of groups.
BitsOf(s, w) == Flatten([i \in DOMAIN s |-> [k \in 1..w |-> (s[i] \div 2 ^ (w - k)) % 2]])
FromBits(bits, at, w) ==
  LET v[k \in 0..w] ==
        IF k = 0 THEN 0 ELSE 2 * v[k - 1] + (IF at + k <= Len(bits) THEN bits[at + k] ELSE 0)
  IN  v[w]
BytesToFes(b) ==
  LET bits == BitsOf(b, 8) IN [i \in 1..(Len(bits) + 4) \div 5 |-> FromBits(bits, 5 * (i - 1), 5)]
FesToBytes(f) ==
  LET bits == BitsOf(f, 5) IN [i \in 1..Len(bits) \div 8 |-> FromBits(bits, 8 * (i - 1), 8)]

Legacy == 0
Hrpstring == 1
-----------------------------------------------------------------------------
\* Addresses by the field that tells where they are valid: a kind of network, or
\* the human readable part.
Addr(type, data, where) == [type |-> type, data |-> data, where |-> where]
P2pkh(hash, kind) == Addr("P2pkh", hash, kind)
P2shFromHash(hash, kind) == Addr("P2sh", hash, kind)
P2sh(script, kind) ==
  IF Len(script) > MaxElementSize THEN Err("ExcessiveScriptSize")
  ELSE Ok(P2shFromHash(Hash160(script), kind), <<>>)
FromWitnessProgram(p, hrp) == Addr("Segwit", p, hrp)
P2wpkh(point, hrp) == FromWitnessProgram(ProgramP2wpkh(point), hrp)
P2shwpkh(point, kind) ==
  P2shFromHash(Hash160(ScriptPush(BuildInt(NewBuilder, 0).script, Hash160(SerializePoint(point)))), kind)
P2wsh(script, hrp) == FromWitnessProgram(ProgramP2wsh(script), hrp)
P2shwsh(script, kind) ==
  P2shFromHash(Hash160(ScriptPush(BuildInt(NewBuilder, 0).script, HashOf(script))), kind)
P2tr(x, root, hrp) == {FromWitnessProgram(p, hrp) : p \in ProgramP2tr(x, root)}
P2trTweaked(x, hrp) == FromWitnessProgram(ProgramP2trTweaked(x), hrp)
MwebAddr(scan, spend, kind) == Addr("Mweb", <<SerializePoint(scan), SerializePoint(spend)>>, kind)

AddressType(a) ==
  IF a.type # "Segwit" THEN {a.type}
  ELSE IF ProgramIsP2wpkh(a.data) THEN {"P2wpkh"}
  ELSE IF ProgramIsP2wsh(a.data) THEN {"P2wsh"}
  ELSE IF ProgramIsP2tr(a.data) THEN {"P2tr"}
  ELSE IF ProgramIsP2a(a.data) THEN {"P2a"} ELSE {}
IsSpendStandard(a) == AddressType(a) # {}

ToAddressData(a) == [type |-> a.type, data |-> a.data]
-----------------------------------------------------------------------------
\* Display and FromStr.
Prefix(type, kind) ==
  IF type = "P2pkh" THEN (IF kind = "Main" THEN 48 ELSE 111) ELSE (IF kind = "Main" THEN 50 ELSE 58)

\* Mutant: every version but 0 has the newer checksum.
SegwitChecksumBip350(version) == IF version = 0 THEN Bech32 ELSE Bech32m
SegwitChecksum(version) == IF UsesBech32(version) THEN Bech32 ELSE Bech32m

ToText(a) ==
  CASE a.type \in {"P2pkh", "P2sh"} -> <<Legacy>> \o EncodeCheck(<<Prefix(a.type, a.where)>> \o a.data)
    [] a.type = "Segwit" ->
         <<Hrpstring, HrpOf[a.where], SegwitChecksum(a.data.version), a.data.version>>
         \o BytesToFes(a.data.program)
    [] a.type = "Mweb" ->
         <<Hrpstring, MwebHrpFor(a.where), Bech32, 0>> \o BytesToFes(a.data[1] \o a.data[2])

\* litecoin_mweb_decode; the points themselves are checked.
MwebDecode(text) ==
  LET bytes == FesToBytes(Drop(text, 4))
      scan == SubSeq(bytes, 1, PointSize)
      spend == Drop(bytes, PointSize)
  IN  IF /\ Len(text) >= 4 /\ text[2] \in {4, 5} /\ text[3] = Bech32 /\ text[4] = 0
         /\ Len(bytes) = 2 * PointSize
         /\ PointFromSlice(scan) # {} /\ PointFromSlice(spend) # {}
        THEN {Addr("Mweb", <<scan, spend>>, IF text[2] = 4 THEN "Main" ELSE "Test")} ELSE {}

SegwitDecode(text) ==
  IF Len(text) >= 4 /\ text[3] \in {Bech32, Bech32m} /\ text[4] <= 16
     /\ UsesBech32(text[4]) = (text[3] = Bech32)
    THEN {<<text[2], text[4], FesToBytes(Drop(text, 4))>>} ELSE {}

FromHrp(n) ==
  IF \E h \in DOMAIN HrpOf : HrpOf[h] = n THEN Ok(CHOOSE h \in DOMAIN HrpOf : HrpOf[h] = n, <<>>)
  ELSE Err("UnknownHrp")

\* The prefixes 5 and 196 are the ones script addresses had before.
FromPayload(data) ==
  LET hash == Tail(data)
      p == data[1]
  IN  IF p \in {48, 111} THEN Ok(P2pkh(hash, IF p = 48 THEN "Main" ELSE "Test"), <<>>)
      ELSE IF p \in {50, 58, 5, 196} THEN Ok(P2shFromHash(hash, IF p \in {50, 5} THEN "Main" ELSE "Test"), <<>>)
      ELSE Err("InvalidLegacyPrefix")

FromBase58Text(text) ==
  IF Len(text) > MaxLegacyText THEN Err("LegacyAddressTooLong")
  ELSE Then(DecodeCheck(text), LAMBDA data, r :
         IF Len(data) # 1 + Hash20 THEN Err("InvalidBase58PayloadLength") ELSE FromPayload(data))

FromText(text) ==
  IF text = <<>> THEN Err("TooShort")
  ELSE IF text[1] = Hrpstring /\ MwebDecode(text) # {} THEN Ok(CHOOSE a \in MwebDecode(text) : TRUE, <<>>)
  ELSE IF text[1] = Hrpstring /\ SegwitDecode(text) # {}
    THEN LET d == CHOOSE x \in SegwitDecode(text) : TRUE IN
         Then(NewProgram(d[2], d[3]), LAMBDA p, r : Then(FromHrp(d[1]), LAMBDA hrp, none : Ok(FromWitnessProgram(p, hrp), <<>>)))
  ELSE IF text[1] = Legacy THEN FromBase58Text(Tail(text)) ELSE Err("InvalidCharacter")

IsValidForNetwork(a, n) == a.where = IF a.type = "Segwit" THEN HrpFromNetwork(n) ELSE KindOf(n)
RequireNetwork(a, n) == IF IsValidForNetwork(a, n) THEN Ok(a, <<>>) ELSE Err("NetworkValidation")
-----------------------------------------------------------------------------
\* Addresses and output scripts.
ScriptPubkey(a) ==
  CASE a.type = "P2pkh" -> NewP2pkh(a.data)
    [] a.type = "P2sh" -> NewP2sh(a.data)
    [] a.type = "Segwit" -> NewWitnessProgram(a.data)
    [] a.type = "Mweb" -> <<>>

FromScript(s, network) ==
  IF IsP2pkh(s) THEN Ok(P2pkh(SubSeq(s, 4, 3 + Hash20), KindOf(network)), <<>>)
  ELSE IF IsP2sh(s) THEN Ok(P2shFromHash(SubSeq(s, 3, 2 + Hash20), KindOf(network)), <<>>)
  ELSE IF ~IsWitnessProgram(s) THEN Err("UnrecognizedScript")
  ELSE Then(VersionFromOpcode(s[1]), LAMBDA v, r :
       Then(NewProgram(v, Drop(s, 2)), LAMBDA p, none : Ok(FromWitnessProgram(p, HrpFromNetwork(network)), <<>>)))

\* matches_script_pubkey: the version of a witness program is not compared.
MatchesScriptPubkey(a, s) ==
  \/ a.type = "P2pkh" /\ IsP2pkh(s) /\ SubSeq(s, 4, 3 + Hash20) = a.data
  \/ a.type = "P2sh" /\ IsP2sh(s) /\ SubSeq(s, 3, 2 + Hash20) = a.data
  \/ a.type = "Segwit" /\ IsWitnessProgram(s) /\ Drop(s, 2) = a.data.program

PayloadAsBytes(a) ==
  CASE a.type \in {"P2pkh", "P2sh"} -> a.data
    [] a.type = "Segwit" -> a.data.program
    [] a.type = "Mweb" -> a.data[1]
SegwitRedeemHash(hash) == Hash160(<<0, Hash20>> \o hash)
IsRelatedToPubkey(a, pk) ==
  PayloadAsBytes(a) \in {PubkeyHash(pk), <<XOnly(pk.inner)>>, SegwitRedeemHash(PubkeyHash(pk))}
IsRelatedToXOnly(a, x) == PayloadAsBytes(a) = <<x>>

\* sign_message.rs: the signature is a recovered key, and the address must be one
\* that spends with the hash of that key.
IsSignedByAddress(a, pk) ==
  IF a.type = "P2pkh" THEN Ok(PubkeyHash(pk) = a.data, <<>>)
  ELSE IF AddressType(a) = {} THEN Ok(FALSE, <<>>) ELSE Err("UnsupportedAddressType")
=============================================================================
