------------------------------ MODULE PsbtCodec ------------------------------
(***************************************************************************)
(* The bytes of a Psbt (psbt/serialize.rs, raw.rs, macros.rs and the maps  *)
(* of psbt/map): key-value pairs that end with a zero, one global map, one *)
(* map per input and one per output.                                       *)
(*                                                                         *)
(* A map has its fields under their type codes: each is a function from    *)
(* key data to values, with the empty key for a field that has none, so an *)
(* Option is a function with at most one point.  The MWEB arms of the      *)
(* global map are those of MwebWorkflow and are left out here.             *)
(***************************************************************************)
EXTENDS Block, Bip32, TapData

Seqs == INSTANCE SequencesExt

Empty == <<>>
With(f, k, v) == [x \in DOMAIN f \cup {k} |-> IF x = k THEN v ELSE f[x]]

\* A BTreeMap is walked in the order of its keys: that of their bytes here.
BytesBefore(a, b) ==
  \/ \E i \in DOMAIN a : i <= Len(b) /\ a[i] < b[i] /\ \A j \in 1 .. i - 1 : a[j] = b[j]
  \/ Len(a) < Len(b) /\ a = SubSeq(b, 1, Len(a))
Walk(f) == Seqs!SetToSortSeq(DOMAIN f, BytesBefore)
-----------------------------------------------------------------------------
\* Raw pairs.
PsbtKey(type, key) == [type_value |-> type, key |-> key]
PsbtPair(type, key, value) == [key |-> PsbtKey(type, key), value |-> value]

KeySer(k) == EncodeVarInt(Len(k.key) + 1) \o <<k.type_value>> \o k.key
KeyDecode(b) ==
  Then(DecodeVarInt(b), LAMBDA n, r :
    IF n = 0 THEN Ok({}, r)                                   \* NoMorePairs
    ELSE IF n - 1 > MaxVecSize THEN Err("OversizedVectorAllocation")
    ELSE Then(ReadUint(1, r), LAMBDA type, r1 :
         Then(ReadSlice(n - 1, r1), LAMBDA key, rest : Ok({PsbtKey(type, key)}, rest))))

PairSer(p) == KeySer(p.key) \o EncodeBytes(p.value)
PairDecode(b) ==
  Then(KeyDecode(b), LAMBDA key, r :
    IF key = {} THEN Ok({}, r)
    ELSE Then(DecodeBytes(r), LAMBDA value, rest :
           Ok({[key |-> CHOOSE k \in key : TRUE, value |-> value]}, rest)))

\* The pairs up to the separator, each handed to insert_pair; a pair takes at least
\* three bytes.
DecodePairs(Put(_, _), start, b) ==
  LET most == Len(b) \div 3 + 1
      got[n \in 0 .. most] ==
        IF n = 0 THEN Ok([map |-> start, more |-> TRUE], b)
        ELSE Then(got[n - 1], LAMBDA s, r :
               IF ~s.more THEN Ok(s, r)
               ELSE Then(PairDecode(r), LAMBDA pair, rest :
                      IF pair = {} THEN Ok([s EXCEPT !.more = FALSE], rest)
                      ELSE Then(Put(s.map, CHOOSE p \in pair : TRUE), LAMBDA m, r0 :
                             Ok([s EXCEPT !.map = m], rest))))
  IN  Then(got[most], LAMBDA s, r : IF s.more THEN Err("UnexpectedEof") ELSE Ok(s.map, r))

SerializeMap(pairs) == Flatten([i \in DOMAIN pairs |-> PairSer(pairs[i])]) \o <<0>>

\* The key data of a proprietary pair: a prefix, a subtype and up to a limit of bytes.
ProprietaryType == 252
ProprietaryLimit == 1024
ProprietarySer(p) == EncodeBytes(p.prefix) \o <<p.subtype>> \o p.key
ProprietaryFrom(key) ==
  Then(DecodeBytes(key), LAMBDA prefix, r1 :
  Then(ReadUint(1, r1), LAMBDA subtype, r2 :
    IF Len(r2) > ProprietaryLimit THEN Err("NotConsumed")
    ELSE Ok([prefix |-> prefix, subtype |-> subtype, key |-> r2], <<>>)))

PutProprietary(map, pair) ==
  Then(ProprietaryFrom(pair.key.key), LAMBDA p, r :
    IF ProprietarySer(p) \in DOMAIN map.proprietary THEN Err("DuplicateKey")
    ELSE Ok([map EXCEPT !.proprietary = With(@, ProprietarySer(p), pair.value)], <<>>))

PutUnknown(map, pair) ==
  IF KeySer(pair.key) \in DOMAIN map.unknown THEN Err("DuplicateKey")
  ELSE Ok([map EXCEPT !.unknown = With(@, KeySer(pair.key), pair.value)], <<>>)

OtherPairs(map) ==
  LET props == Walk(map.proprietary)
      others == Walk(map.unknown)
  IN  [i \in DOMAIN props |-> PsbtPair(ProprietaryType, props[i], map.proprietary[props[i]])]
      \o [i \in DOMAIN others |->
            [key |-> CHOOSE k \in KeyDecode(others[i]).val : TRUE, value |-> map.unknown[others[i]]]]
-----------------------------------------------------------------------------
\* The fingerprint of a master key and the path from it.
KeySourceSer(ks) ==
  ks.fingerprint \o Flatten([i \in DOMAIN ks.path |-> EmitUint(ChildToU32(ks.path[i]), W32)])
KeySourceDe(b) ==
  IF Len(b) < FingerprintSize THEN Err("UnexpectedEof")
  ELSE IF (Len(b) - FingerprintSize) % W32 # 0 THEN Err("UnexpectedEof")
  ELSE LET word(i) == SubSeq(b, FingerprintSize + (i - 1) * W32 + 1, FingerprintSize + i * W32)
       IN  Ok([fingerprint |-> SubSeq(b, 1, FingerprintSize),
               path |-> [i \in 1 .. (Len(b) - FingerprintSize) \div W32 |->
                           ChildFromU32(FromLE(word(i)))]], <<>>)

HashDe(b) == IF Len(b) = HashSize THEN Ok(b, <<>>) ELSE Err("InvalidHash")

\* Serialize and Deserialize of the types that are keys or values of fields.
Ser(type, v) ==
  CASE type = "tx" -> EncodeTx(v)
    [] type = "txout" -> EncodeTxOut(v)
    [] type = "witness" -> EncodeWitness(v)
    [] type \in {"bytes", "hash", "leafhash"} -> v
    [] type = "pubkey" -> KeyToBytes(v)
    [] type = "secp" -> SerializePoint(v)
    [] type = "ecdsa" -> EcdsaToVec(v)
    [] type = "keysource" -> KeySourceSer(v)
    [] type = "sighash" -> EmitUint(v, W32)
    [] type = "xonly" -> <<v>>
    [] type = "tapsig" -> TapSigToVec(v)
    [] type = "keyleaf" -> <<v.key>> \o v.leaf
    [] type = "control" -> ControlEncode(v)
    [] type = "leafscript" -> Append(v.script, VersionToConsensus(v.version))
    [] type = "origin" -> EncodeVec(LAMBDA h : h, v.leaves) \o KeySourceSer(v.source)
    [] type = "tree" -> TreeSerialize(v)

De(type, b) ==
  CASE type = "tx" -> Deserialize(DecodeTx(b))
    [] type = "txout" -> Deserialize(DecodeTxOut(b))
    [] type = "witness" -> Deserialize(DecodeWitness(b))
    [] type = "bytes" -> Ok(b, <<>>)
    [] type \in {"hash", "leafhash"} -> HashDe(b)
    [] type = "pubkey" -> KeyFromSlice(b)
    [] type = "secp" -> Given(PointFromSlice(b), "Secp256k1")
    [] type = "ecdsa" -> EcdsaFromSlice(b)
    [] type = "keysource" -> KeySourceDe(b)
    [] type = "sighash" -> Deserialize(ReadUint(W32, b))
    [] type = "xonly" -> Given(XFromSlice(b), "InvalidXOnlyPublicKey")
    [] type = "tapsig" -> TapSigFromSlice(b)
    [] type = "keyleaf" ->
         IF Len(b) < XSize THEN Err("UnexpectedEof")
         ELSE Then(Given(XFromSlice(SubSeq(b, 1, XSize)), "InvalidXOnlyPublicKey"), LAMBDA k, r0 :
              Then(HashDe(Drop(b, XSize)), LAMBDA h, r1 : Ok([key |-> k, leaf |-> h], <<>>)))
    [] type = "control" -> ControlDecode(b)
    [] type = "leafscript" ->
         IF b = <<>> THEN Err("UnexpectedEof")
         ELSE Then(VersionFromConsensus(b[Len(b)]), LAMBDA v, r :
                Ok([script |-> Front(b), version |-> v], <<>>))
    [] type = "origin" ->
         Then(DecodeVec(LAMBDA r : ReadSlice(HashSize, r), b), LAMBDA leaves, r1 :
         Then(KeySourceDe(r1), LAMBDA source, r2 : Ok([leaves |-> leaves, source |-> source], <<>>)))
    [] type = "tree" -> TreeDeserialize(b)
-----------------------------------------------------------------------------
MapField(type, key, value) == [type |-> type, key |-> key, value |-> value]
Unkeyed == "none"

\* The fields in the order get_pairs writes them; "preimage" is a hash that the
\* value must hash to.
InputFields ==
  <<MapField(0, Unkeyed, "tx"), MapField(1, Unkeyed, "txout"), MapField(2, "pubkey", "ecdsa"),
    MapField(3, Unkeyed, "sighash"), MapField(4, Unkeyed, "bytes"), MapField(5, Unkeyed, "bytes"),
    MapField(6, "secp", "keysource"), MapField(7, Unkeyed, "bytes"), MapField(8, Unkeyed, "witness"),
    MapField(10, "preimage", "bytes"), MapField(11, "preimage", "bytes"), MapField(12, "preimage", "bytes"),
    MapField(13, "preimage", "bytes"), MapField(19, Unkeyed, "tapsig"), MapField(20, "keyleaf", "tapsig"),
    MapField(21, "control", "leafscript"), MapField(22, "xonly", "origin"), MapField(23, Unkeyed, "xonly"),
    MapField(24, Unkeyed, "hash")>>

OutputFields ==
  <<MapField(0, Unkeyed, "bytes"), MapField(1, Unkeyed, "bytes"), MapField(2, "secp", "keysource"),
    MapField(5, Unkeyed, "xonly"), MapField(6, Unkeyed, "tree"), MapField(7, "xonly", "origin")>>

Types(fields) == {fields[i].type : i \in DOMAIN fields}
FieldOf(fields, type) == fields[CHOOSE i \in DOMAIN fields : fields[i].type = type]

NewMap(fields) ==
  [f |-> [t \in Types(fields) |-> Empty], mweb |-> Empty, proprietary |-> Empty, unknown |-> Empty]

\* Mutant: an occupied entry is replaced.
OccupiedNever(map, type, key) == FALSE
Occupied(map, type, key) == key \in DOMAIN map.f[type]

\* impl_psbt_insert_pair and psbt_insert_hash_pair: the key is read, a key that is
\* taken is refused, then the value is read.
PutField(field, map, pair) ==
  LET put(key) ==
        IF Occupied(map, field.type, key) THEN Err("DuplicateKey")
        ELSE Then(De(field.value, pair.value), LAMBDA v, r :
               Ok([map EXCEPT !.f[field.type] = With(@, key, v)], <<>>))
      raw == pair.key.key
  IN  CASE field.key = Unkeyed /\ raw # <<>> -> Err("InvalidKey")
        [] field.key = Unkeyed /\ raw = <<>> -> put(<<>>)
        [] field.key # Unkeyed /\ raw = <<>> -> Err("InvalidKey")
        [] field.key = "preimage" /\ raw # <<>> ->
             Then(HashDe(raw), LAMBDA h, r :
               IF ~Occupied(map, field.type, h) /\ HashOf(pair.value) # h
                 THEN Err("InvalidPreimageHashPair") ELSE put(h))
        [] OTHER -> Then(De(field.key, raw), LAMBDA k, r : put(Ser(field.key, k)))

FieldPairs(field, map) ==
  LET keys == Walk(map.f[field.type])
  IN  [i \in DOMAIN keys |->
         PsbtPair(field.type, keys[i], Ser(field.value, map.f[field.type][keys[i]]))]
-----------------------------------------------------------------------------
\* The MWEB fields of an input and of an output: the last pair of a type stays, one
\* of the wrong length is passed over.  "any" length, or that of a hash, of a
\* commitment, of a u32 or u64, or at least one byte of which the first is kept.
MwebMin == 144
MwebInputLens == <<"hash", "point", "any", "any", "first", "any", "u32", "u64", "hash", "any",
                   "origin", "origin", "any">>
MwebOutputLens == <<"any", "point", "first", "any", "any", "any", "any", "any", "any">>

LenOf(kind) ==
  CASE kind = "hash" -> HashSize [] kind = "point" -> PointSize [] kind = "u32" -> W32 [] kind = "u64" -> W64

ApplyMweb(lens, map, pair) ==
  LET type == pair.key.type_value
      kind == lens[type - MwebMin + 1]
      keep(key, v) == Ok([map EXCEPT !.mweb = With(@, type, [key |-> key, value |-> v])], <<>>)
      raw == pair.key.key
      point == PointFromSlice(raw)
  IN  CASE kind = "origin" /\ raw = <<>> -> Err("InvalidKey")
        [] kind # "origin" /\ raw # <<>> -> Err("InvalidKey")
        [] kind = "origin" /\ raw # <<>> ->
             IF point # {} /\ KeySourceDe(pair.value).ok
               THEN keep(SerializePoint(CHOOSE p \in point : TRUE), pair.value) ELSE Ok(map, <<>>)
        [] kind = "any" /\ raw = <<>> -> keep(<<>>, pair.value)
        [] kind = "first" /\ raw = <<>> ->
             IF pair.value = <<>> THEN Ok(map, <<>>) ELSE keep(<<>>, <<pair.value[1]>>)
        [] OTHER -> IF Len(pair.value) = LenOf(kind) THEN keep(<<>>, pair.value) ELSE Ok(map, <<>>)

MwebPairs(map) ==
  LET types == Seqs!SetToSortSeq(DOMAIN map.mweb, LAMBDA a, b : a < b)
  IN  [i \in DOMAIN types |-> PsbtPair(types[i], map.mweb[types[i]].key, map.mweb[types[i]].value)]
-----------------------------------------------------------------------------
InsertPair(fields, lens, map, pair) ==
  LET type == pair.key.type_value
  IN  CASE type \in Types(fields) -> PutField(FieldOf(fields, type), map, pair)
        [] type = ProprietaryType -> PutProprietary(map, pair)
        [] type \in MwebMin .. MwebMin + Len(lens) - 1 -> ApplyMweb(lens, map, pair)
        [] OTHER -> PutUnknown(map, pair)

GetPairs(fields, map) ==
  Flatten([i \in DOMAIN fields |-> FieldPairs(fields[i], map)]) \o MwebPairs(map) \o OtherPairs(map)

SerInput(map) == SerializeMap(GetPairs(InputFields, map))
SerOutput(map) == SerializeMap(GetPairs(OutputFields, map))
DecodeInput(b) ==
  DecodePairs(LAMBDA m, p : InsertPair(InputFields, MwebInputLens, m, p), NewMap(InputFields), b)
DecodeOutput(b) ==
  DecodePairs(LAMBDA m, p : InsertPair(OutputFields, MwebOutputLens, m, p), NewMap(OutputFields), b)
-----------------------------------------------------------------------------
GlobalTx == 0
GlobalXpub == 1
GlobalVersion == 251

NewGlobal == [tx |-> {}, xpub |-> Empty, version |-> {}, proprietary |-> Empty, unknown |-> Empty]

DecodeUnsigned(b) ==
  Then(DecodeVersion(b), LAMBDA version, r0 :
  Then(DecodeVec(DecodeTxIn, r0), LAMBDA input, r1 :
  Then(DecodeVec(DecodeTxOut, r1), LAMBDA output, r2 :
  Then(ReadUint(W32, r2), LAMBDA lock_time, rest :
    IF rest # <<>> THEN Err("PartialDataConsumption")
    ELSE Ok([version |-> version, lock_time |-> lock_time, input |-> input, output |-> output,
             mw_tx |-> {}, is_hog_ex |-> FALSE], <<>>)))))

PutGlobal(g, pair) ==
  LET type == pair.key.type_value
      raw == pair.key.key
      v == pair.value
  IN  CASE type = GlobalTx ->
             IF raw # <<>> THEN Err("InvalidKey")
             ELSE IF g.tx # {} THEN Err("DuplicateKey")
             ELSE Then(DecodeUnsigned(v), LAMBDA tx, r : Ok([g EXCEPT !.tx = {tx}], <<>>))
        [] type = GlobalXpub ->
             IF raw = <<>> THEN Err("XPubKey")
             ELSE Then(DecodeXpub(raw), LAMBDA x, r :
               IF v = <<>> \/ Len(v) % W32 # 0 THEN Err("XPubKey")
               ELSE Then(KeySourceDe(v), LAMBDA ks, r1 :
                 IF EncodeXpub(x) \in DOMAIN g.xpub THEN Err("XPubKey")
                 ELSE Ok([g EXCEPT !.xpub = With(@, EncodeXpub(x), ks)], <<>>)))
        [] type = GlobalVersion ->
             IF raw # <<>> THEN Err("InvalidKey")
             ELSE IF g.version # {} THEN Err("DuplicateKey")
             ELSE IF Len(v) # W32 \/ FromLE(v) # 0 THEN Err("Version")
             ELSE Ok([g EXCEPT !.version = {0}], <<>>)
        [] type = ProprietaryType -> PutProprietary(g, pair)
        [] OTHER -> PutUnknown(g, pair)

GlobalPairs(psbt) ==
  LET xpubs == Walk(psbt.xpub)
  IN  <<PsbtPair(GlobalTx, <<>>, TxidPreimage(psbt.unsigned_tx))>>
      \o [i \in DOMAIN xpubs |-> PsbtPair(GlobalXpub, xpubs[i], KeySourceSer(psbt.xpub[xpubs[i]]))]
      \o (IF psbt.version > 0 THEN <<PsbtPair(GlobalVersion, <<>>, EmitUint(psbt.version, W32))>> ELSE <<>>)
      \o OtherPairs(psbt)

Magic == <<112>>
Separator == 255

UnsignedTxChecks(tx) ==
  \A i \in DOMAIN tx.input : tx.input[i].script_sig = <<>> /\ IsEmpty(tx.input[i].witness)

SerPsbt(psbt) ==
  Magic \o <<Separator>> \o SerializeMap(GlobalPairs(psbt))
  \o Flatten([i \in DOMAIN psbt.inputs |-> SerInput(psbt.inputs[i])])
  \o Flatten([i \in DOMAIN psbt.outputs |-> SerOutput(psbt.outputs[i])])

DecodeGlobal(b) ==
  Then(Limited(LAMBDA r : DecodePairs(PutGlobal, NewGlobal, r), b), LAMBDA g, rest :
    IF g.tx = {} THEN Err("MustHaveUnsignedTx")
    ELSE Ok([unsigned_tx |-> Get(g.tx), version |-> 0, xpub |-> g.xpub,
             proprietary |-> g.proprietary, unknown |-> g.unknown], rest))

DePsbt(b) ==
  Then(ReadSlice(Len(Magic), b), LAMBDA magic, r0 :
  Then(ReadUint(1, r0), LAMBDA sep, r1 :
    IF magic # Magic THEN Err("InvalidMagic")
    ELSE IF sep # Separator THEN Err("InvalidSeparator")
    ELSE
    Then(DecodeGlobal(r1), LAMBDA g, r2 :
      IF ~UnsignedTxChecks(g.unsigned_tx) THEN Err("UnsignedTxChecks")
      ELSE
      Then(DecodeItems(DecodeInput, Len(g.unsigned_tx.input), r2), LAMBDA inputs, r3 :
      Then(DecodeItems(DecodeOutput, Len(g.unsigned_tx.output), r3), LAMBDA outputs, rest :
        Ok([unsigned_tx |-> g.unsigned_tx, version |-> g.version, xpub |-> g.xpub,
            proprietary |-> g.proprietary, unknown |-> g.unknown,
            inputs |-> inputs, outputs |-> outputs], rest))))))
=============================================================================
