--------------------------- MODULE NetworkMessage ---------------------------
(***************************************************************************)
(* The messages of the peer to peer protocol (p2p/*.rs, the encodings of   *)
(* bip152.rs and of merkle_tree/block.rs) and the frame around them.       *)
(*                                                                         *)
(* A payload is the sequence of its fields; Schema gives the fields of     *)
(* every command in their order, as the impl_consensus_encoding! lines do. *)
(* The name of a command is its number in Commands, in CommandSize bytes.  *)
(***************************************************************************)
EXTENDS Block

CommandSize == 2
MagicSize == 1
MaxAddrSize == 512

\* Integers of the network are big endian.
Reversed(s) == [i \in 1..Len(s) |-> s[Len(s) + 1 - i]]
EmitBE(n, w) == Reversed(ToLE(n, w))
ReadBE(w, b) == Then(ReadSlice(w, b), LAMBDA s, r : Ok(FromLE(Reversed(s)), r))
-----------------------------------------------------------------------------
\* ServiceFlags, as the set of the bits that are set.  remove() is an exclusive or.
FlagsAdd(self, other) == self \cup other
FlagsRemove(self, other) == (self \ other) \cup (other \ self)
FlagsHas(self, flags) == self \cup flags = self
-----------------------------------------------------------------------------
\* Addresses.
Onion == <<64903 % 256 ^ W16, 55422 % 256 ^ W16, 60227 % 256 ^ W16>>

EncodeWords(words) == Flatten([i \in DOMAIN words |-> EmitBE(words[i], W16)])
ReadBeAddress(b) == DecodeItems(LAMBDA r : ReadBE(W16, r), 8, b)

\* to_ipv4 of the standard library: mapped and compatible addresses.
IsIpv4(words) == (\A i \in 1..5 : words[i] = 0) /\ words[6] \in {0, MaxUint(W16)}

AddressNew(socket) ==
  [address |-> IF socket.kind = "v4" THEN <<0, 0, 0, 0, 0, MaxUint(W16)>> \o socket.ip ELSE socket.ip,
   port |-> socket.port]

\* The socket in a set, empty when it is not available.
SocketAddr(a) ==
  IF SubSeq(a.address, 1, 3) = Onion THEN {}
  ELSE IF IsIpv4(a.address) THEN {[kind |-> "v4", ip |-> SubSeq(a.address, 7, 8), port |-> a.port]}
  ELSE {[kind |-> "v6", ip |-> a.address, port |-> a.port]}

EncodeAddress(a) == EmitUint(a.services, W64) \o EncodeWords(a.address) \o EmitBE(a.port, W16)
DecodeAddress(b) ==
  Then(ReadUint(W64, b), LAMBDA services, r1 :
  Then(ReadBeAddress(r1), LAMBDA address, r2 :
  Then(ReadBE(W16, r2), LAMBDA port, rest :
    Ok([services |-> services, address |-> address, port |-> port], rest))))

\* An AddrV2 is its network id and its bytes.
KnownNetworks == 1..6
AddrLength(network) ==
  CASE network = 1 -> 4
    [] network \in {2, 6} -> 8 * W16
    [] network = 3 -> 10
    [] network \in {4, 5} -> HashSize

Words(bytes) == [i \in 1..8 |-> FromLE(Reversed(SubSeq(bytes, (i - 1) * W16 + 1, i * W16)))]

ValidAddr(network, bytes) ==
  CASE network = 2 -> /\ SubSeq(Words(bytes), 1, 3) # Onion
                      /\ SubSeq(Words(bytes), 1, 6) # <<0, 0, 0, 0, 0, MaxUint(W16)>>
    [] network = 6 -> Words(bytes)[1] \div 256 ^ (W16 - 1) = 252
    [] OTHER -> TRUE

EncodeAddrV2(a) == <<a.network>> \o EncodeBytes(a.bytes)
DecodeAddrV2(b) ==
  Then(ReadUint(1, b), LAMBDA network, r1 :
  Then(DecodeVarInt(r1), LAMBDA len, r2 :
    IF len > MaxAddrSize THEN Err("ParseFailed")
    ELSE IF network \in KnownNetworks /\ len # AddrLength(network) THEN Err("ParseFailed")
    ELSE Then(ReadSlice(len, r2), LAMBDA bytes, rest :
           IF ValidAddr(network, bytes) THEN Ok([network |-> network, bytes |-> bytes], rest)
           ELSE Err("ParseFailed"))))

EncodeAddrV2Message(m) ==
  EmitUint(m.time, W32) \o EncodeVarInt(m.services) \o EncodeAddrV2(m.addr) \o EmitBE(m.port, W16)
DecodeAddrV2Message(b) ==
  Then(ReadUint(W32, b), LAMBDA time, r1 :
  Then(DecodeVarInt(r1), LAMBDA services, r2 :
  Then(DecodeAddrV2(r2), LAMBDA addr, r3 :
  Then(ReadBE(W16, r3), LAMBDA port, rest :
    Ok([time |-> time, services |-> services, addr |-> addr, port |-> port], rest)))))
-----------------------------------------------------------------------------
\* An inventory is its type and its hash; an Error has no hash, and is written with
\* one of zeros.
WitnessFlag == 256 ^ W32 \div 4
InvError == [inv_type |-> 0, hash |-> {}]
InvTypes == {1, 2, 4, 5, WitnessFlag + 1, WitnessFlag + 2}

NetworkHash(i) == i.hash

EncodeInv(i) == EmitUint(i.inv_type, W32) \o (IF i.hash = {} THEN ZeroHash ELSE Get(i.hash))
DecodeInv(b) ==
  Then(ReadUint(W32, b), LAMBDA t, r :
    IF t = 0 THEN Ok(InvError, r)
    ELSE Then(ReadSlice(HashSize, r), LAMBDA h, rest : Ok([inv_type |-> t, hash |-> {h}], rest)))

ReadOneOf(codes, b) ==
  Then(ReadUint(1, b), LAMBDA c, r : IF c \in codes THEN Ok(c, r) ELSE Err("ParseFailed"))

RejectReasons == {1, 16, 17, 18, 64, 65, 66, 67}
DecodeRejectReason(b) == ReadOneOf(RejectReasons, b)
BloomFlags == {0, 1, 2}
DecodeBloomFlags(b) == ReadOneOf(BloomFlags, b)

\* A header in a headers message is followed by the number of its transactions, none.
EncodeHeaderEntry(h) == EncodeHeader(h) \o <<0>>
DecodeHeaderEntry(b) ==
  Then(DecodeHeader(b), LAMBDA h, r :
    Then(ReadUint(1, r), LAMBDA n, rest : IF n # 0 THEN Err("ParseFailed") ELSE Ok(h, rest)))
-----------------------------------------------------------------------------
\* Compact blocks.
ShortIdSize == 1
TxMemSize == 2      \* mem::size_of::<Transaction>()

EncodePrefilled(p) == EncodeVarInt(p.idx) \o EncodeTx(p.tx)
DecodePrefilled(b) ==
  Then(DecodeVarInt(b), LAMBDA idx, r :
    IF idx > MaxUint(W16) THEN Err("ParseFailed")
    ELSE Then(DecodeTx(r), LAMBDA tx, rest : Ok([idx |-> idx, tx |-> tx], rest)))

\* The indexes of a request, each as its distance from the one before.
EncodeIndexes(indexes) ==
  LET diff(i) == IF i = 1 THEN indexes[1] ELSE indexes[i] - (indexes[i - 1] + 1)
  IN  EncodeVarInt(Len(indexes)) \o Flatten([i \in DOMAIN indexes |-> EncodeVarInt(diff(i))])

\* The next index in a set, empty when it or the one after it overflows.
AddIndex(last, diff) == IF last + diff >= MaxUint(W64) THEN {} ELSE {last + diff}

DecodeIndexes(b) ==
  Then(DecodeVarInt(b), LAMBDA n, r :
    LET upTo == IF n > Len(r) + 1 THEN Len(r) + 1 ELSE n
        got[i \in 0..upTo] ==
          IF i = 0 THEN Ok(<<>>, r)
          ELSE Then(got[i - 1], LAMBDA done, r2 :
                 Then(DecodeVarInt(r2), LAMBDA diff, rest :
                   LET last == IF done = <<>> THEN 0 ELSE done[Len(done)] + 1
                   IN  IF AddIndex(last, diff) = {} THEN Err("ParseFailed")
                       ELSE Ok(Append(done, Get(AddIndex(last, diff))), rest)))
    IN  IF n * TxMemSize > MaxVecSize THEN Err("OversizedVectorAllocation") ELSE got[upTo])

\* The bits of a partial merkle tree, eight a byte, the first one lowest.
EncodeBits(bits) ==
  LET n == (Len(bits) + 7) \div 8
      bit(k) == IF k <= Len(bits) /\ bits[k] THEN 1 ELSE 0
      byte(j) == LET v[i \in 0..8] == IF i = 0 THEN 0 ELSE v[i - 1] + bit(8 * (j - 1) + i) * 2 ^ (i - 1)
                 IN  v[8]
  IN  EncodeVarInt(n) \o [j \in 1..n |-> byte(j)]

DecodeBits(b) ==
  Then(DecodeVarInt(b), LAMBDA n, r :
    IF n > MaxVecSize THEN Err("OversizedVectorAllocation")
    ELSE Then(ReadSlice(n, r), LAMBDA s, rest :
           Ok([k \in 1..8 * n |-> HasBit(s[(k - 1) \div 8 + 1], 2 ^ ((k - 1) % 8))], rest)))
-----------------------------------------------------------------------------
(***************************************************************************)
(* The payloads of the network messages and the frame that carries them    *)
(* (p2p/message.rs): magic, command, length, checksum, payload.            *)
(***************************************************************************)

CONSTANT MaxMsgSize   \* MAX_MSG_SIZE

\* The items a field or a vector is made of.
EncodeItem(ty, v) ==
  CASE ty = "u8" -> EmitUint(v, 1)
    [] ty = "u32" -> EmitUint(v, W32)
    [] ty = "u64" -> EmitUint(v, W64)
    [] ty = "i32" -> EmitInt(v, W32)
    [] ty = "i64" -> EmitInt(v, W64)
    [] ty = "bool" -> EmitBool(v)
    [] ty = "hash" -> v
    [] ty = "bytes" -> EncodeBytes(v)
    [] ty = "string" -> EncodeString(v)
    [] ty \in {"reject", "bloom", "shortid"} -> <<v>>
    [] ty = "addr" -> EncodeAddress(v)
    [] ty = "timed_addr" -> EmitUint(v.time, W32) \o EncodeAddress(v.addr)
    [] ty = "addrv2" -> EncodeAddrV2Message(v)
    [] ty = "inv" -> EncodeInv(v)
    [] ty = "header" -> EncodeHeader(v)
    [] ty = "entry" -> EncodeHeaderEntry(v)
    [] ty = "tx" -> EncodeTx(v)
    [] ty = "block" -> EncodeBlock(v)
    [] ty = "prefilled" -> EncodePrefilled(v)
    [] ty = "indexes" -> EncodeIndexes(v)
    [] ty = "bits" -> EncodeBits(v)

DecodeTimedAddr(b) ==
  Then(ReadUint(W32, b), LAMBDA time, r :
    Then(DecodeAddress(r), LAMBDA addr, rest : Ok([time |-> time, addr |-> addr], rest)))

DecodeItem(ty, b) ==
  CASE ty \in {"u8", "shortid"} -> ReadUint(1, b)
    [] ty = "u32" -> ReadUint(W32, b)
    [] ty = "u64" -> ReadUint(W64, b)
    [] ty = "i32" -> ReadInt(W32, b)
    [] ty = "i64" -> ReadInt(W64, b)
    [] ty = "bool" -> ReadBool(b)
    [] ty = "hash" -> ReadSlice(HashSize, b)
    [] ty = "bytes" -> DecodeBytes(b)
    [] ty = "string" -> DecodeString(b)
    [] ty = "reject" -> DecodeRejectReason(b)
    [] ty = "bloom" -> DecodeBloomFlags(b)
    [] ty = "addr" -> DecodeAddress(b)
    [] ty = "timed_addr" -> DecodeTimedAddr(b)
    [] ty = "addrv2" -> DecodeAddrV2Message(b)
    [] ty = "inv" -> DecodeInv(b)
    [] ty = "header" -> DecodeHeader(b)
    [] ty = "entry" -> DecodeHeaderEntry(b)
    [] ty = "tx" -> DecodeTx(b)
    [] ty = "block" -> DecodeBlock(b)
    [] ty = "prefilled" -> DecodePrefilled(b)
    [] ty = "indexes" -> DecodeIndexes(b)
    [] ty = "bits" -> DecodeBits(b)

\* The vectors, by the type of their items.
VecOf ==
  [hashes |-> "hash", inventory |-> "inv", addrs |-> "timed_addr", addrsv2 |-> "addrv2",
   headers |-> "entry", shortids |-> "shortid", prefilleds |-> "prefilled", txs |-> "tx"]

EncodeField(ty, v) ==
  IF ty \in DOMAIN VecOf THEN EncodeVec(LAMBDA x : EncodeItem(VecOf[ty], x), v) ELSE EncodeItem(ty, v)
DecodeField(ty, b) ==
  IF ty \in DOMAIN VecOf THEN DecodeVec(LAMBDA r : DecodeItem(VecOf[ty], r), b) ELSE DecodeItem(ty, b)

\* impl_consensus_encoding!: the fields, one after the other.
EncodeFields(schema, vals) == Flatten([i \in DOMAIN schema |-> EncodeField(schema[i], vals[i])])
DecodeFields(schema, b) ==
  LET got[i \in 0..Len(schema)] ==
        IF i = 0 THEN Ok(<<>>, b)
        ELSE Then(got[i - 1], LAMBDA vals, r :
               Then(DecodeField(schema[i], r), LAMBDA v, rest : Ok(Append(vals, v), rest)))
  IN  got[Len(schema)]
-----------------------------------------------------------------------------
VersionFields == <<"u32", "u64", "i64", "addr", "addr", "u64", "string", "i32", "bool">>
RejectFields == <<"string", "reject", "string", "hash">>
LocatorFields == <<"u32", "hashes", "hash">>
MerkleBlockFields == <<"header", "u32", "hashes", "bits">>
FilterLoadFields == <<"bytes", "u32", "u32", "bloom">>
FilterAddFields == <<"bytes">>
GetCFiltersFields == <<"u8", "u32", "hash">>
CFilterFields == <<"u8", "hash", "bytes">>
CFHeadersFields == <<"u8", "hash", "hash", "hashes">>
GetCFCheckptFields == <<"u8", "hash">>
CFCheckptFields == <<"u8", "hash", "hashes">>
SendCmpctFields == <<"bool", "u64">>
CmpctBlockFields == <<"header", "u64", "shortids", "prefilleds">>
GetBlockTxnFields == <<"hash", "indexes">>
BlockTxnFields == <<"hash", "txs">>

Schema ==
  [version |-> VersionFields, verack |-> <<>>, addr |-> <<"addrs">>, inv |-> <<"inventory">>,
   getdata |-> <<"inventory">>, notfound |-> <<"inventory">>, getblocks |-> LocatorFields,
   getheaders |-> LocatorFields, mempool |-> <<>>, tx |-> <<"tx">>, block |-> <<"block">>,
   headers |-> <<"headers">>, sendheaders |-> <<>>, getaddr |-> <<>>, ping |-> <<"u64">>,
   pong |-> <<"u64">>, merkleblock |-> MerkleBlockFields, filterload |-> FilterLoadFields,
   filteradd |-> FilterAddFields, filterclear |-> <<>>, getcfilters |-> GetCFiltersFields,
   cfilter |-> CFilterFields, getcfheaders |-> GetCFiltersFields, cfheaders |-> CFHeadersFields,
   getcfcheckpt |-> GetCFCheckptFields, cfcheckpt |-> CFCheckptFields,
   sendcmpct |-> SendCmpctFields, cmpctblock |-> CmpctBlockFields,
   getblocktxn |-> GetBlockTxnFields, blocktxn |-> BlockTxnFields, alert |-> <<"bytes">>,
   reject |-> RejectFields, feefilter |-> <<"i64">>, wtxidrelay |-> <<>>,
   addrv2 |-> <<"addrsv2">>, sendaddrv2 |-> <<>>]

Commands ==
  <<"version", "verack", "addr", "inv", "getdata", "notfound", "getblocks", "getheaders", "mempool",
    "tx", "block", "headers", "sendheaders", "getaddr", "ping", "pong", "merkleblock", "filterload",
    "filteradd", "filterclear", "getcfilters", "cfilter", "getcfheaders", "cfheaders",
    "getcfcheckpt", "cfcheckpt", "sendcmpct", "cmpctblock", "getblocktxn", "blocktxn", "alert",
    "reject", "feefilter", "wtxidrelay", "addrv2", "sendaddrv2">>

\* A message is its command, the name of an unknown one, and its payload.
Known(cmd, fields) == [cmd |-> cmd, name |-> <<>>, dat |-> fields]
UnknownMsg(name, payload) == [cmd |-> "unknown", name |-> name, dat |-> payload]

Command(msg) ==
  IF msg.cmd = "unknown" THEN msg.name ELSE <<CHOOSE k \in DOMAIN Commands : Commands[k] = msg.cmd>>

\* A name is padded with zeros; the zeros of one that arrives are dropped, wherever
\* they are.
EncodeCommand(name) == [i \in 1..CommandSize |-> IF i <= Len(name) THEN name[i] ELSE 0]
DecodeCommand(b) ==
  Then(ReadSlice(CommandSize, b), LAMBDA raw, r : Ok(SelectSeq(raw, LAMBDA c : c > 0), r))

\* The payload of an unknown message is written as a vector, with its length.
EncodePayload(msg) ==
  IF msg.cmd = "unknown" THEN EncodeBytes(msg.dat) ELSE EncodeFields(Schema[msg.cmd], msg.dat)

RawMessage(magic, msg) ==
  [magic |-> magic, msg |-> msg, payload_len |-> Len(EncodePayload(msg)),
   checksum |-> Checksum(EncodePayload(msg))]

EncodeRaw(raw) ==
  raw.magic \o EncodeCommand(Command(raw.msg)) \o EmitUint(raw.payload_len, W32) \o raw.checksum
  \o EncodePayload(raw.msg)

\* What is left of the payload behind the last field is not looked at.
DecodePayload(name, payload) ==
  IF Len(name) = 1 /\ name[1] \in DOMAIN Commands
    THEN Then(DecodeFields(Schema[Commands[name[1]]], payload), LAMBDA fields, rest :
           Ok(Known(Commands[name[1]], fields), rest))
    ELSE Ok(UnknownMsg(name, payload), <<>>)

DecodeRawFinite(b) ==
  Then(ReadSlice(MagicSize, b), LAMBDA magic, r1 :
  Then(DecodeCommand(r1), LAMBDA name, r2 :
  Then(DecodeCheckedData(r2), LAMBDA data, rest :
  Then(DecodePayload(name, data), LAMBDA msg, unread :
    Ok([magic |-> magic, msg |-> msg, payload_len |-> Len(data), checksum |-> Checksum(data)], rest)))))

\* From a reader that may not end, no more than MAX_MSG_SIZE bytes are taken.
DecodeRaw(b) ==
  LET n == IF Len(b) < MaxMsgSize THEN Len(b) ELSE MaxMsgSize
      r == DecodeRawFinite(SubSeq(b, 1, n))
  IN  IF r.ok THEN Ok(r.val, r.rest \o Drop(b, n)) ELSE r
=============================================================================
