------------------------------ MODULE Networks ------------------------------
(***************************************************************************)
(* The networks (litecoin/src/network.rs), what stands for one on the      *)
(* wire, in a configuration and in a document (p2p/mod.rs), the parameters *)
(* of its chain (consensus/params.rs) and its genesis block                *)
(* (blockdata/constants.rs), hashed block by block as in Compression.      *)
(***************************************************************************)
EXTENDS Compression

VARIABLES
  walk,    \* a network, in the form that the last conversion gave it
  chain    \* a genesis block that is being hashed: the network and the message in hand

AllNetworks == {"Bitcoin", "Testnet4", "Signet", "Regtest"}
NetworkKind(n) == IF n = "Bitcoin" THEN "Main" ELSE "Test"

DisplayStr == [Bitcoin |-> "litecoin", Testnet4 |-> "testnet", Signet |-> "signet", Regtest |-> "regtest"]
FromStrArms ==
  [litecoin |-> "Bitcoin", bitcoin |-> "Bitcoin", testnet |-> "Testnet4", testnet4 |-> "Testnet4", signet |-> "Signet", regtest |-> "Regtest"]
CoreArg == [Bitcoin |-> "main", Testnet4 |-> "test", Signet |-> "signet", Regtest |-> "regtest"]
FromCoreArgArms ==
  [main |-> "Bitcoin", test |-> "Testnet4", testnet4 |-> "Testnet4", signet |-> "Signet", regtest |-> "Regtest"]

Magic ==
  [Bitcoin |-> <<\hFB, \hC0, \hB6, \hDB>>, Testnet4 |-> <<\hFD, \hD2, \hC8, \hF1>>,
   Signet |-> <<\h0A, \h03, \hCF, \h40>>, Regtest |-> <<\hFA, \hBF, \hB5, \hDA>>]

ChainHash ==
  [Bitcoin |->
     <<\he2, \hbf, \h04, \h7e, \h7e, \h5a, \h19, \h1a, \ha4, \hef, \h34, \hd3, \h14, \h97, \h9d, \hc9,
       \h98, \h6e, \h0f, \h19, \h25, \h1e, \hda, \hba, \h59, \h40, \hfd, \h1f, \he3, \h65, \ha7, \h12>>,
   Testnet4 |->
     <<\ha0, \h29, \h3e, \h4e, \heb, \h3d, \ha6, \he6, \hf5, \h6f, \h81, \hed, \h59, \h5f, \h57, \h88,
       \h0d, \h1a, \h21, \h56, \h9e, \h13, \hee, \hfd, \hd9, \h51, \h28, \h4b, \h5a, \h62, \h66, \h49>>,
   Signet |->
     <<246, 30, 238, 59, 99, 163, 128, 164, 119, 160, 99, 175, 50, 178, 187, 201,
       124, 159, 249, 240, 31, 44, 66, 37, 233, 115, 152, 129, 8, 0, 0, 0>>,
   Regtest |->
     <<\hf9, \h16, \hc4, \h56, \hfc, \h51, \hdf, \h62, \h78, \h85, \hd7, \hd6, \h74, \hed, \h02, \hdc,
       \h88, \ha2, \h25, \had, \hb3, \hf0, \h2a, \hd1, \h3e, \hb4, \h93, \h8f, \hf3, \h27, \h08, \h53>>]

\* A target as 32 bytes, the high one first: a mantissa of three bytes over `low` bytes.
TargetOf(m, low) ==
  SubSeq([i \in 1..32 |-> IF 32 - i \in low..low + 2 THEN (m \div 256 ^ (32 - i - low)) % 256 ELSE 0], 1, 32)
FromCompactBits(bits) == TargetOf(bits % 16777216, (bits \div 16777216) - 3)
AtMost(s, t) == s = t \/ \E i \in DOMAIN s : s[i] < t[i] /\ \A j \in 1..i - 1 : s[j] = t[j]

Limit == [Bitcoin |-> TargetOf(\h0ffff0, 27), Testnet4 |-> TargetOf(\h0fffff, 27), Signet |-> TargetOf(\h0377ae, 27), Regtest |-> TargetOf(\h7fffff, 29)]
ParamsOf(n, bip34, bip65, bip66, threshold, window, spacing, timespan, min_difficulty, no_retarget) ==
  [network |-> n, bip34_height |-> bip34, bip65_height |-> bip65, bip66_height |-> bip66,
   rule_change_activation_threshold |-> threshold, miner_confirmation_window |-> window,
   pow_limit |-> Limit[n], max_attainable_target |-> Limit[n], pow_target_spacing |-> spacing, pow_target_timespan |-> timespan,
   allow_min_difficulty_blocks |-> min_difficulty, no_pow_retargeting |-> no_retarget]
Params ==
  [Bitcoin  |-> ParamsOf("Bitcoin", 710000, 918684, 811879, 6048, 8064, 150, 150 * 2016, FALSE, FALSE),
   Testnet4 |-> ParamsOf("Testnet4", 76, 76, 76, 1512, 2016, 150, 150 * 2016, TRUE, FALSE),
   Signet   |-> ParamsOf("Signet", 1, 1, 1, 1916, 2016, 600, 1209600, FALSE, FALSE),
   Regtest  |-> ParamsOf("Regtest", 100000000, 1351, 1251, 108, 144, 150, 150 * 2016, TRUE, TRUE)]
DifficultyAdjustmentInterval(p) == p.pow_target_timespan \div p.pow_target_spacing
-----------------------------------------------------------------------------
\* The conversions, one step each.  An error ends the walk.
Form == walk.held[1]
Val == walk.held[2]
Holding(form, val) == walk' = [walk EXCEPT !.was = Form, !.held = <<form, val>>]
Refused == Holding("error", "unknown")
Arms(table, key) == IF key \in DOMAIN table THEN Holding("network", table[key]) ELSE Refused
From(form) == Form = form
\* The network that a table gives these bytes to, if there is one.
FromTable(table, bytes) ==
  IF \E n \in AllNetworks : table[n] = bytes THEN Holding("network", CHOOSE n \in AllNetworks : table[n] = bytes) ELSE Refused

Display == From("network") /\ Holding("text", DisplayStr[Val])
NetworkFromStr == From("text") /\ Arms(FromStrArms, Val)
ToCoreArg == From("network") /\ Holding("text", CoreArg[Val])
FromCoreArg == From("text") /\ Arms(FromCoreArgArms, Val)
ToMagic == From("network") /\ Holding("magic", Magic[Val])
\* Mutant: signet's magic is tested for before it is known.
FromMagicNoSignet == From("magic") /\ IF Val = Magic["Signet"] THEN Refused ELSE FromTable(Magic, Val)
FromMagic == From("magic") /\ FromTable(Magic, Val)
ToChainHash == From("network") /\ Holding("chain_hash", ChainHash[Val])
FromChainHash == From("chain_hash") /\ FromTable(ChainHash, Val)
ToParams == From("network") /\ Holding("params", Params[Val])
AsRefParams == From("params") /\ Holding("network", Val.network)

NetworkNext ==
  \/ Display \/ NetworkFromStr \/ ToCoreArg \/ FromCoreArg \/ ToMagic \/ FromMagic
  \/ ToChainHash \/ FromChainHash \/ ToParams \/ AsRefParams
-----------------------------------------------------------------------------
Le32(n) == <<n % 256, (n \div 256) % 256, (n \div 65536) % 256, n \div 16777216>>
NoBytes(n) == SubSeq([i \in 1..n |-> 0], 1, n)
PushBytes(data) == <<Len(data)>> \o data        \* fewer than 76 of them

NyTimes ==   \* "NY Times 05/Oct/2011 Steve Jobs, Apple's Visionary, Dies at 56", in UTF-8
  <<78, 89, 32, 84, 105, 109, 101, 115, 32, 48, 53, 47, 79, 99, 116, 47, 50, 48, 49, 49, 32, 83, 116, 101, 118, 101, 32, 74, 111, 98, 115, 44, 32,
    65, 112, 112, 108, 101, \he2, \h80, \h99, 115, 32, 86, 105, 115, 105, 111, 110, 97, 114, 121, 44, 32, 68, 105, 101, 115, 32, 97, 116, 32, 53, 54>>
GenesisOutputPk ==
  <<\h04, \h01, \h84, \h71, \h0f, \ha6, \h89, \had, \h50, \h23, \h69, \h0c, \h80, \hf3, \ha4, \h9c, \h8f,
    \h13, \hf8, \hd4, \h5b, \h8c, \h85, \h7f, \hbc, \hbc, \h8b, \hc4, \ha8, \he4, \hd3, \heb, \h4b,
    \h10, \hf4, \hd4, \h60, \h4f, \ha0, \h8d, \hce, \h60, \h1a, \haf, \h0f, \h47, \h02, \h16, \hfe,
    \h1b, \h51, \h85, \h0b, \h4a, \hcf, \h21, \hb1, \h79, \hc4, \h50, \h70, \hac, \h7b, \h03, \ha9>>

\* push_int, push_int_non_minimal, push_slice
GenesisInScript == PushBytes(Le32(486604799)) \o PushBytes(<<4>>) \o PushBytes(NyTimes)
GenesisOutScript == PushBytes(GenesisOutputPk) \o <<172>>

\* bitcoin_genesis_tx as compute_txid writes it: version, input, output, lock time.
GenesisTx ==
  Le32(1) \o <<1>> \o NoBytes(32) \o <<255, 255, 255, 255>> \o PushBytes(GenesisInScript) \o <<255, 255, 255, 255>>
  \o <<1>> \o <<0, \hf2, 5, \h2a, 1, 0, 0, 0>> \o PushBytes(GenesisOutScript) \o Le32(0)

GenesisHeader ==
  [Bitcoin  |-> [time |-> 1317972665, bits |-> \h1e0ffff0, nonce |-> 2084524493],
   Testnet4 |-> [time |-> 1486949366, bits |-> \h1e0ffff0, nonce |-> 293345],
   Signet   |-> [time |-> 1598918400, bits |-> \h1e0377ae, nonce |-> 52613770],
   Regtest  |-> [time |-> 1296688602, bits |-> \h207fffff, nonce |-> 0]]
GenesisBlock(n, root) ==
  Le32(1) \o NoBytes(32) \o root \o Le32(GenesisHeader[n].time) \o Le32(GenesisHeader[n].bits) \o Le32(GenesisHeader[n].nonce)

\* The transaction is hashed twice, and so is the header with its hash as the root.
GenesisOf(n) == [network |-> n, message |-> 1]
HashGenesis == Hashing("sha256", Ended(GenesisTx, 64, 8, FALSE), <<>>)
BlockHashed == chain.message = 4 /\ blk.work = {} /\ blk.at = Len(blk.data)
NextMessage ==
  /\ blk.work = {} /\ blk.at = Len(blk.data) /\ chain.message < 4
  /\ chain' = [chain EXCEPT !.message = @ + 1]
  /\ LET hash == AsBytes("sha256", blk.h)
         next == IF chain.message = 2 THEN GenesisBlock(chain.network, hash) ELSE hash
     IN  blk' = Hashing("sha256", Ended(next, 64, 8, FALSE), <<>>)
-----------------------------------------------------------------------------
(***************************************************************************)
(* The client of examples/handshake.rs and a node at the other end of its  *)
(* connection.  The stream keeps the order of messages; the node sends     *)
(* what it likes once it has the client's version, and closes when it      *)
(* likes.                                                                  *)
(***************************************************************************)

CONSTANT MaxReplies   \* bound: messages that the node sends

VARIABLE net

\* build_version_message: no services on either side, the client's own address unset.
Version(address, timestamp, nonce) ==
  [kind |-> "version", services |-> {}, timestamp |-> timestamp, receiver |-> [address |-> address, services |-> {}],
   sender |-> [address |-> "unspecified", services |-> {}], nonce |-> nonce, start_height |-> 0]
Message(kind) == [kind |-> kind]

\* client: what the client is doing; inbox and outbox: the two directions of the stream;
\* seen: what the client has read; node: whether the node has closed its side.
Connecting == [client |-> "connecting", inbox |-> <<>>, outbox |-> <<>>, seen |-> <<>>, sent |-> 0, node |-> "open"]

\* TcpStream::connect and the first write, whose result is not looked at.
Connect ==
  /\ net.client = "connecting"
  /\ net' \in {[net EXCEPT !.client = "refused"],
               [net EXCEPT !.client = "waiting", !.outbox = <<Version("node", 1, 7)>>]}

\* Mutant: a message of another kind is passed over.
AfterReplyPatient(kind) == IF kind = "verack" THEN "closed" ELSE "waiting"
\* The arms of the match: only a version keeps the loop going.
AfterReply(kind) == IF kind = "version" THEN "waiting" ELSE "closed"

\* A turn of the loop: the decoder waits for a whole message; at the end of the stream
\* the unwrap of its error panics.
Receive ==
  /\ net.client = "waiting"
  /\ \/ /\ net.inbox # <<>>
        /\ LET kind == Head(net.inbox).kind
           IN  net' = [net EXCEPT !.inbox = Tail(@), !.seen = Append(@, kind), !.client = AfterReply(kind),
                                  !.outbox = IF kind = "version" THEN Append(@, Message("verack")) ELSE @]
     \/ /\ net.inbox = <<>> /\ net.node = "closed"
        /\ net' = [net EXCEPT !.client = "panicked"]

\* The node (external).
NodeSends ==
  /\ net.node = "open" /\ net.outbox # <<>> /\ net.sent < MaxReplies
  /\ \E kind \in {"version", "verack", "other"} :
       net' = [net EXCEPT !.inbox = Append(@, Message(kind)), !.sent = @ + 1]
NodeCloses == net.node = "open" /\ net.outbox # <<>> /\ net' = [net EXCEPT !.node = "closed"]

NetNext == Connect \/ Receive \/ NodeSends \/ NodeCloses
NetSpec == net = Connecting /\ [][NetNext]_net

\* The client has answered every version that it has read with a verack and nothing
\* else, before it reads on; it leaves at the first message of another kind, and only a
\* node that hangs up first makes it panic (handshake.rs:40).
HandshakeAnswers ==
  LET read == Len(net.seen)
      Versions(n) == \A i \in 1..n : net.seen[i] = "version"
  IN  /\ \A i \in DOMAIN net.outbox : net.outbox[i].kind = IF i = 1 THEN "version" ELSE "verack"
      /\ net.client \in {"waiting", "panicked"} => Versions(read) /\ Len(net.outbox) = read + 1
      /\ net.client = "panicked" => net.node = "closed"
      /\ net.client = "closed" =>
           read > 0 /\ Versions(read - 1) /\ net.seen[read] # "version" /\ Len(net.outbox) = read
=============================================================================
