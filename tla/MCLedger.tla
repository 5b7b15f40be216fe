------------------------------ MODULE MCLedger ------------------------------
(***************************************************************************)
(* What a wallet builds: scripts, witnesses and derived keys.  A behaviour *)
(* makes one of them with the operations of its type, or spends a coin     *)
(* from cold storage; the properties relate the end to the beginning.      *)
(***************************************************************************)
EXTENDS Bip32, Address, ColdStorage, FiniteSets, BlockChecks, MCMwebWorkflow

CONSTANTS
  MaxSteps,   \* operations of a behaviour
  Ints,       \* numbers that are written and read
  Pushed,     \* those pushed to a script
  Lengths,    \* lengths of the slices pushed to it
  Sizes,      \* lengths of the elements of a witness
  Indices     \* indices of derived keys

VARIABLES
  focus,     \* what the behaviour does; of this module: WalletFocus
  builder,   \* the script builder
  made,      \* the instructions it was asked for
  witness,   \* the witness
  elems,     \* the elements it was given
  xprv,      \* the extended private key
  path,      \* how it was derived from the master
  steps      \* operations so far

walletVars == <<builder, made, witness, elems, xprv, path, steps, cold>>
-----------------------------------------------------------------------------
\* Hash functions that keep small inputs apart.
Mix(b) ==
  LET h[i \in 0..Len(b), j \in 0..Len(b)] ==   \* of the bytes after i up to j
        IF j = i THEN 7
        ELSE IF j = i + 1 THEN b[j] + 11
        ELSE LET m == (i + j) \div 2 IN ((h[i, m] * 67) + (h[m, j] * 129) + j - i) % 7368787
  IN  h[0, Len(b)]
MCHashOf(b) == ToLE(Mix(b), HashSize)
MCHash160(b) == ToLE(Mix(Append(b, 1)), Hash20)
MCTapTweakHash(x, root) == 1 + ((x + Total(IF root = {} THEN <<>> ELSE CHOOSE r \in root : TRUE, LAMBDA c : c)) % (Order - 2))
MCHmac(code, data) == [left |-> Mix(code \o data) % (Order + 1), right |-> ToLE(Mix(data \o code), HashSize)]

MCInts == {-8388608, -8388607, -128, -127, -1, 0, 1, 2, 16, 17, 127, 128, 255, 256, 32767, 32768, 8388607, 8388608}
MCPushed == {-1, 0, 2, 17}
Pk == [compressed |-> TRUE, inner |-> 3]
FullPk == [compressed |-> FALSE, inner |-> 12]
Bytes(n) == [i \in 1..n |-> IF i = 1 THEN 5 ELSE 75]   \* of length 1, a small number
Hash1 == MCHash160(<<9>>)
Ops == {OP_RETURN, OP_CHECKSIG, OP_CHECKMULTISIG, OP_EQUAL, 97}

\* Scripts to start from: the templates, and pushes that are longer than needed.
Scripts ==
  {NewP2pkh(Hash1), NewP2sh(Hash1), NewP2wpkh(Hash1), NewP2wsh(MCHashOf(<<9>>)), NewP2trTweaked(4), NewP2a,
   NewP2pk(FullPk), NewWitnessProgram(Program(9, <<1, 2>>)), NewWitnessProgram(Program(16, <<1, 2, 3, 4, 5>>)),
   <<OP_PUSHDATA1, 1, 200>>, <<OP_PUSHDATA2, 2, 0, 1, 1>>, <<OP_PUSHDATA1>>, <<2, 1>>, <<>>}

Got(s) == Instructions(s).list

Master0 == NewMaster("Main", [left |-> 5, right |-> MCHashOf(<<1>>)]).val

\* What a user may write at the head of the example; "input" is the key of the path.
Configurations ==
  {[hrp |-> h, kind |-> t, key |-> k, value |-> v] :
     h \in {"bcrt", "ltc", "rltc"}, t \in {"p2wpkh", "p2tr", "p2pkh"}, k \in {"input", "another"}, v \in {0, 50}}

WalletFocus == {"script", "witness", "key", "cold"}
WalletInit ==
  /\ cold \in IF focus = "cold" THEN {Configured(c) : c \in Configurations} ELSE {[verdict |-> "idle"]}
  /\ \/ focus = "script" /\ \E s \in Scripts : builder = FromVec(s) /\ made = Got(s)
     \/ focus # "script" /\ builder = NewBuilder /\ made = <<>>
  /\ steps = IF made = <<>> THEN 0 ELSE 1   \* a script to start from counts as a step
  /\ witness = NewWitness /\ elems = <<>>
  /\ xprv = Master0 /\ path = <<>>

Step == steps < MaxSteps /\ steps' = steps + 1

\* A broken push at the end swallows what comes after it, so nothing is added to it.
Whole == Instructions(builder.script).err = ""

Make(b, i) == builder' = b /\ made' = Append(made, i)

PushInt ==
  \E n \in Pushed : Make(BuildInt(builder, n),
                           IF n \in -1..16 /\ n # 0 THEN Op(OP_PUSHNUM_1 + n - 1) ELSE Push(WriteScriptInt(n)))
PushIntNonMinimal == \E n \in Pushed : Make(BuildIntNonMinimal(builder, n), Push(WriteScriptInt(n)))
PushData == \E n \in Lengths : Make(BuildSlice(builder, Bytes(n)), Push(Bytes(n)))
PushKey ==
  \/ \E k \in {Pk, FullPk} : Make(BuildKey(builder, k), Push(KeyToBytes(k)))
  \/ Make(BuildXOnly(builder, 4), Push(<<4>>))
PushOpcode == \E op \in Ops : Make(BuildOpcode(builder, op), Op(op))
PushVerify ==
  LET b == BuildVerify(builder)
      folded == Len(b.script) = Len(builder.script)
  IN  builder' = b /\ made' = Append(IF folded THEN SubSeq(made, 1, Len(made) - 1) ELSE made, Op(b.script[Len(b.script)]))
Rebuild == builder' = FromVec(builder.script) /\ UNCHANGED made

ScriptStep ==
  /\ focus = "script" /\ Whole /\ Step
  /\ PushInt \/ PushIntNonMinimal \/ PushData \/ PushKey \/ PushOpcode \/ PushVerify \/ Rebuild
  /\ UNCHANGED <<witness, elems, xprv, path, cold>>

\* The first byte of an element may be the one of an annex.
Elements == {[i \in 1..n |-> c] : n \in Sizes, c \in {7, AnnexPrefix}}

PushElement == \E e \in Elements : witness' = PushSlice(witness, e) /\ elems' = Append(elems, e)
ClearWitness == elems # <<>> /\ witness' = Clear(witness) /\ elems' = <<>>
SendWitness == witness' = DecodeWitness(EncodeWitness(witness)).val /\ UNCHANGED elems
FromElements == witness' = FromSlice(elems) /\ UNCHANGED elems

WitnessStep ==
  /\ focus = "witness" /\ Step
  /\ PushElement \/ ClearWitness \/ SendWitness \/ FromElements
  /\ UNCHANGED <<builder, made, xprv, path, cold>>

Children == {Child(h, i) : h \in BOOLEAN, i \in Indices}

Derive ==
  /\ focus = "key" /\ Step
  /\ \E c \in Children :
       /\ CkdPriv(xprv, c).ok
       /\ xprv' = CkdPriv(xprv, c).val
       /\ path' = Append(path, c)
  /\ UNCHANGED <<builder, made, witness, elems, cold>>

Spend == focus = "cold" /\ ColdNext /\ UNCHANGED <<builder, made, witness, elems, xprv, path, steps>>

WalletNext == ScriptStep \/ WitnessStep \/ Derive \/ Spend
-----------------------------------------------------------------------------
(* A builder that remembers its last opcode turns it into the VERIFY form exactly
   when reading the whole script again would: Builder::push_verify against
   ScriptBuf::scan_and_push_verify, after any operations and after a rebuild. *)
VerifyAgrees == focus = "script" => BuildVerify(builder).script = ScanAndPushVerify(builder.script)

SmallPush(i) == i.push /\ SmallNumber(i.data)

(* A script reads as the instructions it was made of, each starting where the ones
   before it end, and writing them again gives the script when its pushes were as
   short as they can be; instructions_minimal refuses exactly the scripts with a push
   that has a shorter form: push_slice, Instructions and FromIterator. *)
InstructionsHold ==
  focus = "script" =>
    LET p == Parse(builder.script, FALSE)
        shortest == FromInstructions(p.list) = builder.script
    IN  /\ p.list = made
        /\ shortest => \A k \in DOMAIN p.starts : p.starts[k] = Len(FromInstructions(SubSeq(p.list, 1, k - 1)))
        /\ p.err = "" => (Parse(builder.script, TRUE).err = "" <=> shortest /\ \A k \in DOMAIN made : ~SmallPush(made[k]))
        /\ shortest => Len(builder.script) = Total(p.list, ScriptSerializedLen)

(* A number that was pushed is read back, as a script number of four bytes at most,
   and its encoding is the only one read_scriptint accepts: push_int, script_num. *)
NumbersRead ==
  focus = "script" /\ steps = 0 =>
    \A n \in Ints :
      LET v == WriteScriptInt(n)
          last == Got(BuildInt(NewBuilder, n).script)[1]
      IN  /\ ReadScriptInt(v).ok <=> Len(v) <= W32
          /\ ReadScriptInt(v).ok => ReadScriptInt(v).val = n
          /\ n # 0 /\ Len(v) <= W32 => ScriptNum(last) = {n}
          /\ ReadScriptBool(v) <=> n # 0
          /\ ~ReadScriptInt(Append(v, 0)).ok \/ ReadScriptInt(Append(v, 0)).val # n

\* The number in front of a multisig, looking back over other signature checks.
SigCheck(i) == ~i.push /\ i.op \in {OP_CHECKSIG, OP_CHECKSIG + 1, OP_CHECKMULTISIG, OP_CHECKMULTISIG + 1}
Before(k) ==
  LET at == {j \in 1..k - 1 : ~SigCheck(made[j])}
      j == CHOOSE x \in at : \A y \in at : y <= x
  IN  IF at = {} \/ made[j].push THEN {} ELSE DecodePushnum(made[j].op)

(* The accurate count takes the number of keys of each multisig from the script, and
   without one 20, as the legacy count always does: count_sigops. *)
SigopsCounted ==
  focus = "script" =>
    LET checks == SelectSeq([k \in DOMAIN made |-> k], LAMBDA k : SigCheck(made[k]))
        cost(k, accurate) ==
          IF made[k].op \in {OP_CHECKSIG, OP_CHECKSIG + 1} THEN 1
          ELSE IF accurate /\ Before(k) # {} THEN CHOOSE n \in Before(k) : TRUE ELSE 20
    IN  \A accurate \in BOOLEAN :
          CountSigops(builder.script, accurate) = Total(checks, LAMBDA k : cost(k, accurate))

(* An output script is of one kind at most; where it has an address, the address pays
   to that very script, is valid for the network it was made for, and its text reads
   back as the same address: Address::from_script, script_pubkey, Display, FromStr. *)
AddressFaithful ==
  focus = "script" =>
    LET s == builder.script
    IN  /\ Cardinality({k \in 1..8 : <<IsP2pkh(s), IsP2sh(s), IsP2wpkh(s), IsP2wsh(s), IsP2tr(s), IsP2pk(s),
                                        IsOpReturn(s), IsMultisig(s)>>[k]}) <= 1
        /\ \A net \in Networks :
             LET a == FromScript(s, net)
             IN  a.ok => /\ ScriptPubkey(a.val) = s
                         /\ MatchesScriptPubkey(a.val, s)
                         /\ RequireNetwork(a.val, net).ok
                         /\ FromText(ToText(a.val)).ok /\ FromText(ToText(a.val)).val = a.val

\* The parts of a taproot spend, from the list of elements.
HasAnnex == Len(elems) >= 2 /\ elems[Len(elems)] # <<>> /\ elems[Len(elems)][1] = AnnexPrefix
Stack == IF HasAnnex THEN SubSeq(elems, 1, Len(elems) - 1) ELSE elems
Maybe(c, k) == IF c THEN {Stack[k]} ELSE {}

(* The flat buffer of a witness holds the elements it was given, in order and at any
   distance from the end, through pushes that move its indices, through the wire and
   through clear; and the annex, control block and script of a taproot spend are the
   right ones of them: Witness. *)
WitnessHolds ==
  focus = "witness" =>
    /\ \A k \in 0..Len(elems) : Nth(witness, k) = IF k < Len(elems) THEN {elems[k + 1]} ELSE {}
    /\ ToVec(witness) = elems
    /\ LastElement(witness) = IF elems = <<>> THEN {} ELSE {elems[Len(elems)]}
    /\ TaprootAnnex(witness) = IF HasAnnex THEN {elems[Len(elems)]} ELSE {}
    /\ TaprootControlBlock(witness) = Maybe(Len(Stack) >= 2, Len(Stack))
    /\ Tapscript(witness) = Maybe(Len(Stack) >= 2, Len(Stack) - 1)
    /\ WitnessSize(witness) = Len(EncodeWitness(witness))

(* A public child is the public side of the private child, and one cannot be derived
   exactly when the other cannot; a hardened child has no public derivation: ckd_priv
   against ckd_pub. *)
PublicFollows ==
  focus = "key" =>
    \A c \in Children :
      LET k == CkdPriv(xprv, c)
          x == CkdPub(FromPriv(xprv), c)
      IN  IF c.hardened THEN x = Err("CannotDeriveFromHardenedKey")
          ELSE /\ x.ok <=> k.ok
               /\ k.ok => x.val = FromPriv(k.val)

Around == Child(FALSE, HardenedBit - 2)

(* A key is where its path says: the path leads there in one call, its length is the
   depth, and its text and its numbers read back as the path: derive_priv,
   DerivationPath, ChildNumber. *)
PathLeads ==
  focus = "key" =>
    /\ DerivePriv(Master0, path) = Ok(xprv, <<>>)
    /\ xprv.depth = Len(path)
    /\ PathFromText(PathToText(path)) = Ok(path, <<>>)
    /\ \A k \in DOMAIN path : ChildFromU32(ToU32Vec(path)[k]) = path[k]
    /\ LET next == ChildrenFrom(path, Around)
       IN  Len(next) = 2 /\ Increment(next[1][Len(path) + 1]).val = next[2][Len(path) + 1]
           /\ ~Increment(next[2][Len(path) + 1]).ok

Roots == {{}, {MCHashOf(<<1>>)}}

(* The addresses of a key are related to it, and the tweaked pair of a taproot key
   signs for the output key that was derived from the public part alone:
   is_related_to_pubkey, is_signed_by_address, TapTweak. *)
KeyOwnsAddresses ==
  focus = "key" =>
    LET p == PublicOf(xprv.private_key)
        pk == FromCompressed(p)
        own == <<P2pkh(PubkeyHash(pk), "Main"), P2wpkh(p, "Mainnet"), P2shwpkh(p, "Main"),
                 P2trTweaked(XOnly(p), "Mainnet")>>
    IN  /\ \A k \in DOMAIN own : IsRelatedToPubkey(own[k], pk)
        /\ IsSignedByAddress(P2pkh(PubkeyHash(pk), "Main"), pk) = Ok(TRUE, <<>>)
        /\ \A root \in Roots :
             {PublicParts(k) : k \in TapTweakKeypair(xprv.private_key, root)} = TapTweakKey(XOnly(p), root)

(* The transaction of a coin in cold storage is printed exactly where the configuration
   names a key hash of the signer's key and an address of regtest, it is then valid, and
   every mistake is met at the step that it belongs to: a foreign address when the PSBT
   is created, an output without a signature of the signer when it is finalized, a
   foreign key when the transaction is verified (ecdsa-psbt.rs:67). *)
ColdCoinSpends ==
  (focus = "cold" /\ cold.verdict # "running") =>
    LET c == cold.config
        expected == CASE c.hrp = "bcrt" -> "unknown hrp"
                      [] c.hrp = "ltc" -> "network validation"
                      [] c.hrp = "rltc" /\ c.kind = "p2tr" -> "index out of bounds"
                      [] c.hrp = "rltc" /\ c.kind # "p2tr" -> IF c.kind = "p2wpkh" /\ c.key = "input" THEN "printed" ELSE "failed to verify"
    IN  /\ cold.verdict = expected
        /\ expected = "printed" => LibVerifies(PreviousOutput(c), cold.witness) /\ cold.input.partial_sigs = S!EmptyMap
-----------------------------------------------------------------------------
(***************************************************************************)
(* Blocks and what is derived from them.  A behaviour builds a block and   *)
(* commits to its witnesses, or builds a merkle proof or a filter; then    *)
(* what was built is changed on its way.  Other behaviours are a wallet's  *)
(* (above), or the exchange of MWEB maps (MCMwebWorkflow).                 *)
(***************************************************************************)

CONSTANTS
  MaxBlock,    \* transactions of a block
  MaxProof,    \* transactions below a merkle proof
  MaxTouched,  \* changes on the way
  SmallProof,  \* a proof with no more transactions than this is changed MaxForged times
  MaxForged,
  Heights      \* block heights

VARIABLES
  txdata,      \* the block's transactions
  committed,   \* the transactions the coinbase commits to, once it does
  leaves,      \* the hashes below a proof, and which of them match
  tree,        \* the partial merkle tree
  content,     \* the bytes of a filter, and the elements it was built from
  elements,
  touched      \* changes so far

chainVars == <<txdata, committed, leaves, tree, content, elements, touched>>
planVars == <<mwebVars, plan>>
vars == <<focus, chainVars, walletVars, planVars>>
-----------------------------------------------------------------------------
MCSipHash(key, e) == (Mix(e) + key) % HashRange
MCSiphashKeys(header, nonce) == nonce
MCShortIdOf(id, keys) == Mix(Append(id, keys)) % 65536
MCMagic == <<106, 36, 170>>

Key1 == SerializePoint(3)
Witscript == BuildOpcode(BuildInt(BuildKey(BuildInt(NewBuilder, 1), [compressed |-> TRUE, inner |-> 3]), 1),
                         OP_CHECKMULTISIG).script
Out(n, s) == [value |-> n, script_pubkey |-> s]
In(n, sig, stack) ==
  [previous_output |-> [txid |-> MCHashOf(<<n>>), vout |-> n], script_sig |-> sig, sequence |-> 1,
   witness |-> FromSlice(stack)]
Tx(ins, outs) ==
  [version |-> 2, lock_time |-> 0, input |-> ins, output |-> outs, mw_tx |-> {}, is_hog_ex |-> FALSE]

\* The coins the transactions spend: P2WSH, the same inside P2SH, P2PKH and OP_RETURN.
Coins ==
  <<ToP2wsh(Witscript), ToP2sh(ToP2wsh(Witscript)), NewP2pkh(MCHash160(Key1)), ToP2sh(NewP2wpkh(MCHash160(Key1))),
    NewP2wpkh(MCHash160(Key1))>>
Spent == [o \in {[txid |-> MCHashOf(<<n>>), vout |-> n] : n \in DOMAIN Coins} |-> Coins[o.vout]]
Push1(s) == ScriptPush(<<>>, s)

\* The second and the third differ in their witness only; the fourth spends the
\* wrapped form of what the third spends.
Txs ==
  <<Tx(<<In(3, Push1(<<1, 1>>), <<>>)>>, <<Out(1, NewOpReturn(<<7>>)), Out(2, Coins[3])>>),
    Tx(<<In(1, <<>>, <<<<1>>, Witscript>>)>>, <<Out(3, Coins[5])>>),
    Tx(<<In(1, <<>>, <<<<2>>, Witscript>>)>>, <<Out(3, Coins[5])>>),
    Tx(<<In(2, Push1(ToP2wsh(Witscript)), <<<<2>>, Witscript>>)>>, <<Out(3, Coins[5])>>)>>

ReservedValue == [i \in 1..HashSize |-> 0]
CoinbaseIn(height) ==
  [previous_output |-> NullOutPoint, script_sig |-> BuildInt(NewBuilder, height).script \o <<1, 9>>,
   sequence |-> 0, witness |-> FromSlice(<<ReservedValue>>)]
Coinbase(height, outs) == Tx(<<CoinbaseIn(height)>>, outs)
Header(root) == [version |-> 2, merkle_root |-> root]
Block(txs) == [header |-> Header(<<>>), txdata |-> txs]

CommitmentOutput(txs) ==
  Out(0, CommitmentMagic
         \o ComputeWitnessCommitment(CHOOSE r \in WitnessRoot(Block(txs)) : TRUE, ReservedValue))
-----------------------------------------------------------------------------
Universe == <<<<>>, <<1>>, <<2, 2>>, <<3>>, <<1, 4>>>>
SomeKey == 11

NoTree == Partial(0, <<>>, <<>>)
Leaves(n) == [i \in 1..n |-> <<i>>]

Init ==
  /\ focus \in WalletFocus \union {"block", "proof", "filter", "mweb"}
  /\ WalletInit
  /\ MwebInit
  /\ plan \in IF focus = "mweb" THEN Plans ELSE {{}}
  /\ \/ focus = "block" /\ \E h \in Heights : txdata = <<Coinbase(h, <<Out(5, Coins[3])>>)>>
     \/ focus # "block" /\ txdata = <<>>
  /\ leaves = <<>> /\ committed = {} /\ tree = NoTree /\ touched = 0
  /\ elements = {}
  /\ content = IF focus = "filter" THEN Finish(SomeKey, {}) ELSE <<>>

\* The miner adds a transaction, and at the end the commitment.
AddTx ==
  /\ focus = "block" /\ committed = {} /\ Len(txdata) < MaxBlock
  /\ \E k \in DOMAIN Txs : txdata' = Append(txdata, Txs[k])
  /\ UNCHANGED <<committed, leaves, tree, content, elements, touched>>

Commit ==
  /\ focus = "block" /\ committed = {}
  /\ txdata' = [txdata EXCEPT ![1].output = Append(@, CommitmentOutput(txdata))]
  /\ committed' = {Tail(txdata)}
  /\ UNCHANGED <<leaves, tree, content, elements, touched>>

\* A transaction is exchanged for another, or loses its witness.
Exchange ==
  /\ committed # {} /\ touched < MaxTouched
  /\ \E i \in 2..Len(txdata) :
       \E t \in {NoWitness(txdata[i])} \union {Txs[k] : k \in DOMAIN Txs} : txdata' = [txdata EXCEPT ![i] = t]
  /\ touched' = touched + 1
  /\ UNCHANGED <<committed, leaves, tree, content, elements>>

MakeProof ==
  /\ focus = "proof" /\ tree = NoTree
  /\ \E n \in 1..MaxProof : \E matches \in [1..n -> BOOLEAN] :
       /\ leaves' = [i \in 1..n |-> [hash |-> <<i>>, match |-> matches[i]]]
       /\ tree' = FromTxids(Leaves(n), matches)
  /\ UNCHANGED <<txdata, committed, content, elements, touched>>

\* Any node of the tree may stand in place of a hash.
Nodes(n) == {CalcHash(Leaves(n), h, p) : h \in 0..1, p \in 0..0} \union {<<i>> : i \in 1..n}

Tamper ==
  /\ tree # NoTree /\ touched < (IF Len(leaves) <= SmallProof THEN MaxForged ELSE MaxTouched)
  /\ \/ \E n \in {tree.num_transactions - 1, tree.num_transactions + 1} :
          tree' = [tree EXCEPT !.num_transactions = n]
     \/ \E i \in DOMAIN tree.bits : tree' = [tree EXCEPT !.bits[i] = ~@]
     \/ \E b \in BOOLEAN : tree' = [tree EXCEPT !.bits = Append(@, b)]
     \/ \E i \in DOMAIN tree.hashes, h \in Nodes(Len(leaves)) : tree' = [tree EXCEPT !.hashes[i] = h]
     \/ \E h \in Nodes(Len(leaves)) : tree' = [tree EXCEPT !.hashes = Append(@, h)]
  /\ touched' = touched + 1
  /\ UNCHANGED <<txdata, committed, leaves, content, elements>>

AddToFilter ==
  /\ focus = "filter" /\ touched = 0
  /\ \E k \in DOMAIN Universe :
       /\ Universe[k] \notin elements
       /\ elements' = AddElement(elements, Universe[k])
       /\ content' = Finish(SomeKey, AddElement(elements, Universe[k]))
  /\ UNCHANGED <<txdata, committed, leaves, tree, touched>>

Damage ==
  /\ focus = "filter" /\ touched < MaxTouched
  /\ \/ \E i \in DOMAIN content, x \in {0, 1, 3, 128, 254} : content' = [content EXCEPT ![i] = x]
     \/ \E n \in 1..Len(content) - 1 : content' = SubSeq(content, 1, n)
  /\ touched' = touched + 1
  /\ UNCHANGED <<txdata, committed, leaves, tree, elements>>

ChainNext == AddTx \/ Commit \/ Exchange \/ MakeProof \/ Tamper \/ AddToFilter \/ Damage

Next ==
  /\ UNCHANGED focus
  /\ \/ ChainNext /\ UNCHANGED <<walletVars, planVars>>
     \/ WalletNext /\ UNCHANGED <<chainVars, planVars>>
     \/ focus = "mweb" /\ PlanNext /\ UNCHANGED <<chainVars, walletVars>>
Spec == Init /\ [][Next]_vars
-----------------------------------------------------------------------------
(* The root built while the hashes arrive, the root built in place and the root of
   the tree a proof is taken from are the same: calculate_root,
   calculate_root_inline and PartialMerkleTree::calc_hash. *)
RootsAgree ==
  tree # NoTree =>
    LET hashes == [i \in DOMAIN leaves |-> leaves[i].hash]
    IN  /\ CalculateRoot(hashes) = CalculateRootInline(hashes)
        /\ CalculateRoot(hashes) = {CalcHash(hashes, CalcTreeHeight(Len(hashes)), 0)}

Root == CHOOSE r \in CalculateRoot(Leaves(Len(leaves))) : TRUE
Extracted == BlockExtractMatches(tree, Root)

(* A proof as from_txids builds it shows the transactions that matched, at their
   places and no other: extract_matches. *)
ProofComplete ==
  tree # NoTree /\ touched = 0 =>
    LET at == SelectSeq([i \in DOMAIN leaves |-> i], LAMBDA i : leaves[i].match)
    IN  /\ Extracted.err = ""
        /\ Extracted.indexes = [k \in DOMAIN at |-> at[k] - 1]
        /\ Extracted.matches = [k \in DOMAIN at |-> leaves[at[k]].hash]

(* Whatever was changed in a proof, as long as it claims a tree of the right height,
   what it shows under the root of the header is a transaction of the block at that
   place: the checks of traverse_and_extract and extract_matches. *)
ProofSound ==
  tree # NoTree /\ Extracted.err = "" /\ CalcTreeHeight(tree.num_transactions) = CalcTreeHeight(Len(leaves)) =>
    \A k \in DOMAIN Extracted.matches :
      /\ Extracted.indexes[k] < Len(leaves)
      /\ Extracted.matches[k] = leaves[Extracted.indexes[k] + 1].hash

\* Roots, proofs and their readers agree: what a partial tree was built for is
\* extracted, and what is extracted is in the block (merkle_tree/mod.rs, block.rs).
MerkleProofsHold == RootsAgree /\ ProofComplete /\ ProofSound

(* With a commitment in the coinbase and the root in the header a block is accepted
   exactly when its transactions are the ones of the root and its witnesses the ones
   committed to, or none is there: check_merkle_root, check_witness_commitment. *)
CommitmentBinds ==
  \A then \in committed :
    LET all == <<txdata[1]>> \o then
        root == CHOOSE r \in ComputeMerkleRoot(Block(all)) : TRUE
        same(Id(_)) == [k \in DOMAIN all |-> Id(all[k])] = [k \in DOMAIN all |-> Id(txdata[k])]
    IN  /\ CheckMerkleRoot([header |-> Header(root), txdata |-> txdata]) <=> same(TxidPreimage)
        /\ CheckWitnessCommitment(Block(txdata))
           <=> (\A k \in DOMAIN txdata : ~HasWitnesses(txdata[k])) \/ same(WtxidPreimage)

(* The height that a miner pushes into the coinbase is read back, but for the heights
   that push_int writes as an opcode: bip34_block_height. *)
HeightRead ==
  focus = "block" =>
    \E h \in Heights :
      /\ txdata[1].input[1].script_sig = CoinbaseIn(h).script_sig
      /\ Bip34BlockHeight(Block(txdata)) = IF h \in 1..16 THEN Err("NotPresent") ELSE Ok(h, <<>>)

\* Where the k-th prefilled transaction belongs, and the place of each short id.
PrefilledAt(msg, k) == Total(SubSeq(msg.prefilled_txs, 1, k), LAMBDA p : p.idx + 1) - 1
Places(msg) == {PrefilledAt(msg, k) : k \in DOMAIN msg.prefilled_txs}

(* The receiver of a compact block can put every prefilled transaction and every
   short id at its place and ask for the rest, and a list of transactions to prefill is
   refused exactly when it does not name places of the block in order: from_block of
   HeaderAndShortIds and BlockTransactions::from_request. *)
CompactRebuilds ==
  focus = "block" /\ touched = 0 =>
    \A version \in 1..2, prefill \in UNION {[1..n -> 0..Len(txdata)] : n \in 0..2} :
      LET r == FromBlock(Block(txdata), 1, version, prefill)
          n == Len(txdata)
          form(t) == IF version = 1 THEN NoWitness(t) ELSE t
          id(t) == ShortIdOf(IF version = 1 THEN TxidPreimage(t) ELSE WtxidPreimage(t), 1)
      IN  Len(prefill) <= n =>
          /\ r.ok <=> /\ \A i \in DOMAIN prefill : prefill[i] < n
                      /\ \A i \in 1..Len(prefill) - 1 : prefill[i] < prefill[i + 1]
          /\ r.ok =>
               LET others == SelectSeq([i \in 1..n |-> i - 1], LAMBDA i : i \notin Places(r.val))
               IN  /\ Places(r.val) = {0} \union {prefill[i] : i \in DOMAIN prefill}
                   /\ \A k \in DOMAIN r.val.prefilled_txs :
                        r.val.prefilled_txs[k].tx = form(txdata[PrefilledAt(r.val, k) + 1])
                   /\ r.val.short_ids = [k \in DOMAIN others |-> id(txdata[others[k] + 1])]
                   /\ FromRequest(others, Block(txdata)).val = [k \in DOMAIN others |-> txdata[others[k] + 1]]

(* A witness script costs the same signature operations whether its program is in
   the output or inside P2SH: total_sigop_cost. *)
WrappingIsFree ==
  focus = "block" =>
    \A k \in DOMAIN txdata :
      txdata[k] = Txs[4] => TotalSigopCost(txdata[k], Spent) = TotalSigopCost(Txs[3], Spent)

Queries == UNION {[1..n -> DOMAIN Universe] : n \in 0..2}
Asked(q) == [i \in DOMAIN q |-> Universe[q[i]]]

\* Every script a wallet may look for in a block.
Watched ==
  {o.script_pubkey : o \in {x \in UNION {Range(txdata[k].output) : k \in DOMAIN txdata} : ~IsOpReturn(x.script_pubkey)}}
  \union {Spent[i.previous_output] : i \in UNION {Range(txdata[k].input) : k \in 2..Len(txdata)}}

(* An element of a filter is always found, alone and with others of the filter, and
   the filter of a block has the scripts it pays to and those it spends: a wallet that
   asks never misses a transaction. *)
FilterFinds ==
  /\ focus = "block" =>
       LET filter == NewScriptFilter(SomeKey, Block(txdata), Spent)
       IN  filter.ok /\ \A s \in Watched : MatchAny(SomeKey, filter.val, <<s>>) = Ok(TRUE, <<>>)
  /\ focus = "filter" /\ touched = 0 =>
    \A q \in Queries :
      /\ (\E i \in DOMAIN q : Universe[q[i]] \in elements) => MatchAny(SomeKey, content, Asked(q)) = Ok(TRUE, <<>>)
      /\ (\A i \in DOMAIN q : Universe[q[i]] \in elements) => MatchAll(SomeKey, content, Asked(q)) = Ok(TRUE, <<>>)

\* The values of a filter, all of them decoded; nothing when one does not decode.
Values(b) ==
  LET n == Count(b)
      got[k \in 0..n.val] ==
        IF k = 0 THEN Ok(<<>>, NewReader(n.rest))
        ELSE LET p == got[k - 1]
             IN  Then(p, LAMBDA vs, r :
                   Then(GolombRiceDecode(r), LAMBDA d, rest :
                     Ok(Append(vs, d + (IF vs = <<>> THEN 0 ELSE vs[Len(vs)])), rest)))
  IN  IF n.val > 8 * Len(b) THEN Err("short") ELSE got[n.val]

(* Reading as far as a sorted query needs gives what reading the whole filter would:
   match_any says whether a value of the query is in the set, match_all whether all
   are, for any bytes that decode. *)
MembershipIn(values) ==
  values.ok =>
    LET set == {values.val[i] : i \in DOMAIN values.val}
        nm == TimesM(Count(content).val)
        In1(e) == MapToRange(SipHash(SomeKey, e), nm) \in set
    IN  \A q \in Queries :
          /\ MatchAny(SomeKey, content, Asked(q)) = Ok(\E i \in DOMAIN q : In1(Universe[q[i]]), <<>>)
          /\ MatchAll(SomeKey, content, Asked(q)) = Ok(\A i \in DOMAIN q : In1(Universe[q[i]]), <<>>)

\* The matchers answer the question whether the mapped hash of an element is among the
\* values of the filter (bip158.rs, match_any and match_all).
MatchesAreMembership == focus = "filter" => MembershipIn(Values(content))

\* A filter matches what is in it, and nothing but what hashes to one of its
\* values (GcsFilterReader::match_any, match_all, BlockFilterWriter).
FiltersMatch == FilterFinds /\ MatchesAreMembership
-----------------------------------------------------------------------------
\* What is built into a script is what each reader of it sees: the instructions,
\* push_verify, the readers of numbers, both sigop counters, wrapped or not, and
\* the reader of a block's height.
ScriptsReadBack ==
  VerifyAgrees /\ InstructionsHold /\ NumbersRead /\ SigopsCounted /\ HeightRead /\ WrappingIsFree

\* The keys of a wallet agree with the public ones derived beside them, own their
\* addresses, and sign a coin in cold storage where the script takes the
\* signature (bip32.rs, address/mod.rs, examples/ecdsa-psbt.rs).
WalletHolds == PublicFollows /\ PathLeads /\ KeyOwnsAddresses /\ ColdCoinSpends
=============================================================================
