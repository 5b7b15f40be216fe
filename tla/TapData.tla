------------------------------- MODULE TapData -------------------------------
(***************************************************************************)
(* What taproot puts on the wire and in spend infos (taproot/mod.rs,       *)
(* taproot/merkle_branch.rs): leaf versions, merkle branches, control      *)
(* blocks, the spend info of a finished tree and the serialization of a    *)
(* tree as a depth-first list of leaves.                                   *)
(*                                                                         *)
(* A hash is HashSize bytes.  The tree itself is TaprootTree's: a script   *)
(* with its leaf version is the pair that stands for a leaf.               *)
(***************************************************************************)
EXTENDS Keys

CONSTANTS
  HashOf(_),        \* a hash function, from bytes to HashSize bytes
  MaxNodeCount      \* TAPROOT_CONTROL_MAX_NODE_COUNT

LeafTapscript == 192
LeafAnnexPrefix == 80
LeafMask(b) == b - (b % 2)
ControlBlockBase == 1 + XSize

\* TapLeafHash::from_script, and the order of two node hashes.
LeafHashOf(script, ver) == HashOf(<<ver>> \o EncodeBytes(script))
HashBefore(a, b) ==
  \E i \in DOMAIN a : a[i] < b[i] /\ \A j \in 1 .. i - 1 : a[j] = b[j]

FromNodeHashes(a, b) == IF HashBefore(a, b) THEN HashOf(a \o b) ELSE HashOf(b \o a)

Leaf == Seq(Byte) \X Byte
Tree == INSTANCE TaprootTree
          WITH Hash <- [1 .. HashSize -> Byte], Join <- FromNodeHashes, Before <- HashBefore,
               Script <- Leaf, LeafHash <- [l \in Leaf |-> LeafHashOf(l[1], l[2])],
               MaxDepth <- MaxNodeCount
-----------------------------------------------------------------------------
\* A leaf version is its byte: TapScript, or a future one that is neither odd nor
\* the prefix of an annex.
VersionFromConsensus(b) ==
  IF b = LeafTapscript \/ (b # LeafAnnexPrefix /\ LeafMask(b) = b)
    THEN Ok(b, <<>>) ELSE Err("InvalidTaprootLeafVersion")

VersionToConsensus(v) == v

\* The serde form is the same byte, in an integer of any size.
VersionVisit(n) == IF n > 255 THEN Err("InvalidValue") ELSE VersionFromConsensus(n)

\* TaprootMerkleBranch::decode and encode.
BranchDecode(sl) ==
  IF Len(sl) % HashSize # 0 THEN Err("InvalidMerkleBranchSize")
  ELSE IF Len(sl) > HashSize * MaxNodeCount THEN Err("InvalidMerkleTreeDepth")
  ELSE Ok([i \in 1 .. Len(sl) \div HashSize |-> SubSeq(sl, (i - 1) * HashSize + 1, i * HashSize)], <<>>)

BranchEncode(branch) == Flatten(branch)

FromCollection(hashes) ==
  IF Len(hashes) > MaxNodeCount THEN Err("InvalidMerkleTreeDepth") ELSE Ok(hashes, <<>>)
-----------------------------------------------------------------------------
ControlBlock(v, parity, key, branch) ==
  [leaf_version |-> v, output_key_parity |-> parity, internal_key |-> key, merkle_branch |-> branch]

ControlVersion(b) == VersionFromConsensus(LeafMask(b))

ControlDecode(sl) ==
  IF Len(sl) < ControlBlockBase \/ (Len(sl) - ControlBlockBase) % HashSize # 0
    THEN Err("InvalidControlBlockSize")
  ELSE
  Then(ControlVersion(sl[1]), LAMBDA v, r0 :
  Then(Given(XFromSlice(SubSeq(sl, 2, ControlBlockBase)), "InvalidInternalKey"), LAMBDA key, r1 :
  Then(BranchDecode(Drop(sl, ControlBlockBase)), LAMBDA branch, r2 :
    Ok(ControlBlock(v, sl[1] % 2, key, branch), <<>>))))

ControlSize(c) == ControlBlockBase + HashSize * Len(c.merkle_branch)
ControlEncode(c) ==
  <<c.output_key_parity + VersionToConsensus(c.leaf_version), c.internal_key>>
  \o BranchEncode(c.merkle_branch)

VerifyCommitment(c, output_key, script) ==
  LET root == Tree!ProvenRoot(LeafHashOf(script, c.leaf_version), c.merkle_branch)
  IN  TweakAddCheck(c.internal_key, output_key, c.output_key_parity,
                    TapTweakHash(c.internal_key, {root}))
-----------------------------------------------------------------------------
\* TaprootSpendInfo; the tweak of a key fails with negligible chance only, in which
\* case there is no spend info.
NewKeySpend(key, root) ==
  {[internal_key |-> key, merkle_root |-> root, output_key_parity |-> o.parity,
    output_key |-> o.output_key, script_map |-> <<>>] : o \in TapTweakKey(key, root)}

SpendInfoFromNode(key, node) ==
  {[info EXCEPT !.script_map = Tree!ScriptMap(node)] : info \in NewKeySpend(key, {node.hash})}

ControlBlocksOf(info, leaf) ==
  IF leaf \notin DOMAIN info.script_map THEN {}
  ELSE {ControlBlock(leaf[2], info.output_key_parity, info.internal_key, p) :
          p \in Tree!ControlBlocks(info.script_map, leaf)}
-----------------------------------------------------------------------------
\* TaprootBuilder::insert as a function of the branch (TaprootBuilder has it step by
\* step); an entry is a set of at most one node.
Insert(branch, node, depth) ==
  LET sibling(b, d) == IF Len(b) = d + 1 THEN b[d + 1] ELSE {}
      at[n \in 0 .. depth + 1] ==     \* after n rounds of the loop
        IF n = 0 THEN [branch |-> branch, node |-> node, depth |-> depth, go |-> TRUE, err |-> FALSE]
        ELSE LET p == at[n - 1]
                 s == IF p.depth < 0 THEN {} ELSE sibling(p.branch, p.depth)
             IN  IF ~p.go \/ s = {} THEN [p EXCEPT !.go = FALSE]
                 ELSE LET child == CHOOSE x \in s : TRUE IN
                      IF p.depth = 0 \/ Tree!CombineFails(p.node, child)
                        THEN [p EXCEPT !.go = FALSE, !.err = TRUE]
                      ELSE [p EXCEPT !.branch = SubSeq(@, 1, Len(@) - 1),
                                     !.node = Tree!CombineNodes(p.node, child), !.depth = @ - 1]
      end == at[depth + 1]
  IN  IF depth > MaxNodeCount THEN Err("InvalidMerkleTreeDepth")
      ELSE IF depth + 1 < Len(branch) THEN Err("NodeNotInDfsOrder")
      ELSE IF end.err THEN Err("OverCompleteTree")
      ELSE Ok([i \in DOMAIN end.branch \cup 1 .. end.depth + 1 |->
                 IF i = end.depth + 1 THEN {end.node}
                 ELSE IF i \in DOMAIN end.branch THEN end.branch[i] ELSE {}], <<>>)

\* TapTree: depth, version and script of every leaf, in depth-first order.
TreeSerialize(node) ==
  Flatten([i \in DOMAIN node.leaves |->
             LET l == node.leaves[i] IN
             <<Len(l.proof), VersionToConsensus(l.script[2])>> \o EncodeBytes(l.script[1])])

TreeFinish(branch) ==
  IF Len(branch) # 1 THEN Err("NotFinalized") ELSE Ok(CHOOSE n \in branch[1] : TRUE, <<>>)

TreeDeserialize(bytes) ==
  LET read[n \in 0 .. Len(bytes)] ==
        IF n = 0 THEN Ok(<<>>, bytes)
        ELSE Then(read[n - 1], LAMBDA branch, r :
               IF r = <<>> THEN Ok(branch, r)
               ELSE IF Len(r) = 1 THEN Err("Taproot")
               ELSE Then(DecodeBytes(Drop(r, 2)), LAMBDA script, rest :
                    Then(VersionFromConsensus(r[2]), LAMBDA v, r1 :
                    Then(Insert(branch, Tree!NewLeaf(<<script, v>>), r[1]), LAMBDA b, r2 :
                      Ok(b, rest)))))
  IN  Then(read[Len(bytes)], LAMBDA branch, r : TreeFinish(branch))
=============================================================================
