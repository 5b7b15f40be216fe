----------------------------- MODULE TaprootTree -----------------------------
(***************************************************************************)
(* The nodes of a taproot script tree (NodeInfo, LeafNode), the way two    *)
(* nodes combine, and what is read off a finished tree: the spend info     *)
(* with its control blocks, and the leaves a TapTree is serialized as.     *)
(*                                                                         *)
(* Hashes are values of a set with two operators: Join(a, b), the hash of  *)
(* the two hashes in sorted order, and Before(a, b), the byte order that   *)
(* sorts them.  Option is a set of at most one element.                    *)
(***************************************************************************)
EXTENDS Integers, Sequences, FiniteSets

CONSTANTS
  Hash,            \* node hashes
  Join(_, _),      \* TapNodeHash::from_node_hashes
  Before(_, _),    \* the order of [u8; 32]
  Script,          \* (script, leaf version) pairs
  LeafHash,        \* LeafHash[s]: TapNodeHash::from_script
  MaxDepth         \* TAPROOT_CONTROL_MAX_NODE_COUNT

ASSUME TreeConstants ==
  /\ MaxDepth \in Nat
  /\ LeafHash \in [Script -> Hash]
  /\ \A h, g \in Hash : Join(h, g) \in Hash /\ Join(h, g) = Join(g, h)

\* struct LeafNode and struct NodeInfo.  A hidden node has no leaves.
LeafNode == [script : Script, proof : Seq(Hash)]
NodeInfo == [hash : Hash, leaves : Seq(LeafNode), hidden : BOOLEAN]

NewLeaf(s) ==
  [hash |-> LeafHash[s], leaves |-> <<[script |-> s, proof |-> <<>>]>>, hidden |-> FALSE]

NewHidden(h) == [hash |-> h, leaves |-> <<>>, hidden |-> TRUE]

\* TaprootMerkleBranch::push of one more hashing partner, on every leaf.
PushAll(leaves, h) ==
  [i \in DOMAIN leaves |-> [script |-> leaves[i].script, proof |-> Append(leaves[i].proof, h)]]

\* push fails on a proof that is full.
PushFails(leaves) == \E i \in DOMAIN leaves : Len(leaves[i].proof) >= MaxDepth

\* A leaf of either node whose proof is full ends NodeInfo::combine.
CombineFails(a, b) == PushFails(a.leaves) \/ PushFails(b.leaves)

\* A mutant: the leaves get the hash of their own node.
CombineOwnHash(a, b) ==
  LET mine == PushAll(a.leaves, a.hash)
      theirs == PushAll(b.leaves, b.hash)
  IN  [hash |-> Join(a.hash, b.hash),
       leaves |-> IF Before(a.hash, b.hash) THEN mine \o theirs ELSE theirs \o mine,
       hidden |-> a.hidden \/ b.hidden]

\* NodeInfo::combine: the leaves of the node that is hashed first come first.
CombineNodes(a, b) ==
  LET mine == PushAll(a.leaves, b.hash)
      theirs == PushAll(b.leaves, a.hash)
  IN  [hash |-> Join(a.hash, b.hash),
       leaves |-> IF Before(a.hash, b.hash) THEN mine \o theirs ELSE theirs \o mine,
       hidden |-> a.hidden \/ b.hidden]

-----------------------------------------------------------------------------
\* The root that a proof leads to from a leaf: the loop of
\* ControlBlock::verify_taproot_commitment.
ProvenRoot(h, proof) ==
  LET root[n \in 0 .. Len(proof)] == IF n = 0 THEN h ELSE Join(root[n - 1], proof[n])
  IN  root[Len(proof)]

\* TaprootSpendInfo::from_node_info: the proofs of each script.
ScriptMap(node) ==
  [s \in {node.leaves[i].script : i \in DOMAIN node.leaves} |->
     {node.leaves[i].proof : i \in {j \in DOMAIN node.leaves : node.leaves[j].script = s}}]

\* TaprootSpendInfo::control_block: min_by the length of the proof; which of
\* several shortest proofs comes first in the BTreeSet is left open.
ControlBlocks(map, s) ==
  {p \in map[s] : \A q \in map[s] : Len(p) <= Len(q)}
=============================================================================
