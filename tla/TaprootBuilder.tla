--------------------------- MODULE TaprootBuilder ---------------------------
(***************************************************************************)
(* TaprootBuilder: nodes are added in depth-first order and combined as    *)
(* soon as both children of a parent are there.  branch[d + 1] holds the   *)
(* left subtree waiting at depth d, if any.                                *)
(*                                                                         *)
(* insert is run step by step: Start is its checks, Climb one round of its *)
(* loop, Place its end.  An error consumes the builder, so the caller has  *)
(* a new one afterwards.  The leaves come from the caller or, while feed   *)
(* is not empty, from TapTree::deserialize reading a serialized tree.      *)
(***************************************************************************)
EXTENDS TaprootTree

CONSTANTS
  LeafScript,   \* scripts the caller adds one by one
  HiddenHash,   \* hashes the caller adds as hidden nodes
  MaxNodes      \* bound on the nodes added to one builder

ASSUME BuilderConstants ==
  LeafScript \subseteq Script /\ HiddenHash \subseteq Hash /\ MaxNodes \in Nat

VARIABLES
  branch,    \* TaprootBuilder.branch
  pending,   \* the locals of insert, while it runs: [node, depth]
  added,     \* the nodes this builder has taken: [depth, hash, script]
  feed,      \* what a deserializer still has to read
  source,    \* the tree that is being deserialized
  status     \* how the last call ended

builderVars == <<branch, pending, added, feed, source, status>>

NoNode == {}
Statuses == {"ok", "InvalidMerkleTreeDepth", "NodeNotInDfsOrder", "OverCompleteTree",
             "NotFinalized", "HiddenParts", "EmptyTree"}

BuilderInit ==
  /\ branch = <<>>
  /\ pending = {}
  /\ added = <<>>
  /\ feed = <<>>
  /\ source = {}
  /\ status = "ok"

Fail(error) ==
  /\ branch' = <<>>
  /\ pending' = {}
  /\ added' = <<>>
  /\ feed' = <<>>
  /\ status' = error
  /\ UNCHANGED source

-----------------------------------------------------------------------------

\* insert up to its loop.
Start(node, depth, script) ==
  /\ pending = {}
  /\ \/ depth > MaxDepth /\ Fail("InvalidMerkleTreeDepth")
     \/ /\ depth <= MaxDepth
        /\ depth + 1 < Len(branch)
        /\ Fail("NodeNotInDfsOrder")
     \/ /\ depth <= MaxDepth
        /\ depth + 1 >= Len(branch)
        /\ pending' = {[node |-> node, depth |-> depth]}
        /\ added' = Append(added, [depth |-> depth, hash |-> node.hash, script |-> script])
        /\ status' = "ok"
        /\ UNCHANGED <<branch, source>>

\* add_leaf_with_ver, add_hidden_node.
AddLeaf(s, depth) ==
  /\ feed = <<>> /\ source = {}
  /\ Len(added) < MaxNodes
  /\ Start(NewLeaf(s), depth, {s})
  /\ UNCHANGED feed

AddHidden(h, depth) ==
  /\ feed = <<>> /\ source = {}
  /\ Len(added) < MaxNodes
  /\ Start(NewHidden(h), depth, {})
  /\ UNCHANGED feed

\* A mutant: the deepest entry is taken for a sibling whatever its depth.
SiblingAnyDepth(d) == IF branch # <<>> THEN branch[Len(branch)] ELSE NoNode

\* The loop goes on while the deepest entry is at the node's depth and is a
\* sibling.
Sibling(d) == IF Len(branch) = d + 1 THEN branch[d + 1] ELSE NoNode

\* A mutant: the depth is not decremented.
ClimbStays ==
  \E ins \in pending : \E child \in Sibling(ins.depth) :
    /\ branch' = SubSeq(branch, 1, Len(branch) - 1)
    /\ pending' = {[node |-> CombineNodes(ins.node, child), depth |-> ins.depth]}
    /\ UNCHANGED <<added, feed, source, status>>

Climb ==
  \E ins \in pending : \E child \in Sibling(ins.depth) :
    \/ /\ ins.depth = 0 \/ CombineFails(ins.node, child)
       /\ Fail(IF ins.depth = 0 THEN "OverCompleteTree" ELSE "InvalidMerkleTreeDepth")
    \/ /\ ins.depth > 0
       /\ ~CombineFails(ins.node, child)
       /\ branch' = SubSeq(branch, 1, Len(branch) - 1)
       /\ pending' = {[node |-> CombineNodes(ins.node, child), depth |-> ins.depth - 1]}
       /\ UNCHANGED <<added, feed, source, status>>

\* The branch is extended with None and the node put at its depth.
Place ==
  \E ins \in pending :
    /\ Sibling(ins.depth) = NoNode
    /\ branch' = [i \in DOMAIN branch \cup 1 .. ins.depth + 1 |->
                    IF i = ins.depth + 1 THEN {ins.node}
                    ELSE IF i \in DOMAIN branch THEN branch[i] ELSE NoNode]
    /\ pending' = {}
    /\ UNCHANGED <<added, feed, source, status>>

-----------------------------------------------------------------------------
\* try_into_taptree, and the serialization of the tree it returns; on an
\* error the caller gets the builder back.
Serialize ==
  /\ pending = {} /\ feed = <<>> /\ source = {}
  /\ \/ /\ Len(branch) # 1
        /\ status' = "NotFinalized"
        /\ UNCHANGED <<branch, added, feed, source>>
     \/ /\ Len(branch) = 1
        /\ \E node \in branch[1] :
             \/ /\ node.hidden
                /\ status' = "HiddenParts"
                /\ UNCHANGED <<branch, added, feed, source>>
             \/ /\ ~node.hidden
                /\ source' = {node}
                /\ feed' = [i \in DOMAIN node.leaves |->
                              [depth |-> Len(node.leaves[i].proof),
                               script |-> node.leaves[i].script]]
                /\ branch' = <<>>
                /\ added' = <<>>
                /\ status' = "ok"
  /\ UNCHANGED pending

\* One leaf of TapTree::deserialize.
ReadLeaf ==
  /\ pending = {}
  /\ feed # <<>>
  /\ Start(NewLeaf(Head(feed).script), Head(feed).depth, {Head(feed).script})
  /\ feed' = IF status' = "ok" THEN Tail(feed) ELSE <<>>

\* A builder that is finished with is dropped and a new one made.
New ==
  /\ pending = {} /\ feed = <<>>
  /\ branch # <<>> \/ source # {}
  /\ branch' = <<>> /\ added' = <<>> /\ source' = {} /\ status' = "ok"
  /\ UNCHANGED <<pending, feed>>

BuilderNext ==
  \/ \E depth \in 0 .. MaxDepth + 1 : \/ \E s \in LeafScript : AddLeaf(s, depth)
                                      \/ \E h \in HiddenHash : AddHidden(h, depth)
  \/ Climb
  \/ Place
  \/ Serialize
  \/ ReadLeaf
  \/ New

BuilderSpec == BuilderInit /\ [][BuilderNext]_builderVars

-----------------------------------------------------------------------------
Idle == pending = {}

\* branch is a stack of optional subtrees, and insert's locals are a node with
\* its depth.
BuilderTypeOK ==
  /\ branch \in Seq(SUBSET NodeInfo)
  /\ \A i \in DOMAIN branch : \A x, y \in branch[i] : x = y
  /\ \A ins \in pending : /\ ins = [node |-> ins.node, depth |-> ins.depth]
                           /\ ins.node \in NodeInfo /\ ins.depth \in 0 .. MaxDepth
  /\ \A x, y \in pending : x = y
  /\ status \in Statuses

Levels == DOMAIN branch
DepthOf(i) == i - 1

\* "There can never be None entries at the end", which finalize and
\* try_into_node_info rely on when they unwrap the last entry, and a leaf's
\* proof has room for one hash per level above its subtree, so that the push
\* of a hashing partner in insert's loop cannot fail.
BranchSound ==
  /\ Idle /\ branch # <<>> => branch[Len(branch)] # NoNode
  /\ \A i \in Levels : \A node \in branch[i] : \A l \in DOMAIN node.leaves :
       DepthOf(i) + Len(node.leaves[l].proof) <= MaxDepth
  /\ \A ins \in pending : \A child \in Sibling(ins.depth) :
       ins.depth > 0 => ~CombineFails(ins.node, child)

\* How often a script was added at a depth, and how often it is a leaf of a
\* subtree, counted with the depth of the subtree.
TimesAdded(s, d) ==
  Cardinality({n \in DOMAIN added : added[n].script = {s} /\ added[n].depth = d})
TimesInTree(s, d) ==
  Cardinality({il \in Levels \X (1 .. MaxNodes) :
                 \E node \in branch[il[1]] :
                   /\ il[2] \in DOMAIN node.leaves
                   /\ node.leaves[il[2]].script = s
                   /\ DepthOf(il[1]) + Len(node.leaves[il[2]].proof) = d})

\* Between calls every leaf that was accepted is in exactly one subtree, at
\* the depth it was added with: combining loses and moves nothing.
LeavesKeepDepth ==
  Idle => \A s \in Script, d \in 0 .. MaxDepth : TimesAdded(s, d) = TimesInTree(s, d)

\* The root of the tree that has the added nodes as its leaves from left to
\* right, computed from the top: what the caller describes.
DescribedRoot ==
  LET subtree[at \in (1 .. Len(added) + 1) \X (0 .. MaxDepth)] ==
        IF at[1] = Len(added) + 1 THEN [hash |-> 0, next |-> at[1]]
        ELSE IF added[at[1]].depth <= at[2]
        THEN [hash |-> added[at[1]].hash, next |-> at[1] + 1]
        ELSE LET left == subtree[<<at[1], at[2] + 1>>]
                 right == subtree[<<left.next, at[2] + 1>>]
             IN  [hash |-> Join(left.hash, right.hash), next |-> right.next]
  IN  subtree[<<1, 0>>]

\* A builder of length 1 is the tree the caller described in depth-first
\* order, no node missing and none left over.
FinishedIsDescribed ==
  Idle /\ Len(branch) = 1
  => /\ DescribedRoot.next = Len(added) + 1
     /\ \A node \in branch[1] : node.hash = DescribedRoot.hash

\* Every script of a finished tree has a control block, all that
\* control_block may return prove the script against the merkle root, and
\* they are as short as the shallowest place of the script allows.
ControlBlocksProve ==
  Idle /\ Len(branch) = 1
  => \A node \in branch[1], n \in DOMAIN added : \A s \in added[n].script :
       LET blocks == ControlBlocks(ScriptMap(node), s)
       IN  /\ blocks # {}
           /\ \A p \in blocks : /\ ProvenRoot(LeafHash[s], p) = node.hash
                               /\ Len(p) <= added[n].depth

\* A TapTree that is serialized and read back is the same tree with the same
\* leaves and proofs: though the leaves were reordered by the hashes they are
\* a depth-first walk again (TapTree's Serialize and Deserialize).
RoundTrip ==
  source # {} /\ feed = <<>> /\ Idle => status = "ok" /\ branch = <<source>>

\* A builder holds the tree that the caller described or that was read: nothing
\* is lost or moved while subtrees are combined (add_leaf, add_hidden_node,
\* TapTree's Serialize and Deserialize).
TreeIsDescribed == LeavesKeepDepth /\ FinishedIsDescribed /\ RoundTrip
=============================================================================
