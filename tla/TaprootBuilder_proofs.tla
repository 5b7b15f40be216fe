------------------------ MODULE TaprootBuilder_proofs ------------------------
(***************************************************************************)
(* Whatever nodes are added, at whatever depths, for every depth limit:    *)
(* the branch of the builder ends in a node, no push of a hashing partner  *)
(* fails, and each leaf of each subtree carries a proof that leads from    *)
(* its hash to the hash of the subtree.  At the end, the scripts of a      *)
(* finished tree and their control blocks.                                 *)
(***************************************************************************)
EXTENDS TaprootBuilder, Induction

\* The hashes w on the way from h to r that the loop of
\* ControlBlock::verify_taproot_commitment computes with a proof.
Walk(w, h, proof, r) ==
  /\ w \in [0 .. Len(proof) -> Hash]
  /\ w[0] = h
  /\ \A n \in 1 .. Len(proof) : w[n] = Join(w[n - 1], proof[n])
  /\ w[Len(proof)] = r

Proves(leaf, r) == \E w : Walk(w, LeafHash[leaf.script], leaf.proof, r)

\* Every leaf of a subtree at this depth has room for the hashes still to come,
\* and its proof leads to the hash of the subtree.
NodeSound(node, depth) ==
  \A l \in DOMAIN node.leaves :
    /\ depth + Len(node.leaves[l].proof) <= MaxDepth
    /\ Proves(node.leaves[l], node.hash)

FeedItem == [depth : Nat, script : Script]

\* While insert runs, the branch may end in None, but reaches no deeper than
\* the node that is being placed.
IInv ==
  /\ BuilderTypeOK
  /\ feed \in Seq(FeedItem)
  /\ \A i \in DOMAIN branch : \A node \in branch[i] : NodeSound(node, i - 1)
  /\ \A ins \in pending : NodeSound(ins.node, ins.depth) /\ Len(branch) <= ins.depth + 1
  /\ Idle /\ branch # <<>> => branch[Len(branch)] # NoNode

\* Each leaf of every subtree is proven to be in it.
LeavesProven ==
  \A i \in DOMAIN branch : \A node \in branch[i] : \A l \in DOMAIN node.leaves :
    Proves(node.leaves[l], node.hash)
-----------------------------------------------------------------------------
\* A new leaf is its own proof, and a hidden node has nothing to prove
\* (NodeInfo::new_leaf_with_ver, new_hidden_node).
LEMMA LeafSound ==
  ASSUME NEW s \in Script, NEW d \in 0 .. MaxDepth
  PROVE  NewLeaf(s) \in NodeInfo /\ NodeSound(NewLeaf(s), d)
<1> DEFINE leaf == [script |-> s, proof |-> <<>>]
<1>1. LeafHash[s] \in Hash
  BY TreeConstants, Zenon
<1>2. leaf \in LeafNode /\ <<leaf>> \in Seq(LeafNode)
  BY DEF LeafNode
<1>3. NewLeaf(s) \in NodeInfo
  BY <1>1, <1>2, Zenon DEF NewLeaf, NodeInfo
<1>4. Walk([n \in 0 .. 0 |-> LeafHash[s]], LeafHash[s], <<>>, LeafHash[s])
  BY <1>1 DEF Walk
<1>5. Proves(leaf, LeafHash[s])
  BY <1>4, Zenon DEF Proves
<1>6. NodeSound(NewLeaf(s), d)
  <2> SUFFICES ASSUME NEW l \in DOMAIN NewLeaf(s).leaves
               PROVE  /\ d + Len(NewLeaf(s).leaves[l].proof) <= MaxDepth
                      /\ Proves(NewLeaf(s).leaves[l], NewLeaf(s).hash)
    BY Zenon DEF NodeSound
  <2>1. NewLeaf(s).leaves[l] = leaf /\ NewLeaf(s).hash = LeafHash[s]
    BY DEF NewLeaf
  <2>2. Len(leaf.proof) = 0
    BY Zenon
  <2> QED BY <1>5, <2>1, <2>2, TreeConstants
<1> QED BY <1>3, <1>6, Zenon

\* A hidden node has no leaves to prove.
LEMMA HiddenSound ==
  ASSUME NEW h \in Hash, NEW d
  PROVE  NewHidden(h) \in NodeInfo /\ NodeSound(NewHidden(h), d)
<1>1. NewHidden(h) \in NodeInfo
  BY DEF NewHidden, NodeInfo
<1>2. DOMAIN NewHidden(h).leaves = {}
  BY DEF NewHidden
<1> QED BY <1>1, <1>2, Zenon DEF NodeSound

\* One more hashing partner makes the way one step longer
\* (TaprootMerkleBranch::push).
LEMMA WalkOn ==
  ASSUME NEW w, NEW h, NEW proof \in Seq(Hash), NEW r \in Hash, NEW g \in Hash,
         Walk(w, h, proof, r)
  PROVE  \E v : Walk(v, h, Append(proof, g), Join(r, g))
<1> DEFINE n1 == Len(proof) + 1
           v == [n \in 0 .. n1 |-> IF n = n1 THEN Join(r, g) ELSE w[n]]
<1>1. Len(proof) \in Nat /\ Len(Append(proof, g)) = n1
  OBVIOUS
<1>2. Join(r, g) \in Hash
  BY TreeConstants, Zenon
<1>3. v \in [0 .. n1 -> Hash]
  BY <1>1, <1>2 DEF Walk
<1>4. v[0] = h /\ v[n1] = Join(r, g)
  BY <1>1 DEF Walk
<1>5. ASSUME NEW n \in 1 .. n1 PROVE v[n] = Join(v[n - 1], Append(proof, g)[n])
  <2>1. CASE n = n1
    <3>1. v[n - 1] = w[Len(proof)]
      BY <1>1, <2>1
    <3> QED BY <1>1, <2>1, <3>1 DEF Walk
  <2>2. CASE n # n1
    <3>1. n \in 1 .. Len(proof) /\ Append(proof, g)[n] = proof[n]
      BY <1>1, <2>2
    <3>2. v[n] = w[n] /\ v[n - 1] = w[n - 1]
      BY <1>1, <3>1
    <3> QED BY <3>1, <3>2, Zenon DEF Walk
  <2> QED BY <2>1, <2>2, Zenon
<1>6. Walk(v, h, Append(proof, g), Join(r, g))
  BY <1>1, <1>3, <1>4, <1>5, Zenon DEF Walk
<1> QED BY <1>6, Zenon

\* What the loops of NodeInfo::combine do to the leaves of one of the nodes.
LEMMA PushedSound ==
  ASSUME NEW a \in NodeInfo, NEW g \in Hash, NEW d \in Nat \ {0}, NodeSound(a, d)
  PROVE  /\ PushAll(a.leaves, g) \in Seq(LeafNode)
         /\ ~PushFails(a.leaves)
         /\ \A l \in DOMAIN PushAll(a.leaves, g) :
              /\ d - 1 + Len(PushAll(a.leaves, g)[l].proof) <= MaxDepth
              /\ Proves(PushAll(a.leaves, g)[l], Join(a.hash, g))
<1> DEFINE pushed == PushAll(a.leaves, g)
<1>1. a.leaves \in Seq(LeafNode) /\ a.hash \in Hash
  BY Zenon DEF NodeInfo
<1>2. ASSUME NEW l \in DOMAIN a.leaves
      PROVE  /\ pushed[l] \in LeafNode
             /\ Len(a.leaves[l].proof) < MaxDepth
             /\ d - 1 + Len(pushed[l].proof) <= MaxDepth
             /\ Proves(pushed[l], Join(a.hash, g))
  <2> DEFINE proof == a.leaves[l].proof
             script == a.leaves[l].script
  <2>1. a.leaves[l] \in LeafNode
    BY <1>1
  <2>2. script \in Script /\ proof \in Seq(Hash)
    BY <2>1, Zenon DEF LeafNode
  <2>3. pushed[l] = [script |-> script, proof |-> Append(proof, g)]
    BY Zenon DEF PushAll
  <2>4. Append(proof, g) \in Seq(Hash) /\ Len(Append(proof, g)) = Len(proof) + 1 /\ Len(proof) \in Nat
    BY <2>2
  <2>5. pushed[l] \in LeafNode
    BY <2>2, <2>3, <2>4 DEF LeafNode
  <2>6. d + Len(proof) <= MaxDepth /\ Proves(a.leaves[l], a.hash)
    BY Zenon DEF NodeSound
  <2>7. Len(proof) < MaxDepth /\ d - 1 + Len(pushed[l].proof) <= MaxDepth
    BY <2>3, <2>4, <2>6, TreeConstants, SMTT(40)
  <2>8. PICK w : Walk(w, LeafHash[script], proof, a.hash)
    BY <2>6, Zenon DEF Proves
  <2>9. \E v : Walk(v, LeafHash[script], Append(proof, g), Join(a.hash, g))
    BY <1>1, <2>2, <2>8, WalkOn, Zenon
  <2>10. Proves(pushed[l], Join(a.hash, g))
    BY <2>3, <2>9 DEF Proves
  <2> QED BY <2>5, <2>7, <2>10, Zenon
<1>3. DOMAIN pushed = DOMAIN a.leaves /\ DOMAIN a.leaves = 1 .. Len(a.leaves) /\ Len(a.leaves) \in Nat
  BY <1>1 DEF PushAll
<1>4. pushed \in [1 .. Len(a.leaves) -> LeafNode]
  <2>1. pushed = [l \in 1 .. Len(a.leaves) |-> pushed[l]]
    BY <1>3, Zenon DEF PushAll
  <2>2. \A l \in 1 .. Len(a.leaves) : pushed[l] \in LeafNode
    BY <1>2, <1>3, Zenon
  <2> HIDE DEF pushed
  <2> QED BY <2>1, <2>2, Zenon
<1>5. pushed \in Seq(LeafNode)
  BY <1>3, <1>4
<1>6. ~PushFails(a.leaves)
  <2>1. ASSUME NEW l \in DOMAIN a.leaves PROVE Len(a.leaves[l].proof) \in Nat
    BY <1>1 DEF LeafNode
  <2> QED BY <1>2, <2>1, TreeConstants DEF PushFails
<1> QED BY <1>2, <1>3, <1>5, <1>6, Zenon

\* The leaves of either order of two sound lists are sound.
LEMMA ConcatSound ==
  ASSUME NEW S, NEW x \in Seq(S), NEW y \in Seq(S)
  PROVE  /\ x \o y \in Seq(S)
         /\ \A l \in DOMAIN (x \o y) :
              \/ \E k \in DOMAIN x : (x \o y)[l] = x[k]
              \/ \E k \in DOMAIN y : (x \o y)[l] = y[k]
<1>1. x \o y \in Seq(S) /\ Len(x \o y) = Len(x) + Len(y) /\ Len(x) \in Nat /\ Len(y) \in Nat
  OBVIOUS
<1>2. ASSUME NEW l \in DOMAIN (x \o y)
      PROVE  \/ \E k \in DOMAIN x : (x \o y)[l] = x[k]
             \/ \E k \in DOMAIN y : (x \o y)[l] = y[k]
  <2>1. CASE l <= Len(x)
    <3>1. l \in DOMAIN x /\ (x \o y)[l] = x[l]
      BY <1>1, <2>1
    <3> QED BY <3>1, Zenon
  <2>2. CASE ~(l <= Len(x))
    <3>1. l - Len(x) \in DOMAIN y /\ (x \o y)[l] = y[l - Len(x)]
      BY <1>1, <2>2
    <3> QED BY <3>1, Zenon
  <2> QED BY <2>1, <2>2, Zenon
<1> QED BY <1>1, <1>2, Zenon

\* Two sound siblings combine to a sound parent, and the pushes do not fail
\* (NodeInfo::combine).
LEMMA CombineSound ==
  ASSUME NEW a \in NodeInfo, NEW b \in NodeInfo, NEW d \in Nat \ {0},
         NodeSound(a, d), NodeSound(b, d)
  PROVE  /\ ~CombineFails(a, b)
         /\ CombineNodes(a, b) \in NodeInfo
         /\ NodeSound(CombineNodes(a, b), d - 1)
<1> DEFINE mine == PushAll(a.leaves, b.hash)
           theirs == PushAll(b.leaves, a.hash)
           c == CombineNodes(a, b)
           Good(leaf) == d - 1 + Len(leaf.proof) <= MaxDepth /\ Proves(leaf, Join(a.hash, b.hash))
<1>1. a.hash \in Hash /\ b.hash \in Hash /\ a.hidden \in BOOLEAN /\ b.hidden \in BOOLEAN
  BY Zenon DEF NodeInfo
<1>2. Join(a.hash, b.hash) \in Hash /\ Join(b.hash, a.hash) = Join(a.hash, b.hash)
  BY <1>1, TreeConstants, Zenon
<1>3. mine \in Seq(LeafNode) /\ ~PushFails(a.leaves) /\ \A k \in DOMAIN mine : Good(mine[k])
  BY <1>1, PushedSound, Zenon
<1>4. theirs \in Seq(LeafNode) /\ ~PushFails(b.leaves) /\ \A k \in DOMAIN theirs : Good(theirs[k])
  <2>1. theirs \in Seq(LeafNode) /\ ~PushFails(b.leaves)
        /\ \A k \in DOMAIN theirs : /\ d - 1 + Len(theirs[k].proof) <= MaxDepth
                                   /\ Proves(theirs[k], Join(b.hash, a.hash))
    BY <1>1, PushedSound, Zenon
  <2> QED BY <1>2, <2>1, Zenon
<1>5. ~CombineFails(a, b)
  BY <1>3, <1>4, Zenon DEF CombineFails
<1>6. c.hash = Join(a.hash, b.hash) /\ (c.leaves = mine \o theirs \/ c.leaves = theirs \o mine)
  BY Zenon DEF CombineNodes
<1> HIDE DEF mine, theirs, Good
<1>7. c.leaves \in Seq(LeafNode) /\ \A l \in DOMAIN c.leaves : Good(c.leaves[l])
  <2>1. CASE c.leaves = mine \o theirs
    BY <1>3, <1>4, <2>1, ConcatSound
  <2>2. CASE c.leaves = theirs \o mine
    BY <1>3, <1>4, <2>2, ConcatSound
  <2> QED BY <1>6, <2>1, <2>2, Zenon
<1>8. c = [hash |-> c.hash, leaves |-> c.leaves, hidden |-> a.hidden \/ b.hidden]
  BY Zenon DEF CombineNodes
<1>9. c \in NodeInfo
  <2> HIDE DEF c
  <2> QED BY <1>1, <1>2, <1>6, <1>7, <1>8 DEF NodeInfo
<1>10. NodeSound(c, d - 1)
  BY <1>6, <1>7, Zenon DEF NodeSound, Good
<1> QED BY <1>5, <1>9, <1>10, Zenon
-----------------------------------------------------------------------------
\* An error drops the builder (the early returns of insert).
LEMMA FailKeeps ==
  ASSUME NEW e \in Statuses, Fail(e)
  PROVE  IInv'
BY DEF Fail, IInv, BuilderTypeOK, Idle

\* insert begins with a sound node.
LEMMA StartKeeps ==
  ASSUME IInv, NEW node \in NodeInfo, NEW depth \in Nat, NEW script,
         depth <= MaxDepth => NodeSound(node, depth),
         Start(node, depth, script), feed' \in Seq(FeedItem)
  PROVE  IInv'
<1>1. CASE Fail("InvalidMerkleTreeDepth") \/ Fail("NodeNotInDfsOrder")
  BY <1>1, FailKeeps, Zenon DEF Statuses
<1>2. CASE /\ depth <= MaxDepth
           /\ depth + 1 >= Len(branch)
           /\ pending' = {[node |-> node, depth |-> depth]}
           /\ status' = "ok"
           /\ UNCHANGED branch
  <2> DEFINE ins == [node |-> node, depth |-> depth]
  <2>1. BuilderTypeOK'
    BY <1>2, TreeConstants DEF IInv, BuilderTypeOK, Statuses
  <2>2. Len(branch) \in Nat
    BY DEF IInv, BuilderTypeOK
  <2>3. \A x \in pending' : NodeSound(x.node, x.depth) /\ Len(branch) <= x.depth + 1
    BY <1>2, <2>2
  <2>4. \A k \in DOMAIN branch' : \A n \in branch'[k] : NodeSound(n, k - 1)
    BY <1>2, Zenon DEF IInv
  <2>5. (Idle /\ branch # <<>> => branch[Len(branch)] # NoNode)'
    BY <1>2, Zenon DEF Idle
  <2> QED BY <1>2, <2>1, <2>3, <2>4, <2>5, Zenon DEF IInv, NodeSound, Proves
<1> QED BY <1>1, <1>2, Zenon DEF Start

\* One round of insert's loop: the two nodes at the same depth are combined,
\* and the push of their partners does not fail.
LEMMA ClimbKeeps ==
  ASSUME IInv, Climb
  PROVE  IInv'
<1>0. PICK ins \in pending : \E child \in Sibling(ins.depth) :
        \/ /\ ins.depth = 0 \/ CombineFails(ins.node, child)
           /\ Fail(IF ins.depth = 0 THEN "OverCompleteTree" ELSE "InvalidMerkleTreeDepth")
        \/ /\ ins.depth > 0
           /\ branch' = SubSeq(branch, 1, Len(branch) - 1)
           /\ pending' = {[node |-> CombineNodes(ins.node, child), depth |-> ins.depth - 1]}
           /\ UNCHANGED <<added, feed, source, status>>
  BY Zenon DEF Climb
<1>1. PICK child \in Sibling(ins.depth) :
        \/ /\ ins.depth = 0 \/ CombineFails(ins.node, child)
           /\ Fail(IF ins.depth = 0 THEN "OverCompleteTree" ELSE "InvalidMerkleTreeDepth")
        \/ /\ ins.depth > 0
           /\ branch' = SubSeq(branch, 1, Len(branch) - 1)
           /\ pending' = {[node |-> CombineNodes(ins.node, child), depth |-> ins.depth - 1]}
           /\ UNCHANGED <<added, feed, source, status>>
  BY <1>0, Zenon
<1>2. CASE Fail(IF ins.depth = 0 THEN "OverCompleteTree" ELSE "InvalidMerkleTreeDepth")
  BY <1>2, FailKeeps, Zenon DEF Statuses
<1>3. CASE /\ ins.depth > 0
           /\ branch' = SubSeq(branch, 1, Len(branch) - 1)
           /\ pending' = {[node |-> CombineNodes(ins.node, child), depth |-> ins.depth - 1]}
           /\ UNCHANGED <<added, feed, source, status>>
  <2> DEFINE d == ins.depth
             both == CombineNodes(ins.node, child)
  <2>1. /\ branch \in Seq(SUBSET NodeInfo) /\ Len(branch) = d + 1
        /\ d \in Nat \ {0} /\ d <= MaxDepth /\ MaxDepth \in Nat
        /\ ins.node \in NodeInfo /\ NodeSound(ins.node, d)
    BY <1>1, <1>3, TreeConstants DEF IInv, BuilderTypeOK, Sibling, NoNode
  <2>2. d + 1 \in DOMAIN branch /\ child \in branch[d + 1]
    BY <1>1, <2>1 DEF Sibling, NoNode
  <2>3. child \in NodeInfo /\ NodeSound(child, d)
    <3>1. NodeSound(child, (d + 1) - 1)
      BY <2>2, Zenon DEF IInv
    <3> QED BY <2>1, <2>2, <3>1
  <2>4. both \in NodeInfo /\ NodeSound(both, d - 1)
    BY <2>1, <2>3, CombineSound, Zenon
  <2>5. branch' \in Seq(SUBSET NodeInfo) /\ Len(branch') = d /\ DOMAIN branch' = 1 .. d
        /\ \A k \in 1 .. d : branch'[k] = branch[k] /\ k \in DOMAIN branch
    BY <1>3, <2>1
  <2> HIDE DEF both, d
  <2>6. pending' = {[node |-> both, depth |-> d - 1]} /\ d - 1 \in 0 .. MaxDepth
    BY <1>3, <2>1 DEF both, d
  <2>7. BuilderTypeOK'
    <3>1. \A k \in DOMAIN branch' : \A x, y \in branch'[k] : x = y
      BY <2>5, Zenon DEF IInv, BuilderTypeOK
    <3>2. \A x \in pending' : /\ x = [node |-> x.node, depth |-> x.depth]
                              /\ x.node \in NodeInfo /\ x.depth \in 0 .. MaxDepth
      BY <2>4, <2>6
    <3>3. \A x, y \in pending' : x = y
      BY <2>6, Zenon
    <3>4. status' \in Statuses
      BY <1>3, Zenon DEF IInv, BuilderTypeOK
    <3> QED BY <2>5, <3>1, <3>2, <3>3, <3>4, Zenon DEF BuilderTypeOK
  <2>8. \A k \in DOMAIN branch' : \A n \in branch'[k] : NodeSound(n, k - 1)
    BY <2>5, Zenon DEF IInv
  <2>9. \A x \in pending' : NodeSound(x.node, x.depth) /\ Len(branch') <= x.depth + 1
    BY <2>1, <2>4, <2>5, <2>6
  <2>10. ~Idle'
    BY <2>6, Zenon DEF Idle
  <2> QED BY <1>3, <2>7, <2>8, <2>9, <2>10, Zenon DEF IInv, NodeSound, Proves
<1> QED BY <1>1, <1>2, <1>3, Zenon

\* The end of insert: the branch is filled up to the depth of the node, which
\* becomes its last entry.
LEMMA PlaceKeeps ==
  ASSUME IInv, Place
  PROVE  IInv'
<1>1. PICK ins \in pending :
        /\ Sibling(ins.depth) = NoNode
        /\ branch' = [i \in DOMAIN branch \cup 1 .. ins.depth + 1 |->
                        IF i = ins.depth + 1 THEN {ins.node}
                        ELSE IF i \in DOMAIN branch THEN branch[i] ELSE NoNode]
        /\ pending' = {}
        /\ UNCHANGED <<added, feed, source, status>>
  BY Zenon DEF Place
<1> DEFINE n == ins.depth + 1
<1>2. /\ ins.depth \in 0 .. MaxDepth /\ MaxDepth \in Nat /\ n \in Nat /\ n >= 1
      /\ ins.node \in NodeInfo /\ NodeSound(ins.node, ins.depth)
      /\ branch \in Seq(SUBSET NodeInfo) /\ Len(branch) <= n /\ Len(branch) \in Nat
  BY TreeConstants DEF IInv, BuilderTypeOK
<1>3. DOMAIN branch = 1 .. Len(branch) /\ DOMAIN branch \cup 1 .. n = 1 .. n
  BY <1>2
<1>4. branch' = [i \in 1 .. n |-> IF i = n THEN {ins.node}
                                  ELSE IF i \in DOMAIN branch THEN branch[i] ELSE NoNode]
  BY <1>1, <1>3, Zenon
<1>5. \A i \in 1 .. n : \/ i = n /\ branch'[i] = {ins.node}
                        \/ i # n /\ i \in DOMAIN branch /\ branch'[i] = branch[i]
                        \/ i # n /\ branch'[i] = {}
  BY <1>4, Zenon DEF NoNode
<1>6. \A i \in DOMAIN branch : branch[i] \subseteq NodeInfo
  BY <1>2
<1>7. branch' \in Seq(SUBSET NodeInfo) /\ Len(branch') = n /\ DOMAIN branch' = 1 .. n
  <2>1. \A i \in 1 .. n : branch'[i] \in SUBSET NodeInfo
    BY <1>2, <1>5, <1>6, Zenon
  <2>2. branch' \in [1 .. n -> SUBSET NodeInfo]
    BY <1>4, <2>1, Zenon
  <2> QED BY <1>2, <2>2, SMTT(40)
<1>8. BuilderTypeOK'
  <2>1. \A i \in DOMAIN branch' : \A x, y \in branch'[i] : x = y
    BY <1>5, <1>7, Zenon DEF IInv, BuilderTypeOK
  <2> QED BY <1>1, <1>7, <2>1, Zenon DEF IInv, BuilderTypeOK
<1>9. \A i \in DOMAIN branch' : \A x \in branch'[i] : NodeSound(x, i - 1)
  <2>1. n - 1 = ins.depth
    BY <1>2
  <2> QED BY <1>2, <1>5, <1>7, <2>1, Zenon DEF IInv
<1>10. branch'[Len(branch')] # NoNode
  <2>1. branch'[n] = {ins.node}
    BY <1>2, <1>4
  <2> QED BY <1>7, <2>1, Zenon DEF NoNode
<1> QED BY <1>1, <1>8, <1>9, <1>10, Zenon DEF IInv, NodeSound, Proves

\* A finished tree is written as the depths and scripts of its leaves, and the
\* builder that reads them starts empty (TapTree's Serialize).
LEMMA SerializeKeeps ==
  ASSUME IInv, Serialize
  PROVE  IInv'
<1>1. CASE UNCHANGED <<branch, added, feed, source>> /\ status' \in Statuses
  BY <1>1, Zenon DEF Serialize, IInv, BuilderTypeOK, NodeSound, Proves, Idle
<1>2. CASE \E node \in branch[1] :
             /\ Len(branch) = 1
             /\ feed' = [i \in DOMAIN node.leaves |->
                           [depth |-> Len(node.leaves[i].proof), script |-> node.leaves[i].script]]
             /\ branch' = <<>> /\ status' = "ok"
  <2>1. PICK node \in branch[1] :
             /\ Len(branch) = 1
             /\ feed' = [i \in DOMAIN node.leaves |->
                           [depth |-> Len(node.leaves[i].proof), script |-> node.leaves[i].script]]
             /\ branch' = <<>> /\ status' = "ok"
    BY <1>2, Zenon
  <2>2. node \in NodeInfo
    <3>1. 1 \in DOMAIN branch /\ branch \in Seq(SUBSET NodeInfo)
      BY <2>1 DEF IInv, BuilderTypeOK
    <3>2. branch[1] \subseteq NodeInfo
      BY <3>1
    <3> QED BY <3>2, Zenon
  <2>3. node.leaves \in Seq(LeafNode)
    BY <2>2, Zenon DEF NodeInfo
  <2>4. ASSUME NEW i \in DOMAIN node.leaves
        PROVE  [depth |-> Len(node.leaves[i].proof), script |-> node.leaves[i].script] \in FeedItem
    <3>1. node.leaves[i] \in LeafNode
      BY <2>3
    <3> QED BY <3>1 DEF LeafNode, FeedItem
  <2>5. feed' \in Seq(FeedItem)
    <3>1. DOMAIN node.leaves = 1 .. Len(node.leaves) /\ Len(node.leaves) \in Nat
      BY <2>3
    <3>2. feed' \in [DOMAIN node.leaves -> FeedItem]
      BY <2>1, <2>4, Zenon
    <3> QED BY <3>1, <3>2
  <2> QED BY <2>1, <2>5 DEF Serialize, IInv, BuilderTypeOK, Idle, Statuses
<1> QED BY <1>1, <1>2, Zenon DEF Serialize, Statuses

\* One leaf of TapTree::deserialize.
LEMMA ReadLeafKeeps ==
  ASSUME IInv, ReadLeaf
  PROVE  IInv'
<1>1. feed \in Seq(FeedItem) /\ feed # <<>>
  BY Zenon DEF IInv, ReadLeaf
<1>2. Head(feed) \in FeedItem /\ Tail(feed) \in Seq(FeedItem)
  BY <1>1
<1>3. Head(feed).script \in Script /\ Head(feed).depth \in Nat
  BY <1>2, Zenon DEF FeedItem
<1>4. NewLeaf(Head(feed).script) \in NodeInfo
  BY <1>3, LeafSound, TreeConstants
<1>5. Head(feed).depth <= MaxDepth => NodeSound(NewLeaf(Head(feed).script), Head(feed).depth)
  BY <1>3, LeafSound, TreeConstants
<1>6. feed' \in Seq(FeedItem)
  BY <1>2 DEF ReadLeaf
<1> QED BY <1>3, <1>4, <1>5, <1>6, StartKeeps, Zenon DEF ReadLeaf
-----------------------------------------------------------------------------
\* A new builder.
LEMMA Initially ==
  BuilderInit => IInv
BY DEF BuilderInit, IInv, BuilderTypeOK, Statuses, Idle

\* One step per call, and per turn of the loop of insert.
LEMMA Inductive ==
  IInv /\ [BuilderNext]_builderVars => IInv'
<1> SUFFICES ASSUME IInv, [BuilderNext]_builderVars
             PROVE  IInv'
  BY Zenon
<1>1. ASSUME NEW depth \in 0 .. MaxDepth + 1, NEW s \in LeafScript, AddLeaf(s, depth)
      PROVE  IInv'
  <2>1. s \in Script /\ depth \in Nat /\ feed' \in Seq(FeedItem)
    BY <1>1, BuilderConstants, TreeConstants DEF AddLeaf, IInv
  <2>2. NewLeaf(s) \in NodeInfo /\ (depth <= MaxDepth => NodeSound(NewLeaf(s), depth))
    BY <2>1, LeafSound, TreeConstants
  <2> QED BY <1>1, <2>1, <2>2, StartKeeps, Zenon DEF AddLeaf
<1>2. ASSUME NEW depth \in 0 .. MaxDepth + 1, NEW h \in HiddenHash, AddHidden(h, depth)
      PROVE  IInv'
  <2>1. h \in Hash /\ depth \in Nat /\ feed' \in Seq(FeedItem)
    BY <1>2, BuilderConstants, TreeConstants DEF AddHidden, IInv
  <2>2. NewHidden(h) \in NodeInfo /\ NodeSound(NewHidden(h), depth)
    BY <2>1, HiddenSound, Zenon
  <2> QED BY <1>2, <2>1, <2>2, StartKeeps, Zenon DEF AddHidden
<1>3. CASE Climb
  BY <1>3, ClimbKeeps, Zenon
<1>4. CASE Place
  BY <1>4, PlaceKeeps, Zenon
<1>5. CASE Serialize
  BY <1>5, SerializeKeeps, Zenon
<1>6. CASE ReadLeaf
  BY <1>6, ReadLeafKeeps, Zenon
<1>7. CASE New
  BY <1>7 DEF New, IInv, BuilderTypeOK, Statuses, Idle
<1>8. CASE UNCHANGED builderVars
  BY <1>8, Zenon DEF builderVars, IInv, BuilderTypeOK, NodeSound, Proves, Idle
<1> QED BY <1>1, <1>2, <1>3, <1>4, <1>5, <1>6, <1>7, <1>8, Zenon DEF BuilderNext

\* The invariant says what the unwraps and the proofs rely on.
LEMMA Implied ==
  IInv => BranchSound /\ LeavesProven
<1> SUFFICES ASSUME IInv PROVE BranchSound /\ LeavesProven
  BY Zenon
<1>1. ASSUME NEW ins \in pending, NEW child \in Sibling(ins.depth), ins.depth > 0
      PROVE  ~CombineFails(ins.node, child)
  <2>1. /\ ins.depth \in Nat \ {0} /\ ins.node \in NodeInfo /\ NodeSound(ins.node, ins.depth)
        /\ branch \in Seq(SUBSET NodeInfo)
    BY <1>1, TreeConstants DEF IInv, BuilderTypeOK
  <2>2. ins.depth + 1 \in DOMAIN branch /\ child \in branch[ins.depth + 1]
    BY <1>1, <2>1 DEF Sibling, NoNode
  <2>3. child \in NodeInfo /\ NodeSound(child, ins.depth)
    <3>1. NodeSound(child, (ins.depth + 1) - 1)
      BY <2>2, Zenon DEF IInv
    <3> QED BY <2>1, <2>2, <3>1
  <2> QED BY <2>1, <2>3, CombineSound, Zenon
<1>2. \A i \in DOMAIN branch : \A node \in branch[i] : \A l \in DOMAIN node.leaves :
        i - 1 + Len(node.leaves[l].proof) <= MaxDepth /\ Proves(node.leaves[l], node.hash)
  BY Zenon DEF IInv, NodeSound
<1> QED BY <1>1, <1>2, Zenon DEF IInv, BranchSound, Levels, DepthOf, LeavesProven

\* For every depth limit, every set of scripts and any hash function: between
\* calls the branch of a builder ends in a node, so that the unwraps of finalize
\* and try_into_node_info succeed, and no push inside insert's loop fails.
THEOREM BranchAlwaysSound == BuilderSpec => []BranchSound
<1>1. BuilderSpec => []IInv
  BY Initially, Inductive, PTL DEF BuilderSpec
<1> QED BY <1>1, Implied, PTL

\* Every leaf of every subtree that a builder holds, built by a caller or read
\* from a PSBT, carries a proof that verify_taproot_commitment would follow to
\* the hash of the subtree.
THEOREM LeavesAlwaysProven == BuilderSpec => []LeavesProven
<1>1. BuilderSpec => []IInv
  BY Initially, Inductive, PTL DEF BuilderSpec
<1> QED BY <1>1, Implied, PTL

-----------------------------------------------------------------------------
(* Control blocks.  That a script has one needs to know where its leaf is. *)

\* The script is a leaf of this node, which is at this depth, at the depth d.
LeafAt(node, depth, s, d) ==
  \E l \in DOMAIN node.leaves : /\ node.leaves[l].script = s
                                /\ depth + Len(node.leaves[l].proof) = d

AddedItem == [depth : Nat, hash : Hash, script : SUBSET Script]

InBranch(s, d) == \E i \in DOMAIN branch : \E node \in branch[i] : LeafAt(node, i - 1, s, d)
InPending(s, d) == \E ins \in pending : LeafAt(ins.node, ins.depth, s, d)

\* Each script that was added is a leaf of a subtree, at the depth it was
\* added with, or of the node that insert holds.
Placed ==
  /\ added \in Seq(AddedItem)
  /\ \A n \in DOMAIN added : \A s \in added[n].script :
       InBranch(s, added[n].depth) \/ InPending(s, added[n].depth)

\* A leaf of either of two nodes is a leaf of their parent, one level deeper.
LEMMA CombinedLeaf ==
  ASSUME NEW a \in NodeInfo, NEW b \in NodeInfo, NEW depth \in Nat \ {0}, NEW s, NEW d,
         LeafAt(a, depth, s, d) \/ LeafAt(b, depth, s, d)
  PROVE  LeafAt(CombineNodes(a, b), depth - 1, s, d)
<1> DEFINE c == CombineNodes(a, b)
           mine == PushAll(a.leaves, b.hash)
           theirs == PushAll(b.leaves, a.hash)
           Is(leaf) == leaf.script = s /\ depth - 1 + Len(leaf.proof) = d
<1>1. a.leaves \in Seq(LeafNode) /\ b.leaves \in Seq(LeafNode)
  BY Zenon DEF NodeInfo
<1>2. ASSUME NEW leaves \in Seq(LeafNode), NEW h, NEW l \in DOMAIN leaves,
             leaves[l].script = s, depth + Len(leaves[l].proof) = d
      PROVE  l \in DOMAIN PushAll(leaves, h) /\ Is(PushAll(leaves, h)[l])
  <2>1. leaves[l] \in LeafNode
    OBVIOUS
  <2>2. leaves[l].proof \in Seq(Hash)
    BY <2>1, Zenon DEF LeafNode
  <2>3. Len(Append(leaves[l].proof, h)) = Len(leaves[l].proof) + 1 /\ Len(leaves[l].proof) \in Nat
    BY <2>2
  <2>4. PushAll(leaves, h)[l] = [script |-> s, proof |-> Append(leaves[l].proof, h)]
    BY <1>2, Zenon DEF PushAll
  <2>5. l \in DOMAIN PushAll(leaves, h)
    BY Zenon DEF PushAll
  <2>. QED  BY <1>2, <2>3, <2>4, <2>5
<1>3. (\E k \in DOMAIN mine : Is(mine[k])) \/ (\E k \in DOMAIN theirs : Is(theirs[k]))
  <2> HIDE DEF Is
  <2>. QED  BY <1>1, <1>2, Zenon DEF LeafAt
<1>4. /\ Len(mine) \in Nat /\ DOMAIN mine = 1 .. Len(mine)
      /\ Len(theirs) \in Nat /\ DOMAIN theirs = 1 .. Len(theirs)
  <2>1. ASSUME NEW leaves \in Seq(LeafNode), NEW h
        PROVE  PushAll(leaves, h) \in Seq({PushAll(leaves, h)[l] : l \in DOMAIN leaves})
    <3>1. DOMAIN leaves = 1 .. Len(leaves) /\ Len(leaves) \in Nat
      OBVIOUS
    <3>2. PushAll(leaves, h) \in [DOMAIN leaves -> {PushAll(leaves, h)[l] : l \in DOMAIN leaves}]
      BY Zenon DEF PushAll
    <3>. QED  BY <3>1, <3>2, SMTT(40)
  <2>2. /\ mine \in Seq({mine[l] : l \in DOMAIN a.leaves})
        /\ theirs \in Seq({theirs[l] : l \in DOMAIN b.leaves})
    BY <1>1, <2>1, Zenon
  <2> HIDE DEF mine, theirs
  <2>. QED  BY <2>2
<1>5. c.leaves = mine \o theirs \/ c.leaves = theirs \o mine
  BY Zenon DEF CombineNodes
<1> HIDE DEF mine, theirs, Is, c
<1>6. ASSUME NEW x, NEW y, Len(x) \in Nat, DOMAIN x = 1 .. Len(x),
             Len(y) \in Nat, DOMAIN y = 1 .. Len(y),
             (\E k \in DOMAIN x : Is(x[k])) \/ (\E k \in DOMAIN y : Is(y[k]))
      PROVE  \E l \in DOMAIN (x \o y) : Is((x \o y)[l])
  <2>1. DOMAIN (x \o y) = 1 .. Len(x) + Len(y)
    BY <1>6
  <2>2. ASSUME NEW k \in DOMAIN x, Is(x[k]) PROVE \E l \in DOMAIN (x \o y) : Is((x \o y)[l])
    <3>1. k \in DOMAIN (x \o y) /\ (x \o y)[k] = x[k]
      BY <1>6, <2>1
    <3>. QED  BY <2>2, <3>1, Zenon
  <2>3. ASSUME NEW k \in DOMAIN y, Is(y[k]) PROVE \E l \in DOMAIN (x \o y) : Is((x \o y)[l])
    <3>1. k + Len(x) \in DOMAIN (x \o y) /\ (x \o y)[k + Len(x)] = y[k]
      BY <1>6, <2>1
    <3>. QED  BY <2>3, <3>1, Zenon
  <2>. QED  BY <1>6, <2>2, <2>3, Zenon
<1>7. \E l \in DOMAIN c.leaves : Is(c.leaves[l])
  BY <1>3, <1>4, <1>5, <1>6, Zenon
<1>. QED  BY <1>7, Zenon DEF LeafAt, Is, c

\* insert's checks let a leaf in at the depth it was given.
LEMMA StartPlaces ==
  ASSUME Placed, NEW node \in NodeInfo, NEW depth \in Nat, NEW script \in SUBSET Script,
         \A s \in script : LeafAt(node, depth, s, depth), Start(node, depth, script)
  PROVE  Placed'
<1>1. CASE Fail("InvalidMerkleTreeDepth") \/ Fail("NodeNotInDfsOrder")
  <2>1. added' = <<>>
    BY <1>1, Zenon DEF Fail
  <2>. QED  BY <2>1 DEF Placed
<1>2. CASE /\ pending = {} /\ pending' = {[node |-> node, depth |-> depth]}
           /\ added' = Append(added, [depth |-> depth, hash |-> node.hash, script |-> script])
           /\ UNCHANGED branch
  <2> DEFINE item == [depth |-> depth, hash |-> node.hash, script |-> script]
  <2>1. item \in AddedItem /\ added \in Seq(AddedItem)
    BY Zenon DEF AddedItem, NodeInfo, Placed
  <2>2. added' \in Seq(AddedItem)
    BY <1>2, <2>1
  <2>3. ASSUME NEW n \in DOMAIN added', NEW s \in added'[n].script
        PROVE  (InBranch(s, added[n].depth) \/ InPending(s, added[n].depth))'
    <3>1. CASE n \in DOMAIN added /\ added'[n] = added[n]
      <4>1. s \in added[n].script
        BY <2>3, <3>1, Zenon
      <4>2. InBranch(s, added[n].depth)
        BY <1>2, <3>1, <4>1, Zenon DEF Placed, InPending
      <4>. QED  BY <1>2, <3>1, <4>2, Zenon DEF InBranch
    <3>2. CASE added'[n] = item
      <4>1. LeafAt(node, depth, s, depth)
        BY <2>3, <3>2
      <4>2. [node |-> node, depth |-> depth] \in pending'
        BY <1>2, Zenon
      <4>3. InPending(s, depth)'
        BY <4>1, <4>2, Zenon DEF InPending
      <4>. QED  BY <3>2, <4>3
    <3>3. (n \in DOMAIN added /\ added'[n] = added[n]) \/ added'[n] = item
      <4> HIDE DEF item
      <4>1. added' = Append(added, item)
        BY <1>2, Zenon DEF item
      <4>. QED  BY <2>1, <4>1
    <3>. QED  BY <3>1, <3>2, <3>3, Zenon
  <2>. QED  BY <2>2, <2>3, Zenon DEF Placed
<1>. QED  BY <1>1, <1>2, Zenon DEF Start

\* A new leaf is where it was added.
LEMMA NewLeafAt ==
  ASSUME NEW s, NEW depth \in Nat
  PROVE  \A t \in {s} : LeafAt(NewLeaf(s), depth, t, depth)
<1> DEFINE leaves == <<[script |-> s, proof |-> <<>>]>>
<1>1. NewLeaf(s).leaves = leaves
  BY Zenon DEF NewLeaf
<1>2. 1 \in DOMAIN leaves /\ leaves[1].script = s /\ Len(leaves[1].proof) = 0
  OBVIOUS
<1> HIDE DEF leaves
<1>3. LeafAt(NewLeaf(s), depth, s, depth)
  BY <1>1, <1>2 DEF LeafAt
<1>. QED  BY <1>3, Zenon

\* One round of insert's loop moves the leaves of two subtrees into one.
LEMMA ClimbPlaces ==
  ASSUME IInv, Placed, Climb
  PROVE  Placed'
<1>0. PICK ins \in pending : \E child \in Sibling(ins.depth) :
        \/ \E e : Fail(e)
        \/ /\ ins.depth > 0
           /\ branch' = SubSeq(branch, 1, Len(branch) - 1)
           /\ pending' = {[node |-> CombineNodes(ins.node, child), depth |-> ins.depth - 1]}
           /\ UNCHANGED added
  BY Zenon DEF Climb
<1>1. PICK child \in Sibling(ins.depth) :
        \/ \E e : Fail(e)
        \/ /\ ins.depth > 0
           /\ branch' = SubSeq(branch, 1, Len(branch) - 1)
           /\ pending' = {[node |-> CombineNodes(ins.node, child), depth |-> ins.depth - 1]}
           /\ UNCHANGED added
  BY <1>0, Zenon
<1>2. CASE \E e : Fail(e)
  BY <1>2 DEF Fail, Placed
<1>3. CASE /\ ins.depth > 0
           /\ branch' = SubSeq(branch, 1, Len(branch) - 1)
           /\ pending' = {[node |-> CombineNodes(ins.node, child), depth |-> ins.depth - 1]}
           /\ UNCHANGED added
  <2> DEFINE d == ins.depth
             both == CombineNodes(ins.node, child)
  <2>1. /\ branch \in Seq(SUBSET NodeInfo) /\ Len(branch) = d + 1
        /\ d \in Nat \ {0} /\ ins.node \in NodeInfo
    BY <1>1, <1>3, TreeConstants DEF IInv, BuilderTypeOK, Sibling, NoNode
  <2>2. d + 1 \in DOMAIN branch /\ child \in branch[d + 1] /\ child \in NodeInfo
    BY <1>1, <2>1 DEF Sibling, NoNode
  <2>3. DOMAIN branch = 1 .. d + 1 /\ DOMAIN branch' = 1 .. d
        /\ \A k \in 1 .. d : branch'[k] = branch[k]
    BY <1>3, <2>1
  <2>4. ASSUME NEW s, NEW at, InBranch(s, at) \/ InPending(s, at)
        PROVE  InBranch(s, at)' \/ InPending(s, at)'
    <3>1. ASSUME LeafAt(ins.node, d, s, at) \/ LeafAt(child, d, s, at)
          PROVE  InPending(s, at)'
      <4>1. LeafAt(both, d - 1, s, at)
        BY <2>1, <2>2, <3>1, CombinedLeaf, Zenon
      <4>2. [node |-> both, depth |-> d - 1] \in pending'
        BY <1>3, Zenon
      <4>. QED  BY <4>1, <4>2, Zenon DEF InPending
    <3>2. CASE InPending(s, at)
      <4>1. LeafAt(ins.node, d, s, at)
        BY <3>2, Zenon DEF InPending, IInv, BuilderTypeOK
      <4>. QED  BY <3>1, <4>1, Zenon
    <3>3. CASE InBranch(s, at)
      <4>0. PICK i \in DOMAIN branch : \E node \in branch[i] : LeafAt(node, i - 1, s, at)
        BY <3>3, Zenon DEF InBranch
      <4>1. PICK node \in branch[i] : LeafAt(node, i - 1, s, at)
        BY <4>0, Zenon
      <4>2. CASE i = d + 1
        <5>1. node = child
          BY <2>2, <4>2, Zenon DEF IInv, BuilderTypeOK
        <5>2. i - 1 = d
          BY <2>1, <4>2
        <5>. QED  BY <3>1, <4>1, <5>1, <5>2, Zenon
      <4>3. CASE i # d + 1
        <5>1. i \in DOMAIN branch' /\ node \in branch'[i]
          BY <2>1, <2>3, <4>3
        <5>. QED  BY <4>1, <5>1, Zenon DEF InBranch
      <4>. QED  BY <4>2, <4>3, Zenon
    <3>. QED  BY <2>4, <3>2, <3>3, Zenon
  <2> HIDE DEF d, both
  <2>. QED  BY <1>3, <2>4, Zenon DEF Placed
<1>. QED  BY <1>1, <1>2, <1>3, Zenon

\* The end of insert puts the node where nothing is.
LEMMA PlacePlaces ==
  ASSUME IInv, Placed, Place
  PROVE  Placed'
<1>1. PICK ins \in pending :
        /\ Sibling(ins.depth) = NoNode
        /\ branch' = [i \in DOMAIN branch \cup 1 .. ins.depth + 1 |->
                        IF i = ins.depth + 1 THEN {ins.node}
                        ELSE IF i \in DOMAIN branch THEN branch[i] ELSE NoNode]
        /\ UNCHANGED added
  BY Zenon DEF Place
<1> DEFINE d == ins.depth
<1>2. d \in Nat /\ Len(branch) <= d + 1 /\ branch \in Seq(SUBSET NodeInfo)
  BY TreeConstants DEF IInv, BuilderTypeOK
<1>3. ASSUME NEW s, NEW at, InBranch(s, at) \/ InPending(s, at)
      PROVE  InBranch(s, at)'
  <2>1. CASE InPending(s, at)
    <3>1. LeafAt(ins.node, d, s, at)
      BY <2>1, Zenon DEF InPending, IInv, BuilderTypeOK
    <3>2. d + 1 \in DOMAIN branch' /\ branch'[d + 1] = {ins.node} /\ (d + 1) - 1 = d
      BY <1>1, <1>2
    <3>. QED  BY <3>1, <3>2, Zenon DEF InBranch
  <2>2. CASE InBranch(s, at)
    <3>0. PICK i \in DOMAIN branch : \E node \in branch[i] : LeafAt(node, i - 1, s, at)
      BY <2>2, Zenon DEF InBranch
    <3>1. PICK node \in branch[i] : LeafAt(node, i - 1, s, at)
      BY <3>0, Zenon
    <3>2. i # d + 1
      <4>1. CASE i = d + 1
        <5>1. Len(branch) = d + 1
          BY <1>2, <4>1
        <5>. QED  BY <1>1, <3>1, <4>1, <5>1, Zenon DEF Sibling, NoNode
      <4>. QED  BY <4>1, Zenon
    <3>3. i \in DOMAIN branch' /\ branch'[i] = branch[i]
      BY <1>1, <3>2, Zenon
    <3>. QED  BY <3>1, <3>3, Zenon DEF InBranch
  <2>. QED  BY <1>3, <2>1, <2>2, Zenon
<1> HIDE DEF d
<1>. QED  BY <1>1, <1>3, Zenon DEF Placed

\* Every step of the builder keeps the leaves where they were added.
LEMMA PlacedStep ==
  ASSUME IInv, Placed, [BuilderNext]_builderVars
  PROVE  Placed'
<1>1. ASSUME NEW depth \in 0 .. MaxDepth + 1, NEW s \in LeafScript, AddLeaf(s, depth)
      PROVE  Placed'
  <2>1. s \in Script /\ depth \in Nat /\ {s} \in SUBSET Script
    BY BuilderConstants, TreeConstants
  <2>2. NewLeaf(s) \in NodeInfo
    BY <2>1, LeafSound, TreeConstants
  <2>. QED  BY <1>1, <2>1, <2>2, NewLeafAt, StartPlaces DEF AddLeaf
<1>2. ASSUME NEW depth \in 0 .. MaxDepth + 1, NEW h \in HiddenHash, AddHidden(h, depth)
      PROVE  Placed'
  <2>1. h \in Hash /\ depth \in Nat
    BY BuilderConstants, TreeConstants
  <2>2. NewHidden(h) \in NodeInfo /\ \A s \in {} : LeafAt(NewHidden(h), depth, s, depth)
    BY <2>1, HiddenSound, Zenon
  <2>. QED  BY <1>2, <2>1, <2>2, StartPlaces DEF AddHidden
<1>3. CASE Serialize
  <2>1. CASE added' = <<>>
    BY <2>1 DEF Placed
  <2>2. CASE UNCHANGED <<branch, added, pending>>
    BY <2>2, Zenon DEF Placed, InBranch, InPending
  <2>. QED  BY <1>3, <2>1, <2>2, Zenon DEF Serialize
<1>4. CASE ReadLeaf
  <2>1. Head(feed) \in FeedItem
    BY <1>4 DEF IInv, ReadLeaf
  <2>2. /\ Head(feed).script \in Script /\ Head(feed).depth \in Nat
        /\ {Head(feed).script} \in SUBSET Script
    BY <2>1, Zenon DEF FeedItem
  <2>3. NewLeaf(Head(feed).script) \in NodeInfo
    BY <2>2, LeafSound, TreeConstants
  <2>. QED  BY <1>4, <2>2, <2>3, NewLeafAt, StartPlaces DEF ReadLeaf
<1>5. CASE New
  BY <1>5 DEF New, Placed
<1>6. CASE UNCHANGED builderVars
  BY <1>6, Zenon DEF builderVars, Placed, InBranch, InPending
<1>. QED
  BY <1>1, <1>2, <1>3, <1>4, <1>5, <1>6, ClimbPlaces, PlacePlaces, Zenon DEF BuilderNext

\* What is in a sequence is of its type.
LEMMA Element ==
  ASSUME NEW T, NEW q \in Seq(T), NEW i \in DOMAIN q
  PROVE  q[i] \in T
OBVIOUS

\* The loop of verify_taproot_commitment ends where a walk ends.
LEMMA WalkEnds ==
  ASSUME NEW h, NEW proof \in Seq(Hash), NEW r, NEW w, Walk(w, h, proof, r)
  PROVE  ProvenRoot(h, proof) = r
<1> DEFINE N == Len(proof)
           Loop(f) == f = [n \in 0 .. N |-> IF n = 0 THEN h ELSE Join(f[n - 1], proof[n])]
           root == CHOOSE f : Loop(f)
<1>1. ProvenRoot(h, proof) = root[N]
  BY Zenon DEF ProvenRoot
<1>2. N \in Nat
  OBVIOUS
<1>3. Loop(w)
  BY <1>2 DEF Walk
<1>4. Loop(root)
  BY <1>3, Zenon
<1> HIDE DEF root
<1> DEFINE S == {n \in 0 .. N : root[n] = w[n]}
<1>5. 0 \in S
  BY <1>2, <1>3, <1>4
<1>6. ASSUME NEW n \in 1 .. N, n - 1 \in S
      PROVE  n \in S
  <2>1. root[n] = Join(root[n - 1], proof[n])
    BY <1>2, <1>4
  <2>2. w[n] = Join(w[n - 1], proof[n])
    BY <1>2, <1>3
  <2>. QED  BY <1>6, <2>1, <2>2
<1>7. \A n \in 0 .. N : n \in S
  <2> HIDE DEF S
  <2>1. \A n \in 1 .. N : n - 1 \in S => n \in S
    BY <1>6, Zenon
  <2>. QED  BY <1>2, <1>5, <2>1, UpTo, Zenon
<1>8. root[N] = w[N]
  BY <1>2, <1>7
<1>. QED  BY <1>1, <1>8, Zenon DEF Walk

\* A script that is a leaf at this depth has a control block, none is longer
\* than the depth, and each is the proof of a leaf of that script
\* (from_node_info, control_block).
LEMMA ShortestProof ==
  ASSUME NEW node \in NodeInfo, NEW s, NEW d, LeafAt(node, 0, s, d)
  PROVE  /\ ControlBlocks(ScriptMap(node), s) # {}
         /\ \A p \in ControlBlocks(ScriptMap(node), s) :
              /\ Len(p) <= d
              /\ \E l \in DOMAIN node.leaves :
                   node.leaves[l].script = s /\ node.leaves[l].proof = p
<1> DEFINE proofs == {node.leaves[i].proof :
                        i \in {j \in DOMAIN node.leaves : node.leaves[j].script = s}}
           lengths == {Len(p) : p \in proofs}
<1>1. PICK l \in DOMAIN node.leaves : /\ node.leaves[l].script = s
                                      /\ 0 + Len(node.leaves[l].proof) = d
  BY Zenon DEF LeafAt
<1>2. ScriptMap(node)[s] = proofs
  <2>1. s \in {node.leaves[i].script : i \in DOMAIN node.leaves}
    BY <1>1, Zenon
  <2>. QED  BY <2>1, Zenon DEF ScriptMap
<1>3. \A j \in DOMAIN node.leaves : node.leaves[j].proof \in Seq(Hash)
  <2>1. node.leaves \in Seq(LeafNode)
    BY Zenon DEF NodeInfo
  <2> HIDE DEF proofs
  <2>2. \A j \in DOMAIN node.leaves : node.leaves[j] \in LeafNode
    BY <2>1, Element, Zenon
  <2>. QED  BY <2>2, Zenon DEF LeafNode
<1>4. \A p \in proofs : Len(p) \in Nat
  BY <1>3
<1>5. node.leaves[l].proof \in proofs /\ Len(node.leaves[l].proof) = d
  BY <1>1, <1>3
<1>6. \A p \in proofs : \E k \in DOMAIN node.leaves :
                          node.leaves[k].script = s /\ node.leaves[k].proof = p
  BY Zenon
<1> HIDE DEF proofs
<1>7. lengths \in SUBSET Nat /\ lengths # {}
  BY <1>4, <1>5, Zenon
<1>8. PICK n \in lengths : \A m \in lengths : n <= m
  <2> HIDE DEF lengths
  <2>. QED  BY <1>7, LeastElement, Zenon
<1>9. PICK p \in proofs : Len(p) = n
  BY <1>8, Zenon
<1>10. ControlBlocks(ScriptMap(node), s) = {q \in proofs : \A r \in proofs : Len(q) <= Len(r)}
  BY <1>2, Zenon DEF ControlBlocks
<1>11. \A r \in proofs : Len(p) <= Len(r)
  BY <1>8, <1>9, Zenon
<1>. QED  BY <1>5, <1>6, <1>9, <1>10, <1>11, Zenon

\* In a finished tree every added script is a leaf of the root node, at the
\* depth it was added with, so that its control blocks are proofs of it.
LEMMA BlocksImplied == IInv /\ Placed => ControlBlocksProve
<1> SUFFICES ASSUME IInv, Placed, Idle, Len(branch) = 1,
                    NEW node \in branch[1], NEW n \in DOMAIN added, NEW s \in added[n].script
             PROVE  /\ ControlBlocks(ScriptMap(node), s) # {}
                    /\ \A p \in ControlBlocks(ScriptMap(node), s) :
                         /\ ProvenRoot(LeafHash[s], p) = node.hash
                         /\ Len(p) <= added[n].depth
  BY Zenon DEF ControlBlocksProve
<1>1. branch \in Seq(SUBSET NodeInfo) /\ DOMAIN branch = {1}
  BY DEF IInv, BuilderTypeOK
<1>2. node \in NodeInfo /\ \A x \in branch[1] : x = node
  <2>1. branch[1] \in SUBSET NodeInfo
    BY <1>1, Element, Zenon
  <2>2. \A x, y \in branch[1] : x = y
    BY <1>1, Zenon DEF IInv, BuilderTypeOK
  <2>. QED  BY <2>1, <2>2, Zenon
<1>3. InBranch(s, added[n].depth)
  BY Zenon DEF Placed, InPending, Idle
<1>4. LeafAt(node, 0, s, added[n].depth)
  <2>1. \E x \in branch[1] : LeafAt(x, 1 - 1, s, added[n].depth)
    BY <1>1, <1>3, Zenon DEF InBranch
  <2>. QED  BY <1>2, <2>1
<1>5. \A l \in DOMAIN node.leaves : Proves(node.leaves[l], node.hash)
  BY <1>1, Zenon DEF IInv, NodeSound
<1>6. ASSUME NEW l \in DOMAIN node.leaves, node.leaves[l].script = s
      PROVE  ProvenRoot(LeafHash[s], node.leaves[l].proof) = node.hash
  <2>0. node.leaves \in Seq(LeafNode)
    BY <1>2, Zenon DEF NodeInfo
  <2>1. node.leaves[l] \in LeafNode
    BY <2>0, Element, Zenon
  <2>2. PICK w : Walk(w, LeafHash[s], node.leaves[l].proof, node.hash)
    BY <1>5, <1>6, Zenon DEF Proves
  <2>3. node.leaves[l].proof \in Seq(Hash)
    BY <2>1, Zenon DEF LeafNode
  <2>. QED  BY <2>2, <2>3, WalkEnds, Zenon
<1>. QED  BY <1>2, <1>4, <1>6, ShortestProof

\* For every depth limit, any scripts and any hash function: each script of a
\* finished tree has a control block, each one that control_block may return
\* proves it against the merkle root, and is no longer than the depth at which
\* the script was added (add_leaf, TaprootSpendInfo::control_block,
\* ControlBlock::verify_taproot_commitment).
THEOREM ControlBlocksAlwaysProve == BuilderSpec => []ControlBlocksProve
<1>1. BuilderInit => IInv /\ Placed
  BY Initially DEF BuilderInit, Placed
<1>2. (IInv /\ Placed) /\ [BuilderNext]_builderVars => (IInv /\ Placed)'
  BY Inductive, PlacedStep, Zenon
<1>. QED  BY <1>1, <1>2, BlocksImplied, PTL DEF BuilderSpec
==============================================================================
