--------------------------- MODULE TaprootHuffman ---------------------------
(***************************************************************************)
(* TaprootBuilder::with_huffman_tree beside the calls of TaprootBuilder: a *)
(* heap of weighted subtrees whose two lightest are combined until one is  *)
(* left, which is then a finished builder.  Of subtrees with equal weight  *)
(* the heap pops the greatest NodeInfo first; hashes being arbitrary, the  *)
(* model lets either come first.                                           *)
(***************************************************************************)
EXTENDS TaprootBuilder, FiniteSetsExt

CONSTANTS
  Weight,    \* weights callers pass
  WeightMax  \* u32::MAX, scaled down

ASSUME HuffmanConstants == WeightMax \in Nat /\ Weight \subseteq 0 .. WeightMax

VARIABLES
  weights,   \* script_weights, as a function on the scripts passed
  heap       \* node_weights: [weight, node]; {} when the call is not running

huffmanVars == <<weights, heap>>
allVars == <<builderVars, huffmanVars>>

NoWeights == <<>>

WithHuffmanTree(w) ==
  /\ branch = <<>> /\ pending = {} /\ feed = <<>> /\ source = {} /\ heap = {}
  /\ \/ DOMAIN w = {} /\ status' = "EmptyTree" /\ UNCHANGED huffmanVars
     \/ /\ DOMAIN w # {}
        /\ weights' = w
        /\ heap' = {[weight |-> w[s], node |-> NewLeaf(s)] : s \in DOMAIN w}
        /\ status' = "ok"
  /\ UNCHANGED <<branch, pending, added, feed, source>>

SaturatingAdd(p, q) == IF p + q > WeightMax THEN WeightMax ELSE p + q

\* A mutant: of the remaining entries any is taken as the second.
LightestFirstOnly(rest) == rest

Lightest(rest) == {e \in rest : \A f \in rest : e.weight <= f.weight}

\* One round of the loop.
CombineLightest ==
  /\ Cardinality(heap) > 1
  /\ \E e1 \in Lightest(heap) : \E e2 \in Lightest(heap \ {e1}) :
       IF CombineFails(e1.node, e2.node)
       THEN Fail("InvalidMerkleTreeDepth") /\ heap' = {} /\ weights' = NoWeights
       ELSE /\ heap' = (heap \ {e1, e2})
                         \cup {[weight |-> SaturatingAdd(e1.weight, e2.weight),
                                node |-> CombineNodes(e1.node, e2.node)]}
            /\ UNCHANGED <<builderVars, weights>>

\* The last entry becomes the builder's only one.  For the record, its leaves
\* count as the nodes the builder has taken.
Finish ==
  /\ Cardinality(heap) = 1
  /\ \E e \in heap :
       /\ branch' = <<{e.node}>>
       /\ added' = [i \in DOMAIN e.node.leaves |->
                      [depth |-> Len(e.node.leaves[i].proof),
                       hash |-> LeafHash[e.node.leaves[i].script],
                       script |-> {e.node.leaves[i].script}]]
  /\ heap' = {} /\ weights' = NoWeights
  /\ status' = "ok"
  /\ UNCHANGED <<pending, feed, source>>

HuffmanStep == CombineLightest \/ Finish

AllInit == BuilderInit /\ weights = NoWeights /\ heap = {}

\* While with_huffman_tree runs the builder does not exist yet.
AllNext ==
  \/ heap = {} /\ BuilderNext /\ UNCHANGED huffmanVars
  \/ \E scripts \in SUBSET Script : \E w \in [scripts -> Weight] : WithHuffmanTree(w)
  \/ HuffmanStep

\* A call that has started runs to its end.
AllSpec == AllInit /\ [][AllNext]_allVars /\ WF_allVars(HuffmanStep)

-----------------------------------------------------------------------------
\* The depths the finished tree gives the scripts, and their weighted sum.
DepthIn(node, s) ==
  Len(node.leaves[CHOOSE i \in DOMAIN node.leaves : node.leaves[i].script = s].proof)
Cost(depth) == MapThenSumSet(LAMBDA s : weights[s] * depth[s], DOMAIN weights)

\* The depths that some binary tree gives n leaves: 2^-depth adds up to one.
FullDepths(scripts) ==
  LET n == Cardinality(scripts)
  IN  {depth \in [scripts -> 0 .. n - 1] :
         MapThenSumSet(LAMBDA s : 2 ^ (n - depth[s]), scripts) = 2 ^ n}

\* The tree with_huffman_tree returns is "the optimal way to minimize average
\* case satisfaction cost": no tree over the scripts has a smaller weighted
\* depth, as long as the weights do not saturate, however ties are broken.
HuffmanOptimal ==
  Cardinality(heap) = 1
  /\ MapThenSumSet(LAMBDA s : weights[s], DOMAIN weights) <= WeightMax
  => \A e \in heap :
       LET mine == [s \in DOMAIN weights |-> DepthIn(e.node, s)]
       IN  \A depth \in FullDepths(DOMAIN weights) : Cost(mine) <= Cost(depth)

=============================================================================
