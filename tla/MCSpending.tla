----------------------------- MODULE MCSpending -----------------------------
(***************************************************************************)
(* Five scripts, with hashes 1 to 5, of which the caller adds the first    *)
(* two leaf by leaf and passes any to with_huffman_tree, with weights that *)
(* collide, vanish and saturate.  Hashes are the numbers below 251: the    *)
(* scripts', the hidden node's 6, and a commutative mixing function for    *)
(* the inner nodes, whose values fall on either side of their children in  *)
(* the order of numbers.                                                   *)
(***************************************************************************)
EXTENDS TaprootHuffman, SighashCache

Hashes == 0 .. 250
Scripts == 1 .. 5
Leaves == {1, 2}
HiddenLeaf == {6}
LeafHashes == [s \in Scripts |-> s]
Mix(a, b) == (a * b * 31 + (a + b) * 101 + 7) % 251
Less(a, b) == a < b
-----------------------------------------------------------------------------
(***************************************************************************)
(* Transactions with one or two inputs and none to two outputs.  The calls *)
(* have indices up to one past the inputs, every sighash type, for legacy  *)
(* hashes also numbers that are no standard type and empty scripts, the    *)
(* right prevouts, ones with another amount, one too few, and single ones. *)
(***************************************************************************)

Tx(n, m) ==
  [version |-> 2, lock_time |-> 0, mw_tx |-> 0,
   input |-> [i \in 1 .. n |-> [previous_output |-> i, sequence |-> i, script_sig |-> 0,
                                witness |-> 0]],
   output |-> [j \in 1 .. m |-> j]]

Transactions == {Tx(n, m) : n \in 1 .. 2, m \in 0 .. 2}

Utxo(i) == [value |-> i, script_pubkey |-> i]
AllPrevouts(n) == [at |-> {}, utxos |-> [i \in 1 .. n |-> Utxo(i)]]
OnePrevout(i) == [at |-> {i}, utxos |-> <<Utxo(i + 1)>>]
Prevouts(n) ==
  {AllPrevouts(n), AllPrevouts(n - 1), [AllPrevouts(n) EXCEPT !.utxos[n].value = 9]}
  \cup {OnePrevout(i) : i \in 0 .. n - 1}

Call(kind, index, type, prevouts, annex, leaf, script, value) ==
  [kind |-> kind, index |-> index, type |-> type, prevouts |-> prevouts,
   annex |-> annex, leaf |-> leaf, script |-> script, value |-> value]

RawTypes == {0, 1, 2, 3, 4, 33, 35, 129, 131, 163, 258}

SmallCalls ==
  [n \in 1 .. 2 |->
     {Call("taproot", i, t, p, {}, {}, NoScript, 0) :
        i \in 0 .. n, t \in TapSighashType, p \in Prevouts(n)}
     \cup {Call("taproot", i, t, AllPrevouts(n), {7}, {7}, NoScript, 0) :
             i \in 0 .. n, t \in TapSighashType}
     \cup {Call("segwit", i, t, AllPrevouts(n), {}, {}, 1, v) :
             i \in 0 .. n, t \in EcdsaSighashType, v \in {5, 6}}
     \cup {Call("legacy", i, t, AllPrevouts(n), {}, {}, s, 0) :
             i \in 0 .. n, t \in RawTypes, s \in {NoScript, 1}}]
-----------------------------------------------------------------------------
(***************************************************************************)
(* What a spender computes before it signs: script trees with their        *)
(* control blocks, and signature hashes.  The two share no state, so a     *)
(* behaviour keeps to one of them.                                         *)
(***************************************************************************)

VARIABLE focus   \* "tree" or "hash"

spendingVars == <<focus, allVars, vars>>

\* A behaviour about trees has a transaction that nothing is asked about.
SpendingInit ==
  /\ focus \in {"tree", "hash"}
  /\ AllInit
  /\ Init
  /\ focus = "tree" => tx = Tx(1, 0)

SpendingNext ==
  /\ UNCHANGED focus
  /\ \/ focus = "tree" /\ AllNext /\ UNCHANGED vars
     \/ focus = "hash" /\ Next /\ UNCHANGED allVars

SpendingSpec == SpendingInit /\ [][SpendingNext]_spendingVars
=============================================================================
