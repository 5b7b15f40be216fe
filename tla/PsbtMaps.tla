------------------------------ MODULE PsbtMaps ------------------------------
(***************************************************************************)
(* The data of a partially signed transaction (struct Psbt) and the merge  *)
(* of two copies of it (Psbt::combine, Input::combine, Output::combine).   *)
(*                                                                         *)
(* A Psbt is a record.  An Input or an Output is a function from the names *)
(* of the struct's fields: an Option field holds a value or None, a        *)
(* BTreeMap field a function whose domain is the keys it contains.         *)
(* The preimage maps, proprietary and unknown are merged alike and read by *)
(* nothing else: one map, "unknown", stands for them.                      *)
(* The MWEB fields, which are merged after the key sources and read by     *)
(* none of the operations modelled here, are the subject of MwebWorkflow.  *)
(***************************************************************************)
EXTENDS Integers, Sequences

CONSTANTS
  NumInputs,   \* unsigned_tx.input.len()
  NumOutputs,  \* unsigned_tx.output.len()
  NumXpubs,    \* the extended keys, in the order of the BTreeMap
  Key,         \* public keys (also as x-only keys)
  Leaf,        \* tap leaf hashes
  Tag,         \* control blocks, and keys of the maps that "unknown" stands for
  None         \* Option::None

\* The final witness, by its presence.
FinalWitness == "witness"

ASSUME PsbtConstants ==
  /\ NumInputs \in Nat
  /\ NumOutputs \in Nat
  /\ NumXpubs \in Nat
  /\ None # FinalWitness

Inputs == 1 .. NumInputs
Outputs == 1 .. NumOutputs
Xpubs == 1 .. NumXpubs

-----------------------------------------------------------------------------
\* The fields of struct Input, by the way they are merged.
KeepFields == {"redeem_script", "witness_script", "final_script_sig",
               "final_script_witness", "tap_key_sig", "tap_internal_key",
               "tap_merkle_root"}
MapFields == {"partial_sigs", "bip32_derivation", "tap_key_origins",
              "tap_script_sigs", "tap_scripts", "unknown"}
InputFields == KeepFields \cup MapFields
                 \cup {"witness_utxo", "non_witness_utxo", "sighash_type"}

\* The keys a map may have: tap_script_sigs is indexed by (xonly key, leaf hash).
KeysOf(f) == CASE f = "tap_script_sigs" -> Key \X Leaf
               [] f \in {"tap_scripts", "unknown"} -> Tag
               [] OTHER -> Key

EmptyMap == [k \in {} |-> None]

EmptyInput == [f \in InputFields |-> IF f \in MapFields THEN EmptyMap ELSE None]

\* The fields of struct Output: redeem_script, witness_script,
\* tap_internal_key and tap_tree are filled once, the maps extended.
OutputMapFields == {"bip32_derivation", "tap_key_origins", "unknown"}
OutputFields == {"redeem_script", "witness_script", "tap_internal_key", "tap_tree"}
                  \cup OutputMapFields

EmptyOutput == [f \in OutputFields |-> IF f \in OutputMapFields THEN EmptyMap ELSE None]

\* The transaction output that a non_witness_utxo with too few outputs yields.
OutOfBounds == [value |-> 0, spk |-> "out_of_bounds"]

\* Psbt::from_unsigned_tx, once unsigned_tx_checks has passed.
FreshPsbt(tx) ==
  [unsigned_tx |-> tx, version |-> 0,
   xpub |-> EmptyMap, unknown |-> EmptyMap,
   inputs |-> [i \in Inputs |-> EmptyInput],
   outputs |-> [o \in Outputs |-> EmptyOutput]]

\* The `combine!` macro: fill the field if it is empty.
Keep(mine, theirs) == IF mine = None THEN theirs ELSE mine

\* BTreeMap::extend: an entry of the other map replaces mine.
Extend(mine, theirs) ==
  [k \in DOMAIN mine \cup DOMAIN theirs |->
     IF k \in DOMAIN theirs THEN theirs[k] ELSE mine[k]]

Insert(map, key, value) == Extend(map, [k \in {key} |-> value])

\* A witness_utxo that arrives is taken and clears the non_witness_utxo.
TakesWitnessUtxo(self, other) == self.witness_utxo = None /\ other.witness_utxo # None

\* Mutants of Input::combine: the signatures are assigned, not extended; a
\* `combine!` line is missing.
CombineInputAssignsSigs(self, other) ==
  [f \in InputFields |->
     CASE f = "partial_sigs" -> other[f]
       [] f \in MapFields \ {"partial_sigs"} -> Extend(self[f], other[f])
       [] f = "sighash_type" -> self[f]
       [] OTHER -> Keep(self[f], other[f])]

CombineInputForgets(self, other) ==
  [f \in InputFields |->
     CASE f \in MapFields -> Extend(self[f], other[f])
       [] f \in {"sighash_type", "redeem_script"} -> self[f]
       [] OTHER -> Keep(self[f], other[f])]

CombineInput(self, other) ==
  [f \in InputFields |->
     CASE f \in MapFields -> Extend(self[f], other[f])
       [] f = "sighash_type" -> self[f]
       [] f = "non_witness_utxo" ->
            IF TakesWitnessUtxo(self, other) THEN None ELSE Keep(self[f], other[f])
       [] OTHER -> Keep(self[f], other[f])]

CombineOutput(self, other) ==
  [f \in OutputFields |->
     IF f \in OutputMapFields THEN Extend(self[f], other[f]) ELSE Keep(self[f], other[f])]

-----------------------------------------------------------------------------
(* The merge of the global key sources [fp, path].                         *)

EndsWith(path, suffix) ==
  /\ Len(suffix) <= Len(path)
  /\ SubSeq(path, Len(path) - Len(suffix) + 1, Len(path)) = suffix

\* A mutant: the shorter of two paths wins.
MergeKeySourceShortens(mine, theirs) ==
  CASE theirs = mine -> "keep"
    [] theirs # mine /\ EndsWith(mine.path, theirs.path) -> "replace"
    [] OTHER -> "err"

\* What the loop does with an xpub both copies have.  When the other path is
\* shorter and no suffix, `derivation1.len() - derivation2.len()` underflows.
MergeKeySource(mine, theirs) ==
  LET shorter == Len(theirs.path) < Len(mine.path)
  IN  CASE theirs = mine \/ (shorter /\ EndsWith(mine.path, theirs.path)) -> "keep"
        [] theirs # mine /\ shorter /\ ~EndsWith(mine.path, theirs.path) -> "panic"
        [] theirs # mine /\ ~shorter /\ EndsWith(theirs.path, mine.path) -> "replace"
        [] OTHER -> "err"

\* An xpub of the other copy that this one does not have is inserted.
XpubStep(self, other, x) ==
  IF x \in DOMAIN self THEN MergeKeySource(self[x], other[x]) ELSE "replace"

\* The xpubs at which the loop returns an error or panics.
XpubStops(self, other) ==
  {x \in DOMAIN other : XpubStep(self, other, x) \in {"err", "panic"}}

\* The loop runs in key order and leaves what it did before it stopped.
XpubsTaken(self, other) ==
  {x \in DOMAIN other : /\ XpubStep(self, other, x) = "replace"
                        /\ \A y \in XpubStops(self, other) : x < y}

MergeXpubs(self, other) ==
  Extend(self, [x \in XpubsTaken(self, other) |-> other[x]])

XpubStatus(self, other) ==
  LET stops == XpubStops(self, other)
      panics == \E x \in stops : /\ XpubStep(self, other, x) = "panic"
                                 /\ \A y \in stops : x <= y
  IN  IF stops = {} THEN "ok" ELSE IF panics THEN "panic" ELSE "err"

-----------------------------------------------------------------------------
(* Psbt::combine: the state of self afterwards, and how the call ended.    *)

MaxVersion(a, b) == IF a < b THEN b ELSE a

CombineStatus(self, other) ==
  IF self.unsigned_tx # other.unsigned_tx THEN "err" ELSE XpubStatus(self.xpub, other.xpub)

CombinePsbt(self, other) ==
  LET merged == [self EXCEPT !.version = MaxVersion(self.version, other.version),
                             !.xpub = MergeXpubs(self.xpub, other.xpub)]
  IN  IF self.unsigned_tx # other.unsigned_tx THEN self
      ELSE IF XpubStatus(self.xpub, other.xpub) # "ok" THEN merged
      ELSE [merged EXCEPT
              !.unknown = Extend(self.unknown, other.unknown),
              !.inputs = [i \in Inputs |-> CombineInput(self.inputs[i], other.inputs[i])],
              !.outputs = [o \in Outputs |-> CombineOutput(self.outputs[o], other.outputs[o])]]
=============================================================================
