------------------------------ MODULE PsbtSign ------------------------------
(***************************************************************************)
(* Psbt::sign and what it calls: which inputs a key holder signs, with     *)
(* which algorithm, over what, and how a call can fail or panic part way.  *)
(*                                                                         *)
(* A signature is the record of what its sighash commits to: the sighash   *)
(* type, the previous outputs that are hashed, and the script (the script  *)
(* code, the leaf hash, or the merkle root the key was tweaked with).      *)
(***************************************************************************)
EXTENDS PsbtMaps

\* Sighash types by what the code tells apart: "default" is taproot's 0x00,
\* "acp" an ANYONECANPAY type, "nonstandard" a u32 that is no type at all.
EcdsaTypes == {"all", "single", "acp"}
TaprootTypes == EcdsaTypes \cup {"default"}

\* Psbt::spend_utxo: the output the input spends, None (an error), or
\* OutOfBounds, where the unchecked index panics.
SpendUtxo(in) == IF in.witness_utxo # None THEN in.witness_utxo ELSE in.non_witness_utxo

HasUtxo(in) == SpendUtxo(in) \notin {None, OutOfBounds}

\* Psbt::output_type, for an input whose utxo is known.
OutputType(in) ==
  LET spk == SpendUtxo(in).spk
  IN  CASE spk = "p2wpkh" -> "Wpkh"
        [] spk = "p2wsh" -> "Wsh"
        [] spk = "p2sh" /\ in.redeem_script = "p2wpkh" -> "ShWpkh"
        [] spk = "p2sh" /\ in.redeem_script = "p2wsh" -> "ShWsh"
        [] spk = "p2sh" /\ in.redeem_script \notin {"p2wpkh", "p2wsh"} -> "Sh"
        [] spk = "p2tr" -> "Tr"
        [] spk = "future" -> "Unknown"   \* a witness program of a later version
        [] OTHER -> "Bare"

\* The keys `k` has among those the input's derivations name.
Signers(in, f, held) == held \cap DOMAIN in[f]

-----------------------------------------------------------------------------
(* ECDSA inputs.                                                           *)

EcdsaType(in) == IF in.sighash_type = None THEN "all" ELSE in.sighash_type

\* Psbt::sighash_ecdsa returns an error.
EcdsaFails(in) ==
  \/ EcdsaType(in) \notin EcdsaTypes
  \/ OutputType(in) = "Sh" /\ in.redeem_script = None
  \/ OutputType(in) \in {"Wsh", "ShWsh"} /\ in.witness_script = None

\* The signature over that hash: a legacy hash commits to no previous output.
EcdsaSig(in, i) ==
  LET type == OutputType(in)
  IN  [ty |-> EcdsaType(in),
       prevouts |-> [j \in (IF type \in {"Bare", "Sh"} THEN {} ELSE {i}) |-> SpendUtxo(in)],
       script |-> CASE type = "Sh" -> in.redeem_script
                    [] type \in {"Wsh", "ShWsh"} -> in.witness_script
                    [] OTHER -> type]

\* Psbt::bip32_sign_ecdsa: insert overwrites; an error is only returned, and
\* before anything is inserted, when a key is held.
SignEcdsa(in, i, held) ==
  [in EXCEPT !.partial_sigs =
     IF EcdsaFails(in) THEN in.partial_sigs
     ELSE Extend(in.partial_sigs,
                 [k \in Signers(in, "bip32_derivation", held) |-> EcdsaSig(in, i)])]

EcdsaStatus(in, held) ==
  IF Signers(in, "bip32_derivation", held) # {} /\ EcdsaFails(in) THEN "err" ELSE "ok"

-----------------------------------------------------------------------------
(* Taproot inputs.                                                         *)

TaprootType(in) == IF in.sighash_type = None THEN "default" ELSE in.sighash_type

\* A mutant: the utxos of the other inputs are not asked for.
TaprootFailsOnType(ins, i) ==
  \/ TaprootType(ins[i]) \notin TaprootTypes
  \/ TaprootType(ins[i]) = "single" /\ i \notin Outputs

\* Psbt::sighash_taproot returns an error: an invalid type, an output that
\* SINGLE needs and is not there, or a utxo of another input not known.
TaprootFails(ins, i) ==
  LET ty == TaprootType(ins[i])
  IN  \/ ty \notin TaprootTypes
      \/ ty = "single" /\ i \notin Outputs
      \/ ty # "acp" /\ \E j \in Inputs : SpendUtxo(ins[j]) = None

TaprootSig(ins, i, script) ==
  [ty |-> TaprootType(ins[i]),
   prevouts |-> [j \in (IF TaprootType(ins[i]) = "acp" THEN {i} ELSE Inputs) |->
                   SpendUtxo(ins[j])],
   script |-> script]

\* The key path is signed once, with the internal key, which names no leaf.
SignsKeyPath(in, held) ==
  /\ in.tap_key_sig = None
  /\ \E k \in Signers(in, "tap_key_origins", held) :
       in.tap_internal_key = k /\ in.tap_key_origins[k] = {}

\* The (key, leaf) pairs that have no signature yet.
ScriptPaths(in, held) ==
  {kl \in held \X Leaf : /\ kl[1] \in Signers(in, "tap_key_origins", held)
                         /\ kl[2] \in in.tap_key_origins[kl[1]]
                         /\ kl \notin DOMAIN in.tap_script_sigs}

NeedsSchnorr(in, held) == SignsKeyPath(in, held) \/ ScriptPaths(in, held) # {}

\* Psbt::bip32_sign_schnorr works on a clone, dropped on an error.
SignSchnorr(ins, i, held) ==
  LET in == ins[i]
  IN  IF NeedsSchnorr(in, held) /\ TaprootFails(ins, i) THEN in
      ELSE [in EXCEPT
              !.tap_key_sig = IF SignsKeyPath(in, held)
                              THEN TaprootSig(ins, i, in.tap_merkle_root)
                              ELSE in.tap_key_sig,
              !.tap_script_sigs =
                Extend(in.tap_script_sigs,
                       [kl \in ScriptPaths(in, held) |-> TaprootSig(ins, i, kl[2])])]

SchnorrStatus(ins, i, held) ==
  IF NeedsSchnorr(ins[i], held) /\ TaprootFails(ins, i) THEN "err" ELSE "ok"

-----------------------------------------------------------------------------
(* Psbt::sign: the inputs in order, errors collected, a panic ending it.   *)

SignInputStatus(ins, i, held) ==
  IF SpendUtxo(ins[i]) = None THEN "err"
  ELSE IF OutputType(ins[i]) = "Unknown" THEN "err"
  ELSE IF OutputType(ins[i]) = "Tr" THEN SchnorrStatus(ins, i, held)
  ELSE EcdsaStatus(ins[i], held)

SignInput(ins, i, held) ==
  IF SpendUtxo(ins[i]) = None THEN ins[i]
  ELSE IF OutputType(ins[i]) = "Unknown" THEN ins[i]
  ELSE IF OutputType(ins[i]) = "Tr" THEN SignSchnorr(ins, i, held)
  ELSE SignEcdsa(ins[i], i, held)

\* The loop panics at an input whose own utxo is out of bounds, and at one
\* for which sighash_taproot collects the utxos of all inputs.
SignPanicsAt(ins, i, held) ==
  \/ SpendUtxo(ins[i]) = OutOfBounds
  \/ /\ HasUtxo(ins[i])
     /\ OutputType(ins[i]) = "Tr"
     /\ NeedsSchnorr(ins[i], held)
     /\ TaprootType(ins[i]) \in TaprootTypes
     /\ \E j \in Inputs : SpendUtxo(ins[j]) = OutOfBounds

SignReaches(ins, i, held) == \A j \in 1 .. i : ~SignPanicsAt(ins, j, held)

SignStatus(ins, held) ==
  IF \E i \in Inputs : SignPanicsAt(ins, i, held) THEN "panic"
  ELSE IF \E i \in Inputs : SignInputStatus(ins, i, held) = "err" THEN "err"
  ELSE "ok"

Sign(ins, held) ==
  [i \in Inputs |-> IF SignReaches(ins, i, held) THEN SignInput(ins, i, held) ELSE ins[i]]
=============================================================================
