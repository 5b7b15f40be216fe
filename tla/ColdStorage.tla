------------------------------ MODULE ColdStorage ------------------------------
(***************************************************************************)
(* Spending from cold storage (examples/ecdsa-psbt.rs): a watch-only       *)
(* wallet creates and updates a PSBT, an offline signer signs it, the      *)
(* wallet finalizes it and the transaction is verified                     *)
(* (litecoin/src/consensus/validation.rs).  The constants at the head of   *)
(* the example, which its user fills in, are the configuration.            *)
(***************************************************************************)
EXTENDS Integers, Sequences

CONSTANT NoValue   \* Option::None

VARIABLE cold

\* The signer of Psbt::sign: one input, two outputs, and the key at INPUT_UTXO_DERIVATION_PATH.
S == INSTANCE PsbtSign
       WITH NumInputs <- 1, NumOutputs <- 2, NumXpubs <- 0, Key <- {"input"}, Leaf <- {}, Tag <- {}, None <- NoValue

\* The prefixes that KnownHrp knows.
KnownPrefixes == {"ltc", "tltc", "rltc"}

\* The output that the configuration says is spent: previous_output().
PreviousOutput(config) == [spk |-> config.kind, key |-> config.key, value |-> config.value]

Configured(config) ==
  [config |-> config, at |-> "start", input |-> S!EmptyInput, witness |-> <<>>, verdict |-> "running"]
Stops(why) == cold' = [cold EXCEPT !.verdict = why]
Doing(step) == cold.at = step /\ cold.verdict = "running"

\* create_psbt, after ColdStorage::new and WatchOnly::new: the address must be one of
\* regtest; the inputs of from_unsigned_tx are empty.
CreatePsbt ==
  /\ Doing("start")
  /\ IF cold.config.hrp \notin KnownPrefixes THEN Stops("unknown hrp")
     ELSE IF cold.config.hrp # "rltc" THEN Stops("network validation")
     ELSE cold' = [cold EXCEPT !.at = "created"]

\* update_psbt
UpdatedInput(config) ==
  [S!EmptyInput EXCEPT !.witness_utxo = PreviousOutput(config), !.redeem_script = "p2wpkh",
                       !.bip32_derivation = [k \in {"input"} |-> "path"], !.sighash_type = "all"]
UpdatePsbt == Doing("created") /\ cold' = [cold EXCEPT !.at = "updated", !.input = UpdatedInput(cold.config)]

\* sign_psbt: Psbt::sign counts the inputs, so its answer always has one entry.
SignPsbt ==
  /\ Doing("updated")
  /\ IF S!SignStatus(<<cold.input>>, {"input"}) # "ok" THEN Stops("sign error")
     ELSE cold' = [cold EXCEPT !.at = "signed", !.input = S!Sign(<<cold.input>>, {"input"})[1]]

\* finalize_psbt: the first signature, by index, and the key of the input.
Cleared(input) ==
  [input EXCEPT !.final_script_witness = "witness", !.partial_sigs = S!EmptyMap, !.sighash_type = NoValue,
                !.redeem_script = NoValue, !.witness_script = NoValue, !.bip32_derivation = S!EmptyMap]
FinalizePsbt ==
  /\ Doing("signed")
  /\ IF DOMAIN cold.input.partial_sigs = {} THEN Stops("index out of bounds")
     ELSE LET k == CHOOSE k \in DOMAIN cold.input.partial_sigs : TRUE
              witness == <<cold.input.partial_sigs[k], "input">>
          IN  cold' = [cold EXCEPT !.at = "finalized", !.witness = witness, !.input = Cleared(@)]

\* What the library behind verify_script_with_flags checks of a key hash (external).
LibVerifies(out, witness) ==
  /\ out.spk = "p2wpkh" /\ Len(witness) = 2 /\ witness[2] = out.key
  /\ witness[1] = [ty |-> "all", prevouts |-> [j \in {1} |-> out], script |-> "Wpkh"]

\* verify_transaction_with_flags: the inputs in order, to the first that fails.
VerifyTransaction(ins) ==
  LET bad == {i \in DOMAIN ins : ins[i].spent = {} \/ \E out \in ins[i].spent : ~LibVerifies(out, ins[i].witness)}
      first == CHOOSE i \in bad : \A j \in bad : i <= j
  IN  IF bad = {} THEN "ok" ELSE IF ins[first].spent = {} THEN "UnknownSpentOutput" ELSE "ScriptVerification"

\* The rest of main.
ExtractTx ==
  /\ Doing("finalized")
  /\ Stops(IF VerifyTransaction(<<[spent |-> {PreviousOutput(cold.config)}, witness |-> cold.witness]>>) = "ok"
           THEN "printed" ELSE "failed to verify")

ColdNext == CreatePsbt \/ UpdatePsbt \/ SignPsbt \/ FinalizePsbt \/ ExtractTx
=============================================================================
