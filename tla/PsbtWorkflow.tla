---------------------------- MODULE PsbtWorkflow ----------------------------
(***************************************************************************)
(* Several parties complete one transaction: each holds a copy of the      *)
(* Psbt, writes into it what it knows, signs it, sends it to the others    *)
(* and combines the copies it receives.  Messages are snapshots; they may  *)
(* be lost, duplicated and overtaken.                                      *)
(*                                                                         *)
(* Create, Sign, Receive and Extract are calls of the library.  The        *)
(* library leaves updating and finalizing to its caller, who writes the    *)
(* public fields: Update* write the values of Offers once, the way the     *)
(* examples fill a fresh Input, and Finalize is the examples' finalizer.   *)
(***************************************************************************)
EXTENDS PsbtSign, FiniteSets

-----------------------------------------------------------------------------
(* Psbt::fee and the extraction of the transaction: the order in which     *)
(* problems are met, the u64 arithmetic, and the error each one becomes.   *)

CONSTANTS
  OutputValue,    \* unsigned_tx.output[o].value
  U64Max,         \* u64::MAX, scaled down
  BaseWeight,     \* weight of the unsigned transaction
  WitnessWeight,  \* weight a final witness adds
  MaxFeeRate      \* the limit, in sat per kilo weight unit

ASSUME ExtractConstants ==
  /\ OutputValue \in [Outputs -> 0 .. U64Max]
  /\ U64Max \in Nat /\ BaseWeight \in Nat \ {0} /\ WitnessWeight \in Nat
  /\ MaxFeeRate \in Nat
  \* A saturated product is above the limit, as u64::MAX is for any limit a
  \* caller would set.
  /\ (MaxFeeRate + 1) * (BaseWeight + WitnessWeight * NumInputs) <= U64Max

-----------------------------------------------------------------------------
\* A running total of checked_add's, or the first problem met.
Running(sum) == [status |-> "ok", sum |-> sum]
Stopped(error) == [status |-> error, sum |-> 0]

\* A mutant: `+` on u64 in a release build.
AddWrapping(acc, value) == Running((acc.sum + value) % (U64Max + 1))

AddChecked(acc, value) ==
  IF acc.sum + value > U64Max THEN Stopped("FeeOverflow") ELSE Running(acc.sum + value)

\* One step of the loop over iter_funding_utxos.
AddFunding(acc, in) ==
  IF acc.status # "ok" THEN acc
  ELSE CASE SpendUtxo(in) = None -> Stopped("MissingUtxo")
         [] SpendUtxo(in) = OutOfBounds -> Stopped("PsbtUtxoOutOfbounds")
         [] OTHER -> AddChecked(acc, SpendUtxo(in).value)

FundingTotal(ins) ==
  LET total[n \in 0 .. NumInputs] ==
        IF n = 0 THEN Running(0) ELSE AddFunding(total[n - 1], ins[n])
  IN  total[NumInputs]

OutputTotal(acc) ==
  LET total[n \in 0 .. NumOutputs] ==
        IF n = 0 THEN (IF acc.status = "ok" THEN Running(0) ELSE acc)
        ELSE IF total[n - 1].status # "ok" THEN total[n - 1]
        ELSE AddChecked(total[n - 1], OutputValue[n])
  IN  total[NumOutputs]

\* Psbt::fee.
Fee(ins) ==
  LET funding == FundingTotal(ins)
      spent == OutputTotal(funding)
  IN  IF spent.status # "ok" THEN spent
      ELSE IF funding.sum < spent.sum THEN Stopped("NegativeFee")
      ELSE Running(funding.sum - spent.sum)

\* tx.weight() of the transaction with the final scripts filled in.
TxWeight(ins) ==
  BaseWeight
    + WitnessWeight * Cardinality({i \in Inputs : ins[i].final_script_witness # None})

\* fee.to_sat().saturating_mul(1000) / weight.
FeeRate(fee, ins) ==
  (IF fee * 1000 > U64Max THEN U64Max ELSE fee * 1000) \div TxWeight(ins)

\* internal_extract_tx_with_fee_rate_limit; what is neither a missing utxo, a
\* negative fee nor an overflow falls through to `_ => unreachable!()`.
ExtractStatus(ins) ==
  LET fee == Fee(ins)
  IN  CASE fee.status = "MissingUtxo" -> "MissingInputValue"
        [] fee.status = "NegativeFee" -> "SendingTooMuch"
        [] fee.status = "FeeOverflow" -> "AbsurdFeeRate"
        [] fee.status = "ok" -> IF FeeRate(fee.sum, ins) > MaxFeeRate
                                THEN "AbsurdFeeRate" ELSE "ok"
        [] OTHER -> "panic"

\* internal_extract_tx: the final scripts, or empty ones.
ExtractTx(ins) ==
  [i \in Inputs |-> [script_sig |-> ins[i].final_script_sig,
                     witness |-> ins[i].final_script_witness]]

-----------------------------------------------------------------------------
(* The parties.                                                            *)

CONSTANTS
  Party,
  Tx,            \* transactions a party may start from
  UnsignedTx,    \* those that pass unsigned_tx_checks
  Held,          \* Held[p]: the keys p can sign with
  Offers,        \* [party, input, field, key, value]: what p knows of an input
  OutputOffers,  \* [party, output, field, value]
  XpubOffers,    \* [party, xpub, source]
  Newer,         \* the parties that write a later version number
  Finalizers,    \* the parties that finalize
  MaxMail,       \* bound on the messages in flight
  MaxFaults      \* bound on losses and duplications

\* The two forms in which an input has the output it spends.
UtxoFields == {"witness_utxo", "non_witness_utxo"}

ASSUME WorkflowConstants ==
  /\ UnsignedTx \subseteq Tx
  /\ Held \in [Party -> SUBSET Key]
  /\ MaxMail \in Nat /\ MaxFaults \in Nat
  /\ \A o \in Offers :
       /\ o.party \in Party /\ o.input \in Inputs /\ o.field \in InputFields
       /\ o.field \in MapFields => o.key \in KeysOf(o.field)
       /\ o.value # None
       /\ o.field \in UtxoFields => o.value.value \in 0 .. U64Max
  /\ \A o \in OutputOffers :
       /\ o.party \in Party /\ o.output \in Outputs
       /\ o.field \in OutputFields \ OutputMapFields
  /\ \A o \in XpubOffers : o.party \in Party /\ o.xpub \in Xpubs /\ o.source.path \in Seq(Nat)

VARIABLES
  psbt,     \* psbt[p]: the copy p holds, if p is in its domain
  mail,     \* the messages in flight: [from, to, psbt]
  faults,   \* losses and duplications so far
  outcome   \* outcome[p]: how p's last call of the library ended

vars == <<psbt, mail, faults, outcome>>

Init ==
  /\ psbt = EmptyMap
  /\ mail = {}
  /\ faults = 0
  /\ outcome = [p \in Party |-> "none"]

\* p's copy becomes copy, and its call ends with status.
Ends(p, copy, status) ==
  /\ psbt' = Insert(psbt, p, copy)
  /\ outcome' = [outcome EXCEPT ![p] = status]
  /\ UNCHANGED <<mail, faults>>

-----------------------------------------------------------------------------

Create(p, tx) ==
  /\ p \notin DOMAIN psbt
  /\ \/ tx \in UnsignedTx /\ Ends(p, FreshPsbt(tx), "ok")
     \/ /\ tx \notin UnsignedTx
        /\ outcome' = [outcome EXCEPT ![p] = "err"]
        /\ UNCHANGED <<psbt, mail, faults>>

\* A field or map entry is written once, and not on a finalized input.
UpdateInput(p, o) ==
  /\ o.party = p
  /\ p \in DOMAIN psbt
  /\ LET in == psbt[p].inputs[o.input]
     IN  /\ in.final_script_witness = None
         /\ IF o.field \in MapFields THEN o.key \notin DOMAIN in[o.field]
            ELSE in[o.field] = None
         /\ psbt' = [psbt EXCEPT ![p].inputs[o.input] =
                       IF o.field \in MapFields
                       THEN [in EXCEPT ![o.field] = Insert(in[o.field], o.key, o.value)]
                       ELSE [in EXCEPT ![o.field] = o.value]]
  /\ UNCHANGED <<mail, faults, outcome>>

UpdateOutput(p, o) ==
  /\ o.party = p
  /\ p \in DOMAIN psbt
  /\ psbt[p].outputs[o.output][o.field] = None
  /\ psbt' = [psbt EXCEPT ![p].outputs[o.output][o.field] = o.value]
  /\ UNCHANGED <<mail, faults, outcome>>

UpdateXpub(p, o) ==
  /\ o.party = p
  /\ p \in DOMAIN psbt
  /\ o.xpub \notin DOMAIN psbt[p].xpub
  /\ psbt' = [psbt EXCEPT ![p].xpub = Insert(psbt[p].xpub, o.xpub, o.source)]
  /\ UNCHANGED <<mail, faults, outcome>>

UpdateVersion(p) ==
  /\ p \in Newer
  /\ p \in DOMAIN psbt
  /\ psbt[p].version = 0
  /\ psbt' = [psbt EXCEPT ![p].version = 1]
  /\ UNCHANGED <<mail, faults, outcome>>

SignCopy(p) ==
  /\ p \in DOMAIN psbt
  /\ Ends(p, [psbt[p] EXCEPT !.inputs = Sign(psbt[p].inputs, Held[p])],
          SignStatus(psbt[p].inputs, Held[p]))

\* What the finalizers of the examples clear, for an input spent by an ECDSA
\* or a taproot key path signature, and what they clear for a script path.
ClearedFields == {"partial_sigs", "sighash_type", "redeem_script", "witness_script",
                  "bip32_derivation"}
ClearedByScriptPath == ClearedFields \cup {"tap_script_sigs", "tap_scripts", "tap_key_sig"}

FinalizeInput(in, cleared) ==
  [f \in InputFields |-> CASE f = "final_script_witness" -> FinalWitness
                           [] f \in cleared -> EmptyInput[f]
                           [] OTHER -> in[f]]

Finalize(p, i) ==
  /\ p \in Finalizers
  /\ p \in DOMAIN psbt
  /\ LET in == psbt[p].inputs[i]
     IN  /\ in.final_script_witness = None
         /\ \/ /\ in.partial_sigs # EmptyMap \/ in.tap_key_sig # None
               /\ psbt' = [psbt EXCEPT ![p].inputs[i] = FinalizeInput(in, ClearedFields)]
            \/ /\ in.tap_script_sigs # EmptyMap
               /\ psbt' = [psbt EXCEPT ![p].inputs[i] = FinalizeInput(in, ClearedByScriptPath)]
  /\ UNCHANGED <<mail, faults, outcome>>

\* extract_tx consumes a clone of the copy.
Extract(p) ==
  /\ p \in DOMAIN psbt
  /\ Ends(p, psbt[p], ExtractStatus(psbt[p].inputs))

-----------------------------------------------------------------------------
\* Psbt::serialize never fails.
Send(p, q) ==
  /\ p # q
  /\ p \in DOMAIN psbt
  /\ Cardinality(mail) < MaxMail
  /\ mail' = mail \cup {[from |-> p, to |-> q, psbt |-> psbt[p]]}
  /\ UNCHANGED <<psbt, faults, outcome>>

\* Psbt::deserialize accepts version 0 only.
Decodes(copy) == copy.version = 0

\* A party that has no copy adopts the one it decodes; any other combines it.
Accept(p, copy) ==
  \/ /\ ~Decodes(copy)
     /\ psbt' = psbt
     /\ outcome' = [outcome EXCEPT ![p] = "err"]
  \/ /\ Decodes(copy)
     /\ p \notin DOMAIN psbt
     /\ psbt' = Insert(psbt, p, copy)
     /\ outcome' = [outcome EXCEPT ![p] = "ok"]
  \/ /\ Decodes(copy)
     /\ p \in DOMAIN psbt
     /\ psbt' = [psbt EXCEPT ![p] = CombinePsbt(psbt[p], copy)]
     /\ outcome' = [outcome EXCEPT ![p] = CombineStatus(psbt[p], copy)]

Receive(m) ==
  /\ m \in mail
  /\ mail' = mail \ {m}
  /\ Accept(m.to, m.psbt)
  /\ UNCHANGED faults

\* The message is delivered and a duplicate of it stays in flight.
ReceiveAgain(m) ==
  /\ m \in mail
  /\ faults < MaxFaults
  /\ faults' = faults + 1
  /\ Accept(m.to, m.psbt)
  /\ UNCHANGED mail

Lose(m) ==
  /\ m \in mail
  /\ faults < MaxFaults
  /\ faults' = faults + 1
  /\ mail' = mail \ {m}
  /\ UNCHANGED <<psbt, outcome>>

-----------------------------------------------------------------------------
Next ==
  \/ \E p \in Party :
       \/ \E tx \in Tx : Create(p, tx)
       \/ \E o \in Offers : UpdateInput(p, o)
       \/ \E o \in OutputOffers : UpdateOutput(p, o)
       \/ \E o \in XpubOffers : UpdateXpub(p, o)
       \/ UpdateVersion(p)
       \/ SignCopy(p)
       \/ \E i \in Inputs : Finalize(p, i)
       \/ Extract(p)
       \/ \E q \in Party : Send(p, q)
  \/ \E m \in mail : Receive(m) \/ ReceiveAgain(m) \/ Lose(m)

Spec == Init /\ [][Next]_vars

-----------------------------------------------------------------------------
(* The properties.                                                         *)

\* The copies that exist: the parties' and those in flight.
Copies == {psbt[p] : p \in DOMAIN psbt} \cup {m.psbt : m \in mail}

PsbtFields == {"unsigned_tx", "version", "xpub", "unknown", "inputs", "outputs"}

WellFormedInput(in) ==
  /\ DOMAIN in = InputFields
  /\ \A f \in MapFields : DOMAIN in[f] \subseteq KeysOf(f)

WellFormed(copy) ==
  /\ DOMAIN copy = PsbtFields
  /\ copy.unsigned_tx \in UnsignedTx
  /\ copy.version \in {0, 1}
  /\ DOMAIN copy.xpub \subseteq Xpubs
  /\ DOMAIN copy.inputs = Inputs
  /\ \A i \in Inputs : WellFormedInput(copy.inputs[i])

Statuses == {"none", "ok", "err", "panic",
             "MissingInputValue", "SendingTooMuch", "AbsurdFeeRate"}

\* Every copy has the shape of struct Psbt, with one map per input and output
\* of the unsigned transaction, whatever was combined into it.
TypeOK ==
  /\ DOMAIN psbt \subseteq Party
  /\ \A p \in DOMAIN psbt : WellFormed(psbt[p])
  /\ \A m \in mail : /\ m = [from |-> m.from, to |-> m.to, psbt |-> m.psbt]
                     /\ m.from \in Party /\ m.to \in Party
                     /\ WellFormed(m.psbt)
  /\ faults \in 0 .. MaxFaults
  /\ outcome \in [Party -> Statuses]

\* No two offers disagree about the output an input spends, and signatures
\* come from sign alone.
SigFields == {"partial_sigs", "tap_key_sig", "tap_script_sigs"}
HonestOffers ==
  /\ \A o \in Offers : o.field \notin SigFields
  /\ \A o1, o2 \in Offers :
       o1.field \in UtxoFields /\ o2.field \in UtxoFields /\ o1.input = o2.input
       => o1.value = o2.value

\* The previous outputs the signature was computed over are known in the copy
\* and are those the copy would use.
Commits(copy, sig) ==
  \A j \in DOMAIN sig.prevouts : /\ j \in Inputs
                                 /\ SpendUtxo(copy.inputs[j]) # None
                                 /\ SpendUtxo(copy.inputs[j]) = sig.prevouts[j]

SigsCommit(copy) ==
  \A i \in Inputs :
    LET in == copy.inputs[i]
    IN  /\ \A k \in DOMAIN in.partial_sigs : Commits(copy, in.partial_sigs[k])
        /\ in.tap_key_sig # None => Commits(copy, in.tap_key_sig)
        /\ \A kl \in DOMAIN in.tap_script_sigs : Commits(copy, in.tap_script_sigs[kl])

\* Under HonestOffers: in every copy, held or in flight, the previous outputs
\* a signature was computed over are known and are the ones the copy itself
\* would use.  So what sign hashed can be checked by whoever gets the
\* signature: combine never brings a signature without its utxos, and never
\* swaps the utxo under one (Input::combine, Psbt::sign).
SigsCommitToFunding == \A copy \in Copies : SigsCommit(copy)

\* A key source that a copy has is never lost, and is replaced only by one
\* whose path ends with it, whether the merge of the xpubs succeeds, fails or
\* panics (the loop over other.xpub in Psbt::combine).
XpubPathsGrow ==
  [][\A p \in DOMAIN psbt : \A x \in DOMAIN psbt[p].xpub :
       /\ x \in DOMAIN psbt'[p].xpub
       /\ EndsWith(psbt'[p].xpub[x].path, psbt[p].xpub[x].path)]_vars

\* The exact sum of the first n values, in no machine width.
SumOf(values, n) ==
  LET sum[k \in 0 .. n] == IF k = 0 THEN 0 ELSE sum[k - 1] + values[k]
  IN  sum[n]

\* Each copy extracts with the outcome exact arithmetic over its utxos calls
\* for, in the order of the loops of Psbt::fee: an ok transaction is fully
\* funded, its fee is not negative and not above the limit (so the saturating
\* product hides no absurd fee), and every error names a problem that exists.
ExtractSound ==
  \A copy \in Copies :
    LET ins == copy.inputs
        status == ExtractStatus(ins)
        funding == SumOf([i \in Inputs |-> SpendUtxo(ins[i]).value], NumInputs)
        spent == SumOf(OutputValue, NumOutputs)
        absurd == (funding - spent) * 1000 >= (MaxFeeRate + 1) * TxWeight(ins)
    IN  IF \A i \in Inputs : HasUtxo(ins[i])
        THEN status = CASE funding > U64Max \/ spent > U64Max -> "AbsurdFeeRate"
                        [] funding <= U64Max /\ spent <= U64Max /\ funding < spent -> "SendingTooMuch"
                        [] OTHER -> IF absurd THEN "AbsurdFeeRate" ELSE "ok"
        ELSE status \in {"MissingInputValue", "AbsurdFeeRate", "panic"}

-----------------------------------------------------------------------------
(* What comments and unreachable!() state, and the code contradicts.       *)

\* Two key sources of one xpub that the comment in Psbt::combine lists.
Conflict(s, t) ==
  \/ s.path = t.path /\ s.fp # t.fp
  \/ Len(s.path) = Len(t.path) /\ s.path # t.path
  \/ Len(s.path) < Len(t.path) /\ ~EndsWith(t.path, s.path)
  \/ Len(t.path) < Len(s.path) /\ ~EndsWith(s.path, t.path)

\* The comment in the merge of the xpubs: "report an error if - derivation
\* paths are equal and fingerprints are not - derivation paths are of the same
\* length, but not equal - derivation paths has different length, but the
\* shorter one is not the strict suffix of the longer one".
ConflictsReported ==
  \A c, d \in Copies :
    (\E x \in DOMAIN c.xpub \cap DOMAIN d.xpub : Conflict(c.xpub[x], d.xpub[x]))
    => CombineStatus(c, d) = "err"

\* internal_extract_tx_with_fee_rate_limit holds its last arm for
\* `unreachable!()`: no extraction panics.
ExtractReturns == \A copy \in Copies : ExtractStatus(copy.inputs) # "panic"

-----------------------------------------------------------------------------
(* The workflow implements PsbtKnowledge.                                  *)

\* A fact is that an input has a value for a field, or for a key of a map;
\* "utxo" is that the input's utxo is known in one of the two forms.  The
\* sighash type, which combine ignores, is no fact.
FactFields == KeepFields \cup MapFields \cup {"utxo"}
FactKeys(f) == IF f \in MapFields THEN KeysOf(f) ELSE {None}
Fact == UNION {[input : Inputs, field : {f}, key : FactKeys(f)] : f \in FactFields}

\* The fact holds in the copy.  A finalized input stands for everything the
\* finalizer cleared.
Holds(copy, fact) ==
  LET in == copy.inputs[fact.input]
  IN  \/ fact.field = "utxo" /\ SpendUtxo(in) # None
      \/ fact.field \in KeepFields /\ in[fact.field] # None
      \/ fact.field \in MapFields /\ fact.key \in DOMAIN in[fact.field]
      \/ fact.field \in ClearedByScriptPath /\ in.final_script_witness # None

Known(copy) == {fact \in Fact : Holds(copy, fact)}

knowsBar == [p \in Party |-> IF p \in DOMAIN psbt THEN Known(psbt[p]) ELSE {}]
postBar == {[from |-> m.from, to |-> m.to, facts |-> Known(m.psbt)] : m \in mail}

Knowledge == INSTANCE PsbtKnowledge WITH knows <- knowsBar, post <- postBar

\* Whatever is lost, duplicated or overtaken, and however a call ends, no
\* party's copy loses a signature, script, derivation, utxo or final script,
\* and a received copy is merged entirely or leaves the inputs as they were.
ImplementsKnowledge == Knowledge!KSpec
=============================================================================
