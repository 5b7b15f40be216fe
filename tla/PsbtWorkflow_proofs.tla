------------------------- MODULE PsbtWorkflow_proofs -------------------------
(***************************************************************************)
(* Proofs about PsbtWorkflow, for any number of parties, inputs, outputs,  *)
(* keys and offers.  At the end, the u64 arithmetic of Psbt::fee and of    *)
(* the fee rate limit agrees with exact arithmetic, for every copy the     *)
(* workflow can produce.                                                   *)
(***************************************************************************)
EXTENDS PsbtWorkflow, Induction, FiniteSetTheorems

-----------------------------------------------------------------------------
(* Every operation returns a well-formed copy.                             *)

\* from_unsigned_tx makes a well-formed copy.
LEMMA FreshWellFormed ==
  ASSUME NEW tx \in UnsignedTx
  PROVE  WellFormed(FreshPsbt(tx))
<1>1. WellFormedInput(EmptyInput)
  BY Zenon DEF WellFormedInput, EmptyInput, EmptyMap, InputFields, KeepFields, MapFields
<1>. QED
  BY <1>1, Zenon DEF WellFormed, FreshPsbt, PsbtFields, EmptyMap

\* Writing a field of the right shape keeps an input well-formed.
LEMMA UpdateWellFormed ==
  ASSUME NEW in, WellFormedInput(in),
         NEW f \in InputFields, NEW v, f \in MapFields => DOMAIN v \subseteq KeysOf(f)
  PROVE  WellFormedInput([in EXCEPT ![f] = v])
  BY Zenon DEF WellFormedInput, InputFields

\* Input::combine by the kind of the field.
LEMMA CombineField ==
  ASSUME NEW self, NEW other, NEW f \in InputFields
  PROVE  /\ f \in MapFields => CombineInput(self, other)[f] = Extend(self[f], other[f])
         /\ f \in KeepFields \cup {"witness_utxo"}
            => CombineInput(self, other)[f] = Keep(self[f], other[f])
<1>1. CASE f \in MapFields
  <2>1. f \notin KeepFields \cup {"witness_utxo", "sighash_type", "non_witness_utxo"}
    BY <1>1, Zenon DEF MapFields, KeepFields
  <2>. QED  BY <1>1, <2>1, Zenon DEF CombineInput
<1>2. CASE f \in KeepFields \cup {"witness_utxo"}
  <2>1. f \notin MapFields \cup {"sighash_type", "non_witness_utxo"}
    BY <1>2, Zenon DEF MapFields, KeepFields
  <2>. QED  BY <1>2, <2>1, Zenon DEF CombineInput
<1>. QED  BY <1>1, <1>2, Zenon

\* Input::combine keeps every map.
LEMMA CombineInputWellFormed ==
  ASSUME NEW self, WellFormedInput(self), NEW other, WellFormedInput(other)
  PROVE  WellFormedInput(CombineInput(self, other))
<1>1. DOMAIN CombineInput(self, other) = InputFields
  BY Zenon DEF CombineInput
<1>2. ASSUME NEW f \in MapFields
      PROVE  DOMAIN CombineInput(self, other)[f] \subseteq KeysOf(f)
  <2>1. CombineInput(self, other)[f] = Extend(self[f], other[f])
    BY CombineField DEF InputFields
  <2>2. DOMAIN self[f] \subseteq KeysOf(f) /\ DOMAIN other[f] \subseteq KeysOf(f)
    BY Zenon DEF WellFormedInput
  <2>. QED  BY <2>1, <2>2, Zenon DEF Extend
<1>. QED
  BY <1>1, <1>2, Zenon DEF WellFormedInput

\* Psbt::combine keeps the shape, however it ends.
LEMMA CombineWellFormed ==
  ASSUME NEW self, WellFormed(self), NEW other, WellFormed(other)
  PROVE  WellFormed(CombinePsbt(self, other))
<1>1. \A i \in Inputs : WellFormedInput(CombineInput(self.inputs[i], other.inputs[i]))
  BY CombineInputWellFormed, Zenon DEF WellFormed
<1>2. DOMAIN MergeXpubs(self.xpub, other.xpub) \subseteq Xpubs
  BY Zenon DEF MergeXpubs, Extend, XpubsTaken, WellFormed
<1>3. MaxVersion(self.version, other.version) \in {0, 1}
  BY Zenon DEF WellFormed, MaxVersion
<1>. QED
  BY <1>1, <1>2, <1>3, Zenon DEF WellFormed, CombinePsbt, PsbtFields

\* Psbt::sign writes signatures into the maps that hold them.
LEMMA SignWellFormed ==
  ASSUME NEW ins, DOMAIN ins = Inputs, \A i \in Inputs : WellFormedInput(ins[i]),
         NEW held \in SUBSET Key
  PROVE  /\ DOMAIN Sign(ins, held) = Inputs
         /\ \A i \in Inputs : WellFormedInput(Sign(ins, held)[i])
<1>1. ASSUME NEW i \in Inputs
      PROVE  WellFormedInput(SignEcdsa(ins[i], i, held))
  BY <1>1 DEF SignEcdsa, Extend, Signers, WellFormedInput, MapFields, InputFields, KeysOf
<1>2. ASSUME NEW i \in Inputs
      PROVE  WellFormedInput(SignSchnorr(ins, i, held))
  BY <1>2 DEF SignSchnorr, Extend, ScriptPaths, WellFormedInput, MapFields, InputFields,
              KeepFields, KeysOf
<1>3. ASSUME NEW i \in Inputs
      PROVE  WellFormedInput(SignInput(ins, i, held))
  BY <1>1, <1>2, Zenon DEF SignInput
<1>. QED
  BY <1>3, Zenon DEF Sign

\* The finalizer empties fields and fills one.
LEMMA FinalizeWellFormed ==
  ASSUME NEW in, WellFormedInput(in), NEW cleared
  PROVE  WellFormedInput(FinalizeInput(in, cleared))
  BY DEF WellFormedInput, FinalizeInput, EmptyInput, EmptyMap, InputFields, KeepFields,
         MapFields

-----------------------------------------------------------------------------
(* The type invariant.                                                     *)

\* A call that leaves a well-formed copy, or none, keeps the type invariant.
LEMMA EndsType ==
  ASSUME TypeOK, NEW p \in Party, NEW copy, WellFormed(copy),
         NEW status \in Statuses, Ends(p, copy, status)
  PROVE  TypeOK'
  BY DEF TypeOK, Ends, Insert, Extend, WellFormed, WellFormedInput

\* So does a step that only rewrites p's copy.
LEMMA RewriteType ==
  ASSUME TypeOK, NEW p \in DOMAIN psbt, NEW copy, WellFormed(copy),
         psbt' = [psbt EXCEPT ![p] = copy], UNCHANGED <<mail, faults, outcome>>
  PROVE  TypeOK'
  BY DEF TypeOK, WellFormed, WellFormedInput

\* An accepted message leaves well-formed copies.
LEMMA AcceptType ==
  ASSUME TypeOK, NEW m \in mail, Accept(m.to, m.psbt)
  PROVE  /\ DOMAIN psbt' \subseteq Party
         /\ \A p \in DOMAIN psbt' : WellFormed(psbt'[p])
         /\ outcome' \in [Party -> Statuses]
<1>1. m.to \in Party /\ WellFormed(m.psbt)
  BY Zenon DEF TypeOK
<1>2. CombineStatus(psbt[m.to], m.psbt) \in {"ok", "err", "panic"}
  BY Zenon DEF CombineStatus, XpubStatus
<1>. QED
  BY <1>1, <1>2, CombineWellFormed DEF TypeOK, Accept, Insert, Extend, Statuses

\* Every step keeps the type invariant.
LEMMA TypeStep ==
  ASSUME TypeOK, [Next]_vars
  PROVE  TypeOK'
<1>1. ASSUME NEW p \in Party, NEW tx \in Tx, Create(p, tx) PROVE TypeOK'
  <2>1. CASE tx \in UnsignedTx
    BY <1>1, <2>1, FreshWellFormed, EndsType, Zenon DEF Create, Statuses
  <2>2. CASE tx \notin UnsignedTx
    BY <1>1, <2>2 DEF Create, TypeOK, Statuses, WellFormed, WellFormedInput
  <2>. QED  BY <2>1, <2>2, Zenon
<1>2. ASSUME NEW p \in Party, NEW o \in Offers, UpdateInput(p, o) PROVE TypeOK'
  <2> DEFINE in == psbt[p].inputs[o.input]
             new == IF o.field \in MapFields
                    THEN [in EXCEPT ![o.field] = Insert(in[o.field], o.key, o.value)]
                    ELSE [in EXCEPT ![o.field] = o.value]
             copy == [psbt[p] EXCEPT !.inputs[o.input] = new]
  <2>1. o.input \in Inputs /\ o.field \in InputFields
    BY WorkflowConstants, Zenon
  <2>2. WellFormed(psbt[p]) /\ WellFormedInput(in)
    BY <1>2, <2>1, Zenon DEF UpdateInput, TypeOK, WellFormed
  <2>3. WellFormedInput(new)
    <3>1. CASE o.field \in MapFields
      <4>1. DOMAIN Insert(in[o.field], o.key, o.value) \subseteq KeysOf(o.field)
        BY <2>2, <3>1, WorkflowConstants, Zenon DEF WellFormedInput, Insert, Extend
      <4>. QED  BY <2>1, <2>2, <3>1, <4>1, UpdateWellFormed, Zenon
    <3>2. CASE o.field \notin MapFields
      BY <2>1, <2>2, <3>2, UpdateWellFormed, Zenon
    <3>. QED  BY <3>1, <3>2, Zenon
  <2>4. WellFormed(copy)
    BY <2>1, <2>2, <2>3, Zenon DEF WellFormed, PsbtFields
  <2>5. psbt' = [psbt EXCEPT ![p] = copy] /\ UNCHANGED <<mail, faults, outcome>>
    BY <1>2, Zenon DEF UpdateInput
  <2>. QED  BY <1>2, <2>4, <2>5, RewriteType, Zenon DEF UpdateInput
<1>3. ASSUME NEW p \in Party, NEW o \in OutputOffers, UpdateOutput(p, o) PROVE TypeOK'
  <2> DEFINE copy == [psbt[p] EXCEPT !.outputs[o.output][o.field] = o.value]
  <2>1. WellFormed(copy)
    BY <1>3, Zenon DEF UpdateOutput, TypeOK, WellFormed, PsbtFields
  <2>2. psbt' = [psbt EXCEPT ![p] = copy] /\ UNCHANGED <<mail, faults, outcome>>
    BY <1>3, Zenon DEF UpdateOutput
  <2>. QED  BY <1>3, <2>1, <2>2, RewriteType, Zenon DEF UpdateOutput
<1>4. ASSUME NEW p \in Party, NEW o \in XpubOffers, UpdateXpub(p, o) PROVE TypeOK'
  <2> DEFINE new == Insert(psbt[p].xpub, o.xpub, o.source)
             copy == [psbt[p] EXCEPT !.xpub = new]
  <2>1. WellFormed(copy)
    <3>1. WellFormed(psbt[p])
      BY <1>4, Zenon DEF UpdateXpub, TypeOK
    <3>2. DOMAIN new \subseteq Xpubs
      BY <3>1, WorkflowConstants, Zenon DEF WellFormed, Insert, Extend
    <3>. QED  BY <3>1, <3>2, Zenon DEF WellFormed, PsbtFields
  <2>2. psbt' = [psbt EXCEPT ![p] = copy] /\ UNCHANGED <<mail, faults, outcome>>
    BY <1>4, Zenon DEF UpdateXpub
  <2>. QED  BY <1>4, <2>1, <2>2, RewriteType, Zenon DEF UpdateXpub
<1>5. ASSUME NEW p \in Party, UpdateVersion(p) PROVE TypeOK'
  <2> DEFINE copy == [psbt[p] EXCEPT !.version = 1]
  <2>1. WellFormed(copy)
    BY <1>5, Zenon DEF UpdateVersion, TypeOK, WellFormed, PsbtFields
  <2>2. psbt' = [psbt EXCEPT ![p] = copy] /\ UNCHANGED <<mail, faults, outcome>>
    BY <1>5, Zenon DEF UpdateVersion
  <2>. QED  BY <1>5, <2>1, <2>2, RewriteType, Zenon DEF UpdateVersion
<1>6. ASSUME NEW p \in Party, SignCopy(p) PROVE TypeOK'
  <2> DEFINE copy == [psbt[p] EXCEPT !.inputs = Sign(psbt[p].inputs, Held[p])]
  <2>1. WellFormed(psbt[p])
    BY <1>6, Zenon DEF SignCopy, TypeOK
  <2>2. WellFormed(copy)
    BY <2>1, SignWellFormed, WorkflowConstants, Zenon DEF WellFormed, PsbtFields
  <2>3. SignStatus(psbt[p].inputs, Held[p]) \in Statuses
    BY Zenon DEF SignStatus, Statuses
  <2>. QED  BY <1>6, <2>2, <2>3, EndsType, Zenon DEF SignCopy
<1>7. ASSUME NEW p \in Party, NEW i \in Inputs, Finalize(p, i) PROVE TypeOK'
  <2> DEFINE in == psbt[p].inputs[i]
             copy(c) == [psbt[p] EXCEPT !.inputs[i] = FinalizeInput(in, c)]
  <2>1. WellFormed(psbt[p])
    BY <1>7, Zenon DEF Finalize, TypeOK
  <2>2. ASSUME NEW c PROVE WellFormed(copy(c))
    <3>1. WellFormedInput(FinalizeInput(in, c))
      BY <2>1, FinalizeWellFormed, Zenon DEF WellFormed
    <3>. QED  BY <2>1, <3>1, Zenon DEF WellFormed, PsbtFields
  <2>3. \/ psbt' = [psbt EXCEPT ![p] = copy(ClearedFields)]
        \/ psbt' = [psbt EXCEPT ![p] = copy(ClearedByScriptPath)]
    BY <1>7, Zenon DEF Finalize
  <2>4. UNCHANGED <<mail, faults, outcome>>
    BY <1>7, Zenon DEF Finalize
  <2>. QED  BY <1>7, <2>2, <2>3, <2>4, RewriteType, Zenon DEF Finalize
<1>8. ASSUME NEW p \in Party, Extract(p) PROVE TypeOK'
  <2>1. ExtractStatus(psbt[p].inputs) \in Statuses
    BY Zenon DEF ExtractStatus, Statuses
  <2>2. WellFormed(psbt[p])
    BY <1>8, Zenon DEF Extract, TypeOK
  <2>. QED  BY <1>8, <2>1, <2>2, EndsType, Zenon DEF Extract
<1>9. ASSUME NEW p \in Party, NEW q \in Party, Send(p, q) PROVE TypeOK'
  BY <1>9 DEF Send, TypeOK, WellFormed, WellFormedInput
<1>10. ASSUME NEW m \in mail, Receive(m) PROVE TypeOK'
  BY <1>10, AcceptType, Zenon DEF Receive, TypeOK
<1>11. ASSUME NEW m \in mail, ReceiveAgain(m) PROVE TypeOK'
  BY <1>11, AcceptType, WorkflowConstants DEF ReceiveAgain, TypeOK
<1>12. ASSUME NEW m \in mail, Lose(m) PROVE TypeOK'
  BY <1>12, WorkflowConstants DEF Lose, TypeOK, WellFormed, WellFormedInput
<1>13. CASE UNCHANGED vars
  BY <1>13, Zenon DEF vars, TypeOK, WellFormed, WellFormedInput
<1>. QED
  BY <1>1, <1>2, <1>3, <1>4, <1>5, <1>6, <1>7, <1>8, <1>9, <1>10, <1>11, <1>12, <1>13, Zenon
     DEF Next

\* Every copy keeps the shape of struct Psbt through every call and message.
THEOREM TypeCorrect == Spec => []TypeOK
<1>1. Init => TypeOK
  BY WorkflowConstants DEF Init, TypeOK, EmptyMap, Statuses
<1>2. TypeOK /\ [Next]_vars => TypeOK'
  BY TypeStep, Zenon
<1>. QED
  BY <1>1, <1>2, PTL DEF Spec

-----------------------------------------------------------------------------
(* Signatures commit to the funding of the copies they are in.             *)
(*                                                                         *)
(* The inductive invariant adds where the utxos of a copy come from: each  *)
(* is the value of an offer, hence, under HonestOffers, the same in every  *)
(* copy.  Then no step changes a known utxo, and a signature that enters a *)
(* copy brings utxos that agree with the ones already there.               *)

OfferedUtxo(i, v) ==
  \E o \in Offers : o.field \in UtxoFields /\ o.input = i /\ o.value = v

FundingOffered(copy) ==
  \A i \in Inputs : \A f \in UtxoFields :
    copy.inputs[i][f] # None => OfferedUtxo(i, copy.inputs[i][f])

Sound(copy) == WellFormed(copy) /\ FundingOffered(copy) /\ SigsCommit(copy)

\* Two known utxos of one input are equal.
LEMMA OneUtxo ==
  ASSUME HonestOffers, NEW i \in Inputs, NEW v, NEW w, OfferedUtxo(i, v), OfferedUtxo(i, w)
  PROVE  v = w
  BY Zenon DEF HonestOffers, OfferedUtxo

\* The utxo an input spends is an offered one.
LEMMA SpendOffered ==
  ASSUME NEW copy, FundingOffered(copy), NEW i \in Inputs, SpendUtxo(copy.inputs[i]) # None
  PROVE  OfferedUtxo(i, SpendUtxo(copy.inputs[i]))
  BY Zenon DEF FundingOffered, SpendUtxo, UtxoFields

\* Known utxos are kept from one copy to another.
KeepsUtxos(old, new) ==
  \A j \in Inputs : SpendUtxo(old.inputs[j]) # None
                    => SpendUtxo(new.inputs[j]) = SpendUtxo(old.inputs[j])

\* What a signature commits to survives any change that keeps known utxos.
LEMMA CommitsKept ==
  ASSUME NEW old, NEW new, NEW sig, Commits(old, sig), KeepsUtxos(old, new)
  PROVE  Commits(new, sig)
  BY Zenon DEF Commits, KeepsUtxos

\* The signatures of in are among those of was.
NoNewSigs(was, in) ==
  /\ \A f \in {"partial_sigs", "tap_script_sigs"} :
       \A k \in DOMAIN in[f] : k \in DOMAIN was[f] /\ in[f][k] = was[f][k]
  /\ in.tap_key_sig # None => in.tap_key_sig = was.tap_key_sig

\* A change that brings no signature and keeps known utxos keeps SigsCommit.
LEMMA SigsKept ==
  ASSUME NEW old, NEW new, SigsCommit(old), KeepsUtxos(old, new),
         \A i \in Inputs : NoNewSigs(old.inputs[i], new.inputs[i])
  PROVE  SigsCommit(new)
  BY CommitsKept DEF SigsCommit, NoNewSigs

\* from_unsigned_tx.
LEMMA FreshSound ==
  ASSUME NEW tx \in UnsignedTx
  PROVE  Sound(FreshPsbt(tx))
<1> DEFINE copy == FreshPsbt(tx)
<1>1. \A i \in Inputs : copy.inputs[i] = EmptyInput
  BY Zenon DEF FreshPsbt
<1>2. /\ EmptyInput.witness_utxo = None /\ EmptyInput.non_witness_utxo = None
      /\ EmptyInput.tap_key_sig = None
      /\ EmptyInput.partial_sigs = EmptyMap /\ EmptyInput.tap_script_sigs = EmptyMap
  BY Zenon DEF EmptyInput, InputFields, KeepFields, MapFields
<1>3. DOMAIN EmptyMap = {}
  BY Zenon DEF EmptyMap
<1>4. FundingOffered(copy)
  BY <1>1, <1>2, Zenon DEF FundingOffered, UtxoFields
<1>5. SigsCommit(copy)
  BY <1>1, <1>2, <1>3, Zenon DEF SigsCommit
<1>. QED
  BY <1>4, <1>5, FreshWellFormed, Zenon DEF Sound

\* The merged input spends what either copy knew it to spend.
LEMMA CombineUtxo ==
  ASSUME HonestOffers, NEW i \in Inputs,
         NEW self, WellFormedInput(self), NEW other, WellFormedInput(other),
         \A f \in UtxoFields : /\ self[f] # None => OfferedUtxo(i, self[f])
                               /\ other[f] # None => OfferedUtxo(i, other[f])
  PROVE  LET new == CombineInput(self, other)
         IN  /\ \A f \in UtxoFields : new[f] # None => OfferedUtxo(i, new[f])
             /\ SpendUtxo(self) # None => SpendUtxo(new) = SpendUtxo(self)
             /\ SpendUtxo(other) # None => SpendUtxo(new) = SpendUtxo(other)
<1> DEFINE new == CombineInput(self, other)
<1>1. new.witness_utxo = Keep(self.witness_utxo, other.witness_utxo)
  BY Zenon DEF CombineInput, InputFields, KeepFields, MapFields
<1>2. new.non_witness_utxo = IF TakesWitnessUtxo(self, other) THEN None
                             ELSE Keep(self.non_witness_utxo, other.non_witness_utxo)
  BY Zenon DEF CombineInput, InputFields, KeepFields, MapFields
<1>3. \A f \in UtxoFields : new[f] # None => OfferedUtxo(i, new[f])
  BY <1>1, <1>2, Zenon DEF UtxoFields, Keep
<1>4. ASSUME SpendUtxo(self) # None PROVE SpendUtxo(new) # None
  BY <1>4, <1>1, <1>2, Zenon DEF SpendUtxo, Keep, TakesWitnessUtxo
<1>5. ASSUME SpendUtxo(other) # None PROVE SpendUtxo(new) # None
  BY <1>5, <1>1, <1>2, Zenon DEF SpendUtxo, Keep, TakesWitnessUtxo
<1>6. /\ SpendUtxo(self) # None => OfferedUtxo(i, SpendUtxo(self))
      /\ SpendUtxo(other) # None => OfferedUtxo(i, SpendUtxo(other))
      /\ SpendUtxo(new) # None => OfferedUtxo(i, SpendUtxo(new))
  BY <1>3, Zenon DEF SpendUtxo, UtxoFields
<1>. QED
  BY <1>3, <1>4, <1>5, <1>6, OneUtxo, Zenon

\* Psbt::combine, however it ends.
LEMMA CombineSound ==
  ASSUME HonestOffers, NEW self, Sound(self), NEW other, Sound(other)
  PROVE  Sound(CombinePsbt(self, other))
<1> DEFINE new == CombinePsbt(self, other)
<1>1. WellFormed(new)
  BY CombineWellFormed, ZenonT(40) DEF Sound
<1>2. CASE new.inputs = self.inputs
  <2> HIDE DEF new
  <2>1. FundingOffered(self) /\ SigsCommit(self)
    BY Zenon DEF Sound
  <2>2. FundingOffered(new)
    BY <1>2, <2>1, Zenon DEF FundingOffered
  <2>3. SigsCommit(new)
    BY <1>2, <2>1, SMTT(40) DEF SigsCommit, Commits
  <2>4. Sound(new)
    BY <1>1, <2>2, <2>3, Zenon DEF Sound
  <2>. QED  BY <2>4, Zenon DEF new
<1>3. CASE \A i \in Inputs : new.inputs[i] = CombineInput(self.inputs[i], other.inputs[i])
  <2>1. ASSUME NEW i \in Inputs
        PROVE  /\ \A f \in UtxoFields :
                    new.inputs[i][f] # None => OfferedUtxo(i, new.inputs[i][f])
               /\ SpendUtxo(self.inputs[i]) # None
                  => SpendUtxo(new.inputs[i]) = SpendUtxo(self.inputs[i])
               /\ SpendUtxo(other.inputs[i]) # None
                  => SpendUtxo(new.inputs[i]) = SpendUtxo(other.inputs[i])
    BY <1>3, CombineUtxo DEF Sound, FundingOffered, WellFormed
  <2>2. FundingOffered(new) /\ KeepsUtxos(self, new) /\ KeepsUtxos(other, new)
    BY <2>1, Zenon DEF FundingOffered, KeepsUtxos
  <2>3. ASSUME NEW i \in Inputs, NEW f \in {"partial_sigs", "tap_script_sigs"},
               NEW k \in DOMAIN new.inputs[i][f]
        PROVE  Commits(new, new.inputs[i][f][k])
    <3>1. new.inputs[i][f] = Extend(self.inputs[i][f], other.inputs[i][f])
      <4>1. f \in MapFields /\ f \in InputFields
        BY <2>3, Zenon DEF MapFields, InputFields
      <4>. QED  BY <1>3, <4>1, CombineField
    <3>2. \/ k \in DOMAIN self.inputs[i][f] /\ new.inputs[i][f][k] = self.inputs[i][f][k]
          \/ k \in DOMAIN other.inputs[i][f] /\ new.inputs[i][f][k] = other.inputs[i][f][k]
      BY <2>3, <3>1, Zenon DEF Extend
    <3>3. ASSUME NEW c, Sound(c), k \in DOMAIN c.inputs[i][f]
          PROVE  Commits(c, c.inputs[i][f][k])
      BY <3>3, Zenon DEF Sound, SigsCommit
    <3>. QED
      BY <2>2, <3>2, <3>3, CommitsKept, Zenon
  <2>4. ASSUME NEW i \in Inputs, new.inputs[i].tap_key_sig # None
        PROVE  Commits(new, new.inputs[i].tap_key_sig)
    <3>1. new.inputs[i].tap_key_sig = Keep(self.inputs[i].tap_key_sig, other.inputs[i].tap_key_sig)
      <4>1. "tap_key_sig" \in KeepFields /\ "tap_key_sig" \in InputFields
        BY Zenon DEF KeepFields, InputFields
      <4>. QED  BY <1>3, <4>1, CombineField
    <3>2. ASSUME NEW c, Sound(c), c.inputs[i].tap_key_sig # None
          PROVE  Commits(c, c.inputs[i].tap_key_sig)
      BY <3>2, Zenon DEF Sound, SigsCommit
    <3>. QED
      BY <2>2, <2>4, <3>1, <3>2, CommitsKept, Zenon DEF Keep
  <2>. QED
    BY <1>1, <2>2, <2>3, <2>4, Zenon DEF Sound, SigsCommit
<1>. QED
  BY <1>2, <1>3, Zenon DEF CombinePsbt, Sound, WellFormed, PsbtFields

\* Psbt::sign leaves every field but the signatures.
LEMMA SignKeepsFields ==
  ASSUME NEW ins, DOMAIN ins = Inputs, \A i \in Inputs : WellFormedInput(ins[i]),
         NEW held, NEW i \in Inputs, NEW f \in InputFields \ SigFields
  PROVE  Sign(ins, held)[i][f] = ins[i][f]
<1>1. SignEcdsa(ins[i], i, held)[f] = ins[i][f]
  BY Zenon DEF SignEcdsa, SigFields, WellFormedInput
<1>2. SignSchnorr(ins, i, held)[f] = ins[i][f]
  BY Zenon DEF SignSchnorr, SigFields, WellFormedInput
<1>. QED
  BY <1>1, <1>2, Zenon DEF Sign, SignInput

\* The signatures sign adds commit to the utxos it read.
LEMMA SignCommits ==
  ASSUME NEW copy, WellFormed(copy), NEW i \in Inputs, SpendUtxo(copy.inputs[i]) # None
  PROVE  /\ Commits(copy, EcdsaSig(copy.inputs[i], i))
         /\ ~TaprootFails(copy.inputs, i)
            => \A script : Commits(copy, TaprootSig(copy.inputs, i, script))
<1>1. Commits(copy, EcdsaSig(copy.inputs[i], i))
  BY Zenon DEF Commits, EcdsaSig
<1>2. ASSUME ~TaprootFails(copy.inputs, i), NEW script
      PROVE  Commits(copy, TaprootSig(copy.inputs, i, script))
  BY <1>2, Zenon DEF Commits, TaprootSig, TaprootFails
<1>. QED  BY <1>1, <1>2, Zenon

\* Psbt::sign, however it ends.
LEMMA SignSound ==
  ASSUME NEW copy, Sound(copy), NEW held \in SUBSET Key
  PROVE  Sound([copy EXCEPT !.inputs = Sign(copy.inputs, held)])
<1> DEFINE new == [copy EXCEPT !.inputs = Sign(copy.inputs, held)]
<1>1. WellFormed(copy) /\ new.inputs = Sign(copy.inputs, held)
  BY Zenon DEF Sound, WellFormed, PsbtFields
<1>2. WellFormed(new)
  BY <1>1, SignWellFormed, Zenon DEF WellFormed, PsbtFields
<1>3. \A i \in Inputs : \A f \in UtxoFields : new.inputs[i][f] = copy.inputs[i][f]
  <2>1. UtxoFields \subseteq InputFields \ SigFields
    BY Zenon DEF UtxoFields, InputFields, SigFields
  <2>. QED  BY <1>1, <2>1, SignKeepsFields DEF WellFormed
<1>4. \A i \in Inputs : SpendUtxo(new.inputs[i]) = SpendUtxo(copy.inputs[i])
  BY <1>3 DEF SpendUtxo, UtxoFields
<1>5. FundingOffered(new)
  BY <1>3, Zenon DEF Sound, FundingOffered
<1>6. KeepsUtxos(copy, new)
  BY <1>4, Zenon DEF KeepsUtxos
<1> HIDE DEF new
<1>7. ASSUME NEW i \in Inputs
      PROVE  LET in == new.inputs[i]
             IN  /\ \A k \in DOMAIN in.partial_sigs : Commits(new, in.partial_sigs[k])
                 /\ in.tap_key_sig # None => Commits(new, in.tap_key_sig)
                 /\ \A kl \in DOMAIN in.tap_script_sigs : Commits(new, in.tap_script_sigs[kl])
  <2> DEFINE was == copy.inputs[i]
             ecdsa == SignEcdsa(was, i, held)
             schnorr == SignSchnorr(copy.inputs, i, held)
  <2>1. WellFormedInput(was)
    BY <1>1, Zenon DEF WellFormed
  <2>2. /\ \A k \in DOMAIN was.partial_sigs : Commits(new, was.partial_sigs[k])
        /\ was.tap_key_sig # None => Commits(new, was.tap_key_sig)
        /\ \A kl \in DOMAIN was.tap_script_sigs : Commits(new, was.tap_script_sigs[kl])
    BY <1>6, CommitsKept, Zenon DEF Sound, SigsCommit
  <2>3. CASE new.inputs[i] = was
    BY <2>2, <2>3, Zenon
  <2>4. CASE SpendUtxo(was) # None /\ new.inputs[i] = ecdsa
    <3>1. /\ ecdsa.tap_key_sig = was.tap_key_sig
          /\ ecdsa.tap_script_sigs = was.tap_script_sigs
      BY <2>1 DEF SignEcdsa, WellFormedInput
    <3>2. ASSUME NEW k \in DOMAIN ecdsa.partial_sigs
          PROVE  \/ ecdsa.partial_sigs[k] = EcdsaSig(was, i)
                 \/ k \in DOMAIN was.partial_sigs /\ ecdsa.partial_sigs[k] = was.partial_sigs[k]
      BY <2>1, Zenon DEF SignEcdsa, Extend, WellFormedInput, InputFields, MapFields
    <3>3. Commits(new, EcdsaSig(was, i))
      BY <1>1, <1>6, <2>4, SignCommits, CommitsKept, Zenon
    <3>. QED  BY <2>2, <2>4, <3>1, <3>2, <3>3, Zenon
  <2>5. CASE SpendUtxo(was) # None /\ new.inputs[i] = schnorr /\ ~TaprootFails(copy.inputs, i)
    <3>1. schnorr.partial_sigs = was.partial_sigs
      BY <2>1 DEF SignSchnorr, WellFormedInput
    <3>2. \/ schnorr.tap_key_sig = was.tap_key_sig
          \/ schnorr.tap_key_sig = TaprootSig(copy.inputs, i, was.tap_merkle_root)
      BY <2>1, Zenon DEF SignSchnorr, WellFormedInput, InputFields, KeepFields
    <3>3. ASSUME NEW kl \in DOMAIN schnorr.tap_script_sigs
          PROVE  \/ schnorr.tap_script_sigs[kl] = TaprootSig(copy.inputs, i, kl[2])
                 \/ /\ kl \in DOMAIN was.tap_script_sigs
                    /\ schnorr.tap_script_sigs[kl] = was.tap_script_sigs[kl]
      BY <2>1, Zenon DEF SignSchnorr, Extend, WellFormedInput, InputFields, MapFields
    <3>4. \A script : Commits(new, TaprootSig(copy.inputs, i, script))
      BY <1>1, <1>6, <2>5, SignCommits, CommitsKept, Zenon
    <3>. QED  BY <2>2, <2>5, <3>1, <3>2, <3>3, <3>4, Zenon
  <2>6. CASE new.inputs[i] = schnorr /\ TaprootFails(copy.inputs, i)
    <3>1. ASSUME NeedsSchnorr(was, held) PROVE schnorr = was
      BY <2>6, <3>1, Zenon DEF SignSchnorr
    <3>2. ASSUME ~NeedsSchnorr(was, held)
          PROVE  /\ schnorr.partial_sigs = was.partial_sigs
                 /\ schnorr.tap_key_sig = was.tap_key_sig
                 /\ schnorr.tap_script_sigs = Extend(was.tap_script_sigs,
                      [kl \in {} |-> TaprootSig(copy.inputs, i, kl[2])])
      BY <2>1, <3>2 DEF SignSchnorr, NeedsSchnorr, WellFormedInput, InputFields, KeepFields,
                        MapFields
    <3>. QED  BY <2>2, <2>6, <3>1, <3>2 DEF Extend
  <2>. QED
    BY <1>1, <2>3, <2>4, <2>5, <2>6, Zenon DEF Sign, SignInput
<1>8. SigsCommit(new)
  BY <1>7, Zenon DEF SigsCommit
<1>. QED
  BY <1>2, <1>5, <1>8, Zenon DEF Sound, new

\* Changing one input: the rest of the copy and its other inputs stay.
LEMMA OneInputSound ==
  ASSUME NEW copy, Sound(copy), NEW i \in Inputs, NEW new, WellFormedInput(new),
         NoNewSigs(copy.inputs[i], new),
         \A f \in UtxoFields : new[f] # None => OfferedUtxo(i, new[f]),
         SpendUtxo(copy.inputs[i]) # None => SpendUtxo(new) = SpendUtxo(copy.inputs[i])
  PROVE  Sound([copy EXCEPT !.inputs[i] = new])
<1> DEFINE changed == [copy EXCEPT !.inputs[i] = new]
<1>1. /\ DOMAIN changed = PsbtFields
      /\ DOMAIN changed.inputs = Inputs
      /\ changed.inputs[i] = new
      /\ \A j \in Inputs \ {i} : changed.inputs[j] = copy.inputs[j]
      /\ \A f \in PsbtFields \ {"inputs"} : changed[f] = copy[f]
  BY Zenon DEF Sound, WellFormed, PsbtFields
<1>2. WellFormed(changed)
  BY <1>1, Zenon DEF Sound, WellFormed, PsbtFields
<1>3. FundingOffered(changed)
  BY <1>1 DEF Sound, FundingOffered
<1>4. KeepsUtxos(copy, changed)
  BY <1>1, Zenon DEF KeepsUtxos
<1>5. \A j \in Inputs : NoNewSigs(copy.inputs[j], changed.inputs[j])
  BY <1>1 DEF NoNewSigs
<1> HIDE DEF changed
<1>6. SigsCommit(changed)
  BY <1>4, <1>5, SigsKept, Zenon DEF Sound
<1>. QED  BY <1>2, <1>3, <1>6, Zenon DEF Sound, changed

\* The updater's writes, under HonestOffers.
LEMMA UpdateSound ==
  ASSUME HonestOffers, NEW copy, Sound(copy), NEW o \in Offers, NEW new,
         o.field \notin MapFields => copy.inputs[o.input][o.field] = None,
         new = IF o.field \in MapFields
               THEN [copy.inputs[o.input] EXCEPT
                       ![o.field] = Insert(copy.inputs[o.input][o.field], o.key, o.value)]
               ELSE [copy.inputs[o.input] EXCEPT ![o.field] = o.value]
  PROVE  Sound([copy EXCEPT !.inputs[o.input] = new])
<1> DEFINE in == copy.inputs[o.input]
<1>1. o.input \in Inputs /\ o.field \in InputFields /\ o.field \notin SigFields
  BY WorkflowConstants, Zenon DEF HonestOffers
<1>2. WellFormedInput(in)
  BY <1>1, Zenon DEF Sound, WellFormed
<1>3. DOMAIN new = InputFields /\ \A f \in InputFields \ {o.field} : new[f] = in[f]
  BY <1>1, <1>2, Zenon DEF WellFormedInput
<1>4. WellFormedInput(new)
  <2>1. CASE o.field \in MapFields
    <3>1. DOMAIN Insert(in[o.field], o.key, o.value) \subseteq KeysOf(o.field)
      BY <1>2, <2>1, WorkflowConstants, Zenon DEF WellFormedInput, Insert, Extend
    <3>. QED  BY <1>1, <1>2, <2>1, <3>1, UpdateWellFormed, Zenon
  <2>2. CASE o.field \notin MapFields
    BY <1>1, <1>2, <2>2, UpdateWellFormed, Zenon
  <2>. QED  BY <2>1, <2>2, Zenon
<1>5. NoNewSigs(in, new)
  <2>1. SigFields \subseteq InputFields
    BY Zenon DEF SigFields, InputFields, KeepFields, MapFields
  <2>2. \A f \in SigFields : new[f] = in[f]
    BY <1>1, <1>3, <2>1, Zenon
  <2>. QED  BY <2>2, Zenon DEF NoNewSigs, SigFields
<1>6. ASSUME NEW f \in UtxoFields
      PROVE  /\ new[f] # None => OfferedUtxo(o.input, new[f])
             /\ in[f] # None => new[f] = in[f]
  <2>1. f \in InputFields /\ f \notin MapFields
    BY Zenon DEF UtxoFields, InputFields, MapFields
  <2>2. in[f] # None => OfferedUtxo(o.input, in[f])
    BY <1>1, Zenon DEF Sound, FundingOffered
  <2>3. CASE f # o.field
    BY <1>3, <2>1, <2>2, <2>3, Zenon
  <2>4. CASE f = o.field
    <3>1. new[f] = o.value /\ in[f] = None
      BY <1>1, <1>2, <2>1, <2>4, Zenon DEF WellFormedInput
    <3>. QED  BY <2>4, <3>1, Zenon DEF OfferedUtxo
  <2>. QED  BY <2>3, <2>4, Zenon
<1>7. SpendUtxo(in) # None => SpendUtxo(new) = SpendUtxo(in)
  <2>1. /\ SpendUtxo(in) # None => OfferedUtxo(o.input, SpendUtxo(in))
        /\ SpendUtxo(new) # None => OfferedUtxo(o.input, SpendUtxo(new))
    BY <1>1, <1>6, SpendOffered, Zenon DEF Sound, SpendUtxo, UtxoFields
  <2>2. SpendUtxo(in) # None => SpendUtxo(new) # None
    BY <1>6, Zenon DEF SpendUtxo, UtxoFields
  <2>. QED  BY <1>1, <2>1, <2>2, OneUtxo, Zenon
<1>. QED
  BY <1>1, <1>4, <1>5, <1>6, <1>7, OneInputSound, Zenon

\* The examples' finalizer.
LEMMA FinalizeSound ==
  ASSUME NEW copy, Sound(copy), NEW i \in Inputs,
         NEW cleared \in {ClearedFields, ClearedByScriptPath}
  PROVE  Sound([copy EXCEPT !.inputs[i] = FinalizeInput(copy.inputs[i], cleared)])
<1> DEFINE in == copy.inputs[i]
           new == FinalizeInput(in, cleared)
<1>1. WellFormedInput(in) /\ WellFormedInput(new)
  BY FinalizeWellFormed, Zenon DEF Sound, WellFormed
<1>2. \A f \in UtxoFields : new[f] = in[f]
  BY Zenon DEF FinalizeInput, ClearedFields, ClearedByScriptPath, UtxoFields, InputFields, KeepFields
<1>3. \A f \in SigFields : new[f] = in[f] \/ new[f] = EmptyInput[f]
  BY DEF FinalizeInput, ClearedFields, ClearedByScriptPath, SigFields, InputFields, KeepFields,
         MapFields
<1>4. /\ EmptyInput.tap_key_sig = None
      /\ DOMAIN EmptyInput.partial_sigs = {} /\ DOMAIN EmptyInput.tap_script_sigs = {}
  BY Zenon DEF EmptyInput, EmptyMap, InputFields, KeepFields, MapFields
<1>5. NoNewSigs(in, new)
  BY <1>3, <1>4, Zenon DEF NoNewSigs, SigFields
<1>6. \A f \in UtxoFields : new[f] # None => OfferedUtxo(i, new[f])
  BY <1>2, Zenon DEF Sound, FundingOffered
<1>7. SpendUtxo(new) = SpendUtxo(in)
  BY <1>2, Zenon DEF SpendUtxo, UtxoFields
<1>. QED
  BY <1>1, <1>5, <1>6, <1>7, OneInputSound, Zenon

\* A copy whose inputs do not change stays sound.
LEMMA SameInputsSound ==
  ASSUME NEW copy, Sound(copy), NEW new, WellFormed(new), new.inputs = copy.inputs
  PROVE  Sound(new)
  BY DEF Sound, FundingOffered, SigsCommit, Commits

AllSound ==
  /\ \A p \in DOMAIN psbt : Sound(psbt[p])
  /\ \A m \in mail : Sound(m.psbt)

\* A step that only writes p's copy.
LEMMA WriteSound ==
  ASSUME AllSound, NEW p, NEW copy, Sound(copy), UNCHANGED mail,
         \/ psbt' = Insert(psbt, p, copy)
         \/ p \in DOMAIN psbt /\ psbt' = [psbt EXCEPT ![p] = copy]
  PROVE  AllSound'
  BY Zenon DEF AllSound, Insert, Extend

\* An accepted message.
LEMMA AcceptSound ==
  ASSUME HonestOffers, AllSound, NEW m \in mail, Accept(m.to, m.psbt)
  PROVE  \A p \in DOMAIN psbt' : Sound(psbt'[p])
  BY CombineSound DEF AllSound, Accept, Insert, Extend

\* Whatever is exchanged, lost, repeated and combined in whatever order, a
\* signature is only ever found together with the utxos it was computed over
\* (Psbt::sign, Psbt::combine, Input::combine), for every set of parties,
\* inputs and keys, provided the updaters agree on the utxos.
THEOREM SignaturesCommit ==
  ASSUME HonestOffers
  PROVE  Spec => []SigsCommitToFunding
<1>1. Init => AllSound
  BY Zenon DEF Init, AllSound, EmptyMap
<1>2. AllSound /\ [Next]_vars => AllSound'
  <2> SUFFICES ASSUME AllSound, [Next]_vars PROVE AllSound'
    BY Zenon
  <2>1. ASSUME NEW p \in Party, NEW tx \in Tx, Create(p, tx) PROVE AllSound'
    <3>1. CASE tx \in UnsignedTx
      BY <2>1, <3>1, FreshSound, WriteSound, Zenon DEF Create, Ends
    <3>2. CASE tx \notin UnsignedTx
      BY <2>1, <3>2, Zenon DEF Create, AllSound
    <3>. QED  BY <3>1, <3>2, Zenon
  <2>2. ASSUME NEW p \in Party, NEW o \in Offers, UpdateInput(p, o) PROVE AllSound'
    <3> DEFINE in == psbt[p].inputs[o.input]
               new == IF o.field \in MapFields
                      THEN [in EXCEPT ![o.field] = Insert(in[o.field], o.key, o.value)]
                      ELSE [in EXCEPT ![o.field] = o.value]
    <3>1. p \in DOMAIN psbt /\ Sound(psbt[p])
      BY <2>2, Zenon DEF UpdateInput, AllSound
    <3>2. Sound([psbt[p] EXCEPT !.inputs[o.input] = new])
      <4>1. o.field \notin MapFields => in[o.field] = None
        BY <2>2, Zenon DEF UpdateInput
      <4>. QED  BY <3>1, <4>1, UpdateSound, Zenon
    <3>3. psbt' = [psbt EXCEPT ![p] = [psbt[p] EXCEPT !.inputs[o.input] = new]]
      BY <2>2, Zenon DEF UpdateInput
    <3>. QED  BY <2>2, <3>1, <3>2, <3>3, WriteSound, Zenon DEF UpdateInput
  <2>3. ASSUME NEW p \in Party, NEW o \in OutputOffers, UpdateOutput(p, o) PROVE AllSound'
    <3> DEFINE new == [psbt[p] EXCEPT !.outputs[o.output][o.field] = o.value]
    <3>1. p \in DOMAIN psbt /\ Sound(psbt[p])
      BY <2>3, Zenon DEF UpdateOutput, AllSound
    <3>2. WellFormed(new) /\ new.inputs = psbt[p].inputs
      BY <3>1, Zenon DEF Sound, WellFormed, PsbtFields
    <3>3. psbt' = [psbt EXCEPT ![p] = new]
      BY <2>3, Zenon DEF UpdateOutput
    <3> HIDE DEF new
    <3>4. Sound(new)
      BY <3>1, <3>2, SameInputsSound, Zenon
    <3>. QED  BY <2>3, <3>1, <3>3, <3>4, WriteSound, Zenon DEF UpdateOutput
  <2>4. ASSUME NEW p \in Party, NEW o \in XpubOffers, UpdateXpub(p, o) PROVE AllSound'
    <3> DEFINE xpub == Insert(psbt[p].xpub, o.xpub, o.source)
               new == [psbt[p] EXCEPT !.xpub = xpub]
    <3>1. p \in DOMAIN psbt /\ Sound(psbt[p])
      BY <2>4, Zenon DEF UpdateXpub, AllSound
    <3>2. DOMAIN xpub \subseteq Xpubs
      BY <3>1, WorkflowConstants, Zenon DEF Sound, WellFormed, Insert, Extend
    <3>3. WellFormed(new) /\ new.inputs = psbt[p].inputs
      BY <3>1, <3>2, Zenon DEF Sound, WellFormed, PsbtFields
    <3>4. psbt' = [psbt EXCEPT ![p] = new]
      BY <2>4, Zenon DEF UpdateXpub
    <3> HIDE DEF new
    <3>5. Sound(new)
      BY <3>1, <3>3, SameInputsSound, Zenon
    <3>. QED  BY <2>4, <3>1, <3>4, <3>5, WriteSound, Zenon DEF UpdateXpub
  <2>5. ASSUME NEW p \in Party, UpdateVersion(p) PROVE AllSound'
    <3> DEFINE new == [psbt[p] EXCEPT !.version = 1]
    <3>1. p \in DOMAIN psbt /\ Sound(psbt[p])
      BY <2>5, Zenon DEF UpdateVersion, AllSound
    <3>2. WellFormed(new) /\ new.inputs = psbt[p].inputs
      BY <3>1, Zenon DEF Sound, WellFormed, PsbtFields
    <3>3. psbt' = [psbt EXCEPT ![p] = new]
      BY <2>5, Zenon DEF UpdateVersion
    <3> HIDE DEF new
    <3>4. Sound(new)
      BY <3>1, <3>2, SameInputsSound, Zenon
    <3>. QED  BY <2>5, <3>1, <3>3, <3>4, WriteSound, Zenon DEF UpdateVersion
  <2>6. ASSUME NEW p \in Party, SignCopy(p) PROVE AllSound'
    <3>1. Sound(psbt[p]) /\ Held[p] \in SUBSET Key
      BY <2>6, WorkflowConstants, Zenon DEF SignCopy, AllSound
    <3>. QED  BY <2>6, <3>1, SignSound, WriteSound, Zenon DEF SignCopy, Ends
  <2>7. ASSUME NEW p \in Party, NEW i \in Inputs, Finalize(p, i) PROVE AllSound'
    <3>1. p \in DOMAIN psbt /\ Sound(psbt[p])
      BY <2>7, Zenon DEF Finalize, AllSound
    <3>2. PICK c \in {ClearedFields, ClearedByScriptPath} :
            psbt' = [psbt EXCEPT ![p] =
                       [psbt[p] EXCEPT !.inputs[i] = FinalizeInput(psbt[p].inputs[i], c)]]
      BY <2>7, Zenon DEF Finalize
    <3>. QED  BY <2>7, <3>1, <3>2, FinalizeSound, WriteSound, Zenon DEF Finalize
  <2>8. ASSUME NEW p \in Party, Extract(p) PROVE AllSound'
    BY <2>8, WriteSound, Zenon DEF Extract, Ends, AllSound
  <2>9. ASSUME NEW p \in Party, NEW q \in Party, Send(p, q) PROVE AllSound'
    BY <2>9 DEF Send, AllSound
  <2>10. ASSUME NEW m \in mail, Receive(m) PROVE AllSound'
    BY <2>10, AcceptSound, Zenon DEF Receive, AllSound
  <2>11. ASSUME NEW m \in mail, ReceiveAgain(m) PROVE AllSound'
    BY <2>11, AcceptSound, Zenon DEF ReceiveAgain, AllSound
  <2>12. ASSUME NEW m \in mail, Lose(m) PROVE AllSound'
    BY <2>12, Zenon DEF Lose, AllSound
  <2>13. CASE UNCHANGED vars
    BY <2>13, Zenon DEF vars, AllSound
  <2>. QED
    BY <2>1, <2>2, <2>3, <2>4, <2>5, <2>6, <2>7, <2>8, <2>9, <2>10, <2>11, <2>12, <2>13, Zenon
       DEF Next
<1>3. AllSound => SigsCommitToFunding
  BY Zenon DEF AllSound, SigsCommitToFunding, Copies, Sound
<1>. QED
  BY <1>1, <1>2, <1>3, PTL DEF Spec

-----------------------------------------------------------------------------
(* Key sources only grow.                                                  *)
(*                                                                         *)
(* The inductive invariant is that the paths of all copies are sequences,  *)
(* so that a path ends with itself.                                        *)

PathsOf(copy) == \A x \in DOMAIN copy.xpub : copy.xpub[x].path \in Seq(Nat)

PathsSound ==
  /\ TypeOK
  /\ \A p \in DOMAIN psbt : PathsOf(psbt[p])
  /\ \A m \in mail : PathsOf(m.psbt)

\* What p's copy may become in one step.
XpubsGrow(old, new) ==
  \A x \in DOMAIN old.xpub : /\ x \in DOMAIN new.xpub
                             /\ EndsWith(new.xpub[x].path, old.xpub[x].path)

\* A path ends with itself.
LEMMA EndsWithItself ==
  ASSUME NEW path \in Seq(Nat)
  PROVE  EndsWith(path, path)
<1>1. SubSeq(path, 1, Len(path)) = path
  OBVIOUS
<1>2. Len(path) - Len(path) + 1 = 1 /\ Len(path) <= Len(path)
  OBVIOUS
<1>. QED  BY <1>1, <1>2, Zenon DEF EndsWith

\* The loop over other.xpub takes over a key source only where it has a longer
\* path that ends with the one at hand.
LEMMA CombineXpubs ==
  ASSUME NEW self, WellFormed(self), PathsOf(self), NEW other, WellFormed(other), PathsOf(other)
  PROVE  PathsOf(CombinePsbt(self, other)) /\ XpubsGrow(self, CombinePsbt(self, other))
<1> DEFINE new == CombinePsbt(self, other)
           merged == MergeXpubs(self.xpub, other.xpub)
<1>1. new.xpub = self.xpub \/ new.xpub = merged
  BY Zenon DEF CombinePsbt, WellFormed, PsbtFields
<1>2. DOMAIN merged = DOMAIN self.xpub \cup XpubsTaken(self.xpub, other.xpub)
  BY Zenon DEF MergeXpubs, Extend
<1>3. ASSUME NEW x \in XpubsTaken(self.xpub, other.xpub)
      PROVE  /\ x \in DOMAIN other.xpub /\ merged[x] = other.xpub[x]
             /\ x \in DOMAIN self.xpub => EndsWith(other.xpub[x].path, self.xpub[x].path)
  <2>1. x \in DOMAIN other.xpub /\ XpubStep(self.xpub, other.xpub, x) = "replace"
    BY Zenon DEF XpubsTaken
  <2>2. merged[x] = other.xpub[x]
    BY Zenon DEF MergeXpubs, Extend
  <2>. QED  BY <2>1, <2>2, Zenon DEF XpubStep, MergeKeySource
<1>4. ASSUME NEW x \in DOMAIN self.xpub, x \notin XpubsTaken(self.xpub, other.xpub)
      PROVE  merged[x] = self.xpub[x]
  BY <1>4, Zenon DEF MergeXpubs, Extend
<1> HIDE DEF merged
<1>5. PathsOf(new)
  BY <1>1, <1>2, <1>3, <1>4, Zenon DEF PathsOf
<1>6. XpubsGrow(self, new)
  <2>1. ASSUME NEW x \in DOMAIN self.xpub
        PROVE  EndsWith(self.xpub[x].path, self.xpub[x].path)
    BY EndsWithItself, Zenon DEF PathsOf
  <2>. QED  BY <1>1, <1>2, <1>3, <1>4, <2>1, Zenon DEF XpubsGrow
<1>. QED  BY <1>5, <1>6, Zenon

\* A step that leaves the key sources alone.
LEMMA SameXpubs ==
  ASSUME NEW old, PathsOf(old), NEW new, new.xpub = old.xpub
  PROVE  PathsOf(new) /\ XpubsGrow(old, new)
  BY EndsWithItself, Zenon DEF PathsOf, XpubsGrow

\* A step that writes p's copy, or none.
LEMMA WriteXpubs ==
  ASSUME PathsSound, TypeOK', NEW p, NEW copy, PathsOf(copy), UNCHANGED mail,
         p \in DOMAIN psbt => XpubsGrow(psbt[p], copy),
         \/ psbt' = Insert(psbt, p, copy)
         \/ p \in DOMAIN psbt /\ psbt' = [psbt EXCEPT ![p] = copy]
  PROVE  PathsSound' /\ \A q \in DOMAIN psbt : XpubsGrow(psbt[q], psbt'[q])
<1>1. \A q \in DOMAIN psbt : XpubsGrow(psbt[q], psbt[q])
  BY SameXpubs, Zenon DEF PathsSound
<1>2. \A q \in DOMAIN psbt' : psbt'[q] = IF q = p THEN copy ELSE psbt[q]
  BY Zenon DEF Insert, Extend
<1>3. DOMAIN psbt' = DOMAIN psbt \cup {p}
  BY Zenon DEF Insert, Extend
<1>. QED  BY <1>1, <1>2, <1>3, Zenon DEF PathsSound

\* An accepted message.
LEMMA AcceptXpubs ==
  ASSUME PathsSound, TypeOK', NEW m \in mail, Accept(m.to, m.psbt), mail' \subseteq mail
  PROVE  PathsSound' /\ \A q \in DOMAIN psbt : XpubsGrow(psbt[q], psbt'[q])
<1>1. PathsOf(m.psbt) /\ WellFormed(m.psbt)
  BY Zenon DEF PathsSound, TypeOK
<1>2. \A q \in DOMAIN psbt : XpubsGrow(psbt[q], psbt[q])
  BY SameXpubs, Zenon DEF PathsSound
<1>3. CASE psbt' = psbt
  BY <1>2, <1>3, Zenon DEF PathsSound
<1>4. CASE m.to \notin DOMAIN psbt /\ psbt' = Insert(psbt, m.to, m.psbt)
  BY <1>1, <1>2, <1>4, Zenon DEF PathsSound, Insert, Extend
<1>5. CASE m.to \in DOMAIN psbt /\ psbt' = [psbt EXCEPT ![m.to] = CombinePsbt(psbt[m.to], m.psbt)]
  <2> DEFINE new == CombinePsbt(psbt[m.to], m.psbt)
  <2>1. PathsOf(new) /\ XpubsGrow(psbt[m.to], new)
    BY <1>1, <1>5, CombineXpubs, Zenon DEF PathsSound, TypeOK
  <2> HIDE DEF new
  <2>2. DOMAIN psbt' = DOMAIN psbt
    BY <1>5, Zenon
  <2>3. \A q \in DOMAIN psbt : psbt'[q] = IF q = m.to THEN new ELSE psbt[q]
    BY <1>5, Zenon DEF new
  <2>. QED  BY <1>2, <2>1, <2>2, <2>3, Zenon DEF PathsSound
<1>. QED  BY <1>3, <1>4, <1>5, Zenon DEF Accept

\* Every step keeps the paths, and lets the key sources of every copy grow.
LEMMA PathsStep ==
  ASSUME PathsSound, [Next]_vars
  PROVE  PathsSound' /\ \A q \in DOMAIN psbt : XpubsGrow(psbt[q], psbt'[q])
<1> DEFINE Goal == PathsSound' /\ \A q \in DOMAIN psbt : XpubsGrow(psbt[q], psbt'[q])
<1>0. TypeOK /\ TypeOK' /\ \A q \in DOMAIN psbt : XpubsGrow(psbt[q], psbt[q])
  BY TypeStep, SameXpubs, Zenon DEF PathsSound
<1>1. ASSUME NEW p \in Party, NEW tx \in Tx, Create(p, tx) PROVE Goal
  <2>1. CASE tx \in UnsignedTx
    <3>1. PathsOf(FreshPsbt(tx))
      BY Zenon DEF PathsOf, FreshPsbt, EmptyMap
    <3>. QED  BY <1>0, <1>1, <2>1, <3>1, WriteXpubs, Zenon DEF Create, Ends
  <2>2. CASE tx \notin UnsignedTx
    BY <1>0, <1>1, <2>2, Zenon DEF Create, PathsSound
  <2>. QED  BY <2>1, <2>2, Zenon
<1>2. ASSUME NEW p \in DOMAIN psbt, NEW copy, copy.xpub = psbt[p].xpub, UNCHANGED mail,
             psbt' = [psbt EXCEPT ![p] = copy] \/ psbt' = Insert(psbt, p, copy)
      PROVE  Goal
  <2>1. PathsOf(copy) /\ XpubsGrow(psbt[p], copy)
    BY <1>2, SameXpubs, Zenon DEF PathsSound
  <2>. QED  BY <1>0, <1>2, <2>1, WriteXpubs, Zenon
<1>3. ASSUME NEW p \in DOMAIN psbt PROVE DOMAIN psbt[p] = PsbtFields
  BY <1>0, Zenon DEF TypeOK, WellFormed
<1>4. ASSUME NEW p \in Party, NEW o \in Offers, UpdateInput(p, o) PROVE Goal
  <2> DEFINE in == psbt[p].inputs[o.input]
             copy == [psbt[p] EXCEPT !.inputs[o.input] =
                        IF o.field \in MapFields
                        THEN [in EXCEPT ![o.field] = Insert(in[o.field], o.key, o.value)]
                        ELSE [in EXCEPT ![o.field] = o.value]]
  <2>1. p \in DOMAIN psbt /\ psbt' = [psbt EXCEPT ![p] = copy] /\ UNCHANGED mail
    BY <1>4, Zenon DEF UpdateInput
  <2>2. copy.xpub = psbt[p].xpub
    BY <1>3, <2>1, Zenon DEF PsbtFields
  <2>. QED  BY <1>2, <2>1, <2>2, Zenon
<1>5. ASSUME NEW p \in Party, NEW o \in OutputOffers, UpdateOutput(p, o) PROVE Goal
  <2> DEFINE copy == [psbt[p] EXCEPT !.outputs[o.output][o.field] = o.value]
  <2>1. p \in DOMAIN psbt /\ psbt' = [psbt EXCEPT ![p] = copy] /\ UNCHANGED mail
    BY <1>5, Zenon DEF UpdateOutput
  <2>2. copy.xpub = psbt[p].xpub
    BY <1>3, <2>1, Zenon DEF PsbtFields
  <2>. QED  BY <1>2, <2>1, <2>2, Zenon
<1>6. ASSUME NEW p \in Party, NEW o \in XpubOffers, UpdateXpub(p, o) PROVE Goal
  <2> DEFINE xpub == Insert(psbt[p].xpub, o.xpub, o.source)
             copy == [psbt[p] EXCEPT !.xpub = xpub]
  <2>1. p \in DOMAIN psbt /\ psbt' = [psbt EXCEPT ![p] = copy] /\ UNCHANGED mail
    BY <1>6, Zenon DEF UpdateXpub
  <2>2. copy.xpub = xpub
    BY <1>3, <2>1, Zenon DEF PsbtFields
  <2>3. /\ DOMAIN xpub = DOMAIN psbt[p].xpub \cup {o.xpub}
        /\ xpub[o.xpub].path \in Seq(Nat)
        /\ o.xpub \notin DOMAIN psbt[p].xpub
        /\ \A x \in DOMAIN psbt[p].xpub : xpub[x] = psbt[p].xpub[x]
    BY <1>6, WorkflowConstants, Zenon DEF UpdateXpub, Insert, Extend
  <2> HIDE DEF xpub
  <2>4. PathsOf(copy) /\ XpubsGrow(psbt[p], copy)
    BY <1>0, <2>1, <2>2, <2>3 DEF PathsSound, PathsOf, XpubsGrow
  <2> HIDE DEF copy
  <2>. QED  BY <1>0, <2>1, <2>4, WriteXpubs, Zenon
<1>7. ASSUME NEW p \in Party, UpdateVersion(p) PROVE Goal
  <2> DEFINE copy == [psbt[p] EXCEPT !.version = 1]
  <2>1. p \in DOMAIN psbt /\ psbt' = [psbt EXCEPT ![p] = copy] /\ UNCHANGED mail
    BY <1>7, Zenon DEF UpdateVersion
  <2>2. copy.xpub = psbt[p].xpub
    BY <1>3, <2>1, Zenon DEF PsbtFields
  <2>. QED  BY <1>2, <2>1, <2>2, Zenon
<1>8. ASSUME NEW p \in Party, SignCopy(p) PROVE Goal
  <2> DEFINE copy == [psbt[p] EXCEPT !.inputs = Sign(psbt[p].inputs, Held[p])]
  <2>1. p \in DOMAIN psbt /\ psbt' = Insert(psbt, p, copy) /\ UNCHANGED mail
    BY <1>8, Zenon DEF SignCopy, Ends
  <2>2. copy.xpub = psbt[p].xpub
    BY <1>3, <2>1, Zenon DEF PsbtFields
  <2>. QED  BY <1>2, <2>1, <2>2, Zenon
<1>9. ASSUME NEW p \in Party, NEW i \in Inputs, Finalize(p, i) PROVE Goal
  <2>1. p \in DOMAIN psbt /\ UNCHANGED mail
    BY <1>9, Zenon DEF Finalize
  <2>2. PICK c \in {ClearedFields, ClearedByScriptPath} :
          psbt' = [psbt EXCEPT ![p] =
                     [psbt[p] EXCEPT !.inputs[i] = FinalizeInput(psbt[p].inputs[i], c)]]
    BY <1>9, Zenon DEF Finalize
  <2>3. [psbt[p] EXCEPT !.inputs[i] = FinalizeInput(psbt[p].inputs[i], c)].xpub = psbt[p].xpub
    BY <1>3, <2>1, Zenon DEF PsbtFields
  <2>. QED  BY <1>2, <2>1, <2>2, <2>3, Zenon
<1>10. ASSUME NEW p \in Party, Extract(p) PROVE Goal
  BY <1>2, <1>10, Zenon DEF Extract, Ends
<1>11. ASSUME NEW p \in Party, NEW q \in Party, Send(p, q) PROVE Goal
  BY <1>0, <1>11 DEF Send, PathsSound
<1>12. ASSUME NEW m \in mail, Receive(m) PROVE Goal
  BY <1>0, <1>12, AcceptXpubs, Zenon DEF Receive
<1>13. ASSUME NEW m \in mail, ReceiveAgain(m) PROVE Goal
  BY <1>0, <1>13, AcceptXpubs, Zenon DEF ReceiveAgain
<1>14. ASSUME NEW m \in mail, Lose(m) PROVE Goal
  BY <1>0, <1>14, Zenon DEF Lose, PathsSound
<1>15. CASE UNCHANGED vars
  BY <1>0, <1>15, Zenon DEF vars, PathsSound
<1>. QED
  BY <1>1, <1>4, <1>5, <1>6, <1>7, <1>8, <1>9, <1>10, <1>11, <1>12, <1>13, <1>14, <1>15, Zenon
     DEF Next

\* Whatever copies are combined, and however the call ends, a copy that has a
\* key source keeps it or has a longer one that ends with it.
THEOREM KeySourcesGrow == Spec => XpubPathsGrow
<1>1. Init => PathsSound
  BY WorkflowConstants DEF Init, PathsSound, TypeOK, EmptyMap, Statuses
<1>2. PathsSound /\ [Next]_vars
      => /\ PathsSound'
         /\ [\A p \in DOMAIN psbt : \A x \in DOMAIN psbt[p].xpub :
               /\ x \in DOMAIN psbt'[p].xpub
               /\ EndsWith(psbt'[p].xpub[x].path, psbt[p].xpub[x].path)]_vars
  BY PathsStep, Zenon DEF XpubsGrow
<1>. QED
  BY <1>1, <1>2, PTL DEF Spec, XpubPathsGrow

-----------------------------------------------------------------------------
(***************************************************************************)
(* PsbtWorkflow implements PsbtKnowledge: every step of the workflow is,   *)
(* through what the copies hold, a step of PsbtKnowledge or no step.       *)
(***************************************************************************)

(* The facts of one input.                                                 *)

\* Holds, for the input the fact is about.
HoldsIn(in, f, k) ==
  \/ f = "utxo" /\ SpendUtxo(in) # None
  \/ f \in KeepFields /\ in[f] # None
  \/ f \in MapFields /\ k \in DOMAIN in[f]
  \/ f \in ClearedByScriptPath /\ in.final_script_witness # None

\* Every fact of was is a fact of in.
Richer(was, in) == \A f \in FactFields : \A k : HoldsIn(was, f, k) => HoldsIn(in, f, k)

\* A fact is about one input, one field and one of the field's keys.
LEMMA FactParts ==
  ASSUME NEW fact \in Fact
  PROVE  fact.input \in Inputs /\ fact.field \in FactFields
  BY DEF Fact

\* A copy knows at least what another one does if each of its inputs does.
LEMMA RicherKnown ==
  ASSUME NEW old, NEW new, \A i \in Inputs : Richer(old.inputs[i], new.inputs[i])
  PROVE  Known(old) \subseteq Known(new)
<1> SUFFICES ASSUME NEW fact \in Fact, Holds(old, fact) PROVE Holds(new, fact)
  BY Zenon DEF Known
<1>1. HoldsIn(old.inputs[fact.input], fact.field, fact.key)
  BY Zenon DEF Holds, HoldsIn
<1>2. HoldsIn(new.inputs[fact.input], fact.field, fact.key)
  BY <1>1, FactParts, Zenon DEF Richer
<1>. QED  BY <1>2, Zenon DEF Holds, HoldsIn

\* The names of the fields: no map is filled once, and no utxo is either.
LEMMA FieldKinds ==
  /\ KeepFields \cap MapFields = {}
  /\ UtxoFields \cap (KeepFields \cup MapFields) = {}
  /\ "sighash_type" \notin KeepFields \cup MapFields \cup UtxoFields
  /\ "utxo" \notin InputFields
  /\ "final_script_witness" \in KeepFields
  /\ InputFields = KeepFields \cup MapFields \cup UtxoFields \cup {"sighash_type"}
  BY Zenon DEF KeepFields, MapFields, UtxoFields, InputFields

\* Filling an empty field, or adding to a map, loses no fact of an input.
LEMMA FillRicher ==
  ASSUME NEW in, WellFormedInput(in), NEW f \in InputFields, NEW v,
         IF f \in MapFields THEN DOMAIN in[f] \subseteq DOMAIN v
         ELSE in[f] = None \/ v = in[f]
  PROVE  Richer(in, [in EXCEPT ![f] = v])
<1> DEFINE new == [in EXCEPT ![f] = v]
<1>1. new[f] = v /\ \A g \in InputFields \ {f} : new[g] = in[g]
  BY Zenon DEF WellFormedInput
<1> HIDE DEF new
<1>2. SpendUtxo(in) # None => SpendUtxo(new) # None
  BY <1>1, FieldKinds, Zenon DEF SpendUtxo, UtxoFields
<1>3. \A g \in KeepFields : in[g] # None => new[g] # None
  BY <1>1, FieldKinds, Zenon
<1>4. \A g \in MapFields : DOMAIN in[g] \subseteq DOMAIN new[g]
  BY <1>1, FieldKinds, Zenon
<1>5. in.final_script_witness # None => new.final_script_witness # None
  BY <1>3, FieldKinds, Zenon
<1>. QED  BY <1>2, <1>3, <1>4, <1>5, Zenon DEF Richer, HoldsIn, new

\* Input::combine has a fact if and only if one of the two inputs has it.
LEMMA CombineFacts ==
  ASSUME NEW self, WellFormedInput(self), NEW other, WellFormedInput(other),
         NEW f \in FactFields, NEW k
  PROVE  HoldsIn(CombineInput(self, other), f, k)
         <=> HoldsIn(self, f, k) \/ HoldsIn(other, f, k)
<1> DEFINE new == CombineInput(self, other)
<1>1. ASSUME NEW g \in MapFields
      PROVE  DOMAIN new[g] = DOMAIN self[g] \cup DOMAIN other[g]
  <2>1. new[g] = Extend(self[g], other[g])
    BY CombineField, FieldKinds
  <2>. QED  BY <2>1, Zenon DEF Extend
<1>2. \A g \in KeepFields : new[g] # None <=> self[g] # None \/ other[g] # None
  BY CombineField, FieldKinds DEF Keep
<1>3. SpendUtxo(new) # None <=> SpendUtxo(self) # None \/ SpendUtxo(other) # None
  <2>1. new.witness_utxo = Keep(self.witness_utxo, other.witness_utxo)
    BY Zenon DEF CombineInput, InputFields, KeepFields, MapFields
  <2>2. new.non_witness_utxo = IF TakesWitnessUtxo(self, other) THEN None
                               ELSE Keep(self.non_witness_utxo, other.non_witness_utxo)
    BY Zenon DEF CombineInput, InputFields, KeepFields, MapFields
  <2>. QED  BY <2>1, <2>2, Zenon DEF SpendUtxo, Keep, TakesWitnessUtxo
<1>4. new.final_script_witness # None
      <=> self.final_script_witness # None \/ other.final_script_witness # None
  BY <1>2, FieldKinds, Zenon
<1> HIDE DEF new
<1>. QED  BY <1>1, <1>2, <1>3, <1>4, Zenon DEF HoldsIn, new

\* Psbt::combine takes over all the facts of the other copy or none of them.
LEMMA CombineKnown ==
  ASSUME NEW self, WellFormed(self), NEW other, WellFormed(other)
  PROVE  Known(CombinePsbt(self, other)) \in {Known(self), Known(self) \cup Known(other)}
<1> DEFINE new == CombinePsbt(self, other)
<1>1. CASE new.inputs = self.inputs
  BY <1>1, Zenon DEF Known, Holds
<1>2. CASE \A i \in Inputs : new.inputs[i] = CombineInput(self.inputs[i], other.inputs[i])
  <2>1. ASSUME NEW fact \in Fact
        PROVE  Holds(new, fact) <=> Holds(self, fact) \/ Holds(other, fact)
    <3> DEFINE Of(copy) == HoldsIn(copy.inputs[fact.input], fact.field, fact.key)
    <3>1. /\ Holds(new, fact) <=> Of(new)
          /\ Holds(self, fact) <=> Of(self)
          /\ Holds(other, fact) <=> Of(other)
      BY Zenon DEF Holds, HoldsIn
    <3>2. Of(new) <=> Of(self) \/ Of(other)
      BY <1>2, FactParts, CombineFacts DEF WellFormed
    <3>. QED  BY <3>1, <3>2, Zenon
  <2>. QED  BY <2>1, Zenon DEF Known
<1>. QED
  BY <1>1, <1>2, Zenon DEF CombinePsbt, WellFormed, PsbtFields

\* Psbt::sign loses no fact, however it ends.
LEMMA SignKnown ==
  ASSUME NEW copy, WellFormed(copy), NEW held \in SUBSET Key
  PROVE  Known(copy) \subseteq Known([copy EXCEPT !.inputs = Sign(copy.inputs, held)])
<1> DEFINE ins == copy.inputs
           new == [copy EXCEPT !.inputs = Sign(ins, held)]
<1>1. new.inputs = Sign(ins, held)
  BY Zenon DEF WellFormed, PsbtFields
<1>2. ASSUME NEW i \in Inputs PROVE Richer(ins[i], Sign(ins, held)[i])
  <2> DEFINE in == ins[i]
  <2>1. WellFormedInput(in)
    BY Zenon DEF WellFormed
  <2>2. Richer(in, in)
    BY Zenon DEF Richer
  <2>3. Richer(in, SignEcdsa(in, i, held))
    <3> DEFINE sigs == IF EcdsaFails(in) THEN in.partial_sigs
                       ELSE Extend(in.partial_sigs,
                              [k \in Signers(in, "bip32_derivation", held) |-> EcdsaSig(in, i)])
    <3>1. DOMAIN in.partial_sigs \subseteq DOMAIN sigs
      BY Zenon DEF Extend
    <3>2. SignEcdsa(in, i, held) = [in EXCEPT !["partial_sigs"] = sigs]
      BY Zenon DEF SignEcdsa
    <3> HIDE DEF sigs
    <3>3. "partial_sigs" \in MapFields /\ "partial_sigs" \in InputFields
      BY Zenon DEF MapFields, InputFields
    <3>. QED  BY <2>1, <3>1, <3>2, <3>3, FillRicher
  <2>4. Richer(in, SignSchnorr(ins, i, held))
    <3> DEFINE sig == IF SignsKeyPath(in, held) THEN TaprootSig(ins, i, in.tap_merkle_root)
                      ELSE in.tap_key_sig
               sigs == Extend(in.tap_script_sigs,
                         [kl \in ScriptPaths(in, held) |-> TaprootSig(ins, i, kl[2])])
               one == [in EXCEPT !["tap_key_sig"] = sig]
               two == [one EXCEPT !["tap_script_sigs"] = sigs]
    <3>1. SignSchnorr(ins, i, held) = in \/ SignSchnorr(ins, i, held) = two
      <4>1. two = [in EXCEPT !.tap_key_sig = sig, !.tap_script_sigs = sigs]
        BY Zenon
      <4>. QED  BY <4>1, Zenon DEF SignSchnorr
    <3>2. in.tap_key_sig = None \/ sig = in.tap_key_sig
      BY Zenon DEF SignsKeyPath
    <3>3. DOMAIN in.tap_script_sigs \subseteq DOMAIN sigs
      BY Zenon DEF Extend
    <3> HIDE DEF sig, sigs
    <3>4. /\ "tap_key_sig" \in InputFields /\ "tap_key_sig" \notin MapFields
          /\ "tap_script_sigs" \in InputFields /\ "tap_script_sigs" \in MapFields
      BY Zenon DEF MapFields, InputFields, KeepFields
    <3>5. Richer(in, one)
      BY <2>1, <3>2, <3>4, FillRicher, Zenon
    <3>6. WellFormedInput(one) /\ one.tap_script_sigs = in.tap_script_sigs
      BY <2>1, <3>4, UpdateWellFormed, Zenon DEF WellFormedInput
    <3> HIDE DEF one
    <3>7. Richer(one, two)
      BY <3>3, <3>4, <3>6, FillRicher, Zenon
    <3> HIDE DEF two
    <3>. QED  BY <2>2, <3>1, <3>5, <3>7, Zenon DEF Richer
  <2>. QED  BY <2>2, <2>3, <2>4, Zenon DEF Sign, SignInput
<1> HIDE DEF new
<1>. QED  BY <1>1, <1>2, RicherKnown, ZenonT(40) DEF new

\* Changing one input loses no fact of the copy if the input loses none.
LEMMA OneInputKnown ==
  ASSUME NEW copy, WellFormed(copy), NEW i \in Inputs, NEW new,
         Richer(copy.inputs[i], new)
  PROVE  Known(copy) \subseteq Known([copy EXCEPT !.inputs[i] = new])
<1> DEFINE changed == [copy EXCEPT !.inputs[i] = new]
<1>1. \A j \in Inputs : changed.inputs[j] = IF j = i THEN new ELSE copy.inputs[j]
  BY Zenon DEF WellFormed, PsbtFields
<1> HIDE DEF changed
<1>2. \A j \in Inputs : Richer(copy.inputs[j], changed.inputs[j])
  BY <1>1, Zenon DEF Richer
<1>. QED  BY <1>2, RicherKnown, Zenon DEF changed

\* A finalized input stands for what the finalizer cleared.
LEMMA FinalizeRicher ==
  ASSUME NEW in, WellFormedInput(in), NEW cleared \in {ClearedFields, ClearedByScriptPath}
  PROVE  Richer(in, FinalizeInput(in, cleared))
<1> DEFINE new == FinalizeInput(in, cleared)
<1>1. new.final_script_witness # None
  <2>1. new.final_script_witness = FinalWitness
    BY FieldKinds, Zenon DEF FinalizeInput, ClearedFields, ClearedByScriptPath
  <2>. QED  BY <2>1, PsbtConstants, Zenon
<1>2. cleared \subseteq ClearedByScriptPath
  BY Zenon DEF ClearedByScriptPath
<1>3. \A f \in InputFields \ ClearedByScriptPath :
        f # "final_script_witness" => new[f] = in[f]
  BY <1>2, Zenon DEF FinalizeInput
<1>4. SpendUtxo(new) = SpendUtxo(in)
  <2>1. UtxoFields \subseteq InputFields \ ClearedByScriptPath
    BY Zenon DEF UtxoFields, InputFields, ClearedByScriptPath, ClearedFields
  <2>. QED  BY <1>3, <2>1, Zenon DEF SpendUtxo, UtxoFields
<1> HIDE DEF new
<1>5. ASSUME NEW f \in KeepFields, in[f] # None
      PROVE  new[f] # None \/ f \in ClearedByScriptPath
  BY <1>1, <1>3, <1>5, FieldKinds, Zenon
<1>6. ASSUME NEW f \in MapFields, f \notin ClearedByScriptPath PROVE new[f] = in[f]
  BY <1>3, <1>6, FieldKinds, Zenon
<1>. QED  BY <1>1, <1>4, <1>5, <1>6, Zenon DEF Richer, HoldsIn, new

-----------------------------------------------------------------------------
(* The steps.                                                              *)

\* Both states are described by the copies they hold.
LEMMA Bars ==
  /\ knowsBar \in [Party -> SUBSET Fact] /\ knowsBar' \in [Party -> SUBSET Fact]
  /\ \A q \in Party : knowsBar[q] = IF q \in DOMAIN psbt THEN Known(psbt[q]) ELSE {}
  /\ \A q \in Party : knowsBar'[q] = IF q \in DOMAIN psbt' THEN Known(psbt'[q]) ELSE {}
  BY Zenon DEF knowsBar, Known

\* Rewriting p's copy without losing a fact is learning.
LEMMA LearnStep ==
  ASSUME NEW p \in Party, NEW copy, UNCHANGED mail,
         p \in DOMAIN psbt => Known(psbt[p]) \subseteq Known(copy),
         \/ psbt' = Insert(psbt, p, copy)
         \/ p \in DOMAIN psbt /\ psbt' = [psbt EXCEPT ![p] = copy]
  PROVE  Knowledge!KNext
<1>1. /\ p \in DOMAIN psbt' /\ psbt'[p] = copy
      /\ \A q \in Party \ {p} : /\ q \in DOMAIN psbt' <=> q \in DOMAIN psbt
                                /\ q \in DOMAIN psbt => psbt'[q] = psbt[q]
  BY Zenon DEF Insert, Extend
<1>2. knowsBar[p] \subseteq knowsBar'[p]
  BY <1>1, Bars, Zenon
<1>3. \A q \in Party \ {p} : knowsBar'[q] = knowsBar[q]
  BY <1>1, Bars, Zenon
<1>4. postBar' = postBar
  BY Zenon DEF postBar
<1>5. Knowledge!Learn(p)
  BY <1>2, <1>3, <1>4, Bars, Zenon DEF Knowledge!Learn, Knowledge!OnlyFor
<1>. QED  BY <1>5, Zenon DEF Knowledge!KNext

\* Nothing happens to the facts when copies and messages stay.
LEMMA SilentStep ==
  ASSUME UNCHANGED <<psbt, mail>>
  PROVE  UNCHANGED Knowledge!kvars
  BY Zenon DEF Knowledge!kvars, knowsBar, postBar

\* The facts of a message.
FactsOf(m) == [from |-> m.from, to |-> m.to, facts |-> Known(m.psbt)]

\* Taking a message out removes its facts, or another message has the same.
LEMMA PostShrinks ==
  ASSUME NEW m \in mail, mail' = mail \ {m}
  PROVE  postBar' \in {postBar, postBar \ {FactsOf(m)}}
<1>1. postBar = {FactsOf(n) : n \in mail} /\ postBar' = {FactsOf(n) : n \in mail \ {m}}
  BY Zenon DEF postBar, FactsOf
<1> HIDE DEF FactsOf
<1>. QED  BY <1>1, Zenon

\* An accepted message is heard.
LEMMA HearStep ==
  ASSUME TypeOK, NEW m \in mail, Accept(m.to, m.psbt), mail' \in {mail, mail \ {m}}
  PROVE  Knowledge!KNext
<1>1. m.to \in Party /\ WellFormed(m.psbt)
  BY Zenon DEF TypeOK
<1>2. FactsOf(m) \in postBar
  BY Zenon DEF postBar, FactsOf
<1>3. postBar' \in {postBar, postBar \ {FactsOf(m)}}
  <2>1. CASE mail' = mail
    BY <2>1, Zenon DEF postBar
  <2>. QED  BY <2>1, PostShrinks, Zenon
<1>4. \A q \in Party \ {m.to} : /\ q \in DOMAIN psbt' <=> q \in DOMAIN psbt
                                /\ q \in DOMAIN psbt => psbt'[q] = psbt[q]
  BY DEF Accept, Insert, Extend
<1>5. \A q \in Party \ {m.to} : knowsBar'[q] = knowsBar[q]
  BY <1>4, Bars, Zenon
<1>6. knowsBar'[m.to] \in {knowsBar[m.to], knowsBar[m.to] \cup Known(m.psbt)}
  <2>1. CASE psbt' = psbt
    BY <1>1, <2>1, Bars, Zenon
  <2>2. CASE m.to \notin DOMAIN psbt /\ psbt' = Insert(psbt, m.to, m.psbt)
    <3>1. m.to \in DOMAIN psbt' /\ psbt'[m.to] = m.psbt
      BY <2>2, Zenon DEF Insert, Extend
    <3>. QED  BY <1>1, <2>2, <3>1, Bars
  <2>3. CASE /\ m.to \in DOMAIN psbt
             /\ psbt' = [psbt EXCEPT ![m.to] = CombinePsbt(psbt[m.to], m.psbt)]
    <3>1. m.to \in DOMAIN psbt' /\ psbt'[m.to] = CombinePsbt(psbt[m.to], m.psbt)
      BY <2>3, Zenon
    <3>2. Known(psbt'[m.to]) \in {Known(psbt[m.to]), Known(psbt[m.to]) \cup Known(m.psbt)}
      BY <1>1, <2>3, <3>1, CombineKnown, Zenon DEF TypeOK
    <3>. QED  BY <1>1, <2>3, <3>1, <3>2, Bars, Zenon
  <2>. QED  BY <2>1, <2>2, <2>3, Zenon DEF Accept
<1>7. Knowledge!Hear(FactsOf(m))
  <2>1. FactsOf(m).to = m.to /\ FactsOf(m).facts = Known(m.psbt)
    BY Zenon DEF FactsOf
  <2>. QED
    BY <1>3, <1>5, <1>6, <2>1, Bars, Zenon DEF Knowledge!Hear, Knowledge!OnlyFor
<1>. QED  BY <1>2, <1>7, Zenon DEF Knowledge!KNext

\* Every step of the workflow is a step of PsbtKnowledge or none.
LEMMA KnowledgeStep ==
  ASSUME TypeOK, [Next]_vars
  PROVE  [Knowledge!KNext]_(Knowledge!kvars)
<1> DEFINE Goal == [Knowledge!KNext]_(Knowledge!kvars)
<1>1. ASSUME NEW p \in Party, NEW tx \in Tx, Create(p, tx) PROVE Goal
  <2>1. CASE tx \in UnsignedTx
    BY <1>1, <2>1, LearnStep, Zenon DEF Create, Ends
  <2>2. CASE tx \notin UnsignedTx
    BY <1>1, <2>2, SilentStep, Zenon DEF Create
  <2>. QED  BY <2>1, <2>2, Zenon
<1>2. ASSUME NEW p \in DOMAIN psbt, NEW copy, copy.inputs = psbt[p].inputs, UNCHANGED mail,
             psbt' = [psbt EXCEPT ![p] = copy] \/ psbt' = Insert(psbt, p, copy)
      PROVE  Goal
  <2>1. Known(psbt[p]) = Known(copy) /\ p \in Party
    BY <1>2, Zenon DEF Known, Holds, TypeOK
  <2>. QED  BY <1>2, <2>1, LearnStep, Zenon
<1>3. ASSUME NEW p \in DOMAIN psbt PROVE WellFormed(psbt[p]) /\ DOMAIN psbt[p] = PsbtFields
  BY Zenon DEF TypeOK, WellFormed
<1>4. ASSUME NEW p \in Party, NEW o \in Offers, UpdateInput(p, o) PROVE Goal
  <2> DEFINE in == psbt[p].inputs[o.input]
             value == IF o.field \in MapFields THEN Insert(in[o.field], o.key, o.value)
                      ELSE o.value
             new == [in EXCEPT ![o.field] = value]
             copy == [psbt[p] EXCEPT !.inputs[o.input] = new]
  <2>1. o.input \in Inputs /\ o.field \in InputFields
    BY WorkflowConstants, Zenon
  <2>2. p \in DOMAIN psbt /\ WellFormed(psbt[p]) /\ WellFormedInput(in)
    BY <1>3, <1>4, <2>1, Zenon DEF UpdateInput, WellFormed
  <2>3. IF o.field \in MapFields THEN DOMAIN in[o.field] \subseteq DOMAIN value
        ELSE in[o.field] = None
    BY <1>4, Zenon DEF UpdateInput, Insert, Extend
  <2>4. psbt' = [psbt EXCEPT ![p] = copy] /\ UNCHANGED mail
    BY <1>4, Zenon DEF UpdateInput
  <2> HIDE DEF value
  <2>5. Richer(in, new)
    BY <2>1, <2>2, <2>3, FillRicher, Zenon
  <2> HIDE DEF new
  <2>6. Known(psbt[p]) \subseteq Known(copy)
    BY <2>1, <2>2, <2>5, OneInputKnown, Zenon
  <2> HIDE DEF copy
  <2>. QED  BY <2>2, <2>4, <2>6, LearnStep, Zenon
<1>5. ASSUME NEW p \in Party, NEW o \in OutputOffers, UpdateOutput(p, o) PROVE Goal
  <2> DEFINE copy == [psbt[p] EXCEPT !.outputs[o.output][o.field] = o.value]
  <2>1. p \in DOMAIN psbt /\ psbt' = [psbt EXCEPT ![p] = copy] /\ UNCHANGED mail
    BY <1>5, Zenon DEF UpdateOutput
  <2>2. copy.inputs = psbt[p].inputs
    BY <1>3, <2>1, Zenon DEF PsbtFields
  <2>. QED  BY <1>2, <2>1, <2>2, Zenon
<1>6. ASSUME NEW p \in Party, NEW o \in XpubOffers, UpdateXpub(p, o) PROVE Goal
  <2> DEFINE copy == [psbt[p] EXCEPT !.xpub = Insert(psbt[p].xpub, o.xpub, o.source)]
  <2>1. p \in DOMAIN psbt /\ psbt' = [psbt EXCEPT ![p] = copy] /\ UNCHANGED mail
    BY <1>6, Zenon DEF UpdateXpub
  <2>2. copy.inputs = psbt[p].inputs
    BY <1>3, <2>1, Zenon DEF PsbtFields
  <2>. QED  BY <1>2, <2>1, <2>2, Zenon
<1>7. ASSUME NEW p \in Party, UpdateVersion(p) PROVE Goal
  <2> DEFINE copy == [psbt[p] EXCEPT !.version = 1]
  <2>1. p \in DOMAIN psbt /\ psbt' = [psbt EXCEPT ![p] = copy] /\ UNCHANGED mail
    BY <1>7, Zenon DEF UpdateVersion
  <2>2. copy.inputs = psbt[p].inputs
    BY <1>3, <2>1, Zenon DEF PsbtFields
  <2>. QED  BY <1>2, <2>1, <2>2, Zenon
<1>8. ASSUME NEW p \in Party, SignCopy(p) PROVE Goal
  <2> DEFINE copy == [psbt[p] EXCEPT !.inputs = Sign(psbt[p].inputs, Held[p])]
  <2>1. p \in DOMAIN psbt /\ psbt' = Insert(psbt, p, copy) /\ UNCHANGED mail
    BY <1>8, Zenon DEF SignCopy, Ends
  <2>2. Known(psbt[p]) \subseteq Known(copy)
    BY <1>3, <2>1, SignKnown, WorkflowConstants, Zenon
  <2>. QED  BY <2>1, <2>2, LearnStep, Zenon
<1>9. ASSUME NEW p \in Party, NEW i \in Inputs, Finalize(p, i) PROVE Goal
  <2>1. p \in DOMAIN psbt /\ UNCHANGED mail /\ WellFormed(psbt[p])
    BY <1>3, <1>9, Zenon DEF Finalize
  <2>2. PICK c \in {ClearedFields, ClearedByScriptPath} :
          psbt' = [psbt EXCEPT ![p] =
                     [psbt[p] EXCEPT !.inputs[i] = FinalizeInput(psbt[p].inputs[i], c)]]
    BY <1>9, Zenon DEF Finalize
  <2>3. Richer(psbt[p].inputs[i], FinalizeInput(psbt[p].inputs[i], c))
    BY <2>1, FinalizeRicher, Zenon DEF WellFormed
  <2>4. Known(psbt[p])
        \subseteq Known([psbt[p] EXCEPT !.inputs[i] = FinalizeInput(psbt[p].inputs[i], c)])
    BY <2>1, <2>3, OneInputKnown, Zenon
  <2>. QED  BY <2>1, <2>2, <2>4, LearnStep, Zenon
<1>10. ASSUME NEW p \in Party, Extract(p) PROVE Goal
  BY <1>2, <1>10, Zenon DEF Extract, Ends
<1>11. ASSUME NEW p \in Party, NEW q \in Party, Send(p, q) PROVE Goal
  <2> DEFINE m == [from |-> p, to |-> q, psbt |-> psbt[p]]
  <2>1. mail' = mail \cup {m} /\ UNCHANGED psbt /\ p \in DOMAIN psbt
    BY <1>11, Zenon DEF Send
  <2>2. postBar' = postBar \cup {FactsOf(m)}
    BY <2>1, Zenon DEF postBar, FactsOf
  <2>3. FactsOf(m) = [from |-> p, to |-> q, facts |-> knowsBar[p]]
    BY <2>1, Bars, Zenon DEF FactsOf
  <2>4. knowsBar' = knowsBar
    BY <2>1, Zenon DEF knowsBar
  <2>5. Knowledge!Tell(p, q)
    BY <2>2, <2>3, <2>4, Zenon DEF Knowledge!Tell
  <2>. QED  BY <2>5, Zenon DEF Knowledge!KNext
<1>12. ASSUME NEW m \in mail, Receive(m) PROVE Goal
  BY <1>12, HearStep, Zenon DEF Receive
<1>13. ASSUME NEW m \in mail, ReceiveAgain(m) PROVE Goal
  BY <1>13, HearStep, Zenon DEF ReceiveAgain
<1>14. ASSUME NEW m \in mail, Lose(m) PROVE Goal
  <2>1. knowsBar' = knowsBar /\ FactsOf(m) \in postBar
    BY <1>14, Zenon DEF Lose, knowsBar, postBar, FactsOf
  <2>2. postBar' \in {postBar, postBar \ {FactsOf(m)}}
    BY <1>14, PostShrinks, Zenon DEF Lose
  <2>. QED  BY <2>1, <2>2, Zenon DEF Knowledge!KNext, Knowledge!Drop, Knowledge!kvars
<1>15. CASE UNCHANGED vars
  BY <1>15, SilentStep, Zenon DEF vars
<1>. QED
  BY <1>1, <1>4, <1>5, <1>6, <1>7, <1>8, <1>9, <1>10, <1>11, <1>12, <1>13, <1>14, <1>15, Zenon
     DEF Next

\* No exchange loses a fact: whatever messages are lost, repeated or
\* overtaken, and whether sign and combine succeed, fail or panic, every
\* copy keeps its signatures, scripts, derivations, utxos and final scripts,
\* and takes over those of a received copy entirely or not at all.
THEOREM FactsAreKept == Spec => ImplementsKnowledge
<1>1. Init => Knowledge!KInit
  BY Zenon DEF Init, Knowledge!KInit, knowsBar, postBar, EmptyMap
<1>2. TypeOK /\ [Next]_vars => [Knowledge!KNext]_(Knowledge!kvars)
  BY KnowledgeStep, Zenon
<1>. QED
  BY <1>1, <1>2, TypeCorrect, PTL DEF Spec, ImplementsKnowledge, Knowledge!KSpec

-----------------------------------------------------------------------------
(* Totals.                                                                 *)

\* sum[k] is the exact sum of the first k values.
Sums(sum, values, N) ==
  /\ sum \in [0 .. N -> Nat]
  /\ sum[0] = 0
  /\ \A k \in 1 .. N : sum[k] = sum[k - 1] + values[k]

\* total[k] is where a loop of checked_add's is after k values.
CheckedRun(total, values, N) ==
  /\ total[0] = Running(0)
  /\ \A k \in 1 .. N : total[k] = IF total[k - 1].status # "ok" THEN total[k - 1]
                                  ELSE AddChecked(total[k - 1], values[k])

\* The exact sum adds one value at a time.
LEMMA SumSteps ==
  ASSUME NEW N \in Nat, NEW values, \A k \in 1 .. N : values[k] \in Nat
  PROVE  \E sum : Sums(sum, values, N) /\ SumOf(values, N) = sum[N]
<1> DEFINE step == [an \in Nat \X (1 .. N) |-> an[1] + values[an[2]]]
           sum == CHOOSE f : f = [k \in 0 .. N |-> IF k = 0 THEN 0 ELSE f[k - 1] + values[k]]
<1>1. Stepwise(step, Nat, N)
  BY DEF Stepwise
<1>2. \A a \in Nat, n \in 1 .. N : step[<<a, n>>] = a + values[n]
  BY Zenon
<1> HIDE DEF step
<1>3. PICK f : Iterates(f, 0, step, Nat, N)
  <2>1. 0 \in Nat
    BY Zenon
  <2>. QED  BY <1>1, <2>1, Recursion, Zenon
<1>4. f = [k \in 0 .. N |-> IF k = 0 THEN 0 ELSE f[k - 1] + values[k]]
  <2>1. ASSUME NEW k \in 1 .. N PROVE f[k] = f[k - 1] + values[k]
    <3>1. k - 1 \in 0 .. N
      OBVIOUS
    <3>2. f[k - 1] \in Nat /\ f[k] = step[<<f[k - 1], k>>]
      BY <1>3, <3>1, Zenon DEF Iterates
    <3>. QED  BY <1>2, <3>2, Zenon
  <2>. QED  BY <1>3, <2>1 DEF Iterates
<1>5. sum = [k \in 0 .. N |-> IF k = 0 THEN 0 ELSE sum[k - 1] + values[k]]
  BY <1>4, Zenon
<1>6. SumOf(values, N) = sum[N]
  BY Zenon DEF SumOf
<1> HIDE DEF sum
<1>7. sum[0] = 0 /\ \A k \in 1 .. N : sum[k] = sum[k - 1] + values[k]
  BY <1>5
<1>8. \A n \in 0 .. N : sum[n] \in Nat
  <2> DEFINE S == {n \in 0 .. N : sum[n] \in Nat}
  <2>1. 0 \in S
    BY <1>7
  <2>2. ASSUME NEW n \in 1 .. N, n - 1 \in S PROVE n \in S
    <3>1. sum[n] = sum[n - 1] + values[n] /\ sum[n - 1] \in Nat /\ values[n] \in Nat
      BY <1>7, <2>2, Zenon
    <3>. QED  BY <3>1
  <2> HIDE DEF S
  <2>3. \A n \in 0 .. N : n \in S
    BY <2>1, <2>2, UpTo, Zenon
  <2>. QED  BY <2>3, Zenon DEF S
<1>9. sum \in [0 .. N -> Nat]
  BY <1>5, <1>8, Zenon
<1>. QED  BY <1>6, <1>7, <1>9, Zenon DEF Sums

\* A running total with checked_add is the exact sum, or an overflow from the
\* first value on that takes the sum over u64::MAX.
LEMMA CheckedTotal ==
  ASSUME NEW N \in Nat, NEW values, \A k \in 1 .. N : values[k] \in Nat,
         NEW sum, Sums(sum, values, N), NEW total, CheckedRun(total, values, N)
  PROVE  total[N] = IF sum[N] > U64Max THEN Stopped("FeeOverflow") ELSE Running(sum[N])
<1> USE DEF Sums, CheckedRun
<1> DEFINE Agree(n) == total[n] = IF sum[n] > U64Max THEN Stopped("FeeOverflow")
                                  ELSE Running(sum[n])
           S == {n \in 0 .. N : Agree(n)}
<1>0. U64Max \in Nat
  BY ExtractConstants, Zenon
<1>1. 0 \in S
  BY <1>0
<1>2. ASSUME NEW n \in 1 .. N, n - 1 \in S PROVE n \in S
  <2>1. /\ n - 1 \in 0 .. N /\ sum[n - 1] \in Nat /\ sum[n] \in Nat /\ values[n] \in Nat
        /\ sum[n] = sum[n - 1] + values[n]
    OBVIOUS
  <2>2. CASE sum[n - 1] > U64Max
    <3>1. total[n - 1] = Stopped("FeeOverflow") /\ total[n - 1].status # "ok"
      BY <1>2, <2>2 DEF Stopped
    <3>2. total[n] = Stopped("FeeOverflow")
      BY <3>1, Zenon
    <3>3. sum[n] > U64Max
      BY <1>0, <2>1, <2>2
    <3>. QED  BY <3>2, <3>3
  <2>3. CASE ~(sum[n - 1] > U64Max)
    <3>1. total[n - 1] = Running(sum[n - 1])
      BY <1>2, <2>3, Zenon
    <3>2. total[n - 1].status = "ok" /\ total[n - 1].sum = sum[n - 1]
      BY <3>1 DEF Running
    <3>3. total[n] = AddChecked(total[n - 1], values[n])
      BY <3>2, Zenon
    <3>4. total[n] = IF sum[n] > U64Max THEN Stopped("FeeOverflow") ELSE Running(sum[n])
      BY <2>1, <3>2, <3>3, Zenon DEF AddChecked
    <3>. QED  BY <3>4
  <2>. QED  BY <2>2, <2>3, Zenon
<1> HIDE DEF S
<1>3. \A n \in 0 .. N : n \in S
  BY <1>1, <1>2, UpTo, Zenon
<1>. QED  BY <1>3 DEF S

\* What a total can be.
Totals == [status : {"ok", "MissingUtxo", "PsbtUtxoOutOfbounds", "FeeOverflow"}, sum : Nat]

\* checked_add of a total and a value is a total.
LEMMA AddCheckedType ==
  ASSUME NEW acc \in Totals, NEW value \in Nat
  PROVE  AddChecked(acc, value) \in Totals
  BY ExtractConstants DEF AddChecked, Totals, Running, Stopped

\* The loop over the outputs.
LEMMA OutputTotals ==
  ASSUME NEW acc \in Totals
  PROVE  /\ SumOf(OutputValue, NumOutputs) \in Nat
         /\ OutputTotal(acc) = IF acc.status # "ok" THEN acc
                               ELSE IF SumOf(OutputValue, NumOutputs) > U64Max
                               THEN Stopped("FeeOverflow")
                               ELSE Running(SumOf(OutputValue, NumOutputs))
<1> DEFINE N == NumOutputs
           base == IF acc.status = "ok" THEN Running(0) ELSE acc
           Step(a, n) == IF a.status # "ok" THEN a ELSE AddChecked(a, OutputValue[n])
           step == [an \in Totals \X (1 .. N) |-> Step(an[1], an[2])]
           total == CHOOSE f : f = [n \in 0 .. N |->
                      IF n = 0 THEN (IF acc.status = "ok" THEN Running(0) ELSE acc)
                      ELSE IF f[n - 1].status # "ok" THEN f[n - 1]
                      ELSE AddChecked(f[n - 1], OutputValue[n])]
<1>1. N \in Nat /\ \A k \in 1 .. N : OutputValue[k] \in Nat
  BY PsbtConstants, ExtractConstants DEF Outputs
<1>2. base \in Totals
  BY Zenon DEF Totals, Running
<1>3. \A a \in Totals, n \in 1 .. N : Step(a, n) \in Totals
  BY <1>1, AddCheckedType, Zenon
<1>4. /\ Stepwise(step, Totals, N)
      /\ \A a \in Totals, n \in 1 .. N : step[<<a, n>>] = Step(a, n)
  <2> HIDE DEF Step
  <2>. QED  BY <1>3, Zenon DEF Stepwise
<1> HIDE DEF step
<1>5. PICK f : Iterates(f, base, step, Totals, N)
  <2> HIDE DEF base, N
  <2>. QED  BY <1>1, <1>2, <1>4, Recursion, Zenon
<1>6. f = [n \in 0 .. N |-> IF n = 0 THEN base ELSE Step(f[n - 1], n)]
  <2> HIDE DEF Step, base
  <2>1. ASSUME NEW n \in 1 .. N PROVE f[n] = Step(f[n - 1], n)
    <3>1. n - 1 \in 0 .. N
      BY <1>1
    <3>2. f[n - 1] \in Totals /\ f[n] = step[<<f[n - 1], n>>]
      BY <1>5, <3>1, Zenon DEF Iterates
    <3>. QED  BY <1>4, <3>2, Zenon
  <2>. QED  BY <1>5, <2>1 DEF Iterates
<1>7. total = [n \in 0 .. N |-> IF n = 0 THEN base ELSE Step(total[n - 1], n)]
  BY <1>6, Zenon
<1>8. OutputTotal(acc) = total[N]
  BY Zenon DEF OutputTotal
<1> HIDE DEF total
<1>9. PICK sum : Sums(sum, OutputValue, N) /\ SumOf(OutputValue, N) = sum[N]
  BY <1>1, SumSteps, Zenon
<1>10. total[0] = base /\ \A n \in 1 .. N : total[n] = Step(total[n - 1], n)
  <2> HIDE DEF Step, base
  <2>. QED  BY <1>1, <1>7
<1>11. CASE acc.status # "ok"
  <2> DEFINE S == {n \in 0 .. N : total[n] = acc}
  <2>1. 0 \in S /\ \A n \in 1 .. N : n - 1 \in S => n \in S
    BY <1>1, <1>10, <1>11
  <2> HIDE DEF S, N
  <2>2. \A n \in 0 .. N : n \in S
    BY <1>1, <2>1, UpTo, Zenon
  <2>. QED  BY <1>1, <1>8, <1>9, <1>11, <2>2, SMTT(40) DEF S, N, Sums
<1>12. CASE acc.status = "ok"
  <2>1. CheckedRun(total, OutputValue, N)
    BY <1>10, <1>12, Zenon DEF CheckedRun
  <2> HIDE DEF N
  <2>2. total[N] = IF sum[N] > U64Max THEN Stopped("FeeOverflow") ELSE Running(sum[N])
    BY <1>1, <1>9, <2>1, CheckedTotal, SMTT(40)
  <2>. QED  BY <1>1, <1>8, <1>9, <1>12, <2>2, SMTT(40) DEF N, Sums
<1>. QED  BY <1>11, <1>12, Zenon

\* The utxos of the inputs have amounts.
Valued(ins) ==
  \A i \in Inputs : SpendUtxo(ins[i]) # None => SpendUtxo(ins[i]).value \in Nat

\* The loop over the utxos: the exact sum, an overflow, or the first utxo that
\* is missing.
LEMMA FundingTotals ==
  ASSUME NEW ins, Valued(ins)
  PROVE  LET funding == FundingTotal(ins)
             sum == SumOf([i \in Inputs |-> SpendUtxo(ins[i]).value], NumInputs)
         IN  /\ funding \in Totals
             /\ (\A i \in Inputs : HasUtxo(ins[i]))
                => /\ sum \in Nat
                   /\ funding = IF sum > U64Max THEN Stopped("FeeOverflow") ELSE Running(sum)
             /\ ~(\A i \in Inputs : HasUtxo(ins[i])) => funding.status # "ok"
<1> DEFINE N == NumInputs
           values == [i \in Inputs |-> SpendUtxo(ins[i]).value]
           Step(a, n) == AddFunding(a, ins[n])
           step == [an \in Totals \X (1 .. N) |-> Step(an[1], an[2])]
           total == CHOOSE f : f = [n \in 0 .. N |->
                      IF n = 0 THEN Running(0) ELSE AddFunding(f[n - 1], ins[n])]
<1>1. N \in Nat /\ Inputs = 1 .. N
  BY PsbtConstants, Zenon DEF Inputs
<1>2. Running(0) \in Totals
  BY Zenon DEF Totals, Running
<1>3. ASSUME NEW a \in Totals, NEW n \in 1 .. N PROVE Step(a, n) \in Totals
  <2>1. SpendUtxo(ins[n]) # None => AddChecked(a, SpendUtxo(ins[n]).value) \in Totals
    BY <1>1, AddCheckedType, Zenon DEF Valued
  <2>2. Stopped("MissingUtxo") \in Totals /\ Stopped("PsbtUtxoOutOfbounds") \in Totals
    BY Zenon DEF Totals, Stopped
  <2>. QED  BY <2>1, <2>2, Zenon DEF AddFunding
<1>4. /\ Stepwise(step, Totals, N)
      /\ \A a \in Totals, n \in 1 .. N : step[<<a, n>>] = Step(a, n)
  <2> HIDE DEF Step
  <2>. QED  BY <1>3, Zenon DEF Stepwise
<1> HIDE DEF step
<1>5. PICK f : Iterates(f, Running(0), step, Totals, N)
  BY <1>1, <1>2, <1>4, Recursion, Zenon
<1>6. f = [n \in 0 .. N |-> IF n = 0 THEN Running(0) ELSE Step(f[n - 1], n)]
  <2> HIDE DEF Step
  <2>1. ASSUME NEW n \in 1 .. N PROVE f[n] = Step(f[n - 1], n)
    <3>1. n - 1 \in 0 .. N
      BY <1>1
    <3>2. f[n - 1] \in Totals /\ f[n] = step[<<f[n - 1], n>>]
      BY <1>5, <3>1, Zenon DEF Iterates
    <3>. QED  BY <1>4, <3>2, Zenon
  <2> DEFINE base == Running(0)
  <2> HIDE DEF base, N
  <2>2. f \in [0 .. N -> Totals] /\ f[0] = base
    BY <1>5, Zenon DEF Iterates, base
  <2>3. f = [n \in 0 .. N |-> IF n = 0 THEN base ELSE Step(f[n - 1], n)]
    BY <1>1, <2>1, <2>2
  <2>. QED  BY <2>3, Zenon DEF base
<1>7. total = [n \in 0 .. N |-> IF n = 0 THEN Running(0) ELSE Step(total[n - 1], n)]
  BY <1>6, Zenon
<1>8. FundingTotal(ins) = total[N]
  BY Zenon DEF FundingTotal
<1> HIDE DEF total
<1>9. total[0] = Running(0) /\ \A n \in 1 .. N : total[n] = Step(total[n - 1], n)
  <2> HIDE DEF Step, N
  <2>. QED  BY <1>1, <1>7
<1> HIDE DEF N
<1>10. ASSUME \A i \in Inputs : HasUtxo(ins[i])
       PROVE  /\ SumOf(values, N) \in Nat
              /\ total[N] = IF SumOf(values, N) > U64Max THEN Stopped("FeeOverflow")
                            ELSE Running(SumOf(values, N))
  <2>1. \A k \in 1 .. N : values[k] \in Nat /\ values[k] = SpendUtxo(ins[k]).value
    BY <1>1, <1>10, Zenon DEF Valued, HasUtxo
  <2> HIDE DEF values
  <2>2. PICK sum : Sums(sum, values, N) /\ SumOf(values, N) = sum[N]
    BY <1>1, <2>1, SumSteps, Zenon
  <2>3. CheckedRun(total, values, N)
    <3>1. ASSUME NEW k \in 1 .. N
          PROVE  total[k] = IF total[k - 1].status # "ok" THEN total[k - 1]
                            ELSE AddChecked(total[k - 1], values[k])
      BY <1>1, <1>9, <1>10, <2>1, Zenon DEF AddFunding, HasUtxo
    <3>. QED  BY <1>9, <3>1, Zenon DEF CheckedRun
  <2>4. total[N] = IF sum[N] > U64Max THEN Stopped("FeeOverflow") ELSE Running(sum[N])
    BY <1>1, <2>1, <2>2, <2>3, CheckedTotal, ZenonT(40)
  <2>. QED  BY <1>1, <2>2, <2>4 DEF Sums
<1>11. \A n \in 0 .. N : /\ total[n] \in Totals
                         /\ total[n].status = "ok" => \A i \in 1 .. n : HasUtxo(ins[i])
  <2> DEFINE Reached(n) == /\ total[n] \in Totals
                           /\ total[n].status = "ok" => \A i \in 1 .. n : HasUtxo(ins[i])
             S == {n \in 0 .. N : Reached(n)}
  <2>1. 0 \in S
    BY <1>1, <1>2, <1>9, SMTT(40)
  <2>2. ASSUME NEW n \in 1 .. N, n - 1 \in S PROVE n \in S
    <3>1. n \in 0 .. N /\ Reached(n - 1) /\ total[n] = AddFunding(total[n - 1], ins[n])
      BY <1>1, <1>9, <2>2
    <3>2. total[n] \in Totals
      BY <1>3, <3>1, Zenon
    <3>3. ASSUME total[n].status = "ok"
          PROVE  total[n - 1].status = "ok" /\ HasUtxo(ins[n])
      BY <3>1, <3>3 DEF AddFunding, Stopped, HasUtxo
    <3>4. ASSUME total[n].status = "ok", NEW i \in 1 .. n PROVE HasUtxo(ins[i])
      <4>1. i = n \/ i \in 1 .. n - 1
        OBVIOUS
      <4>. QED  BY <3>1, <3>3, <3>4, <4>1, Zenon
    <3>. QED  BY <3>1, <3>2, <3>4, Zenon
  <2> HIDE DEF S
  <2>3. \A n \in 0 .. N : n \in S
    BY <1>1, <2>1, <2>2, UpTo, Zenon
  <2>. QED  BY <2>3, Zenon DEF S
<1>12. total[N] \in Totals /\ (total[N].status = "ok" => \A i \in Inputs : HasUtxo(ins[i]))
  BY <1>1, <1>11
<1>. QED  BY <1>8, <1>10, <1>12, Zenon DEF N

-----------------------------------------------------------------------------
(* The fee rate.                                                           *)

\* Dividing by the weight and comparing is comparing with the product.
LEMMA QuotientExceeds ==
  ASSUME NEW x \in Nat, NEW w \in Nat \ {0}, NEW m \in Nat
  PROVE  x \div w > m <=> x >= (m + 1) * w
<1> DEFINE q == x \div w
           r == x % w
<1>1. x = w * q + r /\ 0 <= r /\ r < w /\ q \in Nat /\ r \in Nat
  OBVIOUS
<1> HIDE DEF q, r
<1>2. CASE q > m
  <2>1. q >= m + 1
    BY <1>1, <1>2
  <2>2. w * q >= w * (m + 1)
    BY <1>1, <2>1
  <2>. QED  BY <1>1, <1>2, <2>2 DEF q
<1>3. CASE ~(q > m)
  <2>1. q <= m
    BY <1>1, <1>3
  <2>2. w * q <= w * m /\ w * (m + 1) = w * m + w
    BY <1>1, <2>1
  <2>. QED  BY <1>1, <1>3, <2>2 DEF q
<1>. QED  BY <1>2, <1>3, Zenon

\* A transaction weighs something, and at most as with all its witnesses.
LEMMA Weights ==
  ASSUME NEW ins
  PROVE  /\ TxWeight(ins) \in Nat \ {0}
         /\ TxWeight(ins) <= BaseWeight + WitnessWeight * NumInputs
<1> DEFINE final == {i \in Inputs : ins[i].final_script_witness # None}
           c == Cardinality(final)
<1>1. IsFiniteSet(Inputs) /\ Cardinality(Inputs) = NumInputs
  BY PsbtConstants, FS_Interval DEF Inputs
<1>2. c \in Nat /\ c <= NumInputs
  BY <1>1, FS_Subset, FS_CardinalityType, Zenon
<1>3. TxWeight(ins) = BaseWeight + WitnessWeight * c
  BY Zenon DEF TxWeight
<1> HIDE DEF c
<1>4. WitnessWeight \in Nat /\ BaseWeight \in Nat \ {0} /\ NumInputs \in Nat
  BY PsbtConstants, ExtractConstants, Zenon
<1>5. WitnessWeight * c <= WitnessWeight * NumInputs /\ WitnessWeight * c \in Nat
  BY <1>2, <1>4
<1>. QED  BY <1>3, <1>4, <1>5

\* The saturating product hides no fee rate above the limit.
LEMMA FeeRates ==
  ASSUME NEW ins, NEW fee \in Nat
  PROVE  FeeRate(fee, ins) > MaxFeeRate <=> fee * 1000 >= (MaxFeeRate + 1) * TxWeight(ins)
<1> DEFINE w == TxWeight(ins)
           top == BaseWeight + WitnessWeight * NumInputs
           limit == (MaxFeeRate + 1) * w
           x == IF fee * 1000 > U64Max THEN U64Max ELSE fee * 1000
<1>1. w \in Nat \ {0} /\ w <= top
  BY Weights, Zenon
<1>2. MaxFeeRate \in Nat /\ U64Max \in Nat /\ top \in Nat /\ (MaxFeeRate + 1) * top <= U64Max
  BY PsbtConstants, ExtractConstants
<1>3. FeeRate(fee, ins) = x \div w
  BY Zenon DEF FeeRate
<1> HIDE DEF w, top
<1>4. limit <= U64Max /\ limit \in Nat
  <2>1. (MaxFeeRate + 1) * w <= (MaxFeeRate + 1) * top
    BY <1>1, <1>2
  <2>. QED  BY <1>1, <1>2, <2>1
<1>5. x \in Nat /\ (x >= limit <=> fee * 1000 >= limit)
  <2> HIDE DEF limit
  <2>. QED  BY <1>2, <1>4
<1>6. x \div w > MaxFeeRate <=> x >= (MaxFeeRate + 1) * w
  <2> HIDE DEF x
  <2>. QED  BY <1>1, <1>2, <1>5, QuotientExceeds, SMTT(40)
<1>. QED  BY <1>3, <1>5, <1>6 DEF w

\* The outcome of an extraction, by exact arithmetic.
LEMMA ExtractExact ==
  ASSUME NEW ins, Valued(ins)
  PROVE  LET status == ExtractStatus(ins)
             funding == SumOf([i \in Inputs |-> SpendUtxo(ins[i]).value], NumInputs)
             spent == SumOf(OutputValue, NumOutputs)
             absurd == (funding - spent) * 1000 >= (MaxFeeRate + 1) * TxWeight(ins)
         IN  IF \A i \in Inputs : HasUtxo(ins[i])
             THEN status = CASE funding > U64Max \/ spent > U64Max -> "AbsurdFeeRate"
                             [] funding <= U64Max /\ spent <= U64Max /\ funding < spent
                                -> "SendingTooMuch"
                             [] OTHER -> IF absurd THEN "AbsurdFeeRate" ELSE "ok"
             ELSE status \in {"MissingInputValue", "AbsurdFeeRate", "panic"}
<1> DEFINE status == ExtractStatus(ins)
           funding == SumOf([i \in Inputs |-> SpendUtxo(ins[i]).value], NumInputs)
           spent == SumOf(OutputValue, NumOutputs)
           absurd == (funding - spent) * 1000 >= (MaxFeeRate + 1) * TxWeight(ins)
           all == \A i \in Inputs : HasUtxo(ins[i])
           acc == FundingTotal(ins)
           out == OutputTotal(acc)
<1>1. acc \in Totals
  BY FundingTotals, Zenon
<1>2. spent \in Nat /\ U64Max \in Nat
  BY <1>1, OutputTotals, ExtractConstants, Zenon
<1>3. out = IF acc.status # "ok" THEN acc
            ELSE IF spent > U64Max THEN Stopped("FeeOverflow") ELSE Running(spent)
  BY <1>1, OutputTotals, Zenon
<1>4. Fee(ins) = IF out.status # "ok" THEN out
                 ELSE IF acc.sum < out.sum THEN Stopped("NegativeFee")
                 ELSE Running(acc.sum - out.sum)
  BY Zenon DEF Fee
<1>5. CASE ~all
  <2>1. acc.status # "ok" /\ acc.status \in {"MissingUtxo", "PsbtUtxoOutOfbounds", "FeeOverflow"}
    BY <1>1, <1>5, FundingTotals, Zenon DEF Totals
  <2>2. Fee(ins) = acc
    BY <1>3, <1>4, <2>1, Zenon
  <2>3. status \in {"MissingInputValue", "AbsurdFeeRate", "panic"}
    BY <2>1, <2>2, Zenon DEF ExtractStatus
  <2>. QED  BY <1>5, <2>3, Zenon
<1>6. CASE all
  <2>1. /\ funding \in Nat
        /\ acc = IF funding > U64Max THEN Stopped("FeeOverflow") ELSE Running(funding)
    BY <1>6, FundingTotals, Zenon
  <2> HIDE DEF funding, spent, acc, out, all
  <2>2. CASE funding > U64Max \/ spent > U64Max
    <3>1. Fee(ins) = Stopped("FeeOverflow")
      BY <1>3, <1>4, <2>1, <2>2 DEF Stopped, Running
    <3>2. status = "AbsurdFeeRate"
      BY <3>1 DEF ExtractStatus, Stopped
    <3>3. ~(funding <= U64Max /\ spent <= U64Max)
      BY <1>2, <2>1, <2>2
    <3>. QED  BY <1>6, <2>2, <3>2, <3>3, Zenon DEF all, funding, spent
  <2>3. CASE ~(funding > U64Max \/ spent > U64Max)
    <3>1. acc = Running(funding) /\ out = Running(spent)
      BY <1>3, <2>1, <2>3, Zenon DEF Running
    <3>2. Fee(ins) = IF funding < spent THEN Stopped("NegativeFee")
                     ELSE Running(funding - spent)
      BY <1>4, <3>1, ZenonT(40) DEF Running
    <3>3. CASE funding < spent
      <4>1. status = "SendingTooMuch"
        BY <3>2, <3>3, SMTT(40) DEF ExtractStatus, Stopped
      <4>2. funding <= U64Max /\ spent <= U64Max
        BY <1>2, <2>1, <2>3, SMTT(40)
      <4>. QED  BY <1>6, <2>3, <3>3, <4>1, <4>2, SMTT(40) DEF all, funding, spent
    <3>4. CASE ~(funding < spent)
      <4>1. funding - spent \in Nat
        BY <1>2, <2>1, <3>4, SMTT(40)
      <4>2. status = IF FeeRate(funding - spent, ins) > MaxFeeRate
                     THEN "AbsurdFeeRate" ELSE "ok"
        BY <3>2, <3>4 DEF ExtractStatus, Running
      <4>3. FeeRate(funding - spent, ins) > MaxFeeRate <=> absurd
        BY <4>1, FeeRates
      <4>4. status = IF absurd THEN "AbsurdFeeRate" ELSE "ok"
        BY <4>2, <4>3
      <4>. QED  BY <1>6, <2>3, <3>4, <4>4, SMTT(40) DEF all, funding, spent
    <3>. QED  BY <3>3, <3>4, Zenon
  <2>. QED  BY <2>2, <2>3, Zenon
<1>. QED  BY <1>5, <1>6, Zenon

-----------------------------------------------------------------------------
(* Every utxo of every copy has an amount: it was offered.                 *)

ValuedInput(in) == \A f \in UtxoFields : in[f] # None => in[f].value \in Nat
ValuedCopy(copy) == \A i \in Inputs : ValuedInput(copy.inputs[i])
AllValued == \A copy \in Copies : ValuedCopy(copy)

\* The copies after a step that rewrites p's.
LEMMA WriteValued ==
  ASSUME AllValued, NEW p, NEW copy, ValuedCopy(copy), mail' \subseteq mail,
         \/ psbt' = Insert(psbt, p, copy)
         \/ p \in DOMAIN psbt /\ psbt' = [psbt EXCEPT ![p] = copy]
  PROVE  AllValued'
<1>1. \A q \in DOMAIN psbt' : psbt'[q] = copy \/ (q \in DOMAIN psbt /\ psbt'[q] = psbt[q])
  BY Zenon DEF Insert, Extend
<1>2. \A c \in Copies' : c = copy \/ c \in Copies
  BY <1>1, Zenon DEF Copies
<1>. QED  BY <1>2, Zenon DEF AllValued

\* Psbt::combine brings no utxo but those of the two copies.
LEMMA CombineValued ==
  ASSUME NEW self, WellFormed(self), NEW other, WellFormed(other),
         ValuedCopy(self), ValuedCopy(other)
  PROVE  ValuedCopy(CombinePsbt(self, other))
<1> DEFINE new == CombinePsbt(self, other)
<1>1. CASE new.inputs = self.inputs
  BY <1>1, Zenon DEF ValuedCopy
<1>2. CASE \A i \in Inputs : new.inputs[i] = CombineInput(self.inputs[i], other.inputs[i])
  <2>1. ASSUME NEW i \in Inputs PROVE ValuedInput(new.inputs[i])
    <3> DEFINE mine == self.inputs[i]
               theirs == other.inputs[i]
               in == CombineInput(mine, theirs)
    <3>1. ValuedInput(mine) /\ ValuedInput(theirs)
      BY Zenon DEF ValuedCopy
    <3>2. in.witness_utxo = Keep(mine.witness_utxo, theirs.witness_utxo)
      BY Zenon DEF CombineInput, InputFields, KeepFields, MapFields
    <3>3. in.non_witness_utxo = IF TakesWitnessUtxo(mine, theirs) THEN None
                                ELSE Keep(mine.non_witness_utxo, theirs.non_witness_utxo)
      BY Zenon DEF CombineInput, InputFields, KeepFields, MapFields
    <3> HIDE DEF in, mine, theirs
    <3>4. ValuedInput(in)
      BY <3>1, <3>2, <3>3, Zenon DEF ValuedInput, UtxoFields, Keep
    <3>. QED  BY <1>2, <3>4, Zenon DEF in, mine, theirs
  <2>. QED  BY <2>1, Zenon DEF ValuedCopy
<1>. QED
  BY <1>1, <1>2, Zenon DEF CombinePsbt, WellFormed, PsbtFields

\* An accepted message.
LEMMA AcceptValued ==
  ASSUME TypeOK, AllValued, NEW m \in mail, Accept(m.to, m.psbt), mail' \subseteq mail
  PROVE  AllValued'
<1>1. WellFormed(m.psbt) /\ ValuedCopy(m.psbt)
  BY Zenon DEF TypeOK, AllValued, Copies
<1>2. CASE psbt' = psbt
  <2>1. Copies' \subseteq Copies
    BY <1>2, Zenon DEF Copies
  <2>. QED  BY <2>1, Zenon DEF AllValued
<1>3. CASE m.to \notin DOMAIN psbt /\ psbt' = Insert(psbt, m.to, m.psbt)
  BY <1>1, <1>3, WriteValued, Zenon
<1>4. CASE m.to \in DOMAIN psbt /\ psbt' = [psbt EXCEPT ![m.to] = CombinePsbt(psbt[m.to], m.psbt)]
  <2>1. WellFormed(psbt[m.to]) /\ ValuedCopy(psbt[m.to])
    BY <1>4, Zenon DEF TypeOK, AllValued, Copies
  <2>2. ValuedCopy(CombinePsbt(psbt[m.to], m.psbt))
    BY <1>1, <2>1, CombineValued, Zenon
  <2>. QED  BY <1>4, <2>2, WriteValued, Zenon
<1>. QED  BY <1>2, <1>3, <1>4, Zenon DEF Accept

\* Every step leaves copies whose utxos have amounts.
LEMMA ValuedStep ==
  ASSUME TypeOK, AllValued, [Next]_vars
  PROVE  AllValued'
<1>1. ASSUME NEW p \in Party, NEW tx \in Tx, Create(p, tx) PROVE AllValued'
  <2>1. CASE tx \in UnsignedTx
    <3>1. ValuedCopy(FreshPsbt(tx))
      BY Zenon DEF ValuedCopy, ValuedInput, FreshPsbt, EmptyInput, UtxoFields, InputFields, MapFields
    <3>. QED  BY <1>1, <2>1, <3>1, WriteValued, Zenon DEF Create, Ends
  <2>2. CASE tx \notin UnsignedTx
    BY <1>1, <2>2, Zenon DEF Create, AllValued, Copies
  <2>. QED  BY <2>1, <2>2, Zenon
<1>2. ASSUME NEW p \in DOMAIN psbt
      PROVE  WellFormed(psbt[p]) /\ ValuedCopy(psbt[p]) /\ DOMAIN psbt[p] = PsbtFields
  BY Zenon DEF TypeOK, AllValued, Copies, WellFormed
<1>3. ASSUME NEW p \in DOMAIN psbt, NEW copy, UNCHANGED mail,
             \A i \in Inputs : \A f \in UtxoFields : copy.inputs[i][f] = psbt[p].inputs[i][f],
             psbt' = [psbt EXCEPT ![p] = copy] \/ psbt' = Insert(psbt, p, copy)
      PROVE  AllValued'
  <2>1. ValuedCopy(copy)
    BY <1>2, <1>3 DEF ValuedCopy, ValuedInput
  <2>. QED  BY <1>3, <2>1, WriteValued, Zenon
<1>4. ASSUME NEW p \in Party, NEW o \in Offers, UpdateInput(p, o) PROVE AllValued'
  <2> DEFINE in == psbt[p].inputs[o.input]
             value == IF o.field \in MapFields THEN Insert(in[o.field], o.key, o.value)
                      ELSE o.value
             new == [in EXCEPT ![o.field] = value]
             copy == [psbt[p] EXCEPT !.inputs[o.input] = new]
  <2>1. /\ o.input \in Inputs /\ o.field \in InputFields
        /\ o.field \in UtxoFields => o.value.value \in Nat
    BY WorkflowConstants, ExtractConstants, SMTT(40)
  <2>2. p \in DOMAIN psbt /\ psbt' = [psbt EXCEPT ![p] = copy] /\ UNCHANGED mail
    BY <1>4, Zenon DEF UpdateInput
  <2>3. ValuedInput(in) /\ WellFormedInput(in)
    BY <1>2, <2>1, <2>2, Zenon DEF ValuedCopy, WellFormed
  <2>4. ASSUME NEW f \in UtxoFields, new[f] # None PROVE new[f].value \in Nat
    <3>1. f \in InputFields /\ f \notin MapFields
      BY Zenon DEF UtxoFields, InputFields, MapFields
    <3>2. CASE f = o.field
      BY <2>1, <2>3, <3>1, <3>2, Zenon DEF WellFormedInput
    <3>3. CASE f # o.field
      BY <2>3, <2>4, <3>1, <3>3, Zenon DEF WellFormedInput, ValuedInput
    <3>. QED  BY <3>2, <3>3, Zenon
  <2>5. ValuedInput(new)
    BY <2>4, Zenon DEF ValuedInput
  <2> HIDE DEF new
  <2>6. \A i \in Inputs : copy.inputs[i] = IF i = o.input THEN new ELSE psbt[p].inputs[i]
    BY <1>2, <2>1, <2>2, Zenon DEF WellFormed, PsbtFields
  <2> HIDE DEF copy
  <2>7. ValuedCopy(copy)
    BY <1>2, <2>2, <2>5, <2>6, SMTT(40) DEF ValuedCopy
  <2>. QED  BY <2>2, <2>7, WriteValued, Zenon
<1>5. ASSUME NEW p \in Party, NEW o \in OutputOffers, UpdateOutput(p, o) PROVE AllValued'
  <2> DEFINE copy == [psbt[p] EXCEPT !.outputs[o.output][o.field] = o.value]
  <2>1. p \in DOMAIN psbt /\ psbt' = [psbt EXCEPT ![p] = copy] /\ UNCHANGED mail
    BY <1>5, Zenon DEF UpdateOutput
  <2>2. copy.inputs = psbt[p].inputs
    BY <1>2, <2>1, Zenon DEF PsbtFields
  <2>. QED  BY <1>3, <2>1, <2>2, Zenon
<1>6. ASSUME NEW p \in Party, NEW o \in XpubOffers, UpdateXpub(p, o) PROVE AllValued'
  <2> DEFINE copy == [psbt[p] EXCEPT !.xpub = Insert(psbt[p].xpub, o.xpub, o.source)]
  <2>1. p \in DOMAIN psbt /\ psbt' = [psbt EXCEPT ![p] = copy] /\ UNCHANGED mail
    BY <1>6, Zenon DEF UpdateXpub
  <2>2. copy.inputs = psbt[p].inputs
    BY <1>2, <2>1, Zenon DEF PsbtFields
  <2>. QED  BY <1>3, <2>1, <2>2, Zenon
<1>7. ASSUME NEW p \in Party, UpdateVersion(p) PROVE AllValued'
  <2> DEFINE copy == [psbt[p] EXCEPT !.version = 1]
  <2>1. p \in DOMAIN psbt /\ psbt' = [psbt EXCEPT ![p] = copy] /\ UNCHANGED mail
    BY <1>7, Zenon DEF UpdateVersion
  <2>2. copy.inputs = psbt[p].inputs
    BY <1>2, <2>1, Zenon DEF PsbtFields
  <2>. QED  BY <1>3, <2>1, <2>2, Zenon
<1>8. ASSUME NEW p \in Party, SignCopy(p) PROVE AllValued'
  <2> DEFINE copy == [psbt[p] EXCEPT !.inputs = Sign(psbt[p].inputs, Held[p])]
  <2>1. p \in DOMAIN psbt /\ psbt' = Insert(psbt, p, copy) /\ UNCHANGED mail
    BY <1>8, Zenon DEF SignCopy, Ends
  <2>2. copy.inputs = Sign(psbt[p].inputs, Held[p])
    BY <1>2, <2>1, Zenon DEF PsbtFields
  <2>3. UtxoFields \subseteq InputFields \ SigFields
    BY Zenon DEF UtxoFields, InputFields, SigFields
  <2>4. \A i \in Inputs : \A f \in UtxoFields : copy.inputs[i][f] = psbt[p].inputs[i][f]
    BY <1>2, <2>1, <2>2, <2>3, SignKeepsFields, SMTT(40) DEF WellFormed
  <2> HIDE DEF copy
  <2>. QED  BY <1>3, <2>1, <2>4, SMTT(40)
<1>9. ASSUME NEW p \in Party, NEW i \in Inputs, Finalize(p, i) PROVE AllValued'
  <2>1. p \in DOMAIN psbt /\ UNCHANGED mail
    BY <1>9, Zenon DEF Finalize
  <2>2. PICK c \in {ClearedFields, ClearedByScriptPath} :
          psbt' = [psbt EXCEPT ![p] =
                     [psbt[p] EXCEPT !.inputs[i] = FinalizeInput(psbt[p].inputs[i], c)]]
    BY <1>9, Zenon DEF Finalize
  <2> DEFINE new == FinalizeInput(psbt[p].inputs[i], c)
             copy == [psbt[p] EXCEPT !.inputs[i] = new]
  <2>3. \A f \in UtxoFields : new[f] = psbt[p].inputs[i][f]
    BY Zenon DEF FinalizeInput, ClearedFields, ClearedByScriptPath, UtxoFields, InputFields
  <2> HIDE DEF new
  <2>4. \A j \in Inputs : copy.inputs[j] = IF j = i THEN new ELSE psbt[p].inputs[j]
    BY <1>2, <2>1, Zenon DEF WellFormed, PsbtFields
  <2>5. psbt' = [psbt EXCEPT ![p] = copy]
    BY <2>2, Zenon DEF new
  <2> HIDE DEF copy
  <2>6. ValuedCopy(copy)
    BY <1>2, <2>1, <2>3, <2>4, SMTT(40) DEF ValuedCopy, ValuedInput
  <2>. QED  BY <2>1, <2>5, <2>6, WriteValued, ZenonT(40)
<1>10. ASSUME NEW p \in Party, Extract(p) PROVE AllValued'
  BY <1>3, <1>10, Zenon DEF Extract, Ends
<1>11. ASSUME NEW p \in Party, NEW q \in Party, Send(p, q) PROVE AllValued'
  <2>1. Copies' \subseteq Copies
    BY <1>11 DEF Send, Copies
  <2>. QED  BY <2>1, Zenon DEF AllValued
<1>12. ASSUME NEW m \in mail, Receive(m) PROVE AllValued'
  BY <1>12, AcceptValued, Zenon DEF Receive
<1>13. ASSUME NEW m \in mail, ReceiveAgain(m) PROVE AllValued'
  BY <1>13, AcceptValued, Zenon DEF ReceiveAgain
<1>14. ASSUME NEW m \in mail, Lose(m) PROVE AllValued'
  <2>1. Copies' \subseteq Copies
    BY <1>14, Zenon DEF Lose, Copies
  <2>. QED  BY <2>1, Zenon DEF AllValued
<1>15. CASE UNCHANGED vars
  BY <1>15, Zenon DEF vars, AllValued, Copies
<1>. QED
  BY <1>1, <1>4, <1>5, <1>6, <1>7, <1>8, <1>9, <1>10, <1>11, <1>12, <1>13, <1>14, <1>15, SMTT(40)
     DEF Next

\* Whatever copies the exchange produces, extract_tx accepts exactly those
\* that are funded and whose fee rate is within the limit, and no u64
\* operation of Psbt::fee or of the fee rate hides an overflow: for any
\* number of inputs and outputs, and any amounts.
THEOREM ExtractionExact == Spec => []ExtractSound
<1>1. Init => AllValued
  BY Zenon DEF Init, AllValued, Copies, EmptyMap
<1>2. TypeOK /\ AllValued /\ [Next]_vars => AllValued'
  BY ValuedStep, Zenon
<1>3. AllValued => ExtractSound
  <2> SUFFICES ASSUME AllValued, NEW copy \in Copies
               PROVE  LET ins == copy.inputs
                          status == ExtractStatus(ins)
                          funding == SumOf([i \in Inputs |-> SpendUtxo(ins[i]).value], NumInputs)
                          spent == SumOf(OutputValue, NumOutputs)
                          absurd == (funding - spent) * 1000
                                    >= (MaxFeeRate + 1) * TxWeight(ins)
                      IN  IF \A i \in Inputs : HasUtxo(ins[i])
                          THEN status =
                                 CASE funding > U64Max \/ spent > U64Max -> "AbsurdFeeRate"
                                   [] funding <= U64Max /\ spent <= U64Max /\ funding < spent
                                      -> "SendingTooMuch"
                                   [] OTHER -> IF absurd THEN "AbsurdFeeRate" ELSE "ok"
                          ELSE status \in {"MissingInputValue", "AbsurdFeeRate", "panic"}
    BY Zenon DEF ExtractSound
  <2>1. Valued(copy.inputs)
    BY Zenon DEF AllValued, ValuedCopy, ValuedInput, Valued, SpendUtxo, UtxoFields
  <2>. QED  BY <2>1, ExtractExact, Zenon
<1>. QED
  BY <1>1, <1>2, <1>3, TypeCorrect, PTL DEF Spec
=============================================================================
