--------------------------- MODULE MCMwebWorkflow ---------------------------
(***************************************************************************)
(* Instances of MwebWorkflow.  Values are small numbers.                   *)
(***************************************************************************)
EXTENDS MwebWorkflow, TLC

CONSTANTS ann, ben

Offer(p, part, i, fields) == [party |-> p, part |-> part, index |-> i, fields |-> fields]

Offsets == Offer(ann, "offsets", 1, [tx_offset |-> 1, stealth_offset |-> 2])
Signature(p, part, i) == Offer(p, part, i, [signature |-> 7])

InputMap == [output_id |-> 3, commit |-> 4, output_pubkey |-> 5, input_pubkey |-> 6,
             features |-> 1, master_scan_key_origin |-> 8, address_index |-> 9]
OutputMap == [commit |-> 4, sender_pubkey |-> 5, output_pubkey |-> 6, range_proof |-> 3,
              standard_fields |-> Bad, stealth_address |-> 8]
SignedOutput == OutputMap @@ [signature |-> 7]

\* Pure MWEB: each party has a kernel, ann an input and ben an output.
ParallelOffers ==
  {Offsets,
   Offer(ann, "inputs", 1, InputMap), Signature(ann, "inputs", 1),
   Offer(ann, "kernels", 1, [excess_commit |-> 1, fee |-> 2, unknowns |-> <<9>>]),
   Signature(ann, "kernels", 1),
   Offer(ben, "kernels", 2, [excess_commit |-> 5, lock_height |-> 6, pegouts |-> <<3, 4>>]),
   Signature(ben, "kernels", 2),
   Offer(ben, "outputs", 1, SignedOutput)}

\* The transparent inputs and outputs carry the maps, and ben may add a parallel
\* output.
SlotOffers ==
  {Offsets,
   Offer(ann, "in_slots", 1, InputMap), Signature(ann, "in_slots", 1),
   Offer(ben, "out_slots", 1, OutputMap), Signature(ben, "out_slots", 1),
   Offer(ben, "outputs", 1, SignedOutput),
   Offer(ben, "in_slots", 2, [output_id |-> 1, commit |-> 2, output_pubkey |-> 3,
                            signature |-> 7])}

\* One pegout more than the key byte can count.
PegoutOffers ==
  {Offer(ann, "kernels", 1, [excess_commit |-> 1, pegouts |-> <<3, 4, 5>>])}

\* What the parties write is picked at the start.
CONSTANT Plans

MwebPlans == {ParallelOffers, SlotOffers}
PegoutPlans == {PegoutOffers}
OffersOfPlans == UNION Plans

VARIABLE plan

PlanInit == MwebInit /\ plan \in Plans

PlanNext ==
  /\ UNCHANGED plan
  /\ \/ \E p \in Party :
          \/ \E o \in plan : WriteMap(p, o)
          \/ \E q \in Party : Send(p, q)
     \/ \E m \in mail : Receive(m) \/ ReceiveAgain(m) \/ Lose(m)

PlanSpec == PlanInit /\ [][PlanNext]_<<mwebVars, plan>>
=============================================================================
