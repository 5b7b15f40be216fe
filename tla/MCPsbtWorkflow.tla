---------------------------- MODULE MCPsbtWorkflow ----------------------------
(***************************************************************************)
(* Instances of PsbtWorkflow: who holds which keys, what each party knows. *)
(* A behaviour starts from one of several plans of what the parties do.    *)
(***************************************************************************)
EXTENDS PsbtWorkflow, TLC
CONSTANTS a, b, k1, k2, l1, g1, tx1, tx2

Offer(p, i, f, v) == [party |-> p, input |-> i, field |-> f, key |-> None, value |-> v]
OfferKey(p, i, f, k, v) == [party |-> p, input |-> i, field |-> f, key |-> k, value |-> v]
Txout(v, s) == [value |-> v, spk |-> s]

HeldByEach == (a :> {k1}) @@ (b :> {k2})
HeldByNone == (a :> {}) @@ (b :> {})
OneOutput == [o \in {1} |-> 5]

\* Input 1 is 2-of-2 p2wsh: a knows the script and the witness utxo, b the full
\* previous transaction.
MultisigOffers ==
  {Offer(a, 1, "witness_utxo", Txout(9, "p2wsh")),
   Offer(a, 1, "witness_script", "multi"),
   Offer(b, 1, "non_witness_utxo", Txout(9, "p2wsh")),
   OfferKey(a, 1, "bip32_derivation", k1, "path"),
   OfferKey(b, 1, "bip32_derivation", k2, "path")}

\* Input 1 is taproot, spent by a with the internal key or by b through a
\* leaf; input 2 is p2sh-p2wpkh and b's.  There is one output only.
TaprootOffers ==
  {Offer(a, 1, "witness_utxo", Txout(9, "p2tr")),
   Offer(a, 1, "tap_internal_key", k1),
   OfferKey(a, 1, "tap_key_origins", k1, {}),
   OfferKey(b, 1, "tap_key_origins", k2, {l1}),
   Offer(b, 2, "witness_utxo", Txout(3, "p2sh")),
   Offer(b, 2, "redeem_script", "p2wpkh"),
   OfferKey(b, 2, "bip32_derivation", k2, "path")}

\* Key sources of which one extends another, and two that conflict.
Source(f, path) == [fp |-> f, path |-> path]
XpubOffersSuffix ==
  {[party |-> a, xpub |-> 1, source |-> Source("f", <<1, 2>>)],
   [party |-> b, xpub |-> 1, source |-> Source("f", <<2>>)],
   [party |-> b, xpub |-> 1, source |-> Source("f", <<3, 1, 2>>)],
   [party |-> a, xpub |-> 2, source |-> Source("f", <<1>>)],
   [party |-> b, xpub |-> 2, source |-> Source("f", <<2>>)]}
XpubOffersConflict ==
  {[party |-> a, xpub |-> 1, source |-> Source("f", <<1>>)],
   [party |-> b, xpub |-> 1, source |-> Source("g", <<1>>)]}
XpubInputOffers == {OfferKey(b, 1, "unknown", g1, "v")}
TreeOffers == {[party |-> b, output |-> 1, field |-> "tap_tree", value |-> "tree"]}

\* Amounts around the limits: missing, small, close to u64::MAX, and a
\* previous transaction with too few outputs.
AmountsOf(i) ==
  {{}} \cup {{Offer(a, i, "witness_utxo", Txout(v, "p2wpkh"))} : v \in {0, 2, 3, 4, 5, 3999}}
AmountOffers(i, v) ==
  {Offer(a, i, "non_witness_utxo", v), OfferKey(a, i, "bip32_derivation", k1, "path")}
OutOfBoundsOffers == {Offer(a, 1, "non_witness_utxo", OutOfBounds)}

\* Both forms of one utxo, and a field of each kind.
ConvergeOffers ==
  {Offer(a, 1, "non_witness_utxo", Txout(9, "p2wpkh")),
   Offer(b, 1, "witness_utxo", Txout(9, "p2wpkh")),
   Offer(a, 1, "redeem_script", "p2wpkh"),
   OfferKey(b, 1, "unknown", g1, "v")}

\* The inputs' fields, a transport with or without faults, and the rest.
InputPlan(offers, faulty) ==
  [offers |-> offers, outputs |-> {}, xpubs |-> {}, newer |-> {}, tx |-> {tx1},
   faulty |-> faulty, mail |-> 1, forever |-> FALSE]
XpubPlan ==
  [offers |-> XpubInputOffers, outputs |-> TreeOffers, xpubs |-> XpubOffersSuffix,
   newer |-> {a}, tx |-> {tx1, tx2}, faulty |-> FALSE, mail |-> 1, forever |-> FALSE]

\* Parties that fill, sign and exchange copies forever, two of them in flight
\* so that one may overtake the other; they finalize and extract nothing.
ExchangePlan == [InputPlan(ConvergeOffers, TRUE) EXCEPT !.mail = 2, !.forever = TRUE]

CombinePlans == {InputPlan(MultisigOffers, TRUE), XpubPlan, ExchangePlan}

SignPlans ==
  {InputPlan(TaprootOffers, FALSE)}
    \cup {InputPlan(o1 \cup o2, FALSE) : o1 \in AmountsOf(1), o2 \in AmountsOf(2)}
    \cup {InputPlan(o1 \cup AmountOffers(2, v), FALSE) :
            o1 \in AmountsOf(1), v \in {Txout(4000, "p2wpkh"), OutOfBounds}}

\* Key sources that conflict, and a previous transaction with too few outputs.
ConflictPlans == {[InputPlan({}, TRUE) EXCEPT !.xpubs = XpubOffersConflict]}
OutOfBoundsPlans == {InputPlan(OutOfBoundsOffers, TRUE)}

CONSTANT Plans

OffersOfPlans == UNION {p.offers : p \in Plans}
OutputOffersOfPlans == UNION {p.outputs : p \in Plans}
XpubOffersOfPlans == UNION {p.xpubs : p \in Plans}
NewerOfPlans == UNION {p.newer : p \in Plans}

VARIABLE plan

PlanInit == Init /\ plan \in Plans

Post(p, q) == Cardinality(mail) < plan.mail /\ Send(p, q)

PlanNext ==
  /\ UNCHANGED plan
  /\ \/ \E p \in Party :
          \/ \E tx \in plan.tx : Create(p, tx)
          \/ \E o \in plan.offers : UpdateInput(p, o)
          \/ \E o \in plan.outputs : UpdateOutput(p, o)
          \/ \E o \in plan.xpubs : UpdateXpub(p, o)
          \/ p \in plan.newer /\ UpdateVersion(p)
          \/ SignCopy(p)
          \/ ~plan.forever /\ ((\E i \in Inputs : Finalize(p, i)) \/ Extract(p))
          \/ \E q \in Party : Post(p, q)
     \/ \E m \in mail : Receive(m) \/ (plan.faulty /\ (ReceiveAgain(m) \/ Lose(m)))

planVars == <<vars, plan>>

\* The application keeps exchanging copies: each party sends to each other
\* party again and again, and what is not lost is received.
FairPlan ==
  \A p, q \in Party :
    /\ SF_planVars(plan.forever /\ Post(p, q) /\ UNCHANGED plan)
    /\ WF_planVars(/\ plan.forever
                   /\ \E m \in mail : m.from = p /\ m.to = q /\ Receive(m)
                   /\ UNCHANGED plan)

PlanSpec == PlanInit /\ [][PlanNext]_planVars /\ FairPlan

\* If the copies are exchanged forever, all parties end up with the same
\* facts about every input: nobody has to send twice what was received once,
\* and stale or repeated copies do no harm (Psbt::combine).
Converges == <>[](plan.forever => \A p, q \in Party : knowsBar[p] = knowsBar[q])
===============================================================================
