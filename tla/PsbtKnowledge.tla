---------------------------- MODULE PsbtKnowledge ----------------------------
(***************************************************************************)
(* What exchanging copies of a Psbt promises: every party has a set of     *)
(* facts that only grows.  A party learns facts by itself, sends the       *)
(* facts it has, and takes over all the facts of a message it accepts, or  *)
(* none of them.  Messages can be lost, duplicated and overtaken.          *)
(***************************************************************************)
CONSTANTS Party, Fact

VARIABLES
  knows,   \* knows[p]: the facts p has
  post     \* the messages in flight: [from, to, facts]

kvars == <<knows, post>>

KInit ==
  /\ knows = [p \in Party |-> {}]
  /\ post = {}

\* Only p's facts change.
OnlyFor(p) ==
  /\ knows' \in [Party -> SUBSET Fact]
  /\ \A q \in Party \ {p} : knows'[q] = knows[q]

Learn(p) ==
  /\ OnlyFor(p)
  /\ knows[p] \subseteq knows'[p]
  /\ UNCHANGED post

Tell(p, q) ==
  /\ post' = post \cup {[from |-> p, to |-> q, facts |-> knows[p]]}
  /\ UNCHANGED knows

Hear(m) ==
  /\ OnlyFor(m.to)
  /\ knows'[m.to] \in {knows[m.to], knows[m.to] \cup m.facts}
  /\ post' \in {post, post \ {m}}

Drop(m) ==
  /\ post' = post \ {m}
  /\ UNCHANGED knows

KNext ==
  \/ \E p \in Party : Learn(p)
  \/ \E p, q \in Party : Tell(p, q)
  \/ \E m \in post : Hear(m) \/ Drop(m)

KSpec == KInit /\ [][KNext]_kvars
=============================================================================
