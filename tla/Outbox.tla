-------------------------------- MODULE Outbox --------------------------------
(***************************************************************************)
(* What the outbound mirror promises: an accepted action stays pending     *)
(* until it has been sent or is on the list of dead letters; what leaves   *)
(* in any other way is accounted for as lost, and nothing comes back.      *)
(***************************************************************************)
CONSTANT Changes

VARIABLES accepted, pending, sent, dead, lost

vars == <<accepted, pending, sent, dead, lost>>

Init == accepted = {} /\ pending = {} /\ sent = {} /\ dead = {} /\ lost = {}

\* A new action; `gone` are older ones for which there was no more room.
Accept(a, gone) ==
  /\ a \notin accepted /\ gone \subseteq pending
  /\ accepted' = accepted \cup {a}
  /\ pending' = (pending \cup {a}) \ gone
  /\ lost' = lost \cup gone
  /\ UNCHANGED <<sent, dead>>

Send(a) ==
  /\ a \in accepted
  /\ sent' = sent \cup {a}
  /\ UNCHANGED <<accepted, pending, dead, lost>>

Settle(done, buried, gone) ==
  /\ done \subseteq pending \cap sent
  /\ buried \subseteq pending
  /\ gone \subseteq pending \cup dead
  /\ pending' = pending \ (done \cup buried \cup gone)
  /\ dead' = (dead \cup buried) \ gone
  /\ lost' = lost \cup gone
  /\ UNCHANGED <<accepted, sent>>

Next ==
  \/ \E a \in Changes : Send(a) \/ \E gone \in SUBSET pending : Accept(a, gone)
  \/ \E done, buried \in SUBSET pending, gone \in SUBSET (pending \cup dead) :
       Settle(done, buried, gone)

Spec == Init /\ [][Next]_vars
=============================================================================
