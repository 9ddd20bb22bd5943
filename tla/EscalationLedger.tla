--------------------------- MODULE EscalationLedger ---------------------------
(***************************************************************************)
(* What an escalation promises, without locks, awaits, an index or cards:  *)
(* it is claimed at most once at a time, a claim ends in one acknowledged  *)
(* reply or is withdrawn, and every other ending is for good.              *)
(***************************************************************************)
CONSTANT Escalations

VARIABLE life

Init == life = [e \in Escalations |-> "none"]

Move(e, from, to) == life[e] = from /\ life' = [life EXCEPT ![e] = to]

Raise(e)    == Move(e, "none", "open")
Claim(e)    == Move(e, "open", "claimed")
Reply(e)    == Move(e, "claimed", "replied")
Withdraw(e) == Move(e, "claimed", "open")
Dismiss(e)  == Move(e, "open", "dismissed")
TimeOut(e)  == Move(e, "open", "timed_out")

Next == \E e \in Escalations :
  \/ Raise(e) \/ Claim(e) \/ Reply(e) \/ Withdraw(e) \/ Dismiss(e) \/ TimeOut(e)

Spec == Init /\ [][Next]_life
=============================================================================
