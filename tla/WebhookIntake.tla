----------------------------- MODULE WebhookIntake -----------------------------
(***************************************************************************)
(* The Plane plugin's webhook handler: signature check, in-flight set,     *)
(* seen-store, routing, and the answer the host gives Plane (200 when the  *)
(* handler resolves, 502 when it throws).                                  *)
(*                                                                         *)
(* Plane is external: it sends an event again when an attempt is answered  *)
(* with an error, when it stops waiting for an answer, and now and then    *)
(* for no reason.  Every action below runs from one await to the next.     *)
(***************************************************************************)
EXTENDS Naturals, Sequences, FiniteSets

CONSTANTS
  Events,         \* distinct verified bodies; one stands for its hash
  Enabled,        \* those whose event type is in the allowlist
  Attempts,       \* requests that may be in the worker at the same time
  SeenCapacity,   \* longest list of seen hashes that is saved
  MaxTimeouts,    \* bound: attempts Plane stops waiting for
  MaxDuplicates,  \* bound: events Plane sends twice
  MaxFaults,      \* bound: calls that reject, and secrets that do not match
  MaxCrashes      \* bound: worker crashes

ASSUME ConstantsAssumption ==
  /\ Events # {} /\ Enabled \subseteq Events
  /\ IsFiniteSet(Attempts)
  /\ SeenCapacity \in Nat \ {0}
  /\ {MaxTimeouts, MaxDuplicates, MaxFaults, MaxCrashes} \subseteq Nat

VARIABLES
  owed,       \* Plane: how often it has yet to send each event
  listening,  \* Plane: the attempts whose answer it still waits for
  seen,       \* "seen-deliveries" in the state store
  inFlight,   \* the handler's in-memory set
  pc,         \* where each attempt is
  event,      \* the event it carries
  snap,       \* markSeen(): the list it has loaded
  routed,     \* how often routeEvent() has taken effect, per event
  forgotten,  \* history: events whose mark was pushed out or overwritten
  cut,        \* history: events routed by an attempt that then failed
  abandoned,  \* history: events of which Plane has stopped awaiting an attempt
  used        \* how often each external event has happened

plane  == <<owed, listening>>
locals == <<pc, event, snap>>
history == <<forgotten, cut, abandoned>>
vars   == <<plane, seen, inFlight, locals, routed, history, used>>

Routing == {"route", "markRead", "markSave"}

\* Attempts that hold their event in the in-flight set.
Holding == {"check", "recordDone", "recordFailed"} \cup Routing

\* What `event` holds for an attempt that is idle.
AnyEvent == CHOOSE e \in Events : TRUE

TypeOK ==
  /\ owed \in [Events -> Nat]
  /\ listening \in SUBSET Attempts
  /\ seen \in Seq(Events) /\ Len(seen) <= SeenCapacity
  /\ inFlight \in SUBSET Events
  /\ pc \in [Attempts -> {"idle", "secret", "recordDuplicate", "recordRefused"} \cup Holding]
  /\ event \in [Attempts -> Events]
  /\ snap \in [Attempts -> Seq(Events)]
  /\ routed \in [Events -> Nat]
  /\ {forgotten, cut, abandoned} \subseteq SUBSET Events
  /\ used \in [{"timeout", "duplicate", "fault", "crash"} -> Nat]

Init ==
  /\ owed = [e \in Events |-> 1]
  /\ listening = {}
  /\ seen = <<>>
  /\ inFlight = {}
  /\ pc = [a \in Attempts |-> "idle"]
  /\ event = [a \in Attempts |-> AnyEvent]
  /\ snap = [a \in Attempts |-> <<>>]
  /\ routed = [e \in Events |-> 0]
  /\ forgotten = {} /\ cut = {} /\ abandoned = {}
  /\ used = [u \in {"timeout", "duplicate", "fault", "crash"} |-> 0]

Goto(a, at) == pc' = [pc EXCEPT ![a] = at]

Happens(what, bound) == used[what] < bound /\ used' = [used EXCEPT ![what] = @ + 1]

Elems(s) == {s[i] : i \in DOMAIN s}

-----------------------------------------------------------------------------
(* Plane.                                                                   *)

Send(a) ==
  /\ pc[a] = "idle"
  /\ \E e \in Events :
       /\ owed[e] > 0
       /\ owed' = [owed EXCEPT ![e] = @ - 1]
       /\ event' = [event EXCEPT ![a] = e]
  /\ listening' = listening \cup {a}
  /\ Goto(a, "secret")
  /\ UNCHANGED <<seen, inFlight, snap, routed, history, used>>

\* Plane stops waiting and will send the event again; the handler runs on.
TimeOut(a) ==
  /\ a \in listening
  /\ Happens("timeout", MaxTimeouts)
  /\ listening' = listening \ {a}
  /\ owed' = [owed EXCEPT ![event[a]] = @ + 1]
  /\ abandoned' = abandoned \cup {event[a]}
  /\ UNCHANGED <<seen, inFlight, locals, routed, forgotten, cut>>

SendTwice(e) ==
  /\ Happens("duplicate", MaxDuplicates)
  /\ owed' = [owed EXCEPT ![e] = @ + 1]
  /\ UNCHANGED <<listening, seen, inFlight, locals, routed, history>>

\* The host answers; Plane owes the event again if it hears of an error.
Answer(a, ok) ==
  /\ Goto(a, "idle")
  /\ snap' = [snap EXCEPT ![a] = <<>>]
  /\ listening' = listening \ {a}
  /\ owed' = IF ~ok /\ a \in listening THEN [owed EXCEPT ![event[a]] = @ + 1] ELSE owed
  /\ event' = [event EXCEPT ![a] = AnyEvent]

\* The handler leaves its try block.
Release(a) == inFlight' = inFlight \ {event[a]}

-----------------------------------------------------------------------------
(* handle().                                                                *)

\* The membership check and the insertion run without an await in between.
Gate(a) ==
  /\ pc[a] = "secret"
  /\ \/ event[a] \in inFlight /\ Goto(a, "recordDuplicate") /\ UNCHANGED <<inFlight, used>>
     \/ /\ event[a] \notin inFlight
        /\ inFlight' = inFlight \cup {event[a]}
        /\ Goto(a, "check") /\ UNCHANGED used
     \* the secret is not (yet) the one Plane signs with
     \/ Happens("fault", MaxFaults) /\ Goto(a, "recordRefused") /\ UNCHANGED inFlight
  /\ UNCHANGED <<plane, seen, event, snap, routed, history>>

\* Seeded fault: a seen event is not recognised.
CheckUnseen(a) ==
  /\ pc[a] = "check"
  /\ Goto(a, IF event[a] \notin Enabled THEN "recordDone" ELSE "route")
  /\ UNCHANGED <<plane, seen, inFlight, event, snap, routed, history, used>>

\* A seen event, or one that is no enabled Plane event, is acknowledged.
CheckSeen(a) ==
  /\ pc[a] = "check"
  /\ Goto(a, IF event[a] \in Elems(seen) \/ event[a] \notin Enabled
               THEN "recordDone" ELSE "route")
  /\ UNCHANGED <<plane, seen, inFlight, event, snap, routed, history, used>>

\* routeEvent() succeeds, or rejects with or without having taken effect.
Route(a) ==
  /\ pc[a] = "route"
  /\ \/ /\ routed' = [routed EXCEPT ![event[a]] = @ + 1]
        /\ Goto(a, "markRead") /\ UNCHANGED <<cut, used>>
     \/ /\ Happens("fault", MaxFaults)
        /\ \/ UNCHANGED <<routed, cut>>
           \/ /\ routed' = [routed EXCEPT ![event[a]] = @ + 1]
              /\ cut' = cut \cup {event[a]}
        /\ Goto(a, "recordFailed")
  /\ UNCHANGED <<plane, seen, inFlight, event, snap, forgotten, abandoned>>

ReadSeen(a) ==
  /\ pc[a] = "markRead"
  /\ IF event[a] \in Elems(seen)
       THEN Goto(a, "recordDone") /\ UNCHANGED snap
       ELSE Goto(a, "markSave") /\ snap' = [snap EXCEPT ![a] = seen]
  /\ UNCHANGED <<plane, seen, inFlight, event, routed, history, used>>

Newest(s, n) == IF Len(s) > n THEN SubSeq(s, Len(s) - n + 1, Len(s)) ELSE s

SaveSeen(a) ==
  /\ pc[a] = "markSave"
  /\ seen' = Newest(Append(snap[a], event[a]), SeenCapacity)
  /\ forgotten' = forgotten \cup ((Elems(seen) \cup {event[a]}) \ Elems(seen'))
  /\ Goto(a, "recordDone")
  /\ UNCHANGED <<plane, inFlight, event, snap, routed, cut, abandoned, used>>

\* Seeded faults: a failed routing is answered with 200; and its event is left in
\* the in-flight set.
RespondOk(a) ==
  /\ \/ pc[a] = "recordDuplicate" /\ UNCHANGED inFlight
     \/ pc[a] \in {"recordDone", "recordFailed"} /\ Release(a)
  /\ Answer(a, TRUE)
  /\ UNCHANGED <<seen, routed, history, used>>

RespondHolding(a) ==
  /\ \/ pc[a] = "recordDuplicate" /\ Answer(a, TRUE) /\ UNCHANGED inFlight
     \/ pc[a] \in {"recordRefused", "recordFailed"} /\ Answer(a, FALSE) /\ UNCHANGED inFlight
     \/ pc[a] = "recordDone" /\ Answer(a, TRUE) /\ Release(a)
  /\ UNCHANGED <<seen, routed, history, used>>

\* recordSafely() returns, whether or not it could write; then the answer.
Respond(a) ==
  /\ \/ pc[a] = "recordDuplicate" /\ Answer(a, TRUE) /\ UNCHANGED inFlight
     \/ pc[a] = "recordRefused" /\ Answer(a, FALSE) /\ UNCHANGED inFlight
     \/ pc[a] = "recordDone" /\ Answer(a, TRUE) /\ Release(a)
     \/ pc[a] = "recordFailed" /\ Answer(a, FALSE) /\ Release(a)
  /\ UNCHANGED <<seen, routed, history, used>>

\* A config or state-store call of the handler rejects, and so does the handler.
Rejects(a) ==
  /\ Happens("fault", MaxFaults)
  /\ Answer(a, FALSE)
  /\ \/ pc[a] = "secret" /\ UNCHANGED <<inFlight, cut>>
     \/ pc[a] = "check" /\ Release(a) /\ UNCHANGED cut
     \/ /\ pc[a] \in {"markRead", "markSave"} /\ Release(a)
        /\ cut' = cut \cup {event[a]}
  /\ UNCHANGED <<seen, routed, forgotten, abandoned>>

HandleStep(a) ==
  Gate(a) \/ CheckSeen(a) \/ Route(a) \/ ReadSeen(a) \/ SaveSeen(a) \/ Respond(a)

\* The worker dies: the host answers its attempts with an error.
Crash ==
  /\ Happens("crash", MaxCrashes)
  /\ inFlight' = {}
  /\ cut' = cut \cup {event[a] : a \in {b \in Attempts : pc[b] \in {"markRead", "markSave"}}}
  /\ owed' = [e \in Events |-> owed[e] + Cardinality({a \in listening : event[a] = e})]
  /\ listening' = {}
  /\ pc' = [a \in Attempts |-> "idle"]
  /\ snap' = [a \in Attempts |-> <<>>]
  /\ event' = [a \in Attempts |-> AnyEvent]
  /\ UNCHANGED <<seen, routed, forgotten, abandoned>>

Next ==
  \/ \E a \in Attempts : Send(a) \/ TimeOut(a) \/ HandleStep(a) \/ Rejects(a)
  \/ \E e \in Events : SendTwice(e)
  \/ Crash

Spec == Init /\ [][Next]_vars

\* Plane sends what it owes, and the worker runs what it has started.
Fairness == \A a \in Attempts : WF_vars(Send(a)) /\ WF_vars(HandleStep(a))

FairSpec == Spec /\ Fairness

-----------------------------------------------------------------------------
(* Safety.                                                                  *)

AtRest(e) == owed[e] = 0 /\ \A a \in Attempts : pc[a] # "idle" => event[a] # e

\* "A verified Plane event must NEVER be silently dropped" (webhook-handler.ts:66):
\* when Plane has nothing left to send and no attempt is at work on an enabled
\* event, the event has been routed.
NeverDropped == \A e \in Enabled : AtRest(e) => routed[e] > 0

\* The same as long as Plane waits for its answers, whatever rejects or crashes: a
\* failed attempt is always answered with an error (handle's throws).
FailuresAnswered == \A e \in Enabled \ abandoned : AtRest(e) => routed[e] > 0

\* Two attempts never work on one event at the same time, so that its handler need
\* not be safe against itself (the in-flight set).
Exclusive == \A a, b \in Attempts :
  pc[a] \in Holding /\ pc[b] \in Holding /\ event[a] = event[b] => a = b

\* Only a routed event is marked seen, and so acknowledged without routing it: the
\* mark comes after routeEvent().
SeenWasRouted == \A e \in Elems(seen) : routed[e] > 0

\* An event is routed once, however often it is sent, unless an attempt failed after
\* routing it, or its mark was pushed out by newer ones or overwritten by a
\* concurrent one (the seen-store, with the in-flight set).
RoutedOnce == \A e \in Events \ (forgotten \cup cut) : routed[e] <= 1

-----------------------------------------------------------------------------
\* Every enabled event is routed in the end, through retries after every failure
\* (unless Plane had given up on an attempt): no path leaves its event in the
\* in-flight set (the finally block).
AllRouted == \A e \in Enabled : <>(routed[e] > 0 \/ e \in abandoned)
=============================================================================
