----------------------------- MODULE WebhookProofs -----------------------------
(***************************************************************************)
(* Proofs about WebhookIntake, for any number of events and requests, any  *)
(* capacity of the seen-store and any number of failures.                  *)
(***************************************************************************)
EXTENDS WebhookIntake, SequenceTheorems, FiniteSetTheorems, TLAPS

-----------------------------------------------------------------------------
(* The inductive invariant.                                                 *)

\* The in-flight set is what the attempts that hold something hold.
InFlightExact ==
  /\ \A a \in Attempts : pc[a] \in Holding => event[a] \in inFlight
  /\ \A e \in inFlight : \E a \in Attempts : pc[a] \in Holding /\ event[a] = e

\* Plane waits for every attempt it has not abandoned.
Listened ==
  /\ \A a \in Attempts : pc[a] # "idle" /\ a \notin listening => event[a] \in abandoned
  /\ \A a \in listening : pc[a] # "idle"

Marking == {"markRead", "markSave"}

\* What is marked, about to be marked or done with has been routed.
RoutedFirst ==
  /\ \A e \in Elems(seen) : routed[e] > 0
  /\ \A a \in Attempts : \A e \in Elems(snap[a]) : routed[e] > 0
  /\ \A a \in Attempts : pc[a] \in Marking => routed[event[a]] > 0
  /\ \A a \in Attempts : pc[a] = "recordDone" /\ event[a] \in Enabled => routed[event[a]] > 0

\* What has been routed is marked or about to be, and is not routed again.
OnceAndMarked ==
  /\ \A e \in Events \ (forgotten \cup cut) : routed[e] > 0 =>
       \/ e \in Elems(seen)
       \/ \E a \in Attempts : pc[a] \in Marking /\ event[a] = e
  /\ \A a \in Attempts : pc[a] = "route" /\ event[a] \notin forgotten \cup cut =>
       routed[event[a]] = 0

\* An attempt at e that will route it, or be answered with an error.
Trying(a, e) ==
  /\ a \in listening /\ event[a] = e
  /\ pc[a] \in {"secret", "check", "route", "recordRefused", "recordFailed"}

\* What is not routed will be sent again, or is being worked on.
Pursued == \A e \in Enabled \ abandoned :
  routed[e] > 0 \/ owed[e] > 0 \/ \E a \in Attempts : Trying(a, e)

IInv == /\ TypeOK /\ InFlightExact /\ Exclusive /\ Listened /\ RoutedFirst
        /\ OnceAndMarked /\ RoutedOnce /\ Pursued

-----------------------------------------------------------------------------
(* The seen-store's list.                                                   *)

\* The assumption, constant by constant.
LEMMA Constants ==
  /\ Events # {} /\ Enabled \subseteq Events /\ IsFiniteSet(Attempts)
  /\ SeenCapacity \in Nat /\ SeenCapacity # 0
BY ConstantsAssumption

\* The event an idle attempt is given is one.
LEMMA AnyEventType == AnyEvent \in Events
BY Constants DEF AnyEvent

\* Newest keeps at most n elements, and adds none.
LEMMA NewestFacts ==
  ASSUME NEW s \in Seq(Events), NEW n \in Nat, n # 0
  PROVE  /\ Newest(s, n) \in Seq(Events) /\ Len(Newest(s, n)) <= n
         /\ Elems(Newest(s, n)) \subseteq Elems(s)
<1>1. CASE Len(s) > n
  <2> DEFINE m == Len(s) - n + 1
  <2>1. Len(s) \in Nat /\ m \in Int /\ m \in 1..Len(s) /\ DOMAIN s = 1..Len(s)
    BY <1>1
  <2>2. \A i \in m .. Len(s) : s[i] \in Events
    BY <2>1
  <2>3. /\ SubSeq(s, m, Len(s)) \in Seq(Events)
        /\ Len(SubSeq(s, m, Len(s))) = n
        /\ \A i \in 1..n : SubSeq(s, m, Len(s))[i] = s[m + i - 1]
    BY <2>1, <2>2, SubSeqProperties
  <2>4. \A i \in 1..n : m + i - 1 \in 1..Len(s)
    BY <1>1, <2>1
  <2>5. DOMAIN SubSeq(s, m, Len(s)) = 1..n
    BY <2>3
  <2>6. Newest(s, n) = SubSeq(s, m, Len(s))
    BY <1>1 DEF Newest
  <2> HIDE DEF m
  <2> QED
    BY <2>1, <2>3, <2>4, <2>5, <2>6 DEF Elems
<1>2. CASE ~(Len(s) > n)
  BY <1>2 DEF Newest
<1> QED
  BY <1>1, <1>2

\* What a mark saves: the list it has loaded, its event, and nothing else.
LEMMA SavedList ==
  ASSUME TypeOK, NEW a \in Attempts, SaveSeen(a)
  PROVE  /\ seen' \in Seq(Events) /\ Len(seen') <= SeenCapacity
         /\ Elems(seen') \subseteq Elems(snap[a]) \cup {event[a]}
<1>1. snap[a] \in Seq(Events) /\ event[a] \in Events
  BY DEF TypeOK
<1>2. Append(snap[a], event[a]) \in Seq(Events)
  BY <1>1
<1>3. Elems(Append(snap[a], event[a])) \subseteq Elems(snap[a]) \cup {event[a]}
  BY <1>1 DEF Elems
<1>4. seen' = Newest(Append(snap[a], event[a]), SeenCapacity)
  BY DEF SaveSeen
<1> QED
  BY <1>2, <1>3, <1>4, NewestFacts, Constants

-----------------------------------------------------------------------------
(* The invariant is inductive, one of its parts at a time.                  *)

USE Constants, AnyEventType

\* The invariant holds at first.
LEMMA InitIInv == Init => IInv
<1> SUFFICES ASSUME Init PROVE IInv
  OBVIOUS
<1>1. TypeOK /\ Elems(<<>>) = {}
  BY DEF Init, TypeOK, Elems
<1> QED
  BY <1>1 DEF Init, IInv, InFlightExact, Exclusive, Listened, RoutedFirst, Marking,
              OnceAndMarked, RoutedOnce, Pursued, Holding, Routing

\* Where an attempt can be.
Places == {"idle", "secret", "recordDuplicate", "recordRefused"} \cup Holding

\* All of them, by name.
LEMMA PlacesFacts ==
  /\ {"idle", "secret", "recordDuplicate", "recordRefused"} \subseteq Places
  /\ {"check", "recordDone", "recordFailed", "route", "markRead", "markSave"} \subseteq Places
BY DEF Places, Holding, Routing

\* Counting an external event keeps the counters natural numbers.
LEMMA UsedType ==
  ASSUME TypeOK, NEW w \in {"timeout", "duplicate", "fault", "crash"}, NEW n, Happens(w, n)
  PROVE  used' \in [{"timeout", "duplicate", "fault", "crash"} -> Nat]
BY DEF Happens, TypeOK

\* Goto moves one attempt and no other.
LEMMA GotoType ==
  ASSUME TypeOK, NEW a \in Attempts, NEW p \in Places, Goto(a, p)
  PROVE  /\ pc' \in [Attempts -> Places] /\ pc'[a] = p
         /\ \A b \in Attempts : b # a => pc'[b] = pc[b]
BY DEF Goto, TypeOK, Places

\* An answer frees one attempt, and Plane owes its event again if it hears an error.
LEMMA AnswerFacts ==
  ASSUME TypeOK, NEW a \in Attempts, NEW ok \in BOOLEAN, Answer(a, ok)
  PROVE  /\ pc' \in [Attempts -> Places] /\ event' \in [Attempts -> Events]
         /\ snap' \in [Attempts -> Seq(Events)] /\ owed' \in [Events -> Nat]
         /\ listening' = listening \ {a}
         /\ pc'[a] = "idle" /\ snap'[a] = <<>>
         /\ \A b \in Attempts : b # a =>
              pc'[b] = pc[b] /\ event'[b] = event[b] /\ snap'[b] = snap[b]
         /\ \A e \in Events :
              owed'[e] = IF ~ok /\ a \in listening /\ e = event[a] THEN owed[e] + 1 ELSE owed[e]
<1>1. pc' \in [Attempts -> Places] /\ pc'[a] = "idle" /\ \A b \in Attempts : b # a => pc'[b] = pc[b]
  BY PlacesFacts, GotoType DEF Answer
<1>2. event' = [event EXCEPT ![a] = AnyEvent] /\ snap' = [snap EXCEPT ![a] = <<>>]
  BY DEF Answer
<1>3. <<>> \in Seq(Events)
  OBVIOUS
<1>4. /\ event' \in [Attempts -> Events] /\ snap' \in [Attempts -> Seq(Events)]
      /\ snap'[a] = <<>>
      /\ \A b \in Attempts : b # a => event'[b] = event[b] /\ snap'[b] = snap[b]
  BY <1>2, <1>3 DEF TypeOK
<1>5. /\ owed' \in [Events -> Nat]
      /\ \A e \in Events :
           owed'[e] = IF ~ok /\ a \in listening /\ e = event[a] THEN owed[e] + 1 ELSE owed[e]
  BY DEF Answer, TypeOK
<1> QED
  BY <1>1, <1>4, <1>5 DEF Answer


\* What TypeOK says of the histories and the lists, set by set.
LEMMA HistoryType ==
  ASSUME TypeOK
  PROVE  /\ forgotten \subseteq Events /\ cut \subseteq Events /\ abandoned \subseteq Events
         /\ Elems(seen) \subseteq Events
         /\ \A a \in Attempts : event[a] \in Events /\ Elems(snap[a]) \subseteq Events
<1>1. /\ forgotten \in SUBSET Events /\ cut \in SUBSET Events /\ abandoned \in SUBSET Events
      /\ seen \in Seq(Events)
      /\ \A a \in Attempts : event[a] \in Events /\ snap[a] \in Seq(Events)
  BY DEF TypeOK
<1> QED
  BY <1>1 DEF Elems

\* Step by step, what each action does to every attempt and every event.
LEMMA SendFacts ==
  ASSUME TypeOK, NEW a \in Attempts, Send(a)
  PROVE  \E e \in Events :
           /\ owed[e] > 0 /\ owed' \in [Events -> Nat]
           /\ \A f \in Events : f # e => owed'[f] = owed[f]
           /\ pc' \in [Attempts -> Places] /\ event' \in [Attempts -> Events]
           /\ pc'[a] = "secret" /\ event'[a] = e
           /\ \A b \in Attempts : b # a => pc'[b] = pc[b] /\ event'[b] = event[b]
<1>1. PICK e \in Events : /\ owed[e] > 0
                          /\ owed' = [owed EXCEPT ![e] = @ - 1]
                          /\ event' = [event EXCEPT ![a] = e]
  BY DEF Send
<1>2. /\ pc' \in [Attempts -> Places] /\ pc'[a] = "secret"
      /\ \A b \in Attempts : b # a => pc'[b] = pc[b]
  BY PlacesFacts, GotoType DEF Send
<1>3. owed' \in [Events -> Nat] /\ \A f \in Events : f # e => owed'[f] = owed[f]
  BY <1>1 DEF TypeOK
<1>4. /\ event' \in [Attempts -> Events] /\ event'[a] = e
      /\ \A b \in Attempts : b # a => event'[b] = event[b]
  BY <1>1 DEF TypeOK
<1> QED
  BY <1>1, <1>2, <1>3, <1>4

\* When Plane stops waiting it owes no event less often.
LEMMA TimeOutFacts ==
  ASSUME TypeOK, NEW a \in Attempts, TimeOut(a)
  PROVE  /\ owed' \in [Events -> Nat] /\ event[a] \in Events
         /\ \A f \in Events : owed'[f] >= owed[f]
         /\ used' \in [{"timeout", "duplicate", "fault", "crash"} -> Nat]
<1>1. event[a] \in Events /\ owed' = [owed EXCEPT ![event[a]] = @ + 1]
  BY DEF TypeOK, TimeOut
<1>2. owed' \in [Events -> Nat] /\ \A f \in Events : owed'[f] >= owed[f]
  BY <1>1 DEF TypeOK
<1> QED
  BY <1>1, <1>2, UsedType DEF TimeOut

\* A duplicate is owed on top of what was.
LEMMA SendTwiceFacts ==
  ASSUME TypeOK, NEW e \in Events, SendTwice(e)
  PROVE  /\ owed' \in [Events -> Nat]
         /\ \A f \in Events : owed'[f] >= owed[f]
         /\ used' \in [{"timeout", "duplicate", "fault", "crash"} -> Nat]
<1>1. owed' \in [Events -> Nat] /\ \A f \in Events : owed'[f] >= owed[f]
  BY DEF SendTwice, TypeOK
<1> QED
  BY <1>1, UsedType DEF SendTwice

\* Where the steps of handle() take an attempt.
LEMMA HandleFacts ==
  ASSUME TypeOK, NEW a \in Attempts,
         Gate(a) \/ CheckSeen(a) \/ Route(a) \/ ReadSeen(a) \/ SaveSeen(a)
  PROVE  /\ pc' \in [Attempts -> Places] /\ pc'[a] \in Places /\ pc'[a] # "idle"
         /\ \A b \in Attempts : b # a => pc'[b] = pc[b]
<1>1. \E p \in Places \ {"idle"} : Goto(a, p)
  <2>1. Gate(a) => Goto(a, "recordDuplicate") \/ Goto(a, "check") \/ Goto(a, "recordRefused")
    BY DEF Gate
  <2>2. CheckSeen(a) => Goto(a, "recordDone") \/ Goto(a, "route")
    BY DEF CheckSeen
  <2>3. Route(a) => Goto(a, "markRead") \/ Goto(a, "recordFailed")
    BY DEF Route
  <2>4. ReadSeen(a) => Goto(a, "recordDone") \/ Goto(a, "markSave")
    BY DEF ReadSeen
  <2>5. SaveSeen(a) => Goto(a, "recordDone")
    BY DEF SaveSeen
  <2> QED
    BY <2>1, <2>2, <2>3, <2>4, <2>5, PlacesFacts
<1> QED
  BY <1>1, GotoType

\* Routing counts one event, unless it rejects before it takes effect.
LEMMA RouteFacts ==
  ASSUME TypeOK, NEW a \in Attempts, Route(a)
  PROVE  /\ pc[a] = "route"
         /\ routed' \in [Events -> Nat]
         /\ \A f \in Events : f # event[a] => routed'[f] = routed[f]
         /\ \/ pc'[a] = "markRead" /\ routed'[event[a]] = routed[event[a]] + 1 /\ UNCHANGED <<cut, used>>
            \/ /\ pc'[a] = "recordFailed"
               /\ used' \in [{"timeout", "duplicate", "fault", "crash"} -> Nat]
               /\ \/ UNCHANGED <<routed, cut>>
                  \/ routed'[event[a]] = routed[event[a]] + 1 /\ cut' = cut \cup {event[a]}
<1>1. pc[a] = "route" /\ event[a] \in Events
  BY DEF Route, TypeOK
<1>2. CASE /\ routed' = [routed EXCEPT ![event[a]] = @ + 1]
           /\ Goto(a, "markRead") /\ UNCHANGED <<cut, used>>
  <2>1. pc'[a] = "markRead"
    BY <1>2, PlacesFacts, GotoType
  <2>2. /\ routed' \in [Events -> Nat] /\ routed'[event[a]] = routed[event[a]] + 1
        /\ \A f \in Events : f # event[a] => routed'[f] = routed[f]
    BY <1>1, <1>2 DEF TypeOK
  <2> QED
    BY <1>1, <1>2, <2>1, <2>2
<1>3. CASE /\ Happens("fault", MaxFaults) /\ Goto(a, "recordFailed")
           /\ \/ UNCHANGED <<routed, cut>>
              \/ /\ routed' = [routed EXCEPT ![event[a]] = @ + 1]
                 /\ cut' = cut \cup {event[a]}
  <2>1. pc'[a] = "recordFailed"
    BY <1>3, PlacesFacts, GotoType
  <2>2. used' \in [{"timeout", "duplicate", "fault", "crash"} -> Nat]
    BY <1>3, UsedType
  <2>3. CASE UNCHANGED <<routed, cut>>
    BY <1>1, <2>1, <2>2, <2>3 DEF TypeOK
  <2>4. CASE /\ routed' = [routed EXCEPT ![event[a]] = @ + 1]
             /\ cut' = cut \cup {event[a]}
    <3>1. /\ routed' \in [Events -> Nat] /\ routed'[event[a]] = routed[event[a]] + 1
          /\ \A f \in Events : f # event[a] => routed'[f] = routed[f]
      BY <1>1, <2>4 DEF TypeOK
    <3> QED
      BY <1>1, <2>1, <2>2, <2>4, <3>1
  <2> QED
    BY <1>3, <2>3, <2>4
<1> QED
  BY <1>2, <1>3 DEF Route

\* markSeen() loads the list, or has nothing to do.
LEMMA ReadSeenFacts ==
  ASSUME TypeOK, NEW a \in Attempts, ReadSeen(a)
  PROVE  /\ pc[a] = "markRead" /\ snap' \in [Attempts -> Seq(Events)]
         /\ \A b \in Attempts : b # a => snap'[b] = snap[b]
         /\ \/ pc'[a] = "recordDone" /\ event[a] \in Elems(seen) /\ UNCHANGED snap
            \/ pc'[a] = "markSave" /\ snap'[a] = seen
<1>1. CASE event[a] \in Elems(seen)
  <2>1. Goto(a, "recordDone") /\ UNCHANGED snap
    BY <1>1 DEF ReadSeen
  <2>2. pc'[a] = "recordDone"
    BY <2>1, PlacesFacts, GotoType
  <2> QED
    BY <1>1, <2>1, <2>2 DEF ReadSeen, TypeOK
<1>2. CASE event[a] \notin Elems(seen)
  <2>1. Goto(a, "markSave") /\ snap' = [snap EXCEPT ![a] = seen]
    BY <1>2 DEF ReadSeen
  <2>2. pc'[a] = "markSave"
    BY <2>1, PlacesFacts, GotoType
  <2>3. /\ snap' \in [Attempts -> Seq(Events)] /\ snap'[a] = seen
        /\ \A b \in Attempts : b # a => snap'[b] = snap[b]
    BY <2>1 DEF TypeOK
  <2> QED
    BY <2>2, <2>3 DEF ReadSeen
<1> QED
  BY <1>1, <1>2

\* An attempt is answered: all but a refusal or a finished attempt is answered with
\* an error, so that Plane owes the event again if it still waits.
LEMMA AnsweredFacts ==
  ASSUME TypeOK, NEW a \in Attempts, Respond(a) \/ Rejects(a)
  PROVE  /\ pc[a] # "idle"
         /\ \/ Answer(a, TRUE) /\ pc[a] \in {"recordDuplicate", "recordDone"}
            \/ Answer(a, FALSE)
         /\ inFlight' = IF pc[a] \in Holding THEN inFlight \ {event[a]} ELSE inFlight
         /\ pc[a] # "route"
         /\ \/ UNCHANGED cut /\ pc[a] \notin Marking
            \/ cut' = cut \cup {event[a]}
         /\ used' \in [{"timeout", "duplicate", "fault", "crash"} -> Nat]
         /\ UNCHANGED <<seen, routed, forgotten, abandoned>>
<1>1. CASE Respond(a)
  BY <1>1 DEF Respond, Release, history, Holding, Routing, Marking, TypeOK
<1>2. CASE Rejects(a)
  <2>1. used' \in [{"timeout", "duplicate", "fault", "crash"} -> Nat]
    BY <1>2, UsedType DEF Rejects
  <2> QED
    BY <1>2, <2>1 DEF Rejects, Release, Holding, Routing, Marking
<1> QED
  BY <1>1, <1>2

\* An answer leaves the other attempts alone, and no event is owed less often.
LEMMA AnsweredOthers ==
  ASSUME TypeOK, NEW a \in Attempts, Respond(a) \/ Rejects(a)
  PROVE  /\ pc' \in [Attempts -> Places] /\ event' \in [Attempts -> Events]
         /\ snap' \in [Attempts -> Seq(Events)] /\ owed' \in [Events -> Nat]
         /\ listening' = listening \ {a} /\ pc'[a] = "idle" /\ snap'[a] = <<>>
         /\ \A b \in Attempts : b # a =>
              pc'[b] = pc[b] /\ event'[b] = event[b] /\ snap'[b] = snap[b]
         /\ \A e \in Events : owed'[e] >= owed[e]
<1>1. PICK ok \in BOOLEAN : Answer(a, ok)
  BY AnsweredFacts
<1>2. \A e \in Events : owed'[e] = owed[e] + 1 \/ owed'[e] = owed[e]
  BY <1>1, AnswerFacts
<1>3. \A e \in Events : owed[e] \in Nat
  BY DEF TypeOK
<1>4. \A e \in Events : owed'[e] >= owed[e]
  BY <1>2, <1>3
<1> QED
  BY <1>1, <1>4, AnswerFacts

\* A crash frees every attempt; Plane owes the event of each it was waiting for.
LEMMA CrashFacts ==
  ASSUME TypeOK, Crash
  PROVE  /\ owed' \in [Events -> Nat]
         /\ \A e \in Events : owed'[e] >= owed[e]
         /\ \A a \in listening : owed'[event[a]] > 0
         /\ \A a \in Attempts : pc'[a] = "idle" /\ snap'[a] = <<>>
         /\ \A a \in Attempts : pc[a] \in Marking => event[a] \in cut'
         /\ cut \subseteq cut' /\ cut' \subseteq Events
         /\ used' \in [{"timeout", "duplicate", "fault", "crash"} -> Nat]
<1> DEFINE L(e) == {a \in listening : event[a] = e}
<1>1. \A e : L(e) \subseteq Attempts
  BY DEF TypeOK
<1>2. \A e : IsFiniteSet(L(e)) /\ Cardinality(L(e)) \in Nat
  BY <1>1, Constants, FS_Subset, FS_CardinalityType
<1>3. \A e : L(e) # {} => Cardinality(L(e)) > 0
  BY <1>2, FS_EmptySet
<1>4. \A e \in Events : owed'[e] = owed[e] + Cardinality(L(e))
  BY DEF Crash
<1>5. \A a \in listening : event[a] \in Events /\ L(event[a]) # {}
  BY DEF TypeOK
<1>6. owed' = [e \in Events |-> owed[e] + Cardinality(L(e))]
  BY DEF Crash
<1> HIDE DEF L
<1>7. \A e \in Events : owed[e] \in Nat
  BY DEF TypeOK
<1>8. owed' \in [Events -> Nat] /\ \A e \in Events : owed'[e] >= owed[e]
  BY <1>2, <1>4, <1>6, <1>7
<1>9. \A a \in listening : owed'[event[a]] > 0
  BY <1>2, <1>3, <1>4, <1>5, <1>7
<1>10. cut' = cut \cup {event[a] : a \in {b \in Attempts : pc[b] \in Marking}}
  BY DEF Crash, Marking
<1>11. /\ \A a \in Attempts : pc[a] \in Marking => event[a] \in cut'
       /\ cut \subseteq cut' /\ cut' \subseteq Events
  BY <1>10 DEF TypeOK
<1>12. used' \in [{"timeout", "duplicate", "fault", "crash"} -> Nat]
  BY UsedType DEF Crash
<1> QED
  BY <1>8, <1>9, <1>11, <1>12 DEF Crash

\* Every step keeps the types.
LEMMA TypeStep ==
  ASSUME IInv, [Next]_vars
  PROVE  TypeOK'
<1>0. TypeOK
  BY DEF IInv
<1>1. ASSUME NEW a \in Attempts, Send(a) PROVE TypeOK'
  BY <1>0, <1>1, SendFacts DEF Send, history, TypeOK, Places
<1>2. ASSUME NEW a \in Attempts, TimeOut(a) PROVE TypeOK'
  BY <1>0, <1>2, TimeOutFacts DEF TimeOut, locals, TypeOK
<1>3. ASSUME NEW e \in Events, SendTwice(e) PROVE TypeOK'
  BY <1>0, <1>3, SendTwiceFacts DEF SendTwice, locals, history, TypeOK
<1>4. ASSUME NEW a \in Attempts, Gate(a) PROVE TypeOK'
  <2>1. pc' \in [Attempts -> Places]
    BY <1>0, <1>4, HandleFacts
  <2>2. inFlight' \in SUBSET Events /\ used' \in [{"timeout", "duplicate", "fault", "crash"} -> Nat]
    BY <1>0, <1>4, UsedType DEF Gate, TypeOK
  <2> QED
    BY <1>0, <1>4, <2>1, <2>2 DEF Gate, plane, history, TypeOK, Places
<1>5. ASSUME NEW a \in Attempts, CheckSeen(a) PROVE TypeOK'
  BY <1>0, <1>5, HandleFacts DEF CheckSeen, plane, history, TypeOK, Places
<1>6. ASSUME NEW a \in Attempts, Route(a) PROVE TypeOK'
  <2>1. /\ cut' \in SUBSET Events
        /\ used' \in [{"timeout", "duplicate", "fault", "crash"} -> Nat]
        /\ routed' \in [Events -> Nat]
    <3>1. cut' = cut \/ cut' = cut \cup {event[a]}
      BY <1>0, <1>6, RouteFacts
    <3>2. cut' \in SUBSET Events
      BY <1>0, <1>6, <3>1, HistoryType
    <3>3. used \in [{"timeout", "duplicate", "fault", "crash"} -> Nat]
      BY <1>0 DEF TypeOK
    <3> QED
      BY <1>0, <1>6, <3>2, <3>3, RouteFacts
  <2>2. pc' \in [Attempts -> Places]
    BY <1>0, <1>6, HandleFacts
  <2>3. {forgotten, cut, abandoned}' \subseteq SUBSET Events
    BY <1>0, <1>6, <2>1, HistoryType DEF Route
  <2> QED
    BY <1>0, <1>6, <2>1, <2>2, <2>3 DEF Route, plane, TypeOK, Places
<1>7. ASSUME NEW a \in Attempts, ReadSeen(a) PROVE TypeOK'
  BY <1>0, <1>7, HandleFacts, ReadSeenFacts DEF ReadSeen, plane, history, TypeOK, Places
<1>8. ASSUME NEW a \in Attempts, SaveSeen(a) PROVE TypeOK'
  <2>1. pc' \in [Attempts -> Places] /\ seen' \in Seq(Events) /\ Len(seen') <= SeenCapacity
    BY <1>0, <1>8, HandleFacts, SavedList
  <2>2. forgotten' \subseteq forgotten \cup Elems(seen) \cup {event[a]}
    BY <1>8 DEF SaveSeen
  <2>3. forgotten' \in SUBSET Events
    BY <1>0, <2>2, HistoryType
  <2> QED
    BY <1>0, <1>8, <2>1, <2>3 DEF SaveSeen, plane, TypeOK, Places
<1>9. ASSUME NEW a \in Attempts, Respond(a) \/ Rejects(a) PROVE TypeOK'
  <2>1. /\ pc' \in [Attempts -> Places] /\ event' \in [Attempts -> Events]
        /\ snap' \in [Attempts -> Seq(Events)] /\ owed' \in [Events -> Nat]
        /\ listening' = listening \ {a}
    BY <1>0, <1>9, AnsweredFacts, AnsweredOthers
  <2>2. inFlight' \in SUBSET Events /\ cut' \in SUBSET Events
    <3>1. cut' = cut \/ cut' = cut \cup {event[a]}
      BY <1>0, <1>9, AnsweredFacts
    <3>2. inFlight' \subseteq inFlight
      BY <1>0, <1>9, AnsweredFacts
    <3>3. inFlight \in SUBSET Events
      BY <1>0 DEF TypeOK
    <3> QED
      BY <1>0, <3>1, <3>2, <3>3, HistoryType
  <2>3. /\ used' \in [{"timeout", "duplicate", "fault", "crash"} -> Nat]
        /\ UNCHANGED <<seen, routed, forgotten, abandoned>>
    BY <1>0, <1>9, AnsweredFacts
  <2> QED
    BY <1>0, <2>1, <2>2, <2>3 DEF TypeOK, Places
<1>10. CASE Crash
  <2>1. /\ pc' \in [Attempts -> Places] /\ event' \in [Attempts -> Events]
        /\ snap' \in [Attempts -> Seq(Events)]
    BY <1>10, PlacesFacts DEF Crash
  <2> QED
    BY <1>0, <1>10, <2>1, CrashFacts DEF Crash, TypeOK, Places
<1>11. CASE UNCHANGED vars
  BY <1>0, <1>11 DEF TypeOK, vars, plane, locals, history
<1> QED
  BY <1>1, <1>2, <1>3, <1>4, <1>5, <1>6, <1>7, <1>8, <1>9, <1>10, <1>11 DEF Next, HandleStep

\* Every step keeps the in-flight set exact, and its holders alone with their events.
LEMMA HoldingStep ==
  ASSUME IInv, [Next]_vars
  PROVE  (InFlightExact /\ Exclusive)'
<1>0. TypeOK /\ InFlightExact /\ Exclusive
  BY DEF IInv
<1>1. ASSUME NEW a \in Attempts, Send(a) PROVE (InFlightExact /\ Exclusive)'
  <2>1. PICK e \in Events :
           /\ pc'[a] = "secret" /\ event'[a] = e
           /\ \A b \in Attempts : b # a => pc'[b] = pc[b] /\ event'[b] = event[b]
    BY <1>0, <1>1, SendFacts
  <2>2. pc[a] = "idle" /\ UNCHANGED inFlight
    BY <1>1 DEF Send
  <2>3. \A b \in Attempts : pc[b] \in Holding => b # a
    BY <2>2 DEF Holding, Routing
  <2>4. \A b \in Attempts : pc'[b] \in Holding => b # a
    BY <2>1 DEF Holding, Routing
  <2> QED
    BY <1>0, <2>1, <2>2, <2>3, <2>4 DEF InFlightExact, Exclusive
<1>2. ASSUME NEW a \in Attempts, TimeOut(a) PROVE (InFlightExact /\ Exclusive)'
  BY <1>0, <1>2 DEF TimeOut, locals, InFlightExact, Exclusive
<1>3. ASSUME NEW e \in Events, SendTwice(e) PROVE (InFlightExact /\ Exclusive)'
  BY <1>0, <1>3 DEF SendTwice, locals, InFlightExact, Exclusive
<1>4. ASSUME NEW a \in Attempts, Gate(a) PROVE (InFlightExact /\ Exclusive)'
  <2>1. /\ pc[a] = "secret" /\ UNCHANGED event /\ event[a] \in Events
        /\ \A b \in Attempts : b # a => pc'[b] = pc[b]
    BY <1>0, <1>4, HandleFacts DEF Gate, TypeOK
  <2>2. \/ pc'[a] \in {"recordDuplicate", "recordRefused"} /\ UNCHANGED inFlight
        \/ event[a] \notin inFlight /\ inFlight' = inFlight \cup {event[a]} /\ pc'[a] = "check"
    BY <1>0, <1>4, GotoType, PlacesFacts DEF Gate
  <2>3. pc[a] \notin Holding
    BY <2>1 DEF Holding, Routing
  <2>4. CASE pc'[a] \in {"recordDuplicate", "recordRefused"} /\ UNCHANGED inFlight
    <3>1. pc'[a] \notin Holding
      BY <2>4 DEF Holding, Routing
    <3> QED
      BY <1>0, <2>1, <2>3, <2>4, <3>1 DEF InFlightExact, Exclusive
  <2>5. CASE event[a] \notin inFlight /\ inFlight' = inFlight \cup {event[a]} /\ pc'[a] = "check"
    <3>1. pc'[a] \in Holding
      BY <2>5 DEF Holding, Routing
    <3>2. \A b \in Attempts : pc[b] \in Holding => event[b] # event[a]
      BY <1>0, <2>5 DEF InFlightExact
    <3>3. InFlightExact'
      BY <1>0, <2>1, <2>3, <2>5, <3>1 DEF InFlightExact
    <3>4. Exclusive'
      BY <1>0, <2>1, <3>2 DEF Exclusive
    <3> QED
      BY <3>3, <3>4
  <2> QED
    BY <2>2, <2>4, <2>5
<1>5. ASSUME NEW a \in Attempts, CheckSeen(a) PROVE (InFlightExact /\ Exclusive)'
  <2>1. /\ pc[a] \in Holding /\ UNCHANGED <<event, inFlight>>
        /\ \A b \in Attempts : b # a => pc'[b] = pc[b]
    BY <1>0, <1>5, HandleFacts DEF CheckSeen, Holding, Routing
  <2>2. pc'[a] \in Holding
    BY <1>0, <1>5, GotoType, PlacesFacts DEF CheckSeen, Holding, Routing
  <2> QED
    BY <1>0, <2>1, <2>2 DEF InFlightExact, Exclusive
<1>6. ASSUME NEW a \in Attempts, Route(a) PROVE (InFlightExact /\ Exclusive)'
  <2>1. /\ pc[a] \in Holding /\ UNCHANGED <<event, inFlight>>
        /\ \A b \in Attempts : b # a => pc'[b] = pc[b]
    BY <1>0, <1>6, HandleFacts DEF Route, Holding, Routing
  <2>2. pc'[a] \in Holding
    BY <1>0, <1>6, GotoType, PlacesFacts DEF Route, Holding, Routing
  <2> QED
    BY <1>0, <2>1, <2>2 DEF InFlightExact, Exclusive
<1>7. ASSUME NEW a \in Attempts, ReadSeen(a) PROVE (InFlightExact /\ Exclusive)'
  <2>1. /\ pc[a] \in Holding /\ UNCHANGED <<event, inFlight>>
        /\ \A b \in Attempts : b # a => pc'[b] = pc[b]
    BY <1>0, <1>7, HandleFacts DEF ReadSeen, Holding, Routing
  <2>2. pc'[a] \in Holding
    BY <1>0, <1>7, GotoType, PlacesFacts DEF ReadSeen, Holding, Routing
  <2> QED
    BY <1>0, <2>1, <2>2 DEF InFlightExact, Exclusive
<1>8. ASSUME NEW a \in Attempts, SaveSeen(a) PROVE (InFlightExact /\ Exclusive)'
  <2>1. /\ pc[a] \in Holding /\ UNCHANGED <<event, inFlight>>
        /\ \A b \in Attempts : b # a => pc'[b] = pc[b]
    BY <1>0, <1>8, HandleFacts DEF SaveSeen, Holding, Routing
  <2>2. pc'[a] \in Holding
    BY <1>0, <1>8, GotoType, PlacesFacts DEF SaveSeen, Holding, Routing
  <2> QED
    BY <1>0, <2>1, <2>2 DEF InFlightExact, Exclusive
<1>9. ASSUME NEW a \in Attempts, Respond(a) \/ Rejects(a) PROVE (InFlightExact /\ Exclusive)'
  <2>0. inFlight' = IF pc[a] \in Holding THEN inFlight \ {event[a]} ELSE inFlight
    BY <1>0, <1>9, AnsweredFacts
  <2>1. /\ pc'[a] = "idle"
        /\ \A b \in Attempts : b # a => pc'[b] = pc[b] /\ event'[b] = event[b]
    BY <1>0, <1>9, AnsweredFacts, AnsweredOthers
  <2>2. pc'[a] \notin Holding
    BY <2>1 DEF Holding, Routing
  <2>3. Exclusive'
    BY <1>0, <2>1, <2>2 DEF Exclusive
  <2>4. InFlightExact'
    BY <1>0, <2>0, <2>1, <2>2 DEF InFlightExact, Exclusive
  <2> QED
    BY <2>3, <2>4
<1>10. CASE Crash
  <2>1. inFlight' = {} /\ \A a \in Attempts : pc'[a] \notin Holding
    BY <1>0, <1>10, CrashFacts DEF Crash, Holding, Routing
  <2> QED
    BY <2>1 DEF InFlightExact, Exclusive
<1>11. CASE UNCHANGED vars
  BY <1>0, <1>11 DEF InFlightExact, Exclusive, vars, plane, locals, history
<1> QED
  BY <1>1, <1>2, <1>3, <1>4, <1>5, <1>6, <1>7, <1>8, <1>9, <1>10, <1>11 DEF Next, HandleStep

\* Every step keeps Plane waiting for what it has not abandoned.
LEMMA ListenedStep ==
  ASSUME IInv, [Next]_vars
  PROVE  Listened'
<1>0. TypeOK /\ Listened
  BY DEF IInv
<1>1. ASSUME NEW a \in Attempts, Send(a) PROVE Listened'
  <2>1. /\ pc'[a] = "secret"
        /\ \A b \in Attempts : b # a => pc'[b] = pc[b] /\ event'[b] = event[b]
    BY <1>0, <1>1, SendFacts
  <2> QED
    BY <1>0, <1>1, <2>1 DEF Send, history, TypeOK, Listened
<1>2. ASSUME NEW a \in Attempts, TimeOut(a) PROVE Listened'
  BY <1>0, <1>2 DEF TimeOut, locals, Listened
<1>3. ASSUME NEW e \in Events, SendTwice(e) PROVE Listened'
  BY <1>0, <1>3 DEF SendTwice, locals, history, Listened
<1>4. ASSUME NEW a \in Attempts, Gate(a) PROVE Listened'
  <2>1. /\ pc[a] # "idle" /\ pc'[a] # "idle" /\ UNCHANGED <<event, listening, abandoned>>
        /\ \A b \in Attempts : b # a => pc'[b] = pc[b]
    BY <1>0, <1>4, HandleFacts DEF Gate, plane, history
  <2> QED
    BY <1>0, <2>1 DEF Listened, TypeOK
<1>5. ASSUME NEW a \in Attempts, CheckSeen(a) PROVE Listened'
  <2>1. /\ pc[a] # "idle" /\ pc'[a] # "idle" /\ UNCHANGED <<event, listening, abandoned>>
        /\ \A b \in Attempts : b # a => pc'[b] = pc[b]
    BY <1>0, <1>5, HandleFacts DEF CheckSeen, plane, history
  <2> QED
    BY <1>0, <2>1 DEF Listened, TypeOK
<1>6. ASSUME NEW a \in Attempts, Route(a) PROVE Listened'
  <2>1. /\ pc[a] # "idle" /\ pc'[a] # "idle" /\ UNCHANGED <<event, listening, abandoned>>
        /\ \A b \in Attempts : b # a => pc'[b] = pc[b]
    BY <1>0, <1>6, HandleFacts DEF Route, plane, history
  <2> QED
    BY <1>0, <2>1 DEF Listened, TypeOK
<1>7. ASSUME NEW a \in Attempts, ReadSeen(a) PROVE Listened'
  <2>1. /\ pc[a] # "idle" /\ pc'[a] # "idle" /\ UNCHANGED <<event, listening, abandoned>>
        /\ \A b \in Attempts : b # a => pc'[b] = pc[b]
    BY <1>0, <1>7, HandleFacts DEF ReadSeen, plane, history
  <2> QED
    BY <1>0, <2>1 DEF Listened, TypeOK
<1>8. ASSUME NEW a \in Attempts, SaveSeen(a) PROVE Listened'
  <2>1. /\ pc[a] # "idle" /\ pc'[a] # "idle" /\ UNCHANGED <<event, listening, abandoned>>
        /\ \A b \in Attempts : b # a => pc'[b] = pc[b]
    BY <1>0, <1>8, HandleFacts DEF SaveSeen, plane, history
  <2> QED
    BY <1>0, <2>1 DEF Listened, TypeOK
<1>9. ASSUME NEW a \in Attempts, Respond(a) \/ Rejects(a) PROVE Listened'
  <2>1. /\ pc'[a] = "idle" /\ listening' = listening \ {a}
        /\ \A b \in Attempts : b # a => pc'[b] = pc[b] /\ event'[b] = event[b]
    BY <1>0, <1>9, AnsweredFacts, AnsweredOthers
  <2>2. UNCHANGED abandoned
    BY <1>0, <1>9, AnsweredFacts
  <2> QED
    BY <1>0, <2>1, <2>2 DEF TypeOK, Listened
<1>10. CASE Crash
  BY <1>0, <1>10, CrashFacts DEF Crash, Listened
<1>11. CASE UNCHANGED vars
  BY <1>0, <1>11 DEF Listened, vars, plane, locals, history
<1> QED
  BY <1>1, <1>2, <1>3, <1>4, <1>5, <1>6, <1>7, <1>8, <1>9, <1>10, <1>11 DEF Next, HandleStep

\* Every step marks only what has been routed.
LEMMA RoutedFirstStep ==
  ASSUME IInv, [Next]_vars
  PROVE  RoutedFirst'
<1>0. TypeOK /\ RoutedFirst
  BY DEF IInv
<1>1. ASSUME NEW a \in Attempts, Send(a) PROVE RoutedFirst'
  <2>1. /\ pc'[a] = "secret"
        /\ \A b \in Attempts : b # a => pc'[b] = pc[b] /\ event'[b] = event[b]
    BY <1>0, <1>1, SendFacts
  <2> QED
    BY <1>0, <1>1, <2>1 DEF Send, RoutedFirst, Marking
<1>2. ASSUME NEW a \in Attempts, TimeOut(a) PROVE RoutedFirst'
  BY <1>0, <1>2 DEF TimeOut, locals, RoutedFirst
<1>3. ASSUME NEW e \in Events, SendTwice(e) PROVE RoutedFirst'
  BY <1>0, <1>3 DEF SendTwice, locals, RoutedFirst
<1>4. ASSUME NEW a \in Attempts, Gate(a) PROVE RoutedFirst'
  <2>1. /\ pc'[a] \in {"recordDuplicate", "recordRefused", "check"}
        /\ \A b \in Attempts : b # a => pc'[b] = pc[b]
    BY <1>0, <1>4, HandleFacts, GotoType, PlacesFacts DEF Gate
  <2> QED
    BY <1>0, <1>4, <2>1 DEF Gate, RoutedFirst, Marking
<1>5. ASSUME NEW a \in Attempts, CheckSeen(a) PROVE RoutedFirst'
  <2>1. /\ \/ pc'[a] = "recordDone" /\ (event[a] \in Elems(seen) \/ event[a] \notin Enabled)
           \/ pc'[a] = "route"
        /\ \A b \in Attempts : b # a => pc'[b] = pc[b]
    BY <1>0, <1>5, HandleFacts, GotoType, PlacesFacts DEF CheckSeen
  <2> QED
    BY <1>0, <1>5, <2>1 DEF CheckSeen, RoutedFirst, Marking
<1>6. ASSUME NEW a \in Attempts, Route(a) PROVE RoutedFirst'
  <2>1. /\ \A e \in Events : routed[e] \in Nat /\ routed'[e] \in Nat
        /\ event[a] \in Events
    BY <1>0, <1>6, RouteFacts DEF TypeOK
  <2>2. /\ \A e \in Events : routed[e] > 0 => routed'[e] > 0
        /\ \/ pc'[a] = "markRead" /\ routed'[event[a]] > 0
           \/ pc'[a] = "recordFailed"
        /\ \A b \in Attempts : b # a => pc'[b] = pc[b]
    BY <1>0, <1>6, <2>1, HandleFacts, RouteFacts
  <2>3. /\ \A e \in Elems(seen) : e \in Events
        /\ \A b \in Attempts : event[b] \in Events /\ \A e \in Elems(snap[b]) : e \in Events
    BY <1>0 DEF TypeOK, Elems
  <2> QED
    BY <1>0, <1>6, <2>2, <2>3 DEF Route, RoutedFirst, Marking
<1>7. ASSUME NEW a \in Attempts, ReadSeen(a) PROVE RoutedFirst'
  <2>1. /\ pc[a] = "markRead" /\ pc'[a] \in {"recordDone", "markSave"}
        /\ \A b \in Attempts : b # a => pc'[b] = pc[b] /\ snap'[b] = snap[b]
        /\ snap'[a] = snap[a] \/ snap'[a] = seen
    BY <1>0, <1>7, HandleFacts, ReadSeenFacts
  <2> QED
    BY <1>0, <1>7, <2>1 DEF ReadSeen, RoutedFirst, Marking
<1>8. ASSUME NEW a \in Attempts, SaveSeen(a) PROVE RoutedFirst'
  <2>1. /\ pc[a] = "markSave" /\ pc'[a] = "recordDone"
        /\ \A b \in Attempts : b # a => pc'[b] = pc[b]
        /\ Elems(seen') \subseteq Elems(snap[a]) \cup {event[a]}
    BY <1>0, <1>8, HandleFacts, GotoType, PlacesFacts, SavedList DEF SaveSeen
  <2> QED
    BY <1>0, <1>8, <2>1 DEF SaveSeen, RoutedFirst, Marking
<1>9. ASSUME NEW a \in Attempts, Respond(a) \/ Rejects(a) PROVE RoutedFirst'
  <2>1. /\ pc'[a] = "idle" /\ snap'[a] = <<>> /\ UNCHANGED <<seen, routed>>
        /\ \A b \in Attempts : b # a =>
             pc'[b] = pc[b] /\ event'[b] = event[b] /\ snap'[b] = snap[b]
    BY <1>0, <1>9, AnsweredFacts, AnsweredOthers
  <2>2. Elems(<<>>) = {}
    BY DEF Elems
  <2> QED
    BY <1>0, <2>1, <2>2 DEF RoutedFirst, Marking
<1>10. CASE Crash
  <2>1. Elems(<<>>) = {}
    BY DEF Elems
  <2> QED
    BY <1>0, <1>10, <2>1, CrashFacts DEF Crash, RoutedFirst, Marking
<1>11. CASE UNCHANGED vars
  BY <1>0, <1>11 DEF RoutedFirst, vars, plane, locals, history
<1> QED
  BY <1>1, <1>2, <1>3, <1>4, <1>5, <1>6, <1>7, <1>8, <1>9, <1>10, <1>11 DEF Next, HandleStep

\* Every step routes only what has not been routed, or was forgotten or cut off.
LEMMA OnceStep ==
  ASSUME IInv, [Next]_vars
  PROVE  (OnceAndMarked /\ RoutedOnce)'
<1>0. TypeOK /\ Exclusive /\ OnceAndMarked /\ RoutedOnce
  BY DEF IInv
<1>1. ASSUME NEW a \in Attempts, Send(a) PROVE (OnceAndMarked /\ RoutedOnce)'
  <2>1. /\ pc'[a] = "secret" /\ pc[a] = "idle"
        /\ \A b \in Attempts : b # a => pc'[b] = pc[b] /\ event'[b] = event[b]
    BY <1>0, <1>1, SendFacts DEF Send
  <2> QED
    BY <1>0, <1>1, <2>1 DEF Send, history, OnceAndMarked, RoutedOnce, Marking
<1>2. ASSUME NEW a \in Attempts, TimeOut(a) PROVE (OnceAndMarked /\ RoutedOnce)'
  BY <1>0, <1>2 DEF TimeOut, locals, OnceAndMarked, RoutedOnce
<1>3. ASSUME NEW e \in Events, SendTwice(e) PROVE (OnceAndMarked /\ RoutedOnce)'
  BY <1>0, <1>3 DEF SendTwice, locals, history, OnceAndMarked, RoutedOnce
<1>4. ASSUME NEW a \in Attempts, Gate(a) PROVE (OnceAndMarked /\ RoutedOnce)'
  <2>1. /\ pc'[a] \in {"recordDuplicate", "recordRefused", "check"} /\ pc[a] = "secret"
        /\ \A b \in Attempts : b # a => pc'[b] = pc[b]
    BY <1>0, <1>4, HandleFacts, GotoType, PlacesFacts DEF Gate
  <2> QED
    BY <1>0, <1>4, <2>1 DEF Gate, history, OnceAndMarked, RoutedOnce, Marking
<1>5. ASSUME NEW a \in Attempts, CheckSeen(a) PROVE (OnceAndMarked /\ RoutedOnce)'
  <2>1. /\ pc[a] = "check" /\ UNCHANGED <<event, seen, routed, forgotten, cut>>
        /\ pc'[a] = "recordDone" \/ (pc'[a] = "route" /\ event[a] \notin Elems(seen))
        /\ \A b \in Attempts : b # a => pc'[b] = pc[b]
    BY <1>0, <1>5, HandleFacts, GotoType, PlacesFacts DEF CheckSeen, history
  <2>2. event[a] \in Events /\ routed[event[a]] \in Nat
    BY <1>0 DEF TypeOK
  <2>3. \A b \in Attempts : pc[b] \in Marking => event[b] # event[a]
    BY <1>0, <2>1 DEF Exclusive, Marking, Holding, Routing
  <2>4. event[a] \notin Elems(seen) \cup forgotten \cup cut => routed[event[a]] = 0
    BY <1>0, <2>2, <2>3 DEF OnceAndMarked
  <2> QED
    BY <1>0, <2>1, <2>4 DEF OnceAndMarked, RoutedOnce, Marking
<1>6. ASSUME NEW a \in Attempts, Route(a) PROVE (OnceAndMarked /\ RoutedOnce)'
  <2>1. /\ pc[a] = "route" /\ UNCHANGED <<event, seen, forgotten>> /\ event[a] \in Events
        /\ \A b \in Attempts : b # a => pc'[b] = pc[b]
        /\ \A f \in Events : f # event[a] => routed'[f] = routed[f]
    BY <1>0, <1>6, HandleFacts, RouteFacts DEF Route, TypeOK
  <2>2. \A b \in Attempts : b # a /\ pc[b] = "route" => event[b] # event[a]
    BY <1>0, <2>1 DEF Exclusive, Holding, Routing
  <2>3. \A b \in Attempts : event[b] \in Events
    BY <1>0 DEF TypeOK
  <2>4. CASE pc'[a] = "markRead" /\ routed'[event[a]] = routed[event[a]] + 1 /\ UNCHANGED cut
    <3>1. event[a] \notin forgotten \cup cut => routed'[event[a]] = 1
      BY <1>0, <2>1, <2>4 DEF OnceAndMarked
    <3> QED
      BY <1>0, <2>1, <2>2, <2>3, <2>4, <3>1 DEF OnceAndMarked, RoutedOnce, Marking
  <2>5. CASE pc'[a] = "recordFailed" /\ UNCHANGED <<routed, cut>>
    BY <1>0, <2>1, <2>5 DEF OnceAndMarked, RoutedOnce, Marking
  <2>6. CASE pc'[a] = "recordFailed" /\ cut' = cut \cup {event[a]}
    BY <1>0, <2>1, <2>2, <2>3, <2>6 DEF OnceAndMarked, RoutedOnce, Marking
  <2> QED
    BY <1>0, <1>6, <2>4, <2>5, <2>6, RouteFacts
<1>7. ASSUME NEW a \in Attempts, ReadSeen(a) PROVE (OnceAndMarked /\ RoutedOnce)'
  <2>1. /\ pc[a] = "markRead" /\ UNCHANGED <<event, seen, routed, forgotten, cut>>
        /\ \/ pc'[a] = "recordDone" /\ event[a] \in Elems(seen)
           \/ pc'[a] = "markSave"
        /\ \A b \in Attempts : b # a => pc'[b] = pc[b]
    BY <1>0, <1>7, HandleFacts, ReadSeenFacts DEF ReadSeen, history
  <2> QED
    BY <1>0, <2>1 DEF OnceAndMarked, RoutedOnce, Marking
<1>8. ASSUME NEW a \in Attempts, SaveSeen(a) PROVE (OnceAndMarked /\ RoutedOnce)'
  <2>1. /\ pc[a] = "markSave" /\ pc'[a] = "recordDone" /\ UNCHANGED <<event, routed, cut>>
        /\ forgotten' = forgotten \cup ((Elems(seen) \cup {event[a]}) \ Elems(seen'))
        /\ \A b \in Attempts : b # a => pc'[b] = pc[b]
    BY <1>0, <1>8, HandleFacts, GotoType, PlacesFacts DEF SaveSeen
  <2> QED
    BY <1>0, <2>1 DEF OnceAndMarked, RoutedOnce, Marking
<1>9. ASSUME NEW a \in Attempts, Respond(a) \/ Rejects(a) PROVE (OnceAndMarked /\ RoutedOnce)'
  <2>1. /\ pc'[a] = "idle"
        /\ \A b \in Attempts : b # a => pc'[b] = pc[b] /\ event'[b] = event[b]
    BY <1>0, <1>9, AnsweredOthers
  <2>2. /\ UNCHANGED <<seen, routed, forgotten>>
        /\ \/ UNCHANGED cut /\ pc[a] \notin Marking
           \/ cut' = cut \cup {event[a]}
    BY <1>0, <1>9, AnsweredFacts
  <2> QED
    BY <1>0, <2>1, <2>2 DEF OnceAndMarked, RoutedOnce, Marking
<1>10. CASE Crash
  <2>1. /\ UNCHANGED <<seen, routed, forgotten>> /\ cut \subseteq cut'
        /\ \A a \in Attempts : pc'[a] = "idle"
        /\ \A a \in Attempts : pc[a] \in Marking => event[a] \in cut'
    BY <1>0, <1>10, CrashFacts DEF Crash
  <2> QED
    BY <1>0, <2>1 DEF OnceAndMarked, RoutedOnce
<1>11. CASE UNCHANGED vars
  BY <1>0, <1>11 DEF OnceAndMarked, RoutedOnce, vars, plane, locals, history
<1> QED
  BY <1>1, <1>2, <1>3, <1>4, <1>5, <1>6, <1>7, <1>8, <1>9, <1>10, <1>11 DEF Next, HandleStep

\* Every step leaves someone to send, or to work on, what is not yet routed.
LEMMA PursuedStep ==
  ASSUME IInv, [Next]_vars
  PROVE  Pursued'
<1>0. TypeOK /\ InFlightExact /\ Listened /\ RoutedFirst /\ Pursued
  BY DEF IInv
<1>1. ASSUME NEW a \in Attempts, Send(a) PROVE Pursued'
  <2>1. PICK e \in Events :
           /\ pc'[a] = "secret" /\ event'[a] = e
           /\ \A f \in Events : f # e => owed'[f] = owed[f]
           /\ \A b \in Attempts : b # a => pc'[b] = pc[b] /\ event'[b] = event[b]
    BY <1>0, <1>1, SendFacts
  <2>2. /\ pc[a] = "idle" /\ listening' = listening \cup {a} /\ UNCHANGED <<routed, abandoned>>
    BY <1>1 DEF Send, history
  <2>3. Trying(a, e)'
    BY <2>1, <2>2 DEF Trying
  <2>4. \A b \in Attempts, f \in Events : Trying(b, f) => Trying(b, f)'
    BY <2>1, <2>2 DEF Trying
  <2> QED
    BY <1>0, <2>1, <2>2, <2>3, <2>4, Constants DEF Pursued
<1>2. ASSUME NEW a \in Attempts, TimeOut(a) PROVE Pursued'
  <2>1. /\ listening' = listening \ {a} /\ UNCHANGED <<pc, event, routed>>
        /\ abandoned' = abandoned \cup {event[a]}
        /\ \A f \in Events : owed'[f] \in Nat /\ owed[f] \in Nat /\ owed'[f] >= owed[f]
    BY <1>0, <1>2, TimeOutFacts DEF TimeOut, locals, TypeOK
  <2>2. \A b \in Attempts, f \in Events \ abandoned' : Trying(b, f) => Trying(b, f)'
    BY <2>1 DEF Trying
  <2> QED
    BY <1>0, <2>1, <2>2, Constants DEF Pursued
<1>3. ASSUME NEW e \in Events, SendTwice(e) PROVE Pursued'
  <2>1. /\ UNCHANGED <<listening, pc, event, routed, abandoned>>
        /\ \A f \in Events : owed'[f] \in Nat /\ owed[f] \in Nat /\ owed'[f] >= owed[f]
    BY <1>0, <1>3, SendTwiceFacts DEF SendTwice, locals, history, TypeOK
  <2> QED
    BY <1>0, <2>1, Constants DEF Pursued, Trying
<1>4. ASSUME NEW a \in Attempts, Gate(a) PROVE Pursued'
  <2>1. /\ UNCHANGED <<owed, listening, event, routed, abandoned>>
        /\ pc[a] = "secret"
        /\ \A b \in Attempts : b # a => pc'[b] = pc[b]
        /\ \/ pc'[a] \in {"check", "recordRefused"}
           \/ pc'[a] = "recordDuplicate" /\ event[a] \in inFlight
    BY <1>0, <1>4, HandleFacts, GotoType, PlacesFacts DEF Gate, plane, history
  <2>2. \A b \in Attempts, f \in Events : b # a /\ Trying(b, f) => Trying(b, f)'
    BY <2>1 DEF Trying
  <2>3. CASE pc'[a] \in {"check", "recordRefused"}
    <3>1. \A f \in Events : Trying(a, f) => Trying(a, f)'
      BY <2>1, <2>3 DEF Trying
    <3> QED
      BY <1>0, <2>1, <2>2, <3>1, Constants DEF Pursued
  <2>4. CASE pc'[a] = "recordDuplicate" /\ event[a] \in inFlight
    <3>1. PICK b \in Attempts : pc[b] \in Holding /\ event[b] = event[a]
      BY <1>0, <2>4 DEF InFlightExact
    <3>2. b # a /\ pc[b] # "idle"
      BY <2>1, <3>1 DEF Holding, Routing
    <3>3. event[a] \notin abandoned => b \in listening
      BY <1>0, <3>1, <3>2 DEF Listened
    <3>4. CASE pc[b] \in {"check", "route", "recordFailed"}
      <4>1. event[a] \notin abandoned => Trying(b, event[a])'
        BY <2>1, <3>1, <3>2, <3>3, <3>4 DEF Trying
      <4> QED
        BY <1>0, <2>1, <2>2, <4>1, Constants DEF Pursued, Trying
    <3>5. CASE pc[b] \in Marking \cup {"recordDone"}
      <4>1. event[a] \in Enabled => routed[event[a]] > 0
        BY <1>0, <3>1, <3>5 DEF RoutedFirst
      <4> QED
        BY <1>0, <2>1, <2>2, <4>1, Constants DEF Pursued, Trying
    <3> QED
      BY <3>1, <3>4, <3>5 DEF Holding, Routing, Marking
  <2> QED
    BY <2>1, <2>3, <2>4
<1>5. ASSUME NEW a \in Attempts, CheckSeen(a) PROVE Pursued'
  <2>1. /\ UNCHANGED <<owed, listening, event, routed, abandoned>>
        /\ \A b \in Attempts : b # a => pc'[b] = pc[b]
        /\ \/ pc'[a] = "route"
           \/ pc'[a] = "recordDone" /\ (event[a] \in Elems(seen) \/ event[a] \notin Enabled)
    BY <1>0, <1>5, HandleFacts, GotoType, PlacesFacts DEF CheckSeen, plane, history
  <2>2. \A b \in Attempts, f \in Events : b # a /\ Trying(b, f) => Trying(b, f)'
    BY <2>1 DEF Trying
  <2>3. \A f \in Enabled : Trying(a, f) => Trying(a, f)' \/ routed[f] > 0
    BY <1>0, <2>1 DEF Trying, RoutedFirst
  <2> QED
    BY <1>0, <2>1, <2>2, <2>3, Constants DEF Pursued
<1>6. ASSUME NEW a \in Attempts, Route(a) PROVE Pursued'
  <2>1. /\ UNCHANGED <<owed, listening, event, abandoned>> /\ event[a] \in Events
        /\ \A b \in Attempts : b # a => pc'[b] = pc[b]
        /\ \A f \in Events : routed[f] \in Nat
    BY <1>0, <1>6, HandleFacts DEF Route, plane, TypeOK
  <2>2. /\ \A f \in Events : routed[f] > 0 => routed'[f] > 0
        /\ \/ pc'[a] = "markRead" /\ routed'[event[a]] > 0
           \/ pc'[a] = "recordFailed"
    BY <1>0, <1>6, <2>1, RouteFacts
  <2>3. \A b \in Attempts, f \in Events : Trying(b, f) => Trying(b, f)' \/ routed'[f] > 0
    BY <2>1, <2>2 DEF Trying
  <2> QED
    BY <1>0, <2>1, <2>2, <2>3, Constants DEF Pursued
<1>7. ASSUME NEW a \in Attempts, ReadSeen(a) PROVE Pursued'
  <2>1. /\ UNCHANGED <<owed, listening, event, routed, abandoned>> /\ pc[a] \in Marking
        /\ \A b \in Attempts : b # a => pc'[b] = pc[b]
    BY <1>0, <1>7, HandleFacts DEF ReadSeen, plane, history, Marking
  <2>2. \A b \in Attempts, f \in Events : Trying(b, f) => Trying(b, f)'
    BY <2>1 DEF Trying, Marking
  <2> QED
    BY <1>0, <2>1, <2>2, Constants DEF Pursued
<1>8. ASSUME NEW a \in Attempts, SaveSeen(a) PROVE Pursued'
  <2>1. /\ UNCHANGED <<owed, listening, event, routed, abandoned>> /\ pc[a] \in Marking
        /\ \A b \in Attempts : b # a => pc'[b] = pc[b]
    BY <1>0, <1>8, HandleFacts DEF SaveSeen, plane, history, Marking
  <2>2. \A b \in Attempts, f \in Events : Trying(b, f) => Trying(b, f)'
    BY <2>1 DEF Trying, Marking
  <2> QED
    BY <1>0, <2>1, <2>2, Constants DEF Pursued
<1>9. ASSUME NEW a \in Attempts, Respond(a) \/ Rejects(a) PROVE Pursued'
  <2>1. /\ listening' = listening \ {a} /\ pc'[a] = "idle"
        /\ \A b \in Attempts : b # a => pc'[b] = pc[b] /\ event'[b] = event[b]
        /\ \A f \in Events : owed'[f] >= owed[f] /\ owed'[f] \in Nat
    BY <1>0, <1>9, AnsweredOthers
  <2>2. UNCHANGED <<routed, abandoned>>
    BY <1>0, <1>9, AnsweredFacts
  <2>3. \A f \in Events : owed[f] \in Nat
    BY <1>0 DEF TypeOK
  <2>4. \A b \in Attempts, f \in Events : b # a /\ Trying(b, f) => Trying(b, f)'
    BY <2>1 DEF Trying
  <2>5. \A f \in Events : Trying(a, f) => owed'[f] > 0
    <3>1. SUFFICES ASSUME NEW f \in Events, Trying(a, f) PROVE owed'[f] > 0
      OBVIOUS
    <3>2. Answer(a, FALSE) /\ a \in listening /\ event[a] = f
      BY <1>0, <1>9, <3>1, AnsweredFacts DEF Trying
    <3>3. owed'[f] = owed[f] + 1
      BY <1>0, <3>2, AnswerFacts
    <3> QED
      BY <2>3, <3>3
  <2> QED
    BY <1>0, <2>1, <2>2, <2>3, <2>4, <2>5, Constants DEF Pursued
<1>10. CASE Crash
  <2>1. /\ \A f \in Events : owed'[f] \in Nat /\ owed[f] \in Nat /\ owed'[f] >= owed[f]
        /\ \A a \in listening : owed'[event[a]] > 0
        /\ UNCHANGED <<routed, abandoned>>
    BY <1>0, <1>10, CrashFacts DEF Crash, TypeOK
  <2>2. \A a \in Attempts, f \in Events : Trying(a, f) => owed'[f] > 0
    BY <2>1 DEF Trying
  <2> QED
    BY <1>0, <2>1, <2>2, Constants DEF Pursued
<1>11. CASE UNCHANGED vars
  BY <1>0, <1>11 DEF Pursued, Trying, vars, plane, locals, history
<1> QED
  BY <1>1, <1>2, <1>3, <1>4, <1>5, <1>6, <1>7, <1>8, <1>9, <1>10, <1>11 DEF Next, HandleStep

-----------------------------------------------------------------------------
(* The theorems.                                                            *)

\* The strengthened invariant holds in every reachable state.
THEOREM Inductive == Spec => []IInv
<1>1. IInv /\ [Next]_vars => IInv'
  BY TypeStep, HoldingStep, ListenedStep, RoutedFirstStep, OnceStep, PursuedStep DEF IInv
<1> QED
  BY <1>1, InitIInv, PTL DEF Spec

\* Every variable keeps its type; in particular the seen-store never grows past its
\* capacity.
THEOREM TypeCorrect == Spec => []TypeOK
<1>1. IInv => TypeOK
  BY DEF IInv
<1> QED
  BY <1>1, Inductive, PTL

\* No two attempts work on one event at the same time, however many requests, retries
\* and crashes there are (the in-flight set).
THEOREM OneAtATime == Spec => []Exclusive
<1>1. IInv => Exclusive
  BY DEF IInv
<1> QED
  BY <1>1, Inductive, PTL

\* An event marked seen has been routed, so acknowledging it again loses nothing.
THEOREM SeenMeansRouted == Spec => []SeenWasRouted
<1>1. IInv => SeenWasRouted
  BY DEF IInv, RoutedFirst, SeenWasRouted
<1> QED
  BY <1>1, Inductive, PTL

\* An event is routed at most once unless an attempt failed after routing it or its
\* mark was lost.
THEOREM AtMostOnce == Spec => []RoutedOnce
<1>1. IInv => RoutedOnce
  BY DEF IInv
<1> QED
  BY <1>1, Inductive, PTL

\* No enabled event is lost as long as Plane waits for its answers, whatever rejects or
\* crashes: once Plane has nothing left to send and no attempt is at work on it, it has
\* been routed.
THEOREM NoneLost == Spec => []FailuresAnswered
<1>1. IInv => FailuresAnswered
  <2>1. SUFFICES ASSUME IInv, NEW e \in Enabled, e \notin abandoned, AtRest(e)
                 PROVE  routed[e] > 0
    BY DEF FailuresAnswered
  <2>2. ~(owed[e] > 0)
    BY <2>1 DEF AtRest
  <2>3. \A a \in Attempts : ~Trying(a, e)
    BY <2>1 DEF AtRest, Trying
  <2> QED
    BY <2>1, <2>2, <2>3 DEF IInv, Pursued
<1> QED
  BY <1>1, Inductive, PTL
=============================================================================
