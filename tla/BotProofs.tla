------------------------------ MODULE BotProofs ------------------------------
(***************************************************************************)
(* Proofs about ApprovalCards and BotTurns, for any number of approvals,   *)
(* clicks, events, turns, conversations, bots, faults and crashes.         *)
(***************************************************************************)
EXTENDS ApprovalCards, BotTurns, TLAPS

-----------------------------------------------------------------------------
(* Approvals.                                                               *)

-----------------------------------------------------------------------------
(* The inductive invariant.                                                 *)

\* What is in Teams while the card is being posted, and when it is remembered.
Posting == \A a \in Approvals :
  /\ posting[a] \in {"idle", "send"} => shown[a] = "absent"
  /\ posting[a] = "remember" => shown[a] = "pending"
  /\ a \in ref => posting[a] = "done" /\ shown[a] # "absent"

\* A click that succeeded knows the decision, unless the answer was unreadable, and
\* forgets the card only after it has shown it.
ClickKnows == \A c \in Clicks :
  /\ click[c].at \in {"lookUp", "show", "forget"} /\ click[c].ok =>
       /\ decision[click[c].on] \in Verbs
       /\ click[c].verb = decision[click[c].on] \/ click[c].on \in misread
  /\ click[c].at \in {"show", "forget"} =>
       posting[click[c].on] = "done" /\ shown[click[c].on] # "absent"
  /\ click[c].at = "forget" => shown[click[c].on] \in Verbs \/ click[c].on \in missed

\* An event's handler shows the decision, and forgets the card only afterwards.
RefreshKnows == \A r \in Refreshes :
  /\ refresh[r].at \in {"show", "forget"} =>
       /\ decision[refresh[r].on] \in Verbs
       /\ refresh[r].verb = decision[refresh[r].on]
  /\ refresh[r].at \in {"status", "show", "forget"} =>
       posting[refresh[r].on] = "done" /\ shown[refresh[r].on] # "absent"
  /\ refresh[r].at = "forget" => shown[refresh[r].on] \in Verbs \/ refresh[r].on \in missed

\* A posted card that shows no verdict is still remembered.
Remembered == \A a \in Approvals \ missed :
  posting[a] = "done" /\ shown[a] \in Actionable => a \in ref

Working(r, a) == refresh[r].on = a /\ refresh[r].at \in {"lookUp", "status", "show"}

\* The card of a decided approval that does not show it will be refreshed.
Pending(a) == decided[a] > 0 \/ \E r \in Refreshes : Working(r, a)
Pursued == \A a \in Approvals \ missed :
  decision[a] \in Verbs /\ (posting[a] # "done" \/ shown[a] \in Actionable) => Pending(a)

ApprovalInv == /\ ApprovalTypeOK /\ Posting /\ ClickKnows /\ RefreshKnows
               /\ Remembered /\ Pursued /\ VerdictTrue

-----------------------------------------------------------------------------
(* Names of the states, and the records of clicks and events.               *)

LEMMA VerdictTypes ==
  /\ Undecided \notin Verbs /\ "absent" \notin Verbs /\ Verbs \cap Actionable = {}
  /\ "absent" \notin Actionable /\ "pending" \in Actionable /\ "error" \in Actionable
  /\ "approve" \in Verbs
BY DEF Verbs, Actionable, Undecided

LEMMA RecordFields ==
  /\ \A k \in Click : /\ k.on \in Approvals /\ k.verb \in Verbs
                      /\ k.command \in BOOLEAN /\ k.ok \in BOOLEAN
  /\ \A k \in Refresh : k.on \in Approvals /\ k.verb \in Verbs
BY DEF Click, Refresh

\* After a recorded answer the approval is decided.
LEMMA RecordFacts ==
  ASSUME ApprovalTypeOK, NEW a \in Approvals, NEW v \in Verbs, Record(a, v)
  PROVE  /\ decision' \in [Approvals -> Verbs \cup {Undecided}] /\ decided' \in [Approvals -> Nat]
         /\ decision'[a] \in Verbs
         /\ \A b \in Approvals : decision[b] \in Verbs => decision'[b] = decision[b]
BY VerdictTypes DEF Record, ApprovalTypeOK

\* What a click knows of the answer: a success has a verb, which is the decision's
\* unless the record in the answer could not be read.
LEMMA DecideFacts ==
  ASSUME ApprovalInv, NEW c \in Clicks, Decide(c)
  PROVE  /\ decision' \in [Approvals -> Verbs \cup {Undecided}] /\ decided' \in [Approvals -> Nat]
         /\ \A b \in Approvals : decision[b] \in Verbs => decision'[b] = decision[b]
         /\ misread \subseteq misread' /\ misread' \subseteq Approvals /\ approvalFaults' \in Nat
         /\ \E ok \in BOOLEAN, verb \in Verbs :
              /\ Answered(c, ok, verb)
              /\ ok => /\ decision'[click[c].on] \in Verbs
                       /\ verb = decision'[click[c].on] \/ click[c].on \in misread'
<1> DEFINE a == click[c].on
<1>1. ApprovalTypeOK /\ a \in Approvals /\ click[c].verb \in Verbs
  BY RecordFields DEF ApprovalInv, ApprovalTypeOK
<1> HIDE DEF a
<1> DEFINE Outcome(ok, verb) ==
      /\ Answered(c, ok, verb)
      /\ ok => /\ decision'[a] \in Verbs
               /\ verb = decision'[a] \/ a \in misread'
<1>2. Record(a, click[c].verb) =>
        /\ decision' \in [Approvals -> Verbs \cup {Undecided}] /\ decided' \in [Approvals -> Nat]
        /\ decision'[a] \in Verbs
        /\ \A b \in Approvals : decision[b] \in Verbs => decision'[b] = decision[b]
  BY <1>1, RecordFacts
<1>3. Fault => approvalFaults' \in Nat
  BY <1>1 DEF Fault, ApprovalTypeOK
<1>4. misread \subseteq Approvals /\ approvalFaults \in Nat
  BY <1>1 DEF ApprovalTypeOK
<1>5. CASE /\ Record(a, click[c].verb) /\ Answered(c, TRUE, decision'[a])
           /\ UNCHANGED <<misread, approvalFaults>>
  <2>1. Outcome(TRUE, decision'[a])
    BY <1>2, <1>5
  <2> QED BY <2>1, <1>2, <1>4, <1>5 DEF a
<1>6. CASE /\ Record(a, click[c].verb) /\ Fault /\ Answered(c, TRUE, click[c].verb)
           /\ misread' = IF decision'[a] = click[c].verb THEN misread ELSE misread \cup {a}
  <2>1. misread \subseteq misread' /\ misread' \subseteq Approvals
        /\ (click[c].verb = decision'[a] \/ a \in misread')
    BY <1>1, <1>4, <1>6
  <2>2. Outcome(TRUE, click[c].verb)
    BY <2>1, <1>2, <1>6
  <2> QED BY <2>1, <2>2, <1>1, <1>2, <1>3, <1>6 DEF a
<1>7. CASE Record(a, click[c].verb) /\ Fault /\ Answered(c, FALSE, click[c].verb) /\ UNCHANGED misread
  <2>1. Outcome(FALSE, click[c].verb)
    BY <1>7
  <2> QED BY <2>1, <1>1, <1>2, <1>3, <1>4, <1>7 DEF a
<1>8. CASE /\ UNCHANGED <<decision, decided, misread>> /\ Answered(c, FALSE, click[c].verb)
           /\ Fault \/ (decision[a] \in Verbs /\ UNCHANGED approvalFaults)
  <2>1. Outcome(FALSE, click[c].verb)
    BY <1>8
  <2>2. decision' \in [Approvals -> Verbs \cup {Undecided}] /\ decided' \in [Approvals -> Nat]
        /\ approvalFaults' \in Nat
    BY <1>1, <1>3, <1>4, <1>8 DEF ApprovalTypeOK
  <2> QED BY <2>1, <2>2, <1>1, <1>4, <1>8 DEF a
<1> QED BY <1>5, <1>6, <1>7, <1>8 DEF Decide, OnRecord, a

LEMMA SkipCardKeeps ==
  ASSUME ApprovalInv, NEW a \in Approvals, SkipCard(a)
  PROVE  ApprovalInv'
<1>1. ApprovalTypeOK'
  BY DEF ApprovalInv, ApprovalTypeOK, SkipCard
<1>2. Posting'
  BY DEF ApprovalInv, Posting, SkipCard
<1>3. ClickKnows'
  BY DEF ApprovalInv, ClickKnows, SkipCard
<1>4. RefreshKnows'
  BY DEF ApprovalInv, RefreshKnows, SkipCard
<1>5. Remembered'
  BY VerdictTypes, RecordFields DEF ApprovalInv, Posting, Remembered, SkipCard
<1>6. Pursued'
  BY DEF ApprovalInv, Pursued, SkipCard, Pending, Working
<1>7. VerdictTrue'
  BY DEF ApprovalInv, VerdictTrue, SkipCard
<1> QED BY <1>1, <1>2, <1>3, <1>4, <1>5, <1>6, <1>7 DEF ApprovalInv

LEMMA FindConversationKeeps ==
  ASSUME ApprovalInv, NEW a \in Approvals, FindConversation(a)
  PROVE  ApprovalInv'
<1>1. ApprovalTypeOK'
  BY DEF ApprovalInv, ApprovalTypeOK, FindConversation
<1>2. Posting'
  BY DEF ApprovalInv, Posting, FindConversation
<1>3. ClickKnows'
  BY DEF ApprovalInv, ClickKnows, FindConversation
<1>4. RefreshKnows'
  BY DEF ApprovalInv, RefreshKnows, FindConversation
<1>5. Remembered'
  BY DEF ApprovalInv, Remembered, FindConversation
<1>6. Pursued'
  BY DEF ApprovalInv, Pursued, FindConversation, Pending, Working
<1>7. VerdictTrue'
  BY DEF ApprovalInv, VerdictTrue, FindConversation
<1> QED BY <1>1, <1>2, <1>3, <1>4, <1>5, <1>6, <1>7 DEF ApprovalInv

LEMMA SendCardKeeps ==
  ASSUME ApprovalInv, NEW a \in Approvals, SendCard(a)
  PROVE  ApprovalInv'
<1>1. ApprovalTypeOK'
  BY VerdictTypes, RecordFields DEF ApprovalInv, ApprovalTypeOK, SendCard
<1>2. Posting'
  BY DEF ApprovalInv, ApprovalTypeOK, Posting, SendCard
<1>3. ClickKnows'
  BY DEF ApprovalInv, ClickKnows, SendCard
<1>4. RefreshKnows'
  BY DEF ApprovalInv, RefreshKnows, SendCard
<1>5. Remembered'
  BY DEF ApprovalInv, Remembered, SendCard
<1>6. Pursued'
  BY DEF ApprovalInv, Pursued, SendCard, Pending, Working
<1>7. VerdictTrue'
  BY VerdictTypes, RecordFields DEF ApprovalInv, VerdictTrue, SendCard
<1> QED BY <1>1, <1>2, <1>3, <1>4, <1>5, <1>6, <1>7 DEF ApprovalInv

LEMMA LoseSendKeeps ==
  ASSUME ApprovalInv, NEW a \in Approvals, LoseSend(a)
  PROVE  ApprovalInv'
<1>1. ApprovalTypeOK'
  BY VerdictTypes, RecordFields DEF ApprovalInv, ApprovalTypeOK, LoseSend, Fault
<1>2. Posting'
  BY DEF ApprovalInv, ApprovalTypeOK, Posting, LoseSend
<1>3. ClickKnows'
  BY DEF ApprovalInv, ClickKnows, LoseSend
<1>4. RefreshKnows'
  BY DEF ApprovalInv, RefreshKnows, LoseSend
<1>5. Remembered'
  BY DEF ApprovalInv, Remembered, LoseSend
<1>6. Pursued'
  BY DEF ApprovalInv, Pursued, LoseSend, Pending, Working
<1>7. VerdictTrue'
  BY VerdictTypes, RecordFields DEF ApprovalInv, VerdictTrue, LoseSend
<1> QED BY <1>1, <1>2, <1>3, <1>4, <1>5, <1>6, <1>7 DEF ApprovalInv

LEMMA RememberCardKeeps ==
  ASSUME ApprovalInv, NEW a \in Approvals, RememberCard(a)
  PROVE  ApprovalInv'
<1>1. ApprovalTypeOK'
  BY DEF ApprovalInv, ApprovalTypeOK, RememberCard, Fault
<1>2. Posting'
  BY DEF ApprovalInv, ApprovalTypeOK, Posting, RememberCard
<1>3. ClickKnows'
  BY DEF ApprovalInv, ClickKnows, RememberCard
<1>4. RefreshKnows'
  BY DEF ApprovalInv, RefreshKnows, RememberCard
<1>5. Remembered'
  BY DEF ApprovalInv, Remembered, RememberCard
<1>6. Pursued'
  BY DEF ApprovalInv, Pursued, RememberCard, Pending, Working
<1>7. VerdictTrue'
  BY DEF ApprovalInv, VerdictTrue, RememberCard
<1> QED BY <1>1, <1>2, <1>3, <1>4, <1>5, <1>6, <1>7 DEF ApprovalInv

LEMMA AskForRevisionKeeps ==
  ASSUME ApprovalInv, NEW a \in Approvals, AskForRevision(a)
  PROVE  ApprovalInv'
<1>1. ApprovalTypeOK'
  BY DEF ApprovalInv, ApprovalTypeOK, AskForRevision
<1>2. Posting'
  BY DEF ApprovalInv, Posting, AskForRevision
<1>3. ClickKnows'
  BY DEF ApprovalInv, ClickKnows, AskForRevision
<1>4. RefreshKnows'
  BY DEF ApprovalInv, RefreshKnows, AskForRevision
<1>5. Remembered'
  BY DEF ApprovalInv, Remembered, AskForRevision
<1>6. Pursued'
  BY VerdictTypes, RecordFields DEF ApprovalInv, Pursued, AskForRevision, Pending, Working
<1>7. VerdictTrue'
  BY DEF ApprovalInv, VerdictTrue, AskForRevision
<1> QED BY <1>1, <1>2, <1>3, <1>4, <1>5, <1>6, <1>7 DEF ApprovalInv

LEMMA DecideElsewhereKeeps ==
  ASSUME ApprovalInv, NEW a \in Approvals, NEW v \in Verbs, DecideElsewhere(a, v)
  PROVE  ApprovalInv'
<1>1. ApprovalTypeOK'
  BY DEF ApprovalInv, ApprovalTypeOK, DecideElsewhere, Record
<1>2. Posting'
  BY DEF ApprovalInv, Posting, DecideElsewhere
<1>3. ClickKnows'
  BY VerdictTypes, RecordFields DEF ApprovalInv, ApprovalTypeOK, ClickKnows, DecideElsewhere,
      Record
<1>4. RefreshKnows'
  BY VerdictTypes, RecordFields DEF ApprovalInv, ApprovalTypeOK, RefreshKnows, DecideElsewhere,
      Record
<1>5. Remembered'
  BY DEF ApprovalInv, Remembered, DecideElsewhere
<1>6. Pursued'
  BY DEF ApprovalInv, ApprovalTypeOK, Pursued, DecideElsewhere, Record, Pending, Working
<1>7. VerdictTrue'
  BY VerdictTypes, RecordFields DEF ApprovalInv, ApprovalTypeOK, VerdictTrue, DecideElsewhere,
      Record
<1> QED BY <1>1, <1>2, <1>3, <1>4, <1>5, <1>6, <1>7 DEF ApprovalInv

LEMMA StartClickKeeps ==
  ASSUME ApprovalInv, NEW c \in Clicks, StartClick(c)
  PROVE  ApprovalInv'
<1>1. ApprovalTypeOK'
  <2>0. PICK a \in Approvals, v \in Verbs, command \in BOOLEAN :
          click' = [click EXCEPT ![c].at = "decide", ![c].on = a, ![c].verb = v,
                                 ![c].command = command]
    BY DEF StartClick
  <2> DEFINE k == [click[c] EXCEPT !.at = "decide", !.on = a, !.verb = v, !.command = command]
  <2>1. click \in [Clicks -> Click]
    BY DEF ApprovalInv, ApprovalTypeOK
  <2>2. k \in Click
    BY <2>1, <2>0, VerdictTypes, RecordFields DEF Click
  <2>3. click' = [click EXCEPT ![c] = k]
    BY <2>1, <2>0 DEF StartClick
  <2> HIDE DEF k
  <2>4. click' \in [Clicks -> Click]
    BY <2>1, <2>2, <2>3
  <2> QED BY <2>4, RecordFields DEF ApprovalInv, ApprovalTypeOK, StartClick
<1>2. Posting'
  BY DEF ApprovalInv, Posting, StartClick
<1>3. ClickKnows'
  BY DEF ApprovalInv, ApprovalTypeOK, ClickKnows, StartClick
<1>4. RefreshKnows'
  BY DEF ApprovalInv, RefreshKnows, StartClick
<1>5. Remembered'
  BY DEF ApprovalInv, Remembered, StartClick
<1>6. Pursued'
  BY DEF ApprovalInv, Pursued, StartClick, Pending, Working
<1>7. VerdictTrue'
  BY DEF ApprovalInv, VerdictTrue, StartClick
<1> QED BY <1>1, <1>2, <1>3, <1>4, <1>5, <1>6, <1>7 DEF ApprovalInv

LEMMA DecideKeeps ==
  ASSUME ApprovalInv, NEW c \in Clicks, Decide(c)
  PROVE  ApprovalInv'
<1>1. ApprovalTypeOK'
  <2>1. PICK ok \in BOOLEAN, verb \in Verbs :
          /\ Answered(c, ok, verb)
          /\ ok => /\ decision'[click[c].on] \in Verbs
                   /\ verb = decision'[click[c].on] \/ click[c].on \in misread'
    BY DecideFacts
  <2> DEFINE k == [click[c] EXCEPT !.ok = ok, !.verb = verb,
                                   !.at = IF click[c].command THEN "done" ELSE "lookUp"]
  <2>2. click \in [Clicks -> Click]
    BY DEF ApprovalInv, ApprovalTypeOK
  <2>3. k \in Click /\ k.at \in {"done", "lookUp"} /\ k.on = click[c].on /\ k.ok = ok /\ k.verb = verb
    BY <2>2, VerdictTypes DEF Click
  <2>4. click' = [click EXCEPT ![c] = k]
    BY <2>1, <2>2 DEF Answered
  <2> HIDE DEF k
  <2>5. click' \in [Clicks -> Click]
    BY <2>2, <2>3, <2>4
  <2> QED BY <2>5, DecideFacts DEF ApprovalInv, ApprovalTypeOK, Decide
<1>2. Posting'
  BY DEF ApprovalInv, Posting, Decide, Answered, OnRecord
<1>3. ClickKnows'
  <2>1. PICK ok \in BOOLEAN, verb \in Verbs :
          /\ Answered(c, ok, verb)
          /\ ok => /\ decision'[click[c].on] \in Verbs
                   /\ verb = decision'[click[c].on] \/ click[c].on \in misread'
    BY DecideFacts
  <2> DEFINE k == [click[c] EXCEPT !.ok = ok, !.verb = verb,
                                   !.at = IF click[c].command THEN "done" ELSE "lookUp"]
  <2>2. click \in [Clicks -> Click]
    BY DEF ApprovalInv, ApprovalTypeOK
  <2>3. k \in Click /\ k.at \in {"done", "lookUp"} /\ k.on = click[c].on /\ k.ok = ok /\ k.verb = verb
    BY <2>2, VerdictTypes DEF Click
  <2>4. click' = [click EXCEPT ![c] = k]
    BY <2>1, <2>2 DEF Answered
  <2> HIDE DEF k
  <2>5. \A d \in Clicks : d # c => click'[d] = click[d]
    BY <2>2, <2>4
  <2>6. click'[c] = k
    BY <2>2, <2>4
  <2>7. posting' = posting /\ shown' = shown /\ missed' = missed
    BY DEF Decide
  <2> QED BY <2>1, <2>2, <2>3, <2>5, <2>6, <2>7, DecideFacts, RecordFields DEF ApprovalInv, ClickKnows
<1>4. RefreshKnows'
  BY VerdictTypes, RecordFields DEF ApprovalInv, ApprovalTypeOK, RefreshKnows, Decide, Record,
      Answered, OnRecord
<1>5. Remembered'
  BY DEF ApprovalInv, Remembered, Decide, Answered, OnRecord
<1>6. Pursued'
  BY DEF ApprovalInv, ApprovalTypeOK, Pursued, Decide, Record, Answered, OnRecord, Pending,
      Working
<1>7. VerdictTrue'
  BY VerdictTypes, RecordFields DEF ApprovalInv, ApprovalTypeOK, VerdictTrue, Decide, Record,
      Answered, OnRecord
<1> QED BY <1>1, <1>2, <1>3, <1>4, <1>5, <1>6, <1>7 DEF ApprovalInv

LEMMA LookUpClickedKeeps ==
  ASSUME ApprovalInv, NEW c \in Clicks, LookUpClicked(c)
  PROVE  ApprovalInv'
<1>1. ApprovalTypeOK'
  BY DEF ApprovalInv, ApprovalTypeOK, LookUpClicked, Click
<1>2. Posting'
  BY DEF ApprovalInv, Posting, LookUpClicked
<1>3. ClickKnows'
  BY DEF ApprovalInv, ApprovalTypeOK, Posting, ClickKnows, LookUpClicked
<1>4. RefreshKnows'
  BY DEF ApprovalInv, RefreshKnows, LookUpClicked
<1>5. Remembered'
  BY DEF ApprovalInv, Remembered, LookUpClicked
<1>6. Pursued'
  BY DEF ApprovalInv, Pursued, LookUpClicked, Pending, Working
<1>7. VerdictTrue'
  BY DEF ApprovalInv, VerdictTrue, LookUpClicked
<1> QED BY <1>1, <1>2, <1>3, <1>4, <1>5, <1>6, <1>7 DEF ApprovalInv

LEMMA ShowClickedKeeps ==
  ASSUME ApprovalInv, NEW c \in Clicks, ShowClicked(c)
  PROVE  ApprovalInv'
<1>1. ApprovalTypeOK'
  <2> DEFINE k == [click[c] EXCEPT !.at = IF click[c].ok THEN "forget" ELSE "done"]
  <2>1. click \in [Clicks -> Click]
    BY DEF ApprovalInv, ApprovalTypeOK
  <2>2. k \in Click
    BY <2>1, VerdictTypes, RecordFields DEF Click
  <2>3. click' = [click EXCEPT ![c] = k]
    BY <2>1 DEF ShowClicked
  <2> HIDE DEF k
  <2>4. click' \in [Clicks -> Click]
    BY <2>1, <2>2, <2>3
  <2> QED BY <2>4, VerdictTypes, RecordFields DEF ApprovalInv, ApprovalTypeOK, ShowClicked, UpdateClicked
<1>2. Posting'
  BY VerdictTypes, RecordFields DEF ApprovalInv, ApprovalTypeOK, Posting, ClickKnows,
      ShowClicked, UpdateClicked
<1>3. ClickKnows'
  BY VerdictTypes, RecordFields DEF ApprovalInv, ApprovalTypeOK, ClickKnows, ShowClicked, UpdateClicked
<1>4. RefreshKnows'
  BY VerdictTypes, RecordFields DEF ApprovalInv, ApprovalTypeOK, RefreshKnows, ShowClicked, UpdateClicked
<1>5. Remembered'
  BY VerdictTypes, RecordFields DEF ApprovalInv, ApprovalTypeOK, ClickKnows, Remembered,
      ShowClicked, UpdateClicked
<1>6. Pursued'
  BY VerdictTypes, RecordFields DEF ApprovalInv, ApprovalTypeOK, ClickKnows, Pursued,
      ShowClicked, UpdateClicked, Pending, Working
<1>7. VerdictTrue'
  BY VerdictTypes, RecordFields DEF ApprovalInv, ClickKnows, VerdictTrue, ShowClicked, UpdateClicked
<1> QED BY <1>1, <1>2, <1>3, <1>4, <1>5, <1>6, <1>7 DEF ApprovalInv

LEMMA ForgetClickedKeeps ==
  ASSUME ApprovalInv, NEW c \in Clicks, ForgetClicked(c)
  PROVE  ApprovalInv'
<1>1. ApprovalTypeOK'
  BY DEF ApprovalInv, ApprovalTypeOK, ForgetClicked, Click
<1>2. Posting'
  BY DEF ApprovalInv, Posting, ForgetClicked
<1>3. ClickKnows'
  BY DEF ApprovalInv, ClickKnows, ForgetClicked
<1>4. RefreshKnows'
  BY DEF ApprovalInv, RefreshKnows, ForgetClicked
<1>5. Remembered'
  BY VerdictTypes, RecordFields DEF ApprovalInv, ClickKnows, Remembered, ForgetClicked
<1>6. Pursued'
  BY DEF ApprovalInv, Pursued, ForgetClicked, Pending, Working
<1>7. VerdictTrue'
  BY DEF ApprovalInv, VerdictTrue, ForgetClicked
<1> QED BY <1>1, <1>2, <1>3, <1>4, <1>5, <1>6, <1>7 DEF ApprovalInv

LEMMA ClickFailsKeeps ==
  ASSUME ApprovalInv, NEW c \in Clicks, ClickFails(c)
  PROVE  ApprovalInv'
<1>1. ApprovalTypeOK'
  <2> DEFINE k == [click[c] EXCEPT !.at = "done"]
  <2>1. click \in [Clicks -> Click]
    BY DEF ApprovalInv, ApprovalTypeOK
  <2>2. k \in Click
    BY <2>1, VerdictTypes, RecordFields DEF Click
  <2>3. click' = [click EXCEPT ![c] = k]
    BY <2>1 DEF ClickFails
  <2> HIDE DEF k
  <2>4. click' \in [Clicks -> Click]
    BY <2>1, <2>2, <2>3
  <2> QED BY <2>4, <2>1, VerdictTypes, RecordFields
          DEF ApprovalInv, ApprovalTypeOK, ClickFails, UpdateClicked, Fault
<1>2. Posting'
  BY VerdictTypes, RecordFields DEF ApprovalInv, ApprovalTypeOK, Posting, ClickKnows,
      ClickFails, UpdateClicked
<1>3. ClickKnows'
  BY VerdictTypes, RecordFields DEF ApprovalInv, ApprovalTypeOK, ClickKnows, ClickFails, UpdateClicked
<1>4. RefreshKnows'
  BY VerdictTypes, RecordFields DEF ApprovalInv, ApprovalTypeOK, RefreshKnows, ClickFails, UpdateClicked
<1>5. Remembered'
  BY VerdictTypes, RecordFields DEF ApprovalInv, ApprovalTypeOK, Posting, ClickKnows, Remembered,
      ClickFails, UpdateClicked
<1>6. Pursued'
  BY VerdictTypes, RecordFields DEF ApprovalInv, ApprovalTypeOK, ClickKnows, Pursued,
      ClickFails, UpdateClicked, Pending, Working
<1>7. VerdictTrue'
  <2>1. CASE UNCHANGED <<shown, missed>>
    BY <2>1 DEF ApprovalInv, VerdictTrue, ClickFails
  <2>2. CASE click[c].at = "show" /\ UpdateClicked(c)
    BY <2>2, VerdictTypes, RecordFields
       DEF ApprovalInv, ApprovalTypeOK, ClickKnows, VerdictTrue, ClickFails, UpdateClicked
  <2> QED BY <2>1, <2>2 DEF ClickFails
<1> QED BY <1>1, <1>2, <1>3, <1>4, <1>5, <1>6, <1>7 DEF ApprovalInv

LEMMA StartRefreshKeeps ==
  ASSUME ApprovalInv, NEW r \in Refreshes, StartRefresh(r)
  PROVE  ApprovalInv'
<1>1. ApprovalTypeOK'
  <2>0. PICK a \in Approvals :
          /\ decided[a] > 0 /\ decided' = [decided EXCEPT ![a] = @ - 1]
          /\ refresh' = [refresh EXCEPT ![r].at = "lookUp", ![r].on = a]
    BY DEF StartRefresh
  <2> DEFINE k == [refresh[r] EXCEPT !.at = "lookUp", !.on = a]
  <2>1. refresh \in [Refreshes -> Refresh]
    BY DEF ApprovalInv, ApprovalTypeOK
  <2>2. k \in Refresh
    BY <2>1, <2>0, VerdictTypes, RecordFields DEF Refresh
  <2>3. refresh' = [refresh EXCEPT ![r] = k]
    BY <2>1, <2>0 DEF StartRefresh
  <2> HIDE DEF k
  <2>4. refresh' \in [Refreshes -> Refresh]
    BY <2>1, <2>2, <2>3
  <2> QED BY <2>4, <2>0, RecordFields DEF ApprovalInv, ApprovalTypeOK, StartRefresh
<1>2. Posting'
  BY DEF ApprovalInv, Posting, StartRefresh
<1>3. ClickKnows'
  BY DEF ApprovalInv, ClickKnows, StartRefresh
<1>4. RefreshKnows'
  BY DEF ApprovalInv, ApprovalTypeOK, RefreshKnows, StartRefresh
<1>5. Remembered'
  BY DEF ApprovalInv, Remembered, StartRefresh
<1>6. Pursued'
  BY DEF ApprovalInv, ApprovalTypeOK, Pursued, StartRefresh, Pending, Working
<1>7. VerdictTrue'
  BY DEF ApprovalInv, VerdictTrue, StartRefresh
<1> QED BY <1>1, <1>2, <1>3, <1>4, <1>5, <1>6, <1>7 DEF ApprovalInv

LEMMA LookUpDecidedKeeps ==
  ASSUME ApprovalInv, NEW r \in Refreshes, LookUpDecided(r)
  PROVE  ApprovalInv'
<1>1. ApprovalTypeOK'
  <2> DEFINE k == [refresh[r] EXCEPT !.at = IF refresh[r].on \in ref THEN "status" ELSE "done"]
  <2>1. refresh \in [Refreshes -> Refresh]
    BY DEF ApprovalInv, ApprovalTypeOK
  <2>2. k \in Refresh
    BY <2>1, VerdictTypes, RecordFields DEF Refresh
  <2>3. refresh' = [refresh EXCEPT ![r] = k]
    BY <2>1 DEF LookUpDecided
  <2> HIDE DEF k
  <2>4. refresh' \in [Refreshes -> Refresh]
    BY <2>1, <2>2, <2>3
  <2> QED BY <2>4, RecordFields DEF ApprovalInv, ApprovalTypeOK, LookUpDecided
<1>2. Posting'
  BY DEF ApprovalInv, Posting, LookUpDecided
<1>3. ClickKnows'
  BY DEF ApprovalInv, ClickKnows, LookUpDecided
<1>4. RefreshKnows'
  BY DEF ApprovalInv, ApprovalTypeOK, Posting, RefreshKnows, LookUpDecided
<1>5. Remembered'
  BY DEF ApprovalInv, Remembered, LookUpDecided
<1>6. Pursued'
  BY DEF ApprovalInv, ApprovalTypeOK, Remembered, Pursued, LookUpDecided, Pending, Working
<1>7. VerdictTrue'
  BY DEF ApprovalInv, VerdictTrue, LookUpDecided
<1> QED BY <1>1, <1>2, <1>3, <1>4, <1>5, <1>6, <1>7 DEF ApprovalInv

LEMMA ReadStatusKeeps ==
  ASSUME ApprovalInv, NEW r \in Refreshes, ReadStatus(r)
  PROVE  ApprovalInv'
<1>1. ApprovalTypeOK'
  <2> DEFINE k == IF decision[refresh[r].on] \in Verbs
            THEN [refresh[r] EXCEPT !.at = "show", !.verb = decision[refresh[r].on]]
            ELSE [refresh[r] EXCEPT !.at = "done"]
  <2>1. refresh \in [Refreshes -> Refresh]
    BY DEF ApprovalInv, ApprovalTypeOK
  <2>2. k \in Refresh
    BY <2>1, VerdictTypes, RecordFields DEF Refresh
  <2>3. refresh' = [refresh EXCEPT ![r] = k]
    BY <2>1 DEF ReadStatus
  <2> HIDE DEF k
  <2>4. refresh' \in [Refreshes -> Refresh]
    BY <2>1, <2>2, <2>3
  <2> QED BY <2>4, RecordFields DEF ApprovalInv, ApprovalTypeOK, ReadStatus
<1>2. Posting'
  BY DEF ApprovalInv, Posting, ReadStatus
<1>3. ClickKnows'
  BY DEF ApprovalInv, ClickKnows, ReadStatus
<1>4. RefreshKnows'
  BY DEF ApprovalInv, ApprovalTypeOK, RefreshKnows, ReadStatus
<1>5. Remembered'
  BY DEF ApprovalInv, Remembered, ReadStatus
<1>6. Pursued'
  BY DEF ApprovalInv, ApprovalTypeOK, Pursued, ReadStatus, Pending, Working
<1>7. VerdictTrue'
  BY DEF ApprovalInv, VerdictTrue, ReadStatus
<1> QED BY <1>1, <1>2, <1>3, <1>4, <1>5, <1>6, <1>7 DEF ApprovalInv

LEMMA ShowDecidedKeeps ==
  ASSUME ApprovalInv, NEW r \in Refreshes, ShowDecided(r)
  PROVE  ApprovalInv'
<1>1. ApprovalTypeOK'
  <2> DEFINE k == [refresh[r] EXCEPT !.at = "forget"]
  <2>1. refresh \in [Refreshes -> Refresh]
    BY DEF ApprovalInv, ApprovalTypeOK
  <2>2. k \in Refresh
    BY <2>1, VerdictTypes, RecordFields DEF Refresh
  <2>3. refresh' = [refresh EXCEPT ![r] = k]
    BY <2>1 DEF ShowDecided
  <2> HIDE DEF k
  <2>4. refresh' \in [Refreshes -> Refresh]
    BY <2>1, <2>2, <2>3
  <2> QED BY <2>4, <2>1, RecordFields DEF ApprovalInv, ApprovalTypeOK, ShowDecided
<1>2. Posting'
  BY VerdictTypes, RecordFields DEF ApprovalInv, Posting, RefreshKnows, ShowDecided
<1>3. ClickKnows'
  BY VerdictTypes, RecordFields DEF ApprovalInv, ClickKnows, RefreshKnows, ShowDecided
<1>4. RefreshKnows'
  BY VerdictTypes, RecordFields DEF ApprovalInv, ApprovalTypeOK, RefreshKnows, ShowDecided
<1>5. Remembered'
  BY VerdictTypes, RecordFields DEF ApprovalInv, RefreshKnows, Remembered, ShowDecided
<1>6. Pursued'
  BY VerdictTypes, RecordFields DEF ApprovalInv, ApprovalTypeOK, RefreshKnows, Pursued,
      ShowDecided, Pending, Working
<1>7. VerdictTrue'
  BY DEF ApprovalInv, RefreshKnows, VerdictTrue, ShowDecided
<1> QED BY <1>1, <1>2, <1>3, <1>4, <1>5, <1>6, <1>7 DEF ApprovalInv

LEMMA ForgetDecidedKeeps ==
  ASSUME ApprovalInv, NEW r \in Refreshes, ForgetDecided(r)
  PROVE  ApprovalInv'
<1>1. ApprovalTypeOK'
  BY DEF ApprovalInv, ApprovalTypeOK, ForgetDecided, Refresh
<1>2. Posting'
  BY DEF ApprovalInv, Posting, ForgetDecided
<1>3. ClickKnows'
  BY DEF ApprovalInv, ClickKnows, ForgetDecided
<1>4. RefreshKnows'
  BY DEF ApprovalInv, RefreshKnows, ForgetDecided
<1>5. Remembered'
  BY VerdictTypes, RecordFields DEF ApprovalInv, RefreshKnows, Remembered, ForgetDecided
<1>6. Pursued'
  BY DEF ApprovalInv, Pursued, ForgetDecided, Pending, Working
<1>7. VerdictTrue'
  BY DEF ApprovalInv, VerdictTrue, ForgetDecided
<1> QED BY <1>1, <1>2, <1>3, <1>4, <1>5, <1>6, <1>7 DEF ApprovalInv

LEMMA RefreshFailsKeeps ==
  ASSUME ApprovalInv, NEW r \in Refreshes, RefreshFails(r)
  PROVE  ApprovalInv'
<1>1. ApprovalTypeOK'
  <2> DEFINE k == [refresh[r] EXCEPT !.at = "done"]
  <2>1. refresh \in [Refreshes -> Refresh]
    BY DEF ApprovalInv, ApprovalTypeOK
  <2>2. k \in Refresh
    BY <2>1, VerdictTypes, RecordFields DEF Refresh
  <2>3. refresh' = [refresh EXCEPT ![r] = k]
    BY <2>1 DEF RefreshFails
  <2> HIDE DEF k
  <2>4. refresh' \in [Refreshes -> Refresh]
    BY <2>1, <2>2, <2>3
  <2> QED BY <2>4, <2>1, RecordFields DEF ApprovalInv, ApprovalTypeOK, RefreshFails, Fault
<1>2. Posting'
  BY VerdictTypes, RecordFields DEF ApprovalInv, ApprovalTypeOK, Posting, RefreshKnows, RefreshFails
<1>3. ClickKnows'
  BY VerdictTypes, RecordFields DEF ApprovalInv, ApprovalTypeOK, ClickKnows, RefreshKnows, RefreshFails
<1>4. RefreshKnows'
  BY VerdictTypes, RecordFields DEF ApprovalInv, ApprovalTypeOK, RefreshKnows, RefreshFails
<1>5. Remembered'
  BY VerdictTypes, RecordFields DEF ApprovalInv, ApprovalTypeOK, RefreshKnows, Remembered, RefreshFails
<1>6. Pursued'
  BY VerdictTypes, RecordFields DEF ApprovalInv, ApprovalTypeOK, RefreshKnows, Pursued,
      RefreshFails, Pending, Working
<1>7. VerdictTrue'
  BY VerdictTypes, RecordFields DEF ApprovalInv, ApprovalTypeOK, RefreshKnows, VerdictTrue, RefreshFails
<1> QED BY <1>1, <1>2, <1>3, <1>4, <1>5, <1>6, <1>7 DEF ApprovalInv

LEMMA ApprovalStart == ApprovalInit => ApprovalInv
<1> SUFFICES ASSUME ApprovalInit PROVE ApprovalInv
  OBVIOUS
<1>1. PICK some \in Approvals :
        /\ click = [c \in Clicks |-> [at |-> "idle", on |-> some, verb |-> "approve",
                                      command |-> FALSE, ok |-> FALSE]]
        /\ refresh = [r \in Refreshes |-> [at |-> "idle", on |-> some, verb |-> "approve"]]
  BY ApprovalAssumption DEF ApprovalInit
<1>2. click \in [Clicks -> Click] /\ refresh \in [Refreshes -> Refresh]
  BY <1>1, VerdictTypes DEF Click, Refresh
<1>3. /\ \A c \in Clicks : click[c].at = "idle"
      /\ \A r \in Refreshes : refresh[r].at = "idle"
  BY <1>1
<1>4. ApprovalTypeOK
  BY <1>2 DEF ApprovalInit, ApprovalTypeOK
<1>5. \A a \in Approvals : shown[a] = "absent" /\ decision[a] \notin Verbs
  BY VerdictTypes DEF ApprovalInit
<1>6. Posting
  BY <1>5 DEF ApprovalInit, Posting
<1>7. ClickKnows /\ RefreshKnows
  BY <1>3 DEF ClickKnows, RefreshKnows
<1>8. Remembered /\ Pursued /\ VerdictTrue
  BY <1>5, VerdictTypes DEF Remembered, Pursued, VerdictTrue
<1> QED BY <1>4, <1>6, <1>7, <1>8 DEF ApprovalInv

LEMMA ApprovalRests == ApprovalInv /\ UNCHANGED approvalVars => ApprovalInv'
BY DEF ApprovalInv, approvalVars, ApprovalTypeOK, Posting, ClickKnows, RefreshKnows, Remembered,
   Pursued, Pending, Working, VerdictTrue

LEMMA ApprovalStep == ApprovalInv /\ [ApprovalNext]_approvalVars => ApprovalInv'
<1> SUFFICES ASSUME ApprovalInv, [ApprovalNext]_approvalVars PROVE ApprovalInv'
  OBVIOUS
<1>1. ASSUME NEW a \in Approvals, Post(a) \/ AskForRevision(a) PROVE ApprovalInv'
  BY <1>1, SkipCardKeeps, FindConversationKeeps, SendCardKeeps, LoseSendKeeps, RememberCardKeeps,
     AskForRevisionKeeps DEF Post
<1>2. ASSUME NEW a \in Approvals, NEW v \in Verbs, DecideElsewhere(a, v) PROVE ApprovalInv'
  BY <1>2, DecideElsewhereKeeps
<1>3. ASSUME NEW c \in Clicks, ClickOn(c) PROVE ApprovalInv'
  BY <1>3, StartClickKeeps, DecideKeeps, LookUpClickedKeeps, ShowClickedKeeps,
     ForgetClickedKeeps, ClickFailsKeeps DEF ClickOn
<1>4. ASSUME NEW r \in Refreshes, OnDecided(r) PROVE ApprovalInv'
  BY <1>4, StartRefreshKeeps, LookUpDecidedKeeps, ReadStatusKeeps, ShowDecidedKeeps,
     ForgetDecidedKeeps, RefreshFailsKeeps DEF OnDecided
<1> QED BY <1>1, <1>2, <1>3, <1>4, ApprovalRests DEF ApprovalNext

-----------------------------------------------------------------------------
(* The theorems.                                                            *)

\* The inductive invariant: who still knows, or will still read, the decision that
\* a card does not show yet.
THEOREM ApprovalsInductive == ApprovalSpec => []ApprovalInv
BY ApprovalStart, ApprovalStep, PTL DEF ApprovalSpec

\* A verdict on a card is Paperclip's, however clicks and events interleave, unless a
\* click succeeded with a record it could not read and another decision stood
\* (handleApprovalSubmit, onApprovalDecided, approvals.ts:250).
THEOREM VerdictsAreTrue == ApprovalSpec => []VerdictTrue
BY ApprovalsInductive, PTL DEF ApprovalInv

\* When every handler of a decided approval is done, its own card shows the decision
\* or is not in Teams, however many calls failed, with and without effect.  Excepted
\* are a decision a click was not told, a card that was never remembered or only after
\* the last event, a failed refresh, and an error card over a verdict (see Settled).
THEOREM CardsSettle == ApprovalSpec => []Settled
<1>1. ApprovalInv => Settled
  <2> SUFFICES ASSUME ApprovalInv, NEW a \in Approvals, decision[a] \in Verbs, ~Busy(a),
                      a \notin missed, a \notin misread
               PROVE  shown[a] \in {decision[a], "absent"}
    BY DEF Settled
  <2>1. posting[a] = "done" /\ ~(decided[a] > 0) /\ ~\E r \in Refreshes : Working(r, a)
    BY DEF Busy, Working
  <2>2. shown[a] \notin Actionable
    BY <2>1 DEF ApprovalInv, Pursued, Pending
  <2>3. shown[a] \in Verbs \cup {"absent"}
    BY <2>2 DEF ApprovalInv, ApprovalTypeOK
  <2> QED BY <2>3 DEF ApprovalInv, VerdictTrue
<1> QED BY ApprovalsInductive, <1>1, PTL

-----------------------------------------------------------------------------
(* Turns of the bot's conversations.                                        *)

-----------------------------------------------------------------------------
(* The inductive invariant.                                                 *)

Using == {"verify", "needs", "resolve", "remember", "write"}

\* There is one bot at a time, and all turns use that one, and so its lock.
OneBot ==
  /\ builds = 1 => botPromise = 0
  /\ \A t \in Turns : turn[t].at = "await" => builds = 1
  /\ \A t \in Turns : turn[t].at \in Using => turn[t].bot = botPromise /\ botPromise # 0

\* Who writes the blob holds the lock, and what it read is what the store holds.
FreshBlob == \A t \in Turns : turn[t].at = "write" =>
  convLock[turn[t].bot] = t /\ turn[t].blob = conversations

TurnInv == TurnTypeOK /\ OneBot /\ FreshBlob

-----------------------------------------------------------------------------
(* The constants and the record of a turn.                                  *)

LEMMA TurnConstants ==
  /\ Conversations # {} /\ NoTurn \notin Turns /\ MaxBots \in Nat /\ 0 \notin Bots
  /\ \A n \in Nat : n < MaxBots => n + 1 \in Bots
BY TurnAssumption DEF Bots

LEMMA DoneTurnFacts ==
  DoneTurn \in Turn /\ DoneTurn.at = "done" /\ NewTurn \in Turn /\ NewTurn.at = "idle"
<1> DEFINE some == CHOOSE c \in Conversations : TRUE
<1>1. some \in Conversations
  BY TurnConstants
<1>2. NewTurn = [at |-> "idle", in |-> some, data |-> "none",
                 bot |-> 0, blob |-> [c \in Conversations |-> "unknown"]]
  BY DEF NewTurn
<1>3. [c \in Conversations |-> "unknown"] \in [Conversations -> Known]
  BY DEF Known
<1> HIDE DEF some
<1> QED BY <1>1, <1>2, <1>3 DEF DoneTurn, Turn, TeamData

\* What a turn's record becomes, field by field.
LEMMA TurnFields ==
  ASSUME NEW r \in Turn
  PROVE  /\ \A at \in {"idle", "await", "verify", "needs", "resolve", "remember", "write", "dispatch", "done"} :
              [r EXCEPT !.at = at] \in Turn
         /\ r.in \in Conversations /\ r.data \in TeamData /\ r.blob \in [Conversations -> Known]
         /\ r.bot \in {0} \cup Bots
BY DEF Turn

\* When the construction ends there is no bot yet, and all who wait get this one.
LEMMA BuiltFacts ==
  ASSUME TurnInv, BotBuilt
  PROVE  /\ builds = 1 /\ botPromise = 0 /\ builds' = 0
         /\ botPromise' \in Bots /\ botPromise' # 0 /\ built' \in Nat
         /\ DOMAIN turn' = Turns /\ turn' = [t \in Turns |-> turn'[t]]
         /\ \A t \in Turns : turn'[t] = IF turn[t].at = "await"
              THEN [turn[t] EXCEPT !.at = "verify", !.bot = botPromise'] ELSE turn[t]
<1>1. builds \in {0, 1} /\ built \in Nat /\ (builds = 1 => botPromise = 0)
  BY DEF TurnInv, TurnTypeOK, OneBot
<1>2. /\ builds > 0 /\ built < MaxBots
      /\ built' = built + 1 /\ builds' = builds - 1 /\ botPromise' = built'
  BY DEF BotBuilt
<1>3. builds = 1 /\ builds' = 0 /\ botPromise = 0
  BY <1>1, <1>2
<1>4. botPromise' \in Bots /\ botPromise' # 0 /\ built' \in Nat
  BY <1>1, <1>2, TurnConstants
<1>5. turn' = [t \in Turns |-> IF t \in Waiting
                 THEN [turn[t] EXCEPT !.at = "verify", !.bot = built'] ELSE turn[t]]
  BY <1>3, Zenon DEF BotBuilt
<1> QED BY <1>2, <1>3, <1>4, <1>5 DEF Waiting

LEMMA ReceiveKeeps ==
  ASSUME TurnInv, NEW t \in Turns, Receive(t)
  PROVE  TurnInv'
<1>1. TurnTypeOK'
  <2>1. builds' \in {0, 1} /\ UNCHANGED <<botPromise, built, conversations, convLock, turnFaults, botCrashes>>
    BY DEF TurnInv, TurnTypeOK, Receive
  <2>2. PICK c \in Conversations, d \in TeamData :
          turn' = [turn EXCEPT ![t].at = IF botPromise = 0 THEN "await" ELSE "verify",
                               ![t].in = c, ![t].data = d, ![t].bot = botPromise]
    BY DEF Receive
  <2>3. turn \in [Turns -> Turn] /\ botPromise \in {0} \cup Bots
    BY DEF TurnInv, TurnTypeOK
  <2> DEFINE r == [turn[t] EXCEPT !.at = IF botPromise = 0 THEN "await" ELSE "verify",
                                  !.in = c, !.data = d, !.bot = botPromise]
  <2>5. r \in Turn
    BY <2>3 DEF Turn
  <2>6. turn' = [turn EXCEPT ![t] = r]
    BY <2>2, <2>3
  <2> HIDE DEF r
  <2>4. turn' \in [Turns -> Turn]
    BY <2>3, <2>5, <2>6
  <2> QED BY <2>1, <2>4 DEF TurnInv, TurnTypeOK
<1>2. OneBot'
  BY DEF TurnInv, TurnTypeOK, OneBot, Receive, Using
<1>3. FreshBlob'
  BY DEF TurnInv, TurnTypeOK, FreshBlob, Receive
<1> QED BY <1>1, <1>2, <1>3 DEF TurnInv

LEMMA VerifyKeeps ==
  ASSUME TurnInv, NEW t \in Turns, Verify(t)
  PROVE  TurnInv'
<1>1. TurnTypeOK'
  <2>2. turn \in [Turns -> Turn]
    BY DEF TurnInv, TurnTypeOK
  <2>3. Goes(t, "needs") => turn' \in [Turns -> Turn]
    BY <2>2, TurnFields DEF Goes
  <2>4. turn' = [turn EXCEPT ![t] = DoneTurn] => turn' \in [Turns -> Turn]
    BY <2>2, DoneTurnFacts
  <2>1. turn' \in [Turns -> Turn]
    BY <2>3, <2>4 DEF Verify
  <2> QED BY <2>1 DEF TurnInv, TurnTypeOK, Verify
<1>2. OneBot'
  <2>1. CASE Goes(t, "needs")
    BY <2>1 DEF TurnInv, TurnTypeOK, OneBot, Verify, Goes, Using
  <2>2. CASE turn' = [turn EXCEPT ![t] = DoneTurn]
    BY <2>2, DoneTurnFacts DEF TurnInv, TurnTypeOK, OneBot, Verify, Using
  <2> QED BY <2>1, <2>2 DEF Verify
<1>3. FreshBlob'
  BY TurnConstants, DoneTurnFacts DEF TurnInv, TurnTypeOK, OneBot, FreshBlob, Verify, Goes,
      Turn, Using
<1> QED BY <1>1, <1>2, <1>3 DEF TurnInv

LEMMA NeedsGroupIdKeeps ==
  ASSUME TurnInv, NEW t \in Turns, NeedsGroupId(t)
  PROVE  TurnInv'
<1>1. TurnTypeOK'
  BY DEF TurnInv, TurnTypeOK, OneBot, NeedsGroupId, Goes, Turn, Using
<1>2. OneBot'
  BY DEF TurnInv, OneBot, NeedsGroupId, Goes, Using
<1>3. FreshBlob'
  BY DEF TurnInv, FreshBlob, NeedsGroupId, Goes
<1> QED BY <1>1, <1>2, <1>3 DEF TurnInv

LEMMA ResolveGroupIdKeeps ==
  ASSUME TurnInv, NEW t \in Turns, ResolveGroupId(t)
  PROVE  TurnInv'
<1>1. TurnTypeOK'
  <2>1. PICK d \in {"team", "group"} : turn' = [turn EXCEPT ![t].data = d, ![t].at = "remember"]
    BY DEF ResolveGroupId
  <2> DEFINE r == [turn[t] EXCEPT !.data = d, !.at = "remember"]
  <2>3. turn \in [Turns -> Turn]
    BY DEF TurnInv, TurnTypeOK
  <2>4. r \in Turn
    BY <2>3 DEF Turn, TeamData
  <2>5. turn' = [turn EXCEPT ![t] = r]
    BY <2>1, <2>3
  <2> HIDE DEF r
  <2>2. turn' \in [Turns -> Turn]
    BY <2>3, <2>4, <2>5
  <2> QED BY <2>2 DEF TurnInv, TurnTypeOK, ResolveGroupId
<1>2. OneBot'
  BY DEF TurnInv, TurnTypeOK, OneBot, ResolveGroupId, Turn
<1>3. FreshBlob'
  BY DEF TurnInv, TurnTypeOK, FreshBlob, ResolveGroupId
<1> QED BY <1>1, <1>2, <1>3 DEF TurnInv

LEMMA LoadBlobKeeps ==
  ASSUME TurnInv, NEW t \in Turns, LoadBlob(t)
  PROVE  TurnInv'
<1>1. TurnTypeOK'
  BY DEF TurnInv, TurnTypeOK, LoadBlob, Turn
<1>2. OneBot'
  BY DEF TurnInv, TurnTypeOK, OneBot, LoadBlob, Using
<1>3. FreshBlob'
  BY DEF TurnInv, TurnTypeOK, FreshBlob, LoadBlob, Turn
<1> QED BY <1>1, <1>2, <1>3 DEF TurnInv

LEMMA WriteBlobKeeps ==
  ASSUME TurnInv, NEW t \in Turns, WriteBlob(t)
  PROVE  TurnInv'
<1>1. TurnTypeOK'
  <2>1. turn \in [Turns -> Turn] /\ turn[t].in \in Conversations
        /\ turn[t].blob \in [Conversations -> Known]
    BY TurnFields DEF TurnInv, TurnTypeOK
  <2>2. [DoneTurn EXCEPT !.at = "dispatch", !.in = turn[t].in] \in Turn
    BY <2>1, DoneTurnFacts DEF Turn
  <2>3. turn' \in [Turns -> Turn]
    BY <2>1, <2>2, DoneTurnFacts DEF WriteBlob
  <2>4. conversations' \in [Conversations -> Known]
    BY <2>1 DEF TurnInv, TurnTypeOK, WriteBlob, Merged, Known
  <2>5. convLock' \in [Bots -> Turns \cup {NoTurn}]
    BY DEF TurnInv, TurnTypeOK, WriteBlob
  <2>6. turnFaults' \in Nat
    BY DEF TurnInv, TurnTypeOK, WriteBlob, TurnFault
  <2> QED BY <2>3, <2>4, <2>5, <2>6 DEF TurnInv, TurnTypeOK, WriteBlob
<1>2. OneBot'
  <2>1. \A s \in Turns : s # t => turn'[s] = turn[s]
    BY DEF TurnInv, TurnTypeOK, WriteBlob
  <2>4. turn \in [Turns -> Turn]
    BY DEF TurnInv, TurnTypeOK
  <2>5. \/ turn'[t] = [DoneTurn EXCEPT !.at = "dispatch", !.in = turn[t].in]
        \/ turn'[t] = DoneTurn
    BY <2>4 DEF WriteBlob
  <2>6. [DoneTurn EXCEPT !.at = "dispatch", !.in = turn[t].in].at = "dispatch"
    BY DoneTurnFacts DEF Turn
  <2>2. turn'[t].at \in {"dispatch", "done"}
    BY <2>5, <2>6, DoneTurnFacts
  <2> QED BY <2>1, <2>2 DEF TurnInv, OneBot, Using, WriteBlob
<1>3. FreshBlob'
  <2>1. \A s \in Turns : s # t => turn'[s] = turn[s]
    BY DEF TurnInv, TurnTypeOK, WriteBlob
  <2>4. turn \in [Turns -> Turn]
    BY DEF TurnInv, TurnTypeOK
  <2>5. \/ turn'[t] = [DoneTurn EXCEPT !.at = "dispatch", !.in = turn[t].in]
        \/ turn'[t] = DoneTurn
    BY <2>4 DEF WriteBlob
  <2>6. [DoneTurn EXCEPT !.at = "dispatch", !.in = turn[t].in].at = "dispatch"
    BY DoneTurnFacts DEF Turn
  <2>2. turn'[t].at \in {"dispatch", "done"}
    BY <2>5, <2>6, DoneTurnFacts
  <2>3. \A s \in Turns : s # t => turn[s].at # "write"
    BY DEF TurnInv, OneBot, FreshBlob, Using, WriteBlob
  <2> QED BY <2>1, <2>2, <2>3 DEF FreshBlob
<1> QED BY <1>1, <1>2, <1>3 DEF TurnInv

LEMMA DispatchKeeps ==
  ASSUME TurnInv, NEW t \in Turns, Dispatch(t)
  PROVE  TurnInv'
<1>1. TurnTypeOK'
  BY TurnConstants, DoneTurnFacts DEF TurnInv, TurnTypeOK, Dispatch
<1>2. OneBot'
  BY TurnConstants, DoneTurnFacts DEF TurnInv, OneBot, Dispatch, Using
<1>3. FreshBlob'
  BY TurnConstants, DoneTurnFacts DEF TurnInv, FreshBlob, Dispatch
<1> QED BY <1>1, <1>2, <1>3 DEF TurnInv

LEMMA BotBuiltKeeps ==
  ASSUME TurnInv, BotBuilt
  PROVE  TurnInv'
<1>1. TurnTypeOK'
  <2>4. turn \in [Turns -> Turn]
    BY DEF TurnInv, TurnTypeOK
  <2>5. \A t \in Turns : [turn[t] EXCEPT !.at = "verify", !.bot = botPromise'] \in Turn
    BY <2>4, BuiltFacts DEF Turn
  <2>1. \A t \in Turns : turn'[t] \in Turn
    BY <2>4, <2>5, BuiltFacts
  <2>2. turn' \in [Turns -> Turn]
    BY <2>1, BuiltFacts
  <2>3. turnFaults' \in Nat /\ botCrashes' \in Nat
    BY DEF TurnInv, TurnTypeOK, BotBuilt
  <2> QED BY <2>2, <2>3, BuiltFacts DEF TurnInv, TurnTypeOK, BotBuilt
<1>2. OneBot'
  <2>1. \A t \in Turns : turn[t].at # "await" => turn[t].at \notin Using
    BY BuiltFacts DEF TurnInv, OneBot
  <2>3. turn \in [Turns -> Turn]
    BY DEF TurnInv, TurnTypeOK
  <2>2. \A t \in Turns : turn[t].at = "await" => turn'[t].at = "verify" /\ turn'[t].bot = botPromise'
    BY <2>3, BuiltFacts DEF Turn
  <2>4. \A t \in Turns : turn[t].at # "await" => turn'[t] = turn[t]
    BY BuiltFacts
  <2>5. \A t \in Turns : turn'[t].at # "await" /\
          (turn'[t].at \in Using => turn'[t].bot = botPromise')
    BY <2>1, <2>2, <2>4, Zenon DEF Using
  <2>6. builds' = 0 /\ botPromise' # 0
    BY BuiltFacts
  <2> QED BY <2>5, <2>6 DEF OneBot
<1>3. FreshBlob'
  <2>1. \A t \in Turns : turn[t].at # "await" => turn[t].at \notin Using
    BY BuiltFacts DEF TurnInv, OneBot
  <2>2. \A t \in Turns : turn[t].at = "await" => turn'[t].at = "verify"
    BY BuiltFacts DEF TurnInv, TurnTypeOK, Turn
  <2> QED BY <2>1, <2>2, BuiltFacts DEF FreshBlob, Using
<1> QED BY <1>1, <1>2, <1>3 DEF TurnInv

LEMMA BotFailsKeeps ==
  ASSUME TurnInv, BotFails
  PROVE  TurnInv'
<1>1. TurnTypeOK'
  BY TurnConstants, DoneTurnFacts DEF TurnInv, TurnTypeOK, BotFails, TurnFault
<1>2. OneBot'
  BY TurnConstants, DoneTurnFacts DEF TurnInv, TurnTypeOK, OneBot, BotFails, TurnFault,
      Waiting, Using
<1>3. FreshBlob'
  BY TurnConstants, DoneTurnFacts DEF TurnInv, FreshBlob, BotFails, TurnFault
<1> QED BY <1>1, <1>2, <1>3 DEF TurnInv

LEMMA BotCrashKeeps ==
  ASSUME TurnInv, BotCrash
  PROVE  TurnInv'
<1>1. TurnTypeOK'
  BY TurnConstants, DoneTurnFacts DEF TurnInv, TurnTypeOK, BotCrash
<1>2. OneBot'
  BY TurnConstants, DoneTurnFacts DEF TurnInv, OneBot, BotCrash, Using
<1>3. FreshBlob'
  BY TurnConstants, DoneTurnFacts DEF TurnInv, FreshBlob, BotCrash
<1> QED BY <1>1, <1>2, <1>3 DEF TurnInv

LEMMA TurnStart == TurnInit => TurnInv
<1> SUFFICES ASSUME TurnInit PROVE TurnInv
  OBVIOUS
<1>1. TurnTypeOK
  <2>1. turn \in [Turns -> Turn]
    BY DoneTurnFacts DEF TurnInit
  <2>2. conversations \in [Conversations -> Known] /\ convLock \in [Bots -> Turns \cup {NoTurn}]
    BY DEF TurnInit, Known
  <2> QED BY <2>1, <2>2 DEF TurnInit, TurnTypeOK
<1>2. \A t \in Turns : turn[t].at = "idle"
  BY DoneTurnFacts DEF TurnInit
<1>3. OneBot /\ FreshBlob
  BY <1>2 DEF TurnInit, OneBot, FreshBlob, Using
<1> QED BY <1>1, <1>3 DEF TurnInv

LEMMA TurnStep == TurnInv /\ [TurnNext]_turnVars => TurnInv'
<1> SUFFICES ASSUME TurnInv, [TurnNext]_turnVars PROVE TurnInv'
  OBVIOUS
<1>1. ASSUME NEW t \in Turns,
             \/ Receive(t) \/ Verify(t) \/ NeedsGroupId(t) \/ ResolveGroupId(t)
             \/ LoadBlob(t) \/ WriteBlob(t) \/ Dispatch(t)
      PROVE  TurnInv'
  BY <1>1, ReceiveKeeps, VerifyKeeps, NeedsGroupIdKeeps, ResolveGroupIdKeeps,
     LoadBlobKeeps, WriteBlobKeeps, DispatchKeeps
<1>2. CASE BotBuilt \/ BotFails \/ BotCrash
  BY <1>2, BotBuiltKeeps, BotFailsKeeps, BotCrashKeeps
<1>3. CASE UNCHANGED turnVars
  BY <1>3 DEF turnVars, TurnInv, TurnTypeOK, OneBot, FreshBlob
<1> QED BY <1>1, <1>2, <1>3 DEF TurnNext

-----------------------------------------------------------------------------
(* The theorems.                                                            *)

\* The inductive invariant: one bot at a time, and a blob that is written back as
\* it was read, but for the turn's own conversation.
THEOREM TurnsInductive == TurnSpec => []TurnInv
BY TurnStart, TurnStep, PTL DEF TurnSpec

\* A step that writes the blob keeps what was known of every conversation.
LEMMA BlobGrows ==
  ASSUME TurnInv, [TurnNext]_turnVars, NEW c \in Conversations
  PROVE  /\ conversations[c] # "unknown" => conversations'[c] # "unknown"
         /\ conversations[c] = "grouped" => conversations'[c] = "grouped"
<1>1. ASSUME NEW t \in Turns, WriteBlob(t)
      PROVE  /\ conversations[c] # "unknown" => conversations'[c] # "unknown"
             /\ conversations[c] = "grouped" => conversations'[c] = "grouped"
  <2>1. turn[t].blob = conversations /\ conversations \in [Conversations -> Known]
    BY <1>1 DEF TurnInv, TurnTypeOK, FreshBlob, WriteBlob
  <2> QED BY <1>1, <2>1 DEF WriteBlob, Merged
<1>2. ASSUME NEW t \in Turns,
             \/ Receive(t) \/ Verify(t) \/ NeedsGroupId(t) \/ ResolveGroupId(t)
             \/ LoadBlob(t) \/ Dispatch(t)
      PROVE  UNCHANGED conversations
  BY <1>2 DEF Receive, Verify, NeedsGroupId, ResolveGroupId, LoadBlob, Dispatch
<1>3. CASE BotBuilt \/ BotFails \/ BotCrash
  BY <1>3 DEF BotBuilt, BotFails, BotCrash
<1>4. CASE UNCHANGED turnVars
  BY <1>4 DEF turnVars
<1> QED BY <1>1, <1>2, <1>3, <1>4 DEF TurnNext

\* No turn forgets a conversation, or the group id another turn has captured
\* (rememberFrom's merge under the lock of the bot's store).
THEOREM NothingForgottenOfConversations == TurnSpec => ConversationsKept
<1>1. TurnInv /\ [TurnNext]_turnVars =>
        [\A c \in Conversations :
           /\ conversations[c] # "unknown" => conversations'[c] # "unknown"
           /\ conversations[c] = "grouped" => conversations'[c] = "grouped"]_turnVars
  BY BlobGrows
<1> QED BY TurnsInductive, <1>1, PTL DEF TurnSpec, ConversationsKept
==============================================================================
