----------------------------- MODULE AgentProofs -----------------------------
(***************************************************************************)
(* Proofs about Asks and ChannelPosts, for any number of asks, posts,      *)
(* clicks, submits, reads, cancellations, people, faults and crashes.      *)
(***************************************************************************)
EXTENDS Asks, ChannelPosts, TLAPS

-----------------------------------------------------------------------------
(* The agents' asks.                                                        *)

-----------------------------------------------------------------------------
(* The inductive invariant.                                                 *)

\* Who makes which steps.
Roles == \A p \in AskCalls :
  /\ askAt[p] \in {"create", "createIndex"} => p \in Questions
  /\ askAt[p] \in {"answer", "answerIndex", "invoke"} => p \in AskClicks
  /\ askAt[p] \in {"cancel", "cancelIndex"} => p \in Cancels
  /\ askAt[p] = "show" => p \in AskClicks \cup Cancels

\* A lock is held by the call that is about to change the index, and by no other.
Held ==
  /\ \A p \in AskCalls : askAt[p] \in AskIndexing => askLock[About(p)] = p
  /\ \A q \in Questions : ~Free(q) =>
       askAt[askLock[q]] \in AskIndexing /\ About(askLock[q]) = q

\* What a call has written is still there when it goes on.
Stands ==
  /\ \A q \in Questions : askAt[q] \in {"idle", "create"} => ask[q] = "none"
  /\ \A q \in Questions : askAt[q] = "createIndex" => ask[q] = "open"
  /\ \A c \in AskClicks : askAt[c] \in {"answerIndex", "invoke", "show"} => ask[askOn[c]] = "answered"
  /\ \A k \in Cancels : askAt[k] \in {"cancelIndex", "show"} => ask[askOn[k]] = "cancelled"

Carries(c) == askAt[c] \in {"answerIndex", "invoke"}

\* An answer is carried to the agent by one click, which has not woken it yet.
OneCarrier ==
  /\ \A c \in AskClicks : Carries(c) => woken[askOn[c]] = 0
  /\ \A c, d \in AskClicks : Carries(c) /\ Carries(d) /\ askOn[c] = askOn[d] => c = d

AskInv == /\ AskTypeOK /\ Roles /\ Held /\ Stands /\ OneCarrier
          /\ AnswerAccountedFor /\ AskCardTrue /\ AskIndexExact

\* The assumption, conjunct by conjunct.
LEMMA Calls ==
  /\ Questions # {} /\ Agents # {}
  /\ \A q \in Questions : q \notin AskClicks /\ q \notin Cancels
  /\ \A c \in AskClicks : c \notin Cancels
  /\ Nobody \notin AskCalls
  /\ Questions \subseteq AskCalls /\ AskClicks \subseteq AskCalls /\ Cancels \subseteq AskCalls
BY AskAssumption DEF AskCalls

LEMMA DeclineKeeps ==
  ASSUME AskInv, NEW q \in Questions, Decline(q)
  PROVE  AskInv'
<1>1. AskTypeOK'
  BY DEF AskInv, AskTypeOK, Decline, Goto, askStored, askHistory, askCounts
<1>2. Roles'
  BY DEF AskInv, Roles, Decline, Goto
<1>3. Held'
  BY DEF AskInv, Held, Decline, Goto, AskIndexing, About, Free
<1>4. Stands'
  BY DEF AskInv, Stands, Decline, Goto, askStored
<1>5. OneCarrier'
  BY DEF AskInv, OneCarrier, Decline, Goto, Carries
<1>6. AnswerAccountedFor'
  BY DEF AskInv, AnswerAccountedFor, Decline, Goto, askStored, askHistory, Routing
<1>7. AskCardTrue'
  BY DEF AskInv, AskCardTrue, Decline, Goto, askStored
<1>8. AskIndexExact'
  BY DEF AskInv, AskIndexExact, Decline, Goto, askStored, askHistory, Free
<1> QED BY <1>1, <1>2, <1>3, <1>4, <1>5, <1>6, <1>7, <1>8 DEF AskInv

LEMMA PostAskCardKeeps ==
  ASSUME AskInv, NEW q \in Questions, PostAskCard(q)
  PROVE  AskInv'
<1>1. AskTypeOK'
  BY DEF AskInv, AskTypeOK, PostAskCard, Goto, askCounts, AskFault, askStored, askHistory
<1>2. Roles'
  BY DEF AskInv, AskTypeOK, Roles, PostAskCard, Goto, AskFault
<1>3. Held'
  BY DEF AskInv, AskTypeOK, Held, PostAskCard, Goto, AskFault, AskIndexing, About, Free
<1>4. Stands'
  BY DEF AskInv, AskTypeOK, Stands, PostAskCard, Goto, AskFault, askStored, AskCalls
<1>5. OneCarrier'
  BY DEF AskInv, AskTypeOK, OneCarrier, PostAskCard, Goto, AskFault, AskCalls, Carries
<1>6. AnswerAccountedFor'
  BY DEF AskInv, AskTypeOK, AnswerAccountedFor, PostAskCard, Goto, AskFault, askStored,
      askHistory, AskCalls, Routing
<1>7. AskCardTrue'
  BY DEF AskInv, AskCardTrue, PostAskCard, Goto, AskFault, askStored, Verdicts
<1>8. AskIndexExact'
  BY DEF AskInv, AskIndexExact, PostAskCard, Goto, AskFault, askStored, askHistory, Free
<1> QED BY <1>1, <1>2, <1>3, <1>4, <1>5, <1>6, <1>7, <1>8 DEF AskInv

LEMMA CreateAskKeeps ==
  ASSUME AskInv, NEW q \in Questions, CreateAsk(q)
  PROVE  AskInv'
<1>1. AskTypeOK'
  BY DEF AskInv, AskTypeOK, CreateAsk, Write, askHistory, askCounts, AskCalls, AskIndexing,
      About, Goto
<1>2. Roles'
  BY DEF AskInv, Roles, CreateAsk, Write, Goto
<1>3. Held'
  BY Calls DEF AskInv, AskTypeOK, Held, CreateAsk, Free, Write, AskIndexing, About, Goto
<1>4. Stands'
  BY DEF AskInv, AskTypeOK, Stands, CreateAsk, Write, AskCalls, About, Goto
<1>5. OneCarrier'
  BY DEF AskInv, OneCarrier, CreateAsk, Write, Carries, Goto
<1>6. AnswerAccountedFor'
  BY DEF AskInv, Stands, AnswerAccountedFor, CreateAsk, Write, askHistory, Routing, About,
      Goto
<1>7. AskCardTrue'
  BY DEF AskInv, Stands, AskCardTrue, CreateAsk, Write, Verdicts, About, Goto
<1>8. AskIndexExact'
  BY Calls DEF AskInv, AskTypeOK, AskIndexExact, CreateAsk, Free, Write, askHistory, Goto
<1> QED BY <1>1, <1>2, <1>3, <1>4, <1>5, <1>6, <1>7, <1>8 DEF AskInv

LEMMA ClickAskKeeps ==
  ASSUME AskInv, NEW c \in AskClicks, ClickAsk(c)
  PROVE  AskInv'
<1>1. AskTypeOK'
  BY DEF AskInv, AskTypeOK, ClickAsk, Goto, askStored, askHistory, askCounts
<1>2. Roles'
  BY DEF AskInv, Roles, ClickAsk, Goto
<1>3. Held'
  BY DEF AskInv, Held, ClickAsk, Goto, AskIndexing, About, Free
<1>4. Stands'
  BY DEF AskInv, Stands, ClickAsk, Goto, askStored
<1>5. OneCarrier'
  BY DEF AskInv, OneCarrier, ClickAsk, Goto, Carries
<1>6. AnswerAccountedFor'
  BY DEF AskInv, AnswerAccountedFor, ClickAsk, Goto, askStored, askHistory, Routing
<1>7. AskCardTrue'
  BY DEF AskInv, AskCardTrue, ClickAsk, Goto, askStored
<1>8. AskIndexExact'
  BY DEF AskInv, AskIndexExact, ClickAsk, Goto, askStored, askHistory, Free
<1> QED BY <1>1, <1>2, <1>3, <1>4, <1>5, <1>6, <1>7, <1>8 DEF AskInv

LEMMA AnswerAskKeeps ==
  ASSUME AskInv, NEW c \in AskClicks, AnswerAsk(c)
  PROVE  AskInv'
<1>1. AskTypeOK'
  BY DEF AskInv, AskTypeOK, AnswerAsk, MayAnswer, Write, Goto, askHistory, askCounts,
      Verdicts, AskCalls, AskIndexing
<1>2. Roles'
  BY DEF AskInv, AskTypeOK, Roles, AnswerAsk, MayAnswer, Write, Goto
<1>3. Held'
  BY Calls DEF AskInv, AskTypeOK, Held, AnswerAsk, Free, MayAnswer, Write, Goto, AskCalls,
      AskIndexing, About
<1>4. Stands'
  BY Calls DEF AskInv, AskTypeOK, Held, Stands, AnswerAsk, Free, MayAnswer, Write, Goto,
      About
<1>5. OneCarrier'
  BY Calls DEF AskInv, AskTypeOK, Roles, Held, Stands, OneCarrier, AnswerAccountedFor,
      AskCardTrue, AskIndexExact, AnswerAsk, MayAnswer, Write, Goto, Verdicts, Carries,
      Routing
<1>6. AnswerAccountedFor'
  BY Calls DEF AskInv, AskTypeOK, AnswerAccountedFor, AnswerAsk, MayAnswer, Write, Goto,
      askHistory, Routing, About
<1>7. AskCardTrue'
  BY Calls DEF AskInv, AskTypeOK, AskCardTrue, AnswerAsk, MayAnswer, Write, Goto, Verdicts,
      About
<1>8. AskIndexExact'
  BY Calls DEF AskInv, AskTypeOK, AskIndexExact, AnswerAsk, Free, MayAnswer, Write, Goto,
      askHistory
<1> QED BY <1>1, <1>2, <1>3, <1>4, <1>5, <1>6, <1>7, <1>8 DEF AskInv

LEMMA WakeAgentKeeps ==
  ASSUME AskInv, NEW c \in AskClicks, WakeAgent(c)
  PROVE  AskInv'
<1>1. AskTypeOK'
  BY DEF AskInv, AskTypeOK, WakeAgent, askCounts, AskFault, Goto, askStored, askHistory,
      AskCalls
<1>2. Roles'
  BY DEF AskInv, Roles, WakeAgent, AskFault, Goto
<1>3. Held'
  BY DEF AskInv, Held, WakeAgent, AskFault, Goto, AskIndexing, About, Free
<1>4. Stands'
  BY Calls DEF AskInv, Stands, WakeAgent, AskFault, Goto, askStored
<1>5. OneCarrier'
  BY DEF AskInv, AskTypeOK, OneCarrier, WakeAgent, AskFault, Goto, AskCalls, Carries
<1>6. AnswerAccountedFor'
  BY DEF AskInv, AskTypeOK, Stands, OneCarrier, AnswerAccountedFor, WakeAgent, AskFault,
      Goto, askStored, askHistory, Carries, Routing
<1>7. AskCardTrue'
  BY DEF AskInv, AskCardTrue, WakeAgent, AskFault, Goto, askStored
<1>8. AskIndexExact'
  BY DEF AskInv, AskIndexExact, WakeAgent, AskFault, Goto, askStored, askHistory, Free
<1> QED BY <1>1, <1>2, <1>3, <1>4, <1>5, <1>6, <1>7, <1>8 DEF AskInv

LEMMA StartCancelKeeps ==
  ASSUME AskInv, NEW k \in Cancels, StartCancel(k)
  PROVE  AskInv'
<1>1. AskTypeOK'
  BY DEF AskInv, AskTypeOK, StartCancel, Goto, askStored, askHistory, askCounts
<1>2. Roles'
  BY DEF AskInv, Roles, StartCancel, Goto
<1>3. Held'
  BY DEF AskInv, Held, StartCancel, Goto, AskIndexing, About, Free
<1>4. Stands'
  BY DEF AskInv, Stands, StartCancel, Goto, askStored
<1>5. OneCarrier'
  BY DEF AskInv, OneCarrier, StartCancel, Goto, Carries
<1>6. AnswerAccountedFor'
  BY DEF AskInv, AnswerAccountedFor, StartCancel, Goto, askStored, askHistory, Routing
<1>7. AskCardTrue'
  BY DEF AskInv, AskCardTrue, StartCancel, Goto, askStored
<1>8. AskIndexExact'
  BY DEF AskInv, AskIndexExact, StartCancel, Goto, askStored, askHistory, Free
<1> QED BY <1>1, <1>2, <1>3, <1>4, <1>5, <1>6, <1>7, <1>8 DEF AskInv

LEMMA CancelAskKeeps ==
  ASSUME AskInv, NEW k \in Cancels, CancelAsk(k)
  PROVE  AskInv'
<1>1. AskTypeOK'
  BY DEF AskInv, AskTypeOK, CancelAsk, MayCancel, Write, Goto, askHistory, askCounts,
      Verdicts, AskCalls, AskIndexing
<1>2. Roles'
  BY DEF AskInv, AskTypeOK, Roles, CancelAsk, MayCancel, Write, Goto
<1>3. Held'
  BY Calls DEF AskInv, AskTypeOK, Held, CancelAsk, Free, MayCancel, Write, Goto, AskCalls,
      AskIndexing, About
<1>4. Stands'
  BY Calls DEF AskInv, AskTypeOK, Held, Stands, CancelAsk, Free, MayCancel, Write, Goto,
      About
<1>5. OneCarrier'
  BY DEF AskInv, AskTypeOK, OneCarrier, CancelAsk, MayCancel, Write, Goto, AskCalls, Carries
<1>6. AnswerAccountedFor'
  BY Calls DEF AskInv, AskTypeOK, AnswerAccountedFor, CancelAsk, MayCancel, Write, Goto,
      askHistory, Routing, About
<1>7. AskCardTrue'
  BY Calls DEF AskInv, AskTypeOK, AskCardTrue, CancelAsk, MayCancel, Write, Goto, Verdicts,
      About
<1>8. AskIndexExact'
  BY Calls DEF AskInv, AskTypeOK, AskIndexExact, CancelAsk, Free, MayCancel, Write, Goto,
      askHistory
<1> QED BY <1>1, <1>2, <1>3, <1>4, <1>5, <1>6, <1>7, <1>8 DEF AskInv

LEMMA WriteAskIndexKeeps ==
  ASSUME AskInv, NEW p \in AskCalls, WriteAskIndex(p)
  PROVE  AskInv'
<1>1. AskTypeOK'
  BY DEF AskInv, AskTypeOK, WriteAskIndex, About, AskIndexing, Goto, askHistory, askCounts,
      AskCalls
<1>2. Roles'
  BY DEF AskInv, Roles, WriteAskIndex, AskIndexing, Goto
<1>3. Held'
  BY DEF AskInv, AskTypeOK, Held, WriteAskIndex, About, AskIndexing, Goto, Free
<1>4. Stands'
  BY Calls DEF AskInv, Roles, Stands, WriteAskIndex, AskIndexing, Goto
<1>5. OneCarrier'
  BY DEF AskInv, OneCarrier, WriteAskIndex, AskIndexing, Goto, Carries
<1>6. AnswerAccountedFor'
  BY DEF AskInv, AnswerAccountedFor, WriteAskIndex, AskIndexing, Goto, askHistory, Routing
<1>7. AskCardTrue'
  BY DEF AskInv, AskCardTrue, WriteAskIndex, Goto
<1>8. AskIndexExact'
  BY Calls DEF AskInv, Roles, Stands, AskIndexExact, WriteAskIndex, About, AskIndexing,
      Goto, askHistory, Free
<1> QED BY <1>1, <1>2, <1>3, <1>4, <1>5, <1>6, <1>7, <1>8 DEF AskInv

LEMMA AskIndexRejectsKeeps ==
  ASSUME AskInv, NEW p \in AskCalls, AskIndexRejects(p)
  PROVE  AskInv'
<1>1. AskTypeOK'
  BY DEF AskInv, AskTypeOK, AskIndexRejects, About, AskFault, Goto, askStored, AskCalls
<1>2. Roles'
  BY DEF AskInv, Roles, AskIndexRejects, AskFault, Goto
<1>3. Held'
  BY DEF AskInv, AskTypeOK, Held, AskIndexRejects, About, AskIndexing, AskFault, Goto, Free
<1>4. Stands'
  BY DEF AskInv, Stands, AskIndexRejects, AskFault, Goto, askStored
<1>5. OneCarrier'
  BY DEF AskInv, OneCarrier, AskIndexRejects, AskFault, Goto, Carries
<1>6. AnswerAccountedFor'
  BY Calls DEF AskInv, AnswerAccountedFor, AskIndexRejects, About, AskIndexing, AskFault,
      Goto, askStored, Routing
<1>7. AskCardTrue'
  BY DEF AskInv, AskCardTrue, AskIndexRejects, AskFault, Goto, askStored
<1>8. AskIndexExact'
  BY DEF AskInv, AskIndexExact, AskIndexRejects, AskFault, Goto, askStored, Free
<1> QED BY <1>1, <1>2, <1>3, <1>4, <1>5, <1>6, <1>7, <1>8 DEF AskInv

LEMMA AskEntryRejectsKeeps ==
  ASSUME AskInv, NEW p \in AskCalls, AskEntryRejects(p)
  PROVE  AskInv'
<1>1. AskTypeOK'
  BY DEF AskInv, AskTypeOK, AskEntryRejects, AskFault, Goto, askStored, askHistory
<1>2. Roles'
  BY DEF AskInv, Roles, AskEntryRejects, AskFault, Goto
<1>3. Held'
  BY DEF AskInv, Held, AskEntryRejects, AskFault, Goto, AskIndexing, About, Free
<1>4. Stands'
  BY DEF AskInv, Stands, AskEntryRejects, AskFault, Goto, askStored
<1>5. OneCarrier'
  BY DEF AskInv, OneCarrier, AskEntryRejects, AskFault, Goto, Carries
<1>6. AnswerAccountedFor'
  BY DEF AskInv, AnswerAccountedFor, AskEntryRejects, AskFault, Goto, askStored, askHistory,
      Routing
<1>7. AskCardTrue'
  BY DEF AskInv, AskCardTrue, AskEntryRejects, AskFault, Goto, askStored
<1>8. AskIndexExact'
  BY DEF AskInv, AskIndexExact, AskEntryRejects, AskFault, Goto, askStored, askHistory, Free
<1> QED BY <1>1, <1>2, <1>3, <1>4, <1>5, <1>6, <1>7, <1>8 DEF AskInv

LEMMA ShowVerdictKeeps ==
  ASSUME AskInv, NEW p \in AskClicks \cup Cancels, ShowVerdict(p)
  PROVE  AskInv'
<1>1. AskTypeOK'
  BY DEF AskInv, AskTypeOK, ShowVerdict, askCounts, AskFault, Goto, askStored, askHistory,
      Verdicts, AskCalls
<1>2. Roles'
  BY DEF AskInv, Roles, ShowVerdict, AskFault, Goto
<1>3. Held'
  BY DEF AskInv, Held, ShowVerdict, AskFault, Goto, AskIndexing, About, Free
<1>4. Stands'
  BY DEF AskInv, Stands, ShowVerdict, AskFault, Goto, askStored
<1>5. OneCarrier'
  BY DEF AskInv, OneCarrier, ShowVerdict, AskFault, Goto, Carries
<1>6. AnswerAccountedFor'
  BY DEF AskInv, AnswerAccountedFor, ShowVerdict, AskFault, Goto, askStored, askHistory,
      Routing
<1>7. AskCardTrue'
  BY DEF AskInv, AskTypeOK, Stands, AskCardTrue, ShowVerdict, AskFault, Goto, askStored
<1>8. AskIndexExact'
  BY DEF AskInv, AskIndexExact, ShowVerdict, AskFault, Goto, askStored, askHistory, Free
<1> QED BY <1>1, <1>2, <1>3, <1>4, <1>5, <1>6, <1>7, <1>8 DEF AskInv

LEMMA AskCrashKeeps ==
  ASSUME AskInv, AskCrash
  PROVE  AskInv'
<1>1. AskTypeOK'
  BY DEF AskInv, AskTypeOK, AskCrash, AskCalls, About, askStored
<1>2. Roles'
  BY DEF AskInv, Roles, AskCrash
<1>3. Held'
  BY DEF AskInv, Held, AskCrash, AskIndexing, Free
<1>4. Stands'
  BY DEF AskInv, Stands, AskCrash, AskCalls, askStored
<1>5. OneCarrier'
  BY DEF AskInv, OneCarrier, AskCrash, AskCalls, Carries
<1>6. AnswerAccountedFor'
  BY DEF AskInv, AnswerAccountedFor, AskCrash, askStored, Routing
<1>7. AskCardTrue'
  BY DEF AskInv, AskCardTrue, AskCrash, askStored
<1>8. AskIndexExact'
  BY DEF AskInv, AskTypeOK, Held, AskIndexExact, AskCrash, askStored, Free
<1> QED BY <1>1, <1>2, <1>3, <1>4, <1>5, <1>6, <1>7, <1>8 DEF AskInv

LEMMA AskStart == AskInit => AskInv
<1> SUFFICES ASSUME AskInit PROVE AskInv
  OBVIOUS
<1>1. AskTypeOK
  BY Calls DEF AskInit, AskTypeOK
<1>2. Roles
  BY Calls DEF AskInit, Roles
<1>3. Held
  BY Calls DEF AskInit, Held, Free, AskIndexing
<1>4. Stands /\ OneCarrier
  BY Calls DEF AskInit, Stands, OneCarrier, Carries, AskCalls
<1>5. AnswerAccountedFor /\ AskCardTrue /\ AskIndexExact
  BY Calls DEF AskInit, AnswerAccountedFor, AskCardTrue, AskIndexExact, Verdicts
<1> QED BY <1>1, <1>2, <1>3, <1>4, <1>5 DEF AskInv

\* A step in which nothing moves.
LEMMA AskRests == AskInv /\ UNCHANGED askVars => AskInv'
<1> SUFFICES ASSUME AskInv, UNCHANGED askVars PROVE AskInv'
  OBVIOUS
<1> USE DEF AskInv, askVars, askStored, askCallVars, askHistory, askCounts
<1>1. AskTypeOK'
  BY DEF AskTypeOK
<1>2. Roles'
  BY DEF Roles
<1>3. Held'
  BY DEF Held, Free, About
<1>4. Stands' /\ OneCarrier'
  BY DEF Stands, OneCarrier, Carries
<1>5. AnswerAccountedFor' /\ AskCardTrue' /\ AskIndexExact'
  BY DEF AnswerAccountedFor, Routing, AskCardTrue, AskIndexExact, Free
<1> QED BY <1>1, <1>2, <1>3, <1>4, <1>5

LEMMA AskStep == AskInv /\ [AskNext]_askVars => AskInv'
<1> SUFFICES ASSUME AskInv, [AskNext]_askVars PROVE AskInv'
  OBVIOUS
<1>1. CASE \E q \in Questions : Decline(q) \/ PostAskCard(q) \/ CreateAsk(q)
  BY <1>1, DeclineKeeps, PostAskCardKeeps, CreateAskKeeps
<1>2. CASE \E c \in AskClicks : ClickAsk(c) \/ AnswerAsk(c) \/ WakeAgent(c)
  BY <1>2, ClickAskKeeps, AnswerAskKeeps, WakeAgentKeeps
<1>3. CASE \E k \in Cancels : StartCancel(k) \/ CancelAsk(k)
  BY <1>3, StartCancelKeeps, CancelAskKeeps
<1>4. CASE \E p \in AskCalls : WriteAskIndex(p) \/ AskIndexRejects(p) \/ AskEntryRejects(p)
  BY <1>4, WriteAskIndexKeeps, AskIndexRejectsKeeps, AskEntryRejectsKeeps
<1>5. CASE \E p \in AskClicks \cup Cancels : ShowVerdict(p)
  BY <1>5, ShowVerdictKeeps
<1>6. CASE AskCrash
  BY <1>6, AskCrashKeeps
<1>7. CASE UNCHANGED askVars
  BY <1>7, AskRests
<1> QED BY <1>1, <1>2, <1>3, <1>4, <1>5, <1>6, <1>7 DEF AskNext

-----------------------------------------------------------------------------
(* The theorems.                                                            *)

\* The inductive invariant: type correctness, who holds which lock, and that what
\* a call has written stands until it goes on.
THEOREM AsksInductive == AskSpec => []AskInv
BY AskStart, AskStep, PTL DEF AskSpec

\* The agent is woken once, by an answer; one that reaches nobody is accounted for
\* (ask-store's first answer wins; the wake-up in worker.ts).
THEOREM AnswersReachAgents == AskSpec => []AnswerAccountedFor
<1>1. AskInv => AnswerAccountedFor
  BY DEF AskInv
<1> QED BY AsksInductive, <1>1, PTL

\* No ask's card shows another verdict than the store's (the card is updated after
\* the lock was given back).
THEOREM AskCardsAreTrue == AskSpec => []AskCardTrue
<1>1. AskInv => AskCardTrue
  BY DEF AskInv
<1> QED BY AsksInductive, <1>1, PTL

\* The index of open asks loses no update (the index's lock inside an ask's).
THEOREM AskIndexIsExact == AskSpec => []AskIndexExact
<1>1. AskInv => AskIndexExact
  BY DEF AskInv
<1> QED BY AsksInductive, <1>1, PTL

-----------------------------------------------------------------------------
(* The agents' posts in channels.                                           *)

-----------------------------------------------------------------------------
(* The inductive invariant.                                                 *)

Writing == {"createIndex", "record", "closing", "closeIndex"}

\* Who makes which steps.
PostRoles == \A c \in PostCalls :
  /\ postAt[c] \in {"create", "createIndex"} => c \in Posts
  /\ postAt[c] \in {"submit", "record"} => c \in Submits
  /\ postAt[c] \in {"close", "closing", "closeIndex", "closeCard", "report"} => c \in Readers

\* A call that is about to write holds its post's lock.
PostHeld == \A c \in PostCalls : postAt[c] \in Writing => postLock[PostAbout(c)] = c

\* An entry is written back as it was read.
Current ==
  /\ \A c \in Submits \cup Readers : postAt[c] \in {"record", "closing"} =>
       reads[c] = post[postOn[c]] /\ post[postOn[c]].status = "open"
  /\ \A r \in Readers : postAt[r] \in {"closeIndex", "closeCard"} =>
       reads[r] = post[postOn[r]] /\ post[postOn[r]].status = "closed"
  /\ \A r \in Readers : postAt[r] = "report" =>
       reads[r].status = "open" \/ (reads[r] = post[postOn[r]] /\ reads[r].status = "closed")

\* An entry is empty until its post is created, and holds recorded answers only.
Entries ==
  /\ \A p \in Posts : postAt[p] \in {"idle", "create"} => post[p] = Unrecorded
  /\ \A p \in Posts : post[p].status = "none" => post[p].answers = NoAnswers
  /\ \A s \in recorded : postAt[s] = "done"
  /\ \A s \in recorded : post[postOn[s]].status # "none"

\* Only read of what exists.
ReadsExist == \A r \in Readers : postAt[r] \in {"close", "closing", "closeIndex", "closeCard", "report"} =>
   reads[r].status # "none"

\* A reader has no report before it is done.
Unreported == \A r \in Readers : report[r].found => postAt[r] = "done"

\* A reader that closes has read the post as open.
Closing == \A r \in Readers : postAt[r] = "close" => reads[r].status = "open"

PostInv == /\ PostTypeOK /\ PostRoles /\ PostHeld /\ Current /\ Entries /\ ReadsExist /\ Closing
           /\ Unreported /\ ReportFinal /\ AnswersKept

LEMMA PostConstants ==
  /\ Posts # {} /\ People # {} /\ Authors # {}
  /\ \A p \in Posts : p \notin Submits /\ p \notin Readers
  /\ \A s \in Submits : s \notin Readers
  /\ NoCall \notin PostCalls /\ NoAnswer \notin Submits
  /\ Posts \subseteq PostCalls /\ Submits \subseteq PostCalls /\ Readers \subseteq PostCalls
BY PostAssumption DEF PostCalls

LEMMA EntryShapes ==
  /\ NoAnswers \in Answers /\ \A x \in People : NoAnswers[x] = NoAnswer
  /\ [status |-> "open", answers |-> NoAnswers] \in PostEntry
  /\ \A e \in PostEntry : /\ e.status \in {"none", "open", "closed"} /\ e.answers \in Answers
                          /\ [e EXCEPT !.status = "closed"] \in PostEntry
                          /\ [e EXCEPT !.status = "closed"].status = "closed"
                          /\ [e EXCEPT !.status = "closed"].answers = e.answers
BY DEF PostEntry, Answers, NoAnswers

\* An entry with one more answer.
LEMMA AnswerShape ==
  ASSUME NEW e \in PostEntry, NEW x \in People, NEW s \in Submits
  PROVE  /\ [e EXCEPT !.answers[x] = s] \in PostEntry
         /\ [e EXCEPT !.answers[x] = s].status = e.status
         /\ [e EXCEPT !.answers[x] = s].answers = [e.answers EXCEPT ![x] = s]
BY DEF PostEntry, Answers

\* The report of an entry.
ReportOf(e) == [found |-> TRUE, collecting |-> e.status = "open", answers |-> e.answers]

LEMMA ReportShape ==
  ASSUME NEW e \in PostEntry
  PROVE  /\ ReportOf(e) \in PostReport /\ ReportOf(e).found
         /\ ReportOf(e).answers = e.answers
         /\ ReportOf(e).collecting <=> e.status = "open"
<1>1. e.answers \in Answers /\ (e.status = "open") \in BOOLEAN
  BY DEF PostEntry
<1> QED BY <1>1, Zenon DEF PostReport, ReportOf

LEMMA PostNothingKeeps ==
  ASSUME PostInv, NEW p \in Posts, PostNothing(p)
  PROVE  PostInv'
<1>1. PostTypeOK'
  BY DEF PostInv, PostTypeOK, PostNothing, PostGoto, postStored
<1>2. PostRoles'
  BY DEF PostInv, PostRoles, PostNothing, PostGoto
<1>3. PostHeld'
  BY DEF PostInv, PostHeld, PostNothing, PostGoto, Writing, PostAbout
<1>4. Current'
  BY DEF PostInv, Current, PostNothing, PostGoto, postStored
<1>5. Entries'
  BY DEF PostInv, Entries, PostNothing, PostGoto, postStored
<1>6. ReadsExist'
  BY DEF PostInv, ReadsExist, PostNothing, PostGoto
<1>7. Closing'
  BY DEF PostInv, Closing, PostNothing, PostGoto
<1>8. Unreported'
  BY DEF PostInv, Unreported, PostNothing, PostGoto
<1>9. ReportFinal'
  BY DEF PostInv, ReportFinal, PostNothing, PostGoto, postStored
<1>10. AnswersKept'
  BY DEF PostInv, AnswersKept, PostNothing, PostGoto, postStored
<1> QED BY <1>1, <1>2, <1>3, <1>4, <1>5, <1>6, <1>7, <1>8, <1>9, <1>10 DEF PostInv

LEMMA PostPromptKeeps ==
  ASSUME PostInv, NEW p \in Posts, PostPrompt(p)
  PROVE  PostInv'
<1>1. PostTypeOK'
  BY DEF PostInv, PostTypeOK, PostPrompt, PostGoto, PostFault, postStored
<1>2. PostRoles'
  BY DEF PostInv, PostTypeOK, PostRoles, PostPrompt, PostGoto, PostFault
<1>3. PostHeld'
  BY DEF PostInv, PostTypeOK, PostHeld, PostPrompt, PostGoto, PostFault, Writing, PostAbout
<1>4. Current'
  BY DEF PostInv, PostTypeOK, Current, PostPrompt, PostGoto, PostFault, postStored,
      PostCalls
<1>5. Entries'
  BY DEF PostInv, PostTypeOK, Entries, PostPrompt, PostGoto, PostFault, postStored,
      PostCalls
<1>6. ReadsExist'
  BY DEF PostInv, PostTypeOK, ReadsExist, PostPrompt, PostGoto, PostFault, PostCalls
<1>7. Closing'
  BY DEF PostInv, PostTypeOK, Closing, PostPrompt, PostGoto, PostFault, PostCalls
<1>8. Unreported'
  BY DEF PostInv, PostTypeOK, Unreported, PostPrompt, PostGoto, PostFault, PostCalls
<1>9. ReportFinal'
  BY DEF PostInv, ReportFinal, PostPrompt, PostGoto, PostFault, postStored
<1>10. AnswersKept'
  BY DEF PostInv, AnswersKept, PostPrompt, PostGoto, PostFault, postStored
<1> QED BY <1>1, <1>2, <1>3, <1>4, <1>5, <1>6, <1>7, <1>8, <1>9, <1>10 DEF PostInv

LEMMA CreatePostKeeps ==
  ASSUME PostInv, NEW p \in Posts, CreatePost(p)
  PROVE  PostInv'
<1>1. PostTypeOK'
  <2>1. post' \in [Posts -> PostEntry]
    BY EntryShapes DEF PostInv, PostTypeOK, CreatePost
  <2>2. author' \in [Posts -> Authors]
    BY DEF PostInv, PostTypeOK, CreatePost
  <2>3. postLock' \in [Posts -> PostCalls \cup {NoCall}] /\ postAt'[p] = "createIndex"
    BY PostConstants DEF PostInv, PostTypeOK, CreatePost, Lock, PostAbout, PostGoto
  <2> QED BY <2>1, <2>2, <2>3 DEF PostInv, PostTypeOK, CreatePost, PostGoto
<1>2. PostRoles'
  BY DEF PostInv, PostRoles, CreatePost, Lock, PostGoto, PostAbout
<1>3. PostHeld'
  BY PostConstants DEF PostInv, PostTypeOK, PostHeld, CreatePost, Lock, PostGoto, PostAbout
<1>4. Current'
  BY DEF PostInv, Current, Entries, CreatePost, Lock, PostGoto, Unrecorded, PostAbout
<1>5. Entries'
  BY DEF PostInv, PostTypeOK, Entries, CreatePost, Lock, PostGoto, PostCalls, PostAbout
<1>6. ReadsExist'
  BY DEF PostInv, ReadsExist, CreatePost, Lock, PostGoto, PostAbout
<1>7. Closing'
  BY DEF PostInv, Closing, CreatePost, Lock, PostGoto, PostAbout
<1>8. Unreported'
  BY DEF PostInv, Unreported, CreatePost, Lock, PostGoto, PostAbout
<1>9. ReportFinal'
  BY DEF PostInv, Entries, ReportFinal, CreatePost, Lock, PostGoto, Unrecorded, PostAbout
<1>10. AnswersKept'
  BY DEF PostInv, Entries, AnswersKept, CreatePost, Lock, PostGoto, Unrecorded, PostAbout
<1> QED BY <1>1, <1>2, <1>3, <1>4, <1>5, <1>6, <1>7, <1>8, <1>9, <1>10 DEF PostInv

LEMMA ListPostKeeps ==
  ASSUME PostInv, NEW p \in Posts, ListPost(p)
  PROVE  PostInv'
<1>1. PostTypeOK'
  BY DEF PostInv, PostTypeOK, ListPost, Unlock, PostGoto, PostAbout
<1>2. PostRoles'
  BY DEF PostInv, PostRoles, ListPost, Unlock, PostGoto, PostAbout
<1>3. PostHeld'
  BY DEF PostInv, PostTypeOK, PostHeld, ListPost, Unlock, PostGoto, PostCalls, Writing,
      PostAbout
<1>4. Current'
  BY DEF PostInv, Current, ListPost, Unlock, PostGoto, PostAbout
<1>5. Entries'
  BY DEF PostInv, Entries, ListPost, Unlock, PostGoto, PostAbout
<1>6. ReadsExist'
  BY DEF PostInv, ReadsExist, ListPost, Unlock, PostGoto, PostAbout
<1>7. Closing'
  BY DEF PostInv, Closing, ListPost, Unlock, PostGoto, PostAbout
<1>8. Unreported'
  BY DEF PostInv, Unreported, ListPost, Unlock, PostGoto, PostAbout
<1>9. ReportFinal'
  BY DEF PostInv, ReportFinal, ListPost, Unlock, PostGoto, PostAbout
<1>10. AnswersKept'
  BY DEF PostInv, AnswersKept, ListPost, Unlock, PostGoto, PostAbout
<1> QED BY <1>1, <1>2, <1>3, <1>4, <1>5, <1>6, <1>7, <1>8, <1>9, <1>10 DEF PostInv

LEMMA SubmitAnswerKeeps ==
  ASSUME PostInv, NEW s \in Submits, SubmitAnswer(s)
  PROVE  PostInv'
<1>1. PostTypeOK'
  BY DEF PostInv, PostTypeOK, SubmitAnswer, PostGoto, postStored, PostCalls
<1>2. PostRoles'
  BY DEF PostInv, PostRoles, SubmitAnswer, PostGoto
<1>3. PostHeld'
  BY DEF PostInv, PostHeld, SubmitAnswer, PostGoto, Writing, PostAbout
<1>4. Current'
  BY DEF PostInv, Current, SubmitAnswer, PostGoto, postStored
<1>5. Entries'
  BY DEF PostInv, Entries, SubmitAnswer, PostGoto, postStored
<1>6. ReadsExist'
  BY DEF PostInv, ReadsExist, SubmitAnswer, PostGoto
<1>7. Closing'
  BY DEF PostInv, Closing, SubmitAnswer, PostGoto
<1>8. Unreported'
  BY DEF PostInv, Unreported, SubmitAnswer, PostGoto
<1>9. ReportFinal'
  BY PostConstants DEF PostInv, ReportFinal, SubmitAnswer, PostGoto, postStored
<1>10. AnswersKept'
  BY DEF PostInv, Entries, AnswersKept, SubmitAnswer, PostGoto, postStored
<1> QED BY <1>1, <1>2, <1>3, <1>4, <1>5, <1>6, <1>7, <1>8, <1>9, <1>10 DEF PostInv

LEMMA ReadForSubmitKeeps ==
  ASSUME PostInv, NEW s \in Submits, ReadForSubmit(s)
  PROVE  PostInv'
<1>1. PostTypeOK'
  BY DEF PostInv, PostTypeOK, ReadForSubmit, Lock, PostGoto, postStored, PostCalls,
      PostAbout
<1>2. PostRoles'
  BY DEF PostInv, PostTypeOK, PostRoles, ReadForSubmit, Lock, PostGoto, PostAbout
<1>3. PostHeld'
  BY PostConstants DEF PostInv, PostTypeOK, PostHeld, ReadForSubmit, Lock, PostGoto,
      PostCalls, Writing, PostAbout
<1>4. Current'
  BY DEF PostInv, PostTypeOK, Current, ReadForSubmit, Lock, PostGoto, postStored, PostCalls,
      PostAbout
<1>5. Entries'
  BY DEF PostInv, PostTypeOK, Entries, ReadForSubmit, Lock, PostGoto, postStored, PostCalls,
      PostAbout
<1>6. ReadsExist'
  BY DEF PostInv, PostTypeOK, ReadsExist, ReadForSubmit, Lock, PostGoto, PostCalls,
      PostAbout
<1>7. Closing'
  BY DEF PostInv, PostTypeOK, Closing, ReadForSubmit, Lock, PostGoto, PostCalls, PostAbout
<1>8. Unreported'
  BY DEF PostInv, PostTypeOK, Unreported, ReadForSubmit, Lock, PostGoto, PostCalls,
      PostAbout
<1>9. ReportFinal'
  BY DEF PostInv, ReportFinal, ReadForSubmit, Lock, PostGoto, postStored, PostAbout
<1>10. AnswersKept'
  BY DEF PostInv, AnswersKept, ReadForSubmit, Lock, PostGoto, postStored, PostAbout
<1> QED BY <1>1, <1>2, <1>3, <1>4, <1>5, <1>6, <1>7, <1>8, <1>9, <1>10 DEF PostInv

LEMMA RecordAnswerKeeps ==
  ASSUME PostInv, NEW s \in Submits, RecordAnswer(s)
  PROVE  PostInv'
<1>1. PostTypeOK'
  <2>1. postOn[s] \in Posts /\ by[s] \in People /\ reads[s] \in PostEntry /\ s \notin Posts
    BY PostConstants DEF PostInv, PostTypeOK
  <2>2. post' \in [Posts -> PostEntry]
    BY <2>1, AnswerShape DEF PostInv, PostTypeOK, RecordAnswer
  <2>3. postLock' \in [Posts -> PostCalls \cup {NoCall}]
    BY <2>1 DEF PostInv, PostTypeOK, RecordAnswer, Unlock, PostAbout
  <2> QED BY <2>2, <2>3, PostConstants DEF PostInv, PostTypeOK, RecordAnswer, PostGoto
<1>2. PostRoles'
  BY DEF PostInv, PostRoles, RecordAnswer, Unlock, PostGoto, PostAbout
<1>3. PostHeld'
  BY DEF PostInv, PostTypeOK, PostHeld, RecordAnswer, Unlock, PostGoto, PostCalls, Writing,
      PostAbout
<1>4. Current'
  BY PostConstants DEF PostInv, PostTypeOK, PostHeld, Current, RecordAnswer, Unlock,
      PostGoto, Writing, PostAbout
<1>5. Entries'
  BY DEF PostInv, PostTypeOK, Current, Entries, RecordAnswer, Unlock, PostGoto, PostCalls,
      Unrecorded, PostAbout
<1>6. ReadsExist'
  BY DEF PostInv, ReadsExist, RecordAnswer, Unlock, PostGoto, PostAbout
<1>7. Closing'
  BY DEF PostInv, Closing, RecordAnswer, Unlock, PostGoto, PostAbout
<1>8. Unreported'
  BY DEF PostInv, Unreported, RecordAnswer, Unlock, PostGoto, PostAbout
<1>9. ReportFinal'
  BY DEF PostInv, Current, ReportFinal, RecordAnswer, Unlock, PostGoto, PostAbout
<1>10. AnswersKept'
  <2> DEFINE p == postOn[s]
  <2>1. /\ p \in Posts /\ by[s] \in People /\ reads[s] = post[p] /\ post[p] \in PostEntry
        /\ s \notin recorded
    BY DEF PostInv, PostTypeOK, Current, Entries, RecordAnswer
  <2>2. /\ post'[p].answers = [post[p].answers EXCEPT ![by[s]] = s]
        /\ \A o \in Posts : o # p => post'[o] = post[o]
    BY <2>1, AnswerShape DEF PostInv, PostTypeOK, RecordAnswer
  <2>3. \A x \in People : post'[p].answers[x] = IF x = by[s] THEN s ELSE post[p].answers[x]
    BY <2>1, <2>2 DEF PostEntry, Answers
  <2>4. recorded' = recorded \cup {s} /\ postOn' = postOn /\ by' = by
    BY DEF RecordAnswer
  <2>5. \A q \in recorded : q \in Submits /\ by[q] \in People /\ postOn[q] \in Posts
    BY DEF PostInv, PostTypeOK
  <2>6. \A q \in recorded : LET kept == post[postOn[q]].answers[by[q]]
                            IN  kept \in recorded /\ by[kept] = by[q]
    BY DEF PostInv, AnswersKept
  <2> HIDE DEF p
  <2>7. ASSUME NEW q \in recorded'
        PROVE  LET kept == post'[postOn[q]].answers[by[q]]
               IN  kept \in recorded' /\ by[kept] = by[q]
    <3>1. CASE postOn[q] = p /\ by[q] = by[s]
      BY <2>1, <2>3, <2>4, <2>5, <3>1
    <3>2. CASE q # s /\ postOn[q] = p /\ by[q] # by[s]
      BY <2>3, <2>4, <2>5, <2>6, <3>2
    <3>3. CASE q # s /\ postOn[q] # p
      BY <2>2, <2>4, <2>5, <2>6, <3>3
    <3> QED BY <3>1, <3>2, <3>3 DEF p
  <2> QED BY <2>4, <2>7 DEF AnswersKept
<1> QED BY <1>1, <1>2, <1>3, <1>4, <1>5, <1>6, <1>7, <1>8, <1>9, <1>10 DEF PostInv

LEMMA ReadPostKeeps ==
  ASSUME PostInv, NEW r \in Readers, ReadPost(r)
  PROVE  PostInv'
<1>1. PostTypeOK'
  BY DEF PostInv, PostTypeOK, ReadPost, PostGoto, postStored, PostCalls
<1>2. PostRoles'
  BY DEF PostInv, PostRoles, ReadPost, PostGoto
<1>3. PostHeld'
  BY DEF PostInv, PostHeld, ReadPost, PostGoto, Writing, PostAbout
<1>4. Current'
  <2>1. \A c \in Submits \cup Readers : c # r =>
          postAt'[c] = postAt[c] /\ reads'[c] = reads[c] /\ postOn'[c] = postOn[c]
    BY PostConstants DEF PostInv, PostTypeOK, ReadPost, PostGoto
  <2>2. postOn'[r] \in Posts /\ reads'[r] = post[postOn'[r]]
    BY DEF PostInv, PostTypeOK, ReadPost
  <2>3. postAt'[r] \in {"done", "close", "report"}
    BY PostConstants DEF PostInv, PostTypeOK, ReadPost, PostGoto
  <2>4. postAt'[r] = "report" => reads'[r].status # "none"
    BY <2>2, PostConstants DEF PostInv, PostTypeOK, ReadPost, PostGoto
  <2>5. reads'[r].status \in {"none", "open", "closed"}
    BY <2>2, EntryShapes DEF PostInv, PostTypeOK
  <2>6. post' = post
    BY DEF ReadPost, postStored
  <2> QED BY <2>1, <2>2, <2>3, <2>4, <2>5, <2>6, PostConstants DEF PostInv, Current
<1>5. Entries'
  BY DEF PostInv, Entries, ReadPost, PostGoto, postStored
<1>6. ReadsExist'
  BY DEF PostInv, PostTypeOK, ReadsExist, ReadPost, PostGoto
<1>7. Closing'
  BY DEF PostInv, PostTypeOK, Closing, ReadPost, PostGoto
<1>8. Unreported'
  BY DEF PostInv, Unreported, ReadPost, PostGoto
<1>9. ReportFinal'
  <2>1. \A s \in Readers : report[s].found => s # r
    BY DEF PostInv, Unreported, ReadPost
  <2>2. \A s \in Readers : s # r => postOn'[s] = postOn[s]
    BY DEF PostInv, PostTypeOK, ReadPost
  <2>3. report' = report /\ post' = post
    BY DEF ReadPost, postStored
  <2> QED BY <2>1, <2>2, <2>3 DEF PostInv, ReportFinal
<1>10. AnswersKept'
  BY PostConstants DEF PostInv, PostTypeOK, AnswersKept, ReadPost, PostGoto, postStored
<1> QED BY <1>1, <1>2, <1>3, <1>4, <1>5, <1>6, <1>7, <1>8, <1>9, <1>10 DEF PostInv

LEMMA ReadForCloseKeeps ==
  ASSUME PostInv, NEW r \in Readers, ReadForClose(r)
  PROVE  PostInv'
<1>1. PostTypeOK'
  BY DEF PostInv, PostTypeOK, ReadForClose, Lock, PostGoto, postStored, PostCalls, PostAbout
<1>2. PostRoles'
  BY DEF PostInv, PostTypeOK, PostRoles, ReadForClose, Lock, PostGoto, PostAbout
<1>3. PostHeld'
  BY PostConstants DEF PostInv, PostTypeOK, PostHeld, ReadForClose, Lock, PostGoto,
      PostCalls, Writing, PostAbout
<1>4. Current'
  <2>1. \A c \in Submits \cup Readers : c # r => postAt'[c] = postAt[c] /\ reads'[c] = reads[c]
    BY PostConstants DEF PostInv, PostTypeOK, ReadForClose, PostGoto
  <2>2. post' = post /\ postOn' = postOn /\ postOn[r] \in Posts
    BY DEF PostInv, PostTypeOK, ReadForClose, postStored
  <2>3. CASE post[postOn[r]].status = "open"
    <3>1. postAt'[r] = "closing" /\ reads'[r] = post[postOn[r]]
      BY <2>3, PostConstants DEF PostInv, PostTypeOK, ReadForClose, PostGoto
    <3> QED BY <2>1, <2>2, <2>3, <3>1, PostConstants DEF PostInv, Current
  <2>4. CASE post[postOn[r]].status # "open"
    <3>1. postAt'[r] = "report" /\ reads'[r] = reads[r]
      BY <2>4, PostConstants DEF PostInv, PostTypeOK, ReadForClose, PostGoto
    <3>2. reads[r].status = "open" \/ (reads[r] = post[postOn[r]] /\ reads[r].status = "closed")
      BY <2>4 DEF PostInv, Closing, ReadForClose
    <3> QED BY <2>1, <2>2, <3>1, <3>2, PostConstants DEF PostInv, Current
  <2> QED BY <2>3, <2>4
<1>5. Entries'
  BY DEF PostInv, PostTypeOK, Entries, ReadForClose, Lock, PostGoto, postStored, PostCalls,
      PostAbout
<1>6. ReadsExist'
  BY DEF PostInv, PostTypeOK, ReadsExist, ReadForClose, Lock, PostGoto, PostCalls, PostAbout
<1>7. Closing'
  BY DEF PostInv, PostTypeOK, Closing, ReadForClose, Lock, PostGoto, PostCalls, PostAbout
<1>8. Unreported'
  BY DEF PostInv, PostTypeOK, Unreported, ReadForClose, Lock, PostGoto, PostCalls, PostAbout
<1>9. ReportFinal'
  BY DEF PostInv, ReportFinal, ReadForClose, Lock, PostGoto, postStored, PostAbout
<1>10. AnswersKept'
  BY DEF PostInv, AnswersKept, ReadForClose, Lock, PostGoto, postStored, PostAbout
<1> QED BY <1>1, <1>2, <1>3, <1>4, <1>5, <1>6, <1>7, <1>8, <1>9, <1>10 DEF PostInv

LEMMA WriteClosedKeeps ==
  ASSUME PostInv, NEW r \in Readers, WriteClosed(r)
  PROVE  PostInv'
<1>1. PostTypeOK'
  <2>1. reads[r] \in PostEntry
    BY DEF PostInv, PostTypeOK
  <2>2. post' \in [Posts -> PostEntry]
    BY <2>1, EntryShapes DEF PostInv, PostTypeOK, WriteClosed
  <2>3. reads' \in [Submits \cup Readers -> PostEntry]
    BY <2>1, EntryShapes DEF PostInv, PostTypeOK, WriteClosed
  <2> QED BY <2>2, <2>3, PostConstants DEF PostInv, PostTypeOK, WriteClosed, PostGoto
<1>2. PostRoles'
  BY DEF PostInv, PostRoles, WriteClosed, PostGoto
<1>3. PostHeld'
  BY DEF PostInv, PostHeld, WriteClosed, PostGoto, Writing, PostAbout
<1>4. Current'
  BY PostConstants DEF PostInv, PostTypeOK, PostHeld, Current, WriteClosed, PostGoto,
      Writing, PostAbout
<1>5. Entries'
  BY DEF PostInv, Current, Entries, WriteClosed, PostGoto, Unrecorded
<1>6. ReadsExist'
  BY DEF PostInv, ReadsExist, WriteClosed, PostGoto
<1>7. Closing'
  BY DEF PostInv, Closing, WriteClosed, PostGoto
<1>8. Unreported'
  BY DEF PostInv, Unreported, WriteClosed, PostGoto
<1>9. ReportFinal'
  BY DEF PostInv, Current, ReportFinal, WriteClosed, PostGoto
<1>10. AnswersKept'
  BY DEF PostInv, Current, AnswersKept, WriteClosed, PostGoto
<1> QED BY <1>1, <1>2, <1>3, <1>4, <1>5, <1>6, <1>7, <1>8, <1>9, <1>10 DEF PostInv

LEMMA DelistPostKeeps ==
  ASSUME PostInv, NEW r \in Readers, DelistPost(r)
  PROVE  PostInv'
<1>1. PostTypeOK'
  BY DEF PostInv, PostTypeOK, DelistPost, Unlock, PostGoto, PostAbout
<1>2. PostRoles'
  BY DEF PostInv, PostRoles, DelistPost, Unlock, PostGoto, PostAbout
<1>3. PostHeld'
  BY DEF PostInv, PostTypeOK, PostHeld, DelistPost, Unlock, PostGoto, PostCalls, Writing,
      PostAbout
<1>4. Current'
  BY DEF PostInv, Current, DelistPost, Unlock, PostGoto, PostAbout
<1>5. Entries'
  BY DEF PostInv, Entries, DelistPost, Unlock, PostGoto, PostAbout
<1>6. ReadsExist'
  BY DEF PostInv, ReadsExist, DelistPost, Unlock, PostGoto, PostAbout
<1>7. Closing'
  BY DEF PostInv, Closing, DelistPost, Unlock, PostGoto, PostAbout
<1>8. Unreported'
  BY DEF PostInv, Unreported, DelistPost, Unlock, PostGoto, PostAbout
<1>9. ReportFinal'
  BY DEF PostInv, ReportFinal, DelistPost, Unlock, PostGoto, PostAbout
<1>10. AnswersKept'
  BY DEF PostInv, AnswersKept, DelistPost, Unlock, PostGoto, PostAbout
<1> QED BY <1>1, <1>2, <1>3, <1>4, <1>5, <1>6, <1>7, <1>8, <1>9, <1>10 DEF PostInv

LEMMA CloseCardKeeps ==
  ASSUME PostInv, NEW r \in Readers, CloseCard(r)
  PROVE  PostInv'
<1>1. PostTypeOK'
  BY DEF PostInv, PostTypeOK, CloseCard, PostGoto, PostFault, postStored, PostCalls
<1>2. PostRoles'
  BY DEF PostInv, PostRoles, CloseCard, PostGoto, PostFault
<1>3. PostHeld'
  BY DEF PostInv, PostHeld, CloseCard, PostGoto, PostFault, Writing, PostAbout
<1>4. Current'
  BY DEF PostInv, Current, CloseCard, PostGoto, PostFault, postStored
<1>5. Entries'
  BY DEF PostInv, Entries, CloseCard, PostGoto, PostFault, postStored
<1>6. ReadsExist'
  BY DEF PostInv, ReadsExist, CloseCard, PostGoto, PostFault
<1>7. Closing'
  BY DEF PostInv, Closing, CloseCard, PostGoto, PostFault
<1>8. Unreported'
  BY DEF PostInv, Unreported, CloseCard, PostGoto, PostFault
<1>9. ReportFinal'
  BY DEF PostInv, ReportFinal, CloseCard, PostGoto, PostFault, postStored
<1>10. AnswersKept'
  BY DEF PostInv, AnswersKept, CloseCard, PostGoto, PostFault, postStored
<1> QED BY <1>1, <1>2, <1>3, <1>4, <1>5, <1>6, <1>7, <1>8, <1>9, <1>10 DEF PostInv

LEMMA ReportAnswersKeeps ==
  ASSUME PostInv, NEW r \in Readers, ReportAnswers(r)
  PROVE  PostInv'
<1>1. PostTypeOK'
  <2>1. report' = [report EXCEPT ![r] = ReportOf(reads[r])] /\ reads[r] \in PostEntry
    BY DEF PostInv, PostTypeOK, ReportAnswers, ReportOf
  <2>2. report' \in [Readers -> PostReport]
    BY <2>1, ReportShape DEF PostInv, PostTypeOK
  <2>3. /\ UNCHANGED <<post, openPosts, author, prompt, postLock, postOn, by, reads, recorded, postFaults>>
        /\ postAt' = [postAt EXCEPT ![r] = "done"]
    BY DEF ReportAnswers, postStored, PostGoto
  <2> QED BY <2>2, <2>3, PostConstants DEF PostInv, PostTypeOK
<1>2. PostRoles'
  BY DEF PostInv, PostRoles, ReportAnswers, PostGoto
<1>3. PostHeld'
  BY DEF PostInv, PostHeld, ReportAnswers, PostGoto, Writing, PostAbout
<1>4. Current'
  BY DEF PostInv, Current, ReportAnswers, PostGoto, postStored
<1>5. Entries'
  BY DEF PostInv, Entries, ReportAnswers, PostGoto, postStored
<1>6. ReadsExist'
  BY DEF PostInv, ReadsExist, ReportAnswers, PostGoto
<1>7. Closing'
  BY DEF PostInv, Closing, ReportAnswers, PostGoto
<1>8. Unreported'
  <2>1. \A s \in Readers : s # r => report'[s] = report[s] /\ postAt'[s] = postAt[s]
    BY PostConstants DEF PostInv, PostTypeOK, ReportAnswers, PostGoto
  <2>2. postAt'[r] = "done"
    BY PostConstants DEF PostInv, PostTypeOK, ReportAnswers, PostGoto
  <2> QED BY <2>1, <2>2 DEF PostInv, Unreported
<1>9. ReportFinal'
  <2>1. /\ report' = [report EXCEPT ![r] = ReportOf(reads[r])] /\ reads[r] \in PostEntry
        /\ postAt[r] = "report" /\ report \in [Readers -> PostReport]
        /\ post' = post /\ postOn' = postOn
    BY DEF PostInv, PostTypeOK, ReportAnswers, ReportOf, postStored
  <2>2. /\ report'[r].collecting <=> reads[r].status = "open"
        /\ report'[r].answers = reads[r].answers
    BY <2>1, ReportShape
  <2>3. reads[r].status = "open" \/ (reads[r] = post[postOn[r]] /\ reads[r].status = "closed")
    BY <2>1 DEF PostInv, Current
  <2>4. \A s \in Readers : s # r => report'[s] = report[s]
    BY <2>1
  <2>5. \A s \in Readers \ {r} : report[s].found =>
          \/ report[s].collecting
          \/ post[postOn[s]].status = "closed" /\ report[s].answers = post[postOn[s]].answers
    BY DEF PostInv, ReportFinal
  <2> QED BY <2>1, <2>2, <2>3, <2>4, <2>5, Zenon DEF ReportFinal
<1>10. AnswersKept'
  BY DEF PostInv, AnswersKept, ReportAnswers, PostGoto, postStored
<1> QED BY <1>1, <1>2, <1>3, <1>4, <1>5, <1>6, <1>7, <1>8, <1>9, <1>10 DEF PostInv

LEMMA PostWriteRejectsKeeps ==
  ASSUME PostInv, NEW c \in PostCalls, PostWriteRejects(c)
  PROVE  PostInv'
<1>1. PostTypeOK'
  BY DEF PostInv, PostTypeOK, PostWriteRejects, PostFault, Unlock, PostGoto, postStored,
      PostCalls, PostAbout
<1>2. PostRoles'
  BY DEF PostInv, PostRoles, PostWriteRejects, PostFault, Unlock, PostGoto, PostAbout
<1>3. PostHeld'
  BY DEF PostInv, PostTypeOK, PostHeld, PostWriteRejects, PostFault, Unlock, PostGoto,
      Writing, PostAbout
<1>4. Current'
  BY DEF PostInv, Current, PostWriteRejects, PostFault, Unlock, PostGoto, postStored,
      PostAbout
<1>5. Entries'
  BY DEF PostInv, Entries, PostWriteRejects, PostFault, Unlock, PostGoto, postStored,
      PostAbout
<1>6. ReadsExist'
  BY DEF PostInv, ReadsExist, PostWriteRejects, PostFault, Unlock, PostGoto, PostAbout
<1>7. Closing'
  BY DEF PostInv, Closing, PostWriteRejects, PostFault, Unlock, PostGoto, PostAbout
<1>8. Unreported'
  BY DEF PostInv, Unreported, PostWriteRejects, PostFault, Unlock, PostGoto, PostAbout
<1>9. ReportFinal'
  BY DEF PostInv, ReportFinal, PostWriteRejects, PostFault, Unlock, PostGoto, postStored,
      PostAbout
<1>10. AnswersKept'
  BY DEF PostInv, AnswersKept, PostWriteRejects, PostFault, Unlock, PostGoto, postStored,
      PostAbout
<1> QED BY <1>1, <1>2, <1>3, <1>4, <1>5, <1>6, <1>7, <1>8, <1>9, <1>10 DEF PostInv

LEMMA PostStart == PostInit => PostInv
<1> SUFFICES ASSUME PostInit PROVE PostInv
  OBVIOUS
<1>1. \A c \in PostCalls : postAt[c] = "idle"
  BY DEF PostInit
<1>2. Unrecorded \in PostEntry /\ Unrecorded.status = "none" /\ Unrecorded.answers = NoAnswers
  BY EntryShapes DEF PostEntry, Unrecorded
<1>3. NoReport \in PostReport /\ ~NoReport.found
  BY DEF PostReport, NoReport
<1>4. PostTypeOK
  BY <1>2, <1>3, PostConstants DEF PostInit, PostTypeOK
<1>5. \A r \in Readers : ~report[r].found
  BY <1>3 DEF PostInit
<1>6. PostRoles /\ PostHeld /\ Current /\ ReadsExist /\ Closing
  BY <1>1, PostConstants DEF PostRoles, PostHeld, Current, ReadsExist, Closing, Writing
<1>7. Entries
  BY <1>2 DEF PostInit, Entries
<1>8. Unreported /\ ReportFinal /\ AnswersKept
  BY <1>5 DEF PostInit, Unreported, ReportFinal, AnswersKept
<1> QED BY <1>4, <1>6, <1>7, <1>8 DEF PostInv

\* A step in which nothing moves.
LEMMA PostRests == PostInv /\ UNCHANGED postVars => PostInv'
<1> SUFFICES ASSUME PostInv, UNCHANGED postVars PROVE PostInv'
  OBVIOUS
<1> USE DEF PostInv, postVars, postStored, postCallVars
<1>1. PostTypeOK'
  BY DEF PostTypeOK
<1>2. PostRoles' /\ PostHeld'
  BY DEF PostRoles, PostHeld, PostAbout
<1>3. Current' /\ Entries' /\ ReadsExist' /\ Closing'
  BY DEF Current, Entries, ReadsExist, Closing
<1>4. Unreported' /\ ReportFinal' /\ AnswersKept'
  BY DEF Unreported, ReportFinal, AnswersKept
<1> QED BY <1>1, <1>2, <1>3, <1>4

LEMMA PostStep == PostInv /\ [PostNext]_postVars => PostInv'
<1> SUFFICES ASSUME PostInv, [PostNext]_postVars PROVE PostInv'
  OBVIOUS
<1>1. CASE \E p \in Posts : PostNothing(p) \/ PostPrompt(p) \/ CreatePost(p) \/ ListPost(p)
  BY <1>1, PostNothingKeeps, PostPromptKeeps, CreatePostKeeps, ListPostKeeps
<1>2. CASE \E s \in Submits : SubmitAnswer(s) \/ ReadForSubmit(s) \/ RecordAnswer(s)
  BY <1>2, SubmitAnswerKeeps, ReadForSubmitKeeps, RecordAnswerKeeps
<1>3. CASE \E r \in Readers : \/ ReadPost(r) \/ ReadForClose(r) \/ WriteClosed(r)
                              \/ DelistPost(r) \/ CloseCard(r) \/ ReportAnswers(r)
  BY <1>3, ReadPostKeeps, ReadForCloseKeeps, WriteClosedKeeps,
     DelistPostKeeps, CloseCardKeeps, ReportAnswersKeeps
<1>4. CASE \E c \in PostCalls : PostWriteRejects(c)
  BY <1>4, PostWriteRejectsKeeps
<1>5. CASE UNCHANGED postVars
  BY <1>5, PostRests
<1> QED BY <1>1, <1>2, <1>3, <1>4, <1>5 DEF PostNext

-----------------------------------------------------------------------------
(* The theorems.                                                            *)

\* The inductive invariant: an entry is written back as it was read, under the
\* post's lock, but for the answer or the status that is being written.
THEOREM PostsInductive == PostSpec => []PostInv
BY PostStart, PostStep, PTL DEF PostSpec

\* The report that closes a collection has all answers there will ever be, and no
\* accepted answer is overwritten by another person's (channel-store's lock).
THEOREM PostsAreKept == PostSpec => []PostsKept
<1>1. PostInv => PostsKept
  BY DEF PostInv, PostsKept
<1> QED BY PostsInductive, <1>1, PTL
==============================================================================
