--------------------------------- MODULE Asks ---------------------------------
(***************************************************************************)
(* Asks: an agent asks a person a question in a card, the person's first   *)
(* answer is recorded and wakes the agent, and the agent may cancel first. *)
(*                                                                         *)
(* Every call of the store runs under the ask's lock.  Only calls under    *)
(* that lock write the entry, so reading it and writing it is one step     *)
(* here; the open index has a lock of its own, taken inside, and changing  *)
(* it is a second step.  The order in which waiting calls get a lock is    *)
(* left open.                                                              *)
(***************************************************************************)
EXTENDS Naturals, FiniteSets

CONSTANTS
  Questions,      \* calls of the ask_person tool
  AskClicks,      \* submits of an ask card
  Cancels,        \* calls of the cancel_ask tool
  Agents,         \* agents, each with its company
  MaxAskFaults,   \* bound: calls that reject, or take effect and report failure
  MaxAskCrashes   \* bound: worker crashes

AskCalls == Questions \cup AskClicks \cup Cancels
Nobody == "nobody"

ASSUME AskAssumption ==
  /\ Questions # {} /\ Agents # {}
  /\ Questions \cap (AskClicks \cup Cancels) = {} /\ AskClicks \cap Cancels = {}
  /\ Nobody \notin AskCalls
  /\ {MaxAskFaults, MaxAskCrashes} \subseteq Nat

-----------------------------------------------------------------------------
VARIABLES
  ask,         \* status in ask:{id}; "none" when there is no entry
  openAsks,    \* the open index
  asker,       \* the agent that asks
  askCard,     \* Teams: what the person's card shows
  askLock,     \* the call that holds the lock of an ask
  askAt,       \* where each call is
  askOn,       \* the ask a click or a cancellation is about
  woken,       \* how often an answer was carried to the agent
  alarmed,     \* asks whose failed wake-up was logged and counted
  stranded,    \* history: answers a fault or crash kept from the agent
  unindexed,   \* history: asks whose index entry was not written
  askFaults, askCrashes

askStored == <<ask, openAsks, asker>>
askCallVars == <<askLock, askAt, askOn>>
askHistory == <<stranded, unindexed>>
askCounts == <<askFaults, askCrashes>>
askVars == <<askStored, askCard, askCallVars, woken, alarmed, askHistory, askCounts>>

Verdicts == {"answered", "cancelled"}
AskIndexing == {"createIndex", "answerIndex", "cancelIndex"}

AskTypeOK ==
  /\ ask \in [Questions -> {"none", "open"} \cup Verdicts]
  /\ openAsks \subseteq Questions
  /\ asker \in [Questions -> Agents]
  /\ askCard \in [Questions -> {"none", "asking"} \cup Verdicts]
  /\ askLock \in [Questions -> AskCalls \cup {Nobody}]
  /\ askAt \in [AskCalls -> {"idle", "post", "create", "answer", "invoke", "show", "cancel", "done"}
                              \cup AskIndexing]
  /\ askOn \in [AskClicks \cup Cancels -> Questions]
  /\ woken \in [Questions -> Nat]
  /\ alarmed \subseteq Questions /\ stranded \subseteq Questions /\ unindexed \subseteq Questions
  /\ askFaults \in Nat /\ askCrashes \in Nat

AskInit ==
  /\ ask = [q \in Questions |-> "none"] /\ openAsks = {}
  /\ asker = [q \in Questions |-> CHOOSE g \in Agents : TRUE]
  /\ askCard = [q \in Questions |-> "none"]
  /\ askLock = [q \in Questions |-> Nobody]
  /\ askAt = [p \in AskCalls |-> "idle"]
  /\ askOn = [c \in AskClicks \cup Cancels |-> CHOOSE q \in Questions : TRUE]
  /\ woken = [q \in Questions |-> 0]
  /\ alarmed = {} /\ stranded = {} /\ unindexed = {}
  /\ askFaults = 0 /\ askCrashes = 0

-----------------------------------------------------------------------------
(* The store.                                                               *)

Goto(p, at) == askAt' = [askAt EXCEPT ![p] = at]

AskFault == askFaults < MaxAskFaults /\ askFaults' = askFaults + 1 /\ UNCHANGED askCrashes

About(p) == IF p \in Questions THEN p ELSE askOn[p]

\* Seeded fault: the lock keeps nobody out.
AlwaysFree(q) == TRUE

\* withLock(): a call runs when no other call on its ask does.
Free(q) == askLock[q] = Nobody

\* The verdict is written; the lock is kept for the index.
Write(p, status, at) ==
  /\ ask' = [ask EXCEPT ![About(p)] = status]
  /\ askLock' = [askLock EXCEPT ![About(p)] = p]
  /\ Goto(p, at)
  /\ UNCHANGED askOn

\* Seeded fault: whatever its status.
MayAnswerAgain(q) == ask[q] # "none"

\* Only an open ask gets a verdict, and is cancelled only by its owner.
MayAnswer(q) == ask[q] = "open"
MayCancel(q, g) == ask[q] = "open" /\ asker[q] = g

\* mutateIndex(): the ask is listed while open, and only then.
WriteAskIndex(p) ==
  LET q == About(p)
  IN  /\ askAt[p] \in AskIndexing
      /\ openAsks' = IF askAt[p] = "createIndex" THEN openAsks \cup {q} ELSE openAsks \ {q}
      /\ askLock' = [askLock EXCEPT ![q] = Nobody]
      /\ Goto(p, CASE askAt[p] = "createIndex" -> "done"
                   [] askAt[p] = "answerIndex" -> "invoke"
                   [] askAt[p] = "cancelIndex" -> "show")
      /\ UNCHANGED <<ask, asker, askCard, askOn, woken, alarmed, askHistory, askCounts>>

\* The entry is written and the index is not: the call rejects, and an answer
\* reaches neither the agent nor the log of failed wake-ups.
AskIndexRejects(p) ==
  LET q == About(p)
  IN  /\ askAt[p] \in AskIndexing
      /\ AskFault
      /\ askLock' = [askLock EXCEPT ![q] = Nobody] /\ Goto(p, "done")
      /\ unindexed' = unindexed \cup {q}
      /\ stranded' = IF askAt[p] = "answerIndex" THEN stranded \cup {q} ELSE stranded
      /\ UNCHANGED <<askStored, askCard, askOn, woken, alarmed>>

\* The entry cannot be read or written: the call rejects, and nothing has changed.
AskEntryRejects(p) ==
  /\ askAt[p] \in {"create", "answer", "cancel"}
  /\ AskFault /\ Goto(p, "done")
  /\ UNCHANGED <<askStored, askCard, askLock, askOn, woken, alarmed, askHistory>>

-----------------------------------------------------------------------------
(* ask_person: the card first, then the record.                             *)

\* Invalid input, no bot, or nobody reachable: nothing was posted.
Decline(q) ==
  /\ askAt[q] = "idle"
  /\ Goto(q, "done")
  /\ UNCHANGED <<askStored, askCard, askLock, askOn, woken, alarmed, askHistory, askCounts>>

PostAskCard(q) ==
  /\ askAt[q] = "idle"
  /\ askCard' = [askCard EXCEPT ![q] = "asking"]
  /\ \/ Goto(q, "create") /\ UNCHANGED askCounts
     \/ AskFault /\ Goto(q, "done")     \* posted, and reported as failed
  /\ UNCHANGED <<askStored, askLock, askOn, woken, alarmed, askHistory>>

CreateAsk(q) ==
  /\ askAt[q] = "create" /\ Free(q)
  /\ \E g \in Agents : asker' = [asker EXCEPT ![q] = g]
  /\ Write(q, "open", "createIndex")
  /\ UNCHANGED <<openAsks, askCard, woken, alarmed, askHistory, askCounts>>

-----------------------------------------------------------------------------
(* A click: handleAskSubmit() and asks.onSubmit().                          *)

\* The card may be clicked before the ask is recorded, and several times.
ClickAsk(c) ==
  /\ askAt[c] = "idle"
  /\ \E q \in Questions : askCard[q] = "asking" /\ askOn' = [askOn EXCEPT ![c] = q]
  /\ Goto(c, "answer")
  /\ UNCHANGED <<askStored, askCard, askLock, woken, alarmed, askHistory, askCounts>>

\* An ask that is unknown or has its verdict leaves the click without effect.
AnswerAsk(c) ==
  /\ askAt[c] = "answer" /\ Free(askOn[c])
  /\ IF MayAnswer(askOn[c])
       THEN Write(c, "answered", "answerIndex")
       ELSE Goto(c, "done") /\ UNCHANGED <<ask, askLock, askOn>>
  /\ UNCHANGED <<openAsks, asker, askCard, woken, alarmed, askHistory, askCounts>>

\* agents.invoke(): a failure is logged and counted, and not retried.
WakeAgent(c) ==
  LET q == askOn[c]
  IN  /\ askAt[c] = "invoke"
      /\ \/ /\ woken' = [woken EXCEPT ![q] = @ + 1]
            /\ UNCHANGED <<alarmed, askCounts>>
         \/ /\ AskFault /\ alarmed' = alarmed \cup {q}
            /\ \/ UNCHANGED woken
               \/ woken' = [woken EXCEPT ![q] = @ + 1]
      /\ Goto(c, "show")
      /\ UNCHANGED <<askStored, askCard, askLock, askOn, askHistory>>

\* The card is updated, or that fails and is logged.
ShowVerdict(p) ==
  /\ askAt[p] = "show"
  /\ \/ /\ askCard' = [askCard EXCEPT ![askOn[p]] = IF p \in AskClicks THEN "answered" ELSE "cancelled"]
        /\ UNCHANGED askCounts
     \/ AskFault /\ UNCHANGED askCard
  /\ Goto(p, "done")
  /\ UNCHANGED <<askStored, askLock, askOn, woken, alarmed, askHistory>>

-----------------------------------------------------------------------------
(* cancel_ask.                                                              *)

StartCancel(k) ==
  /\ askAt[k] = "idle"
  /\ \E q \in Questions : ask[q] # "none" /\ askOn' = [askOn EXCEPT ![k] = q]
  /\ Goto(k, "cancel")
  /\ UNCHANGED <<askStored, askCard, askLock, woken, alarmed, askHistory, askCounts>>

CancelAsk(k) ==
  /\ askAt[k] = "cancel" /\ Free(askOn[k])
  /\ \E g \in Agents :
       IF MayCancel(askOn[k], g)
         THEN Write(k, "cancelled", "cancelIndex")
         ELSE Goto(k, "done") /\ UNCHANGED <<ask, askLock, askOn>>
  /\ UNCHANGED <<openAsks, asker, askCard, woken, alarmed, askHistory, askCounts>>

-----------------------------------------------------------------------------
\* The worker dies: calls and locks are gone, the store and Teams are not.
AskCrash ==
  /\ askCrashes < MaxAskCrashes /\ askCrashes' = askCrashes + 1
  /\ askLock' = [q \in Questions |-> Nobody]
  /\ askAt' = [p \in AskCalls |-> IF askAt[p] = "idle" THEN "idle" ELSE "done"]
  /\ unindexed' = unindexed \cup {About(p) : p \in {p \in AskCalls : askAt[p] \in AskIndexing}}
  /\ stranded' = stranded \cup {askOn[c] : c \in {c \in AskClicks : askAt[c] \in {"answerIndex", "invoke"}}}
  /\ UNCHANGED <<askStored, askCard, askOn, woken, alarmed, askFaults>>

AskNext ==
  \/ \E q \in Questions : Decline(q) \/ PostAskCard(q) \/ CreateAsk(q)
  \/ \E c \in AskClicks : ClickAsk(c) \/ AnswerAsk(c) \/ WakeAgent(c)
  \/ \E k \in Cancels : StartCancel(k) \/ CancelAsk(k)
  \/ \E p \in AskCalls : WriteAskIndex(p) \/ AskIndexRejects(p) \/ AskEntryRejects(p)
  \/ \E p \in AskClicks \cup Cancels : ShowVerdict(p)
  \/ AskCrash

AskSpec == AskInit /\ [][AskNext]_askVars

-----------------------------------------------------------------------------
(* Properties.                                                              *)

Routing(q) == \E c \in AskClicks : askOn[c] = q /\ askAt[c] \in {"answerIndex", "invoke"}

\* However many people click, and whether or not the ask is cancelled meanwhile,
\* the agent is woken once, with an answer; an answer that is recorded and on its
\* way to nobody has been logged for an operator, or is one a rejected index
\* update or a crash has stranded.
AnswerAccountedFor ==
  \A q \in Questions :
    /\ woken[q] <= 1
    /\ woken[q] = 1 => ask[q] = "answered"
    /\ ask[q] = "answered" => woken[q] = 1 \/ Routing(q) \/ q \in alarmed \cup stranded

\* The card never shows a verdict the store does not have, and a cancelled ask is
\* never shown as answered, whichever of the two handlers updates the card last.
AskCardTrue ==
  \A q \in Questions : askCard[q] \in Verdicts => askCard[q] = ask[q]

\* Between calls the index lists exactly the open asks, except those whose index
\* update a fault or crash prevented.
AskIndexExact ==
  \A q \in Questions \ unindexed : Free(q) => (q \in openAsks <=> ask[q] = "open")

=============================================================================
