---------------------------- MODULE ApprovalCards ----------------------------
(***************************************************************************)
(* Interactive approvals: the bot posts a card with Approve and Reject and *)
(* remembers where it is; a click or a text command relays the decision to *)
(* Paperclip, which may also take it elsewhere; approval.decided refreshes *)
(* the card that is remembered.                                            *)
(*                                                                         *)
(* A reference is one key of the state store, written without a lock.      *)
(* Handlers interleave at their awaits; the host may deliver the events    *)
(* of one approval in any order.  A call to Teams that fails may have      *)
(* taken effect.  A handler keeps nothing that another one reads, so a     *)
(* crash of the worker is the failure of all running handlers at once.     *)
(***************************************************************************)
EXTENDS Naturals, FiniteSets

CONSTANTS
  Approvals,          \* approvals created in Paperclip
  Clicks,             \* clicks on a card, and approve commands
  Refreshes,          \* deliveries of approval.decided
  MaxRevisions,       \* bound: approvals sent back for revision
  MaxApprovalFaults   \* bound: calls to Paperclip, Teams or the store that fail

ASSUME ApprovalAssumption ==
  /\ Approvals # {}
  /\ {MaxRevisions, MaxApprovalFaults} \subseteq Nat

Verbs == {"approve", "reject"}
Undecided == "pending"

-----------------------------------------------------------------------------
VARIABLES
  decision,     \* Paperclip: the decision on an approval
  decided,      \* Paperclip: approval.decided events still to be delivered
  shown,        \* Teams: what an approval's card shows
  strays,       \* Teams: approvals with an error card beside their own
  ref,          \* state store: the approvals whose card is remembered
  posting,      \* where the approval.created handler of an approval is
  click,        \* what a click's handler knows
  refresh,      \* what an approval.decided handler knows
  missed,       \* history: approvals whose card may stay behind, see Settled
  misread,      \* history: approvals whose decision a click may not have been told
  revisions, approvalFaults

approvalVars ==
  <<decision, decided, shown, strays, ref, posting, click, refresh, missed, misread,
    revisions, approvalFaults>>

\* A card offers its actions while it is pending or shows an error.
Actionable == {"pending", "error"}

Click == [at: {"idle", "decide", "lookUp", "show", "forget", "done"},
          on: Approvals, verb: Verbs, command: BOOLEAN,
          ok: BOOLEAN]

Refresh == [at: {"idle", "lookUp", "status", "show", "forget", "done"},
            on: Approvals, verb: Verbs]

ApprovalTypeOK ==
  /\ decision \in [Approvals -> Verbs \cup {Undecided}]
  /\ decided \in [Approvals -> Nat]
  /\ shown \in [Approvals -> Verbs \cup Actionable \cup {"absent"}]
  /\ strays \subseteq Approvals /\ ref \subseteq Approvals
  /\ posting \in [Approvals -> {"idle", "send", "remember", "done"}]
  /\ click \in [Clicks -> Click]
  /\ refresh \in [Refreshes -> Refresh]
  /\ missed \subseteq Approvals /\ misread \subseteq Approvals
  /\ {revisions, approvalFaults} \subseteq Nat

ApprovalInit ==
  /\ decision = [a \in Approvals |-> Undecided]
  /\ decided = [a \in Approvals |-> 0]
  /\ shown = [a \in Approvals |-> "absent"]
  /\ strays = {} /\ ref = {}
  /\ posting = [a \in Approvals |-> "idle"]
  /\ LET some == CHOOSE a \in Approvals : TRUE
     IN  /\ click = [c \in Clicks |-> [at |-> "idle", on |-> some, verb |-> "approve",
                                       command |-> FALSE, ok |-> FALSE]]
         /\ refresh = [r \in Refreshes |-> [at |-> "idle", on |-> some, verb |-> "approve"]]
  /\ missed = {} /\ misread = {}
  /\ revisions = 0 /\ approvalFaults = 0

Fault ==
  /\ approvalFaults < MaxApprovalFaults
  /\ approvalFaults' = approvalFaults + 1

-----------------------------------------------------------------------------
(* approval.created: postApprovalCard().                                    *)

\* Interactive approvals are off, the conversation is unknown, or nothing is sent.
SkipCard(a) ==
  /\ posting[a] \in {"idle", "send"}
  /\ posting' = [posting EXCEPT ![a] = "done"]
  /\ UNCHANGED <<decision, decided, shown, strays, ref, click, refresh, missed, misread, revisions, approvalFaults>>

FindConversation(a) ==
  /\ posting[a] = "idle"
  /\ posting' = [posting EXCEPT ![a] = "send"]
  /\ UNCHANGED <<decision, decided, shown, strays, ref, click, refresh, missed, misread, revisions, approvalFaults>>

SendCard(a) ==
  /\ posting[a] = "send"
  /\ shown' = [shown EXCEPT ![a] = "pending"]
  /\ posting' = [posting EXCEPT ![a] = "remember"]
  /\ UNCHANGED <<decision, decided, strays, ref, click, refresh, missed, misread, revisions, approvalFaults>>

\* The card is in Teams, but continueConversation() rejects or no id comes back:
\* it can be clicked, and is never remembered.
LoseSend(a) ==
  /\ posting[a] = "send" /\ Fault
  /\ shown' = [shown EXCEPT ![a] = "pending"]
  /\ posting' = [posting EXCEPT ![a] = "done"]
  /\ missed' = missed \cup {a}
  /\ UNCHANGED <<decision, decided, strays, ref, click, refresh, misread, revisions>>

\* The card is in Teams and only now findable, unless the store rejects.
RememberCard(a) ==
  /\ posting[a] = "remember"
  /\ posting' = [posting EXCEPT ![a] = "done"]
  /\ \/ ref' = ref \cup {a} /\ UNCHANGED <<missed, approvalFaults>>
     \/ Fault /\ missed' = missed \cup {a} /\ UNCHANGED ref
  /\ UNCHANGED <<decision, decided, shown, strays, click, refresh, misread, revisions>>

Post(a) ==
  SkipCard(a) \/ FindConversation(a) \/ SendCard(a) \/ LoseSend(a) \/ RememberCard(a)

-----------------------------------------------------------------------------
(* Paperclip.                                                               *)

\* The first decision stands and is announced once.
Record(a, v) ==
  IF decision[a] = Undecided
    THEN /\ decision' = [decision EXCEPT ![a] = v]
         /\ decided' = [decided EXCEPT ![a] = @ + 1]
    ELSE UNCHANGED <<decision, decided>>

DecideElsewhere(a, v) ==
  /\ decision[a] = Undecided
  /\ Record(a, v)
  /\ UNCHANGED <<shown, strays, ref, posting, click, refresh, missed, misread, revisions, approvalFaults>>

\* A request for revision is announced by the same event and decides nothing.
AskForRevision(a) ==
  /\ decision[a] = Undecided /\ revisions < MaxRevisions
  /\ revisions' = revisions + 1
  /\ decided' = [decided EXCEPT ![a] = @ + 1]
  /\ UNCHANGED <<decision, shown, strays, ref, posting, click, refresh, missed, misread, approvalFaults>>

-----------------------------------------------------------------------------
(* A click: handleApprovalSubmit(); a command: dispatchCommand().           *)

StartClick(c) ==
  /\ click[c].at = "idle"
  /\ \E a \in Approvals, v \in Verbs, command \in BOOLEAN :
       /\ IF command THEN v = "approve" ELSE shown[a] \in Actionable \/ a \in strays
       /\ click' = [click EXCEPT ![c].at = "decide", ![c].on = a, ![c].verb = v,
                                 ![c].command = command]
  /\ UNCHANGED <<decision, decided, shown, strays, ref, posting, refresh, missed, misread, revisions, approvalFaults>>

\* Seeded fault: the card is given the verb that was clicked.
ClickedVerb(c) == click[c].verb

\* The verb on the record of a successful answer: an earlier decision stands.
OnRecord(c) == decision'[click[c].on]

Answered(c, ok, verb) ==
  click' = [click EXCEPT ![c].ok = ok, ![c].verb = verb,
                         ![c].at = IF click[c].command THEN "done" ELSE "lookUp"]

\* client.decide(): recorded; recorded, and the record in the answer unreadable
\* or the whole answer lost; not carried out; or refused, being decided already.
Decide(c) ==
  LET a == click[c].on
  IN  /\ click[c].at = "decide"
      /\ \/ Record(a, click[c].verb) /\ Answered(c, TRUE, OnRecord(c)) /\ UNCHANGED <<misread, approvalFaults>>
         \/ /\ Record(a, click[c].verb) /\ Fault /\ Answered(c, TRUE, click[c].verb)
            /\ misread' = IF decision'[a] = click[c].verb THEN misread ELSE misread \cup {a}
         \/ Record(a, click[c].verb) /\ Fault /\ Answered(c, FALSE, click[c].verb) /\ UNCHANGED misread
         \/ /\ UNCHANGED <<decision, decided, misread>> /\ Answered(c, FALSE, click[c].verb)
            /\ Fault \/ (decision[a] \in Verbs /\ UNCHANGED approvalFaults)
      /\ UNCHANGED <<shown, strays, ref, posting, refresh, missed, revisions>>

\* store.get(): without a reference a success shows nothing, an error a new card.
LookUpClicked(c) ==
  LET a == click[c].on
  IN  /\ click[c].at = "lookUp"
      /\ click' = [click EXCEPT ![c].at = IF a \in ref THEN "show" ELSE "done"]
      /\ strays' = IF a \notin ref /\ ~click[c].ok THEN strays \cup {a} ELSE strays
      /\ UNCHANGED <<decision, decided, shown, ref, posting, refresh, missed, misread, revisions, approvalFaults>>

\* updateActivity() of the card found an await ago: an error may come after
\* another handler has shown the decision, which nobody shows again.
UpdateClicked(c) ==
  LET a == click[c].on
  IN  /\ shown' = [shown EXCEPT ![a] = IF click[c].ok THEN click[c].verb ELSE "error"]
      /\ missed' = IF ~click[c].ok /\ shown[a] \in Verbs THEN missed \cup {a} ELSE missed

ShowClicked(c) ==
  /\ click[c].at = "show"
  /\ UpdateClicked(c)
  /\ click' = [click EXCEPT ![c].at = IF click[c].ok THEN "forget" ELSE "done"]
  /\ UNCHANGED <<decision, decided, strays, ref, posting, refresh, misread, revisions, approvalFaults>>

ForgetClicked(c) ==
  /\ click[c].at = "forget"
  /\ ref' = ref \ {click[c].on}
  /\ click' = [click EXCEPT ![c].at = "done"]
  /\ UNCHANGED <<decision, decided, shown, strays, posting, refresh, missed, misread, revisions, approvalFaults>>

\* A call of the store or of Teams rejects, and the handler with it; the card may
\* have been updated all the same.
ClickFails(c) ==
  /\ click[c].at \in {"lookUp", "show", "forget"} /\ Fault
  /\ \/ UNCHANGED <<shown, missed>>
     \/ click[c].at = "show" /\ UpdateClicked(c)
  /\ click' = [click EXCEPT ![c].at = "done"]
  /\ UNCHANGED <<decision, decided, strays, ref, posting, refresh, misread, revisions>>

ClickOn(c) ==
  \/ StartClick(c) \/ Decide(c) \/ LookUpClicked(c)
  \/ ShowClicked(c) \/ ForgetClicked(c) \/ ClickFails(c)

-----------------------------------------------------------------------------
(* approval.decided: onApprovalDecided().                                   *)

StartRefresh(r) ==
  /\ refresh[r].at = "idle"
  /\ \E a \in Approvals :
       /\ decided[a] > 0
       /\ decided' = [decided EXCEPT ![a] = @ - 1]
       /\ refresh' = [refresh EXCEPT ![r].at = "lookUp", ![r].on = a]
  /\ UNCHANGED <<decision, shown, strays, ref, posting, click, missed, misread, revisions, approvalFaults>>

\* Seeded fault: the reference is forgotten before the card is updated.
LookUpDecidedForgetting(r) ==
  LET a == refresh[r].on
  IN  /\ refresh[r].at = "lookUp"
      /\ refresh' = [refresh EXCEPT ![r].at = IF a \in ref THEN "status" ELSE "done"]
      /\ ref' = ref \ {a}
      /\ UNCHANGED <<decision, decided, shown, strays, posting, click, missed, misread, revisions, approvalFaults>>

\* No reference: the card was refreshed by a click, is not there, or not yet known.
LookUpDecided(r) ==
  LET a == refresh[r].on
  IN  /\ refresh[r].at = "lookUp"
      /\ refresh' = [refresh EXCEPT ![r].at = IF a \in ref THEN "status" ELSE "done"]
      /\ missed' = IF a \notin ref /\ posting[a] # "done" /\ decision[a] \in Verbs /\ decided[a] = 0
                     THEN missed \cup {a} ELSE missed
      /\ UNCHANGED <<decision, decided, shown, strays, ref, posting, click, misread, revisions, approvalFaults>>

\* client.getStatus(): the outcome, if there is one.
ReadStatus(r) ==
  LET a == refresh[r].on
  IN  /\ refresh[r].at = "status"
      /\ refresh' = IF decision[a] \in Verbs
                      THEN [refresh EXCEPT ![r].at = "show", ![r].verb = decision[a]]
                      ELSE [refresh EXCEPT ![r].at = "done"]
      /\ UNCHANGED <<decision, decided, shown, strays, ref, posting, click, missed, misread, revisions, approvalFaults>>

ShowDecided(r) ==
  /\ refresh[r].at = "show"
  /\ shown' = [shown EXCEPT ![refresh[r].on] = refresh[r].verb]
  /\ refresh' = [refresh EXCEPT ![r].at = "forget"]
  /\ UNCHANGED <<decision, decided, strays, ref, posting, click, missed, misread, revisions, approvalFaults>>

ForgetDecided(r) ==
  /\ refresh[r].at = "forget"
  /\ ref' = ref \ {refresh[r].on}
  /\ refresh' = [refresh EXCEPT ![r].at = "done"]
  /\ UNCHANGED <<decision, decided, shown, strays, posting, click, missed, misread, revisions, approvalFaults>>

\* A call of the store, Paperclip or Teams fails: swallowed, and not repeated;
\* again the card may have been updated.
RefreshFails(r) ==
  LET a == refresh[r].on
  IN  /\ refresh[r].at \in {"lookUp", "status", "show", "forget"} /\ Fault
      /\ refresh' = [refresh EXCEPT ![r].at = "done"]
      /\ \/ /\ missed' = IF refresh[r].at # "forget" /\ decision[a] \in Verbs
                            THEN missed \cup {a} ELSE missed
            /\ UNCHANGED shown
         \/ /\ refresh[r].at = "show"
            /\ shown' = [shown EXCEPT ![a] = refresh[r].verb] /\ UNCHANGED missed
      /\ UNCHANGED <<decision, decided, strays, ref, posting, click, misread, revisions>>

OnDecided(r) ==
  \/ StartRefresh(r) \/ LookUpDecided(r) \/ ReadStatus(r)
  \/ ShowDecided(r) \/ ForgetDecided(r) \/ RefreshFails(r)

ApprovalNext ==
  \/ \E a \in Approvals : Post(a) \/ AskForRevision(a) \/ \E v \in Verbs : DecideElsewhere(a, v)
  \/ \E c \in Clicks : ClickOn(c)
  \/ \E r \in Refreshes : OnDecided(r)

ApprovalSpec == ApprovalInit /\ [][ApprovalNext]_approvalVars
-----------------------------------------------------------------------------
(* Properties.                                                              *)

Busy(a) ==
  \/ posting[a] # "done" \/ decided[a] > 0
  \/ \E c \in Clicks : click[c].on = a /\ click[c].at \notin {"idle", "done"}
  \/ \E r \in Refreshes : refresh[r].on = a /\ refresh[r].at \notin {"idle", "done"}

\* A card that shows a verdict shows Paperclip's, whoever clicked what and whichever
\* handler wrote last (bot.ts:405-450, 628-644), unless a click that came after the
\* opposite decision succeeded without a record it could read (approvals.ts:250).
VerdictTrue ==
  \A a \in Approvals : shown[a] \in Verbs => shown[a] = decision[a] \/ a \in misread

\* When an approval is decided and every handler is done, its own card shows the
\* decision (an error card beside it, for which there was no reference, is never
\* refreshed).  But for `misread`, the exceptions are the windows of `missed`:
\*   - the card is in Teams and never remembered, as its send was not acknowledged,
\*     gave no id, or the store rejected (bot.ts:607-621);
\*   - the last event was handled before the card was remembered (bot.ts:630-631);
\*   - a refresh failed, unless its update had arrived (worker.ts:386-393);
\*   - an error card came after a verdict, acknowledged or not (bot.ts:428-429).
Settled ==
  \A a \in Approvals :
    decision[a] \in Verbs /\ ~Busy(a) =>
      shown[a] \in {decision[a], "absent"} \/ a \in missed \cup misread

\* worker.ts:400-402: an approval decided before its card is posted is refreshed
\* by the approval.decided handler ("self-healing").
SelfHealing ==
  \A a \in Approvals :
    decision[a] \in Verbs /\ ~Busy(a) => shown[a] \in {decision[a], "absent"}

=============================================================================
