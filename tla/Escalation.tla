------------------------------ MODULE Escalation ------------------------------
(***************************************************************************)
(* HITL escalation of the Teams plugin: the escalate_to_human tool, the    *)
(* card click (onSubmit), the timeout sweep, and the escalation store all  *)
(* three call, in one Node worker.  Concurrency is interleaving at `await`:*)
(* every action below runs from one await to the next.                     *)
(*                                                                         *)
(* The store keeps `escalation:{id}` and one `escalation:open-index` in    *)
(* the host's state store.  It serializes calls per id with a chain of     *)
(* promises, and every index read-modify-write with one further chain      *)
(* entered inside the first.  The host's store, the agent host and Teams   *)
(* are external: a call to them may fail, and the worker may crash.        *)
(***************************************************************************)
EXTENDS Naturals, Sequences, FiniteSets

CONSTANTS
  Escalations,      \* escalation ids; each names the tool call that creates it
  Clicks,           \* inbound card clicks, one turn each
  Sweeps,           \* jobs that may run the timeout sweep at the same time
  MaxCrashes,       \* bound: worker crashes
  MaxStoreFaults,   \* bound: state-store calls that reject without effect
  MaxInvokeFaults,  \* bound: agents.invoke calls that reject without effect
  MaxLostAnswers    \* bound, per escalation: invokes that take effect, then reject

ASSUME ConstantsAssumption ==
  /\ Escalations \cap Clicks = {}
  /\ Escalations \cap Sweeps = {}
  /\ Clicks \cap Sweeps = {}
  /\ MaxCrashes \in Nat /\ MaxStoreFaults \in Nat
  /\ MaxInvokeFaults \in Nat /\ MaxLostAnswers \in Nat

ASSUME SweepsAssumption == IsFiniteSet(Sweeps)

Procs == Escalations \cup Clicks \cup Sweeps

Terminal == {"resolved", "dismissed", "timed_out"}

Entry == [status: {"none", "open"} \cup Terminal, deferred: BOOLEAN]

NoEntry == [status |-> "none", deferred |-> FALSE]

\* A store call: its escalation, the method, and for close() the new status.
\* `blank` is the click's: neither the human nor the agent offers a reply text.
Call == [id: Escalations, op: {"create", "close", "reopen", "defer"},
         to: Terminal, blank: BOOLEAN]

-----------------------------------------------------------------------------
VARIABLES
  entry,        \* [Escalations -> Entry]: escalation:{id} in the state store
  index,        \* escalation:open-index in the state store
  card,         \* the Teams card: "none", "live" (has its buttons) or terminal
  overdue,      \* escalations whose age has passed the configured timeout
  idChain,      \* locks[id]: the calls chained on an id, the running one first
  indexChain,   \* locks[INDEX_LOCK_KEY]
  pc,           \* where each process is
  call,         \* the store call it is in, or was in last (NoCall before any)
  snap,         \* the index it has read (mutateIndex), or the sweep's work list
  due,          \* the escalations a sweep has found and not yet acted on
  action,       \* escalationDefaultAction as read by each sweep
  delivered,    \* history: replies agents.invoke has delivered, per escalation
  lost,         \* history: those of them whose invoke nevertheless rejected
  timeouts,     \* history: times the default action was applied and logged
  damaged,      \* history: ids whose index update a fault or crash cut off
  faults        \* how often each external failure has happened

stored   == <<entry, index>>
chains   == <<idChain, indexChain>>
locals   == <<pc, call, snap, due, action>>
teams    == <<card, overdue>>
history  == <<delivered, lost, timeouts, damaged, faults>>
vars     == <<stored, teams, chains, locals, history>>

NoCall == [id |-> "none", op |-> "none", to |-> "none", blank |-> FALSE]

StoreSteps == {"queued", "write", "index", "indexWrite"}
Results    == {"ok", "none", "failed"}

TypeOK ==
  /\ entry \in [Escalations -> Entry]
  /\ index \in SUBSET Escalations
  /\ card \in [Escalations -> {"none", "live"} \cup Terminal]
  /\ overdue \in SUBSET Escalations
  /\ idChain \in [Escalations -> Seq(Procs)]
  /\ indexChain \in Seq(Procs)
  /\ pc \in [Procs -> {"idle", "posted", "render", "reopen", "scan", "act", "done"}
                        \cup StoreSteps \cup Results]
  /\ call \in [Procs -> Call \cup {NoCall}]
  /\ snap \in [Procs -> SUBSET Escalations]
  /\ due \in [Sweeps -> SUBSET Escalations]
  /\ action \in [Sweeps -> {"dismiss", "defer"}]
  /\ delivered \in [Escalations -> Nat]
  /\ lost \in [Escalations -> 0..MaxLostAnswers]
  /\ timeouts \in [Escalations -> Nat]
  /\ damaged \in SUBSET Escalations
  /\ faults \in [{"crash", "store", "invoke"} -> Nat]
  /\ faults.crash <= MaxCrashes
  /\ faults.store <= MaxStoreFaults
  /\ faults.invoke <= MaxInvokeFaults

Init ==
  /\ entry = [e \in Escalations |-> NoEntry]
  /\ index = {}
  /\ card = [e \in Escalations |-> "none"]
  /\ overdue = {}
  /\ idChain = [e \in Escalations |-> <<>>]
  /\ indexChain = <<>>
  /\ pc = [p \in Procs |-> "idle"]
  /\ call = [p \in Procs |-> NoCall]
  /\ snap = [p \in Procs |-> {}]
  /\ due = [s \in Sweeps |-> {}]
  /\ action = [s \in Sweeps |-> "defer"]
  /\ delivered = [e \in Escalations |-> 0]
  /\ lost = [e \in Escalations |-> 0]
  /\ timeouts = [e \in Escalations |-> 0]
  /\ damaged = {}
  /\ faults = [f \in {"crash", "store", "invoke"} |-> 0]

-----------------------------------------------------------------------------
(* The per-id lock.                                                         *)

Id(p) == call[p].id

HoldsId(p) == idChain[Id(p)] # <<>> /\ Head(idChain[Id(p)]) = p

\* Seeded fault: the index is updated without its lock.
UnlockedIndex(p) == TRUE

HoldsIndex(p) == indexChain # <<>> /\ Head(indexChain) = p

\* withLock(id, fn): the call joins the id's chain and runs when it is first.
Enter(p, c) ==
  /\ call' = [call EXCEPT ![p] = c]
  /\ idChain' = [idChain EXCEPT ![c.id] = Append(@, p)]
  /\ pc' = [pc EXCEPT ![p] = "queued"]

\* Seeded fault: a method that returns null keeps the id's lock.
LeaveNullLocked(p, result) ==
  /\ idChain' = IF result = "none" THEN idChain ELSE [idChain EXCEPT ![Id(p)] = Tail(@)]
  /\ pc' = [pc EXCEPT ![p] = result]

\* fn settles: the next call on the id may run, and the caller has its result.
Leave(p, result) ==
  /\ idChain' = [idChain EXCEPT ![Id(p)] = Tail(@)]
  /\ pc' = [pc EXCEPT ![p] = result]

-----------------------------------------------------------------------------
(* The store's methods, one await at a time.                                *)

\* Seeded fault: the status is not checked under the lock.
ProceedsUnchecked(p) == TRUE

\* close() and defer() go on only from "open", reopen() only from a terminal
\* status; create() does not look.
Proceeds(p) ==
  CASE call[p].op = "create" -> TRUE
    [] call[p].op = "reopen" -> entry[Id(p)].status \in Terminal
    [] OTHER                 -> entry[Id(p)].status = "open"

\* close(), reopen() or defer() reads the entry: it goes on or settles.
ReadEntry(p) ==
  /\ pc[p] = "queued" /\ HoldsId(p)
  /\ IF Proceeds(p)
       THEN pc' = [pc EXCEPT ![p] = "write"] /\ UNCHANGED idChain
       ELSE Leave(p, "none")
  /\ UNCHANGED <<stored, indexChain, call, snap, due, action, teams, history>>

\* Seeded fault: reopen() forgets to restore the status.
WrittenStillClosed(c, old) ==
  CASE c.op = "create" -> [status |-> "open", deferred |-> FALSE]
    [] c.op = "close"  -> [old EXCEPT !.status = c.to]
    [] c.op = "reopen" -> old
    [] c.op = "defer"  -> [old EXCEPT !.deferred = TRUE]

Written(c, old) ==
  CASE c.op = "create" -> [status |-> "open", deferred |-> FALSE]
    [] c.op = "close"  -> [old EXCEPT !.status = c.to]
    [] c.op = "reopen" -> [old EXCEPT !.status = "open"]
    [] c.op = "defer"  -> [old EXCEPT !.deferred = TRUE]

\* backend.set of the entry; all but defer() go on to mutateIndex.
WriteEntry(p) ==
  /\ pc[p] = "write"
  /\ entry' = [entry EXCEPT ![Id(p)] = Written(call[p], @)]
  /\ IF call[p].op = "defer"
       THEN Leave(p, "ok") /\ UNCHANGED indexChain
       ELSE /\ pc' = [pc EXCEPT ![p] = "index"]
            /\ indexChain' = Append(indexChain, p)
            /\ UNCHANGED idChain
  /\ UNCHANGED <<index, call, snap, due, action, teams, history>>

ReadIndex(p) ==
  /\ pc[p] = "index" /\ HoldsIndex(p)
  /\ snap' = [snap EXCEPT ![p] = index]
  /\ pc' = [pc EXCEPT ![p] = "indexWrite"]
  /\ UNCHANGED <<stored, chains, call, due, action, teams, history>>

\* Seeded fault: reopen() does not list the id again.
TransformedOnce(c, ids) == IF c.op = "create" THEN ids \cup {c.id} ELSE ids \ {c.id}

Transformed(c, ids) == IF c.op = "close" THEN ids \ {c.id} ELSE ids \cup {c.id}

WriteIndex(p) ==
  /\ pc[p] = "indexWrite"
  /\ index' = Transformed(call[p], snap[p])
  /\ indexChain' = Tail(indexChain)
  /\ snap' = [snap EXCEPT ![p] = {}]
  /\ Leave(p, "ok")
  /\ UNCHANGED <<entry, call, due, action, teams, history>>

\* A get or set of the running method rejects, and so does the method.  After
\* the entry was written this leaves the index behind.
StoreRejects(p) ==
  /\ faults.store < MaxStoreFaults
  /\ \/ /\ pc[p] = "queued" /\ HoldsId(p) /\ call[p].op # "create"
        /\ UNCHANGED <<indexChain, damaged>>
     \/ pc[p] = "write" /\ UNCHANGED <<indexChain, damaged>>
     \/ /\ (pc[p] = "index" /\ HoldsIndex(p)) \/ pc[p] = "indexWrite"
        /\ indexChain' = Tail(indexChain)
        /\ damaged' = damaged \cup {Id(p)}
  /\ Leave(p, "failed")
  /\ faults' = [faults EXCEPT !.store = @ + 1]
  /\ UNCHANGED <<stored, call, snap, due, action, teams, delivered, lost, timeouts>>

StoreStep(p) == ReadEntry(p) \/ WriteEntry(p) \/ ReadIndex(p) \/ WriteIndex(p)

-----------------------------------------------------------------------------
(* The escalate_to_human tool: the card is posted first, then the record is *)
(* created with its reference.                                              *)

PostEscalationCard(e) ==
  /\ pc[e] = "idle"
  /\ \/ card' = [card EXCEPT ![e] = "live"] /\ pc' = [pc EXCEPT ![e] = "posted"]
     \* the post fails, or Teams shows the card and the answer is lost
     \/ \E shown \in {"none", "live"} :
          card' = [card EXCEPT ![e] = shown] /\ pc' = [pc EXCEPT ![e] = "done"]
  /\ UNCHANGED <<stored, chains, call, snap, due, action, overdue, history>>

CreateRecord(e) ==
  /\ pc[e] = "posted"
  /\ Enter(e, [id |-> e, op |-> "create", to |-> "resolved", blank |-> FALSE])
  /\ UNCHANGED <<stored, indexChain, snap, due, action, teams, history>>

\* createdAtMs is set before the post, so the age may pass the timeout any time
\* after.
TimePasses(e) ==
  /\ pc[e] # "idle" /\ e \notin overdue
  /\ overdue' = overdue \cup {e}
  /\ UNCHANGED <<stored, chains, locals, card, history>>

-----------------------------------------------------------------------------
(* A card click: close() claims the escalation, then the reply is sent.     *)

Submit(c) ==
  /\ pc[c] = "idle"
  /\ \E e \in Escalations, to \in {"resolved", "dismissed"}, blank \in BOOLEAN :
       /\ card[e] = "live"
       /\ to = "dismissed" => ~blank
       /\ Enter(c, [id |-> e, op |-> "close", to |-> to, blank |-> blank])
  /\ UNCHANGED <<stored, indexChain, snap, due, action, teams, history>>

Claimed(c) == pc[c] = "ok" /\ call[c].op = "close"

\* agents.invoke with the reply: it answers, rejects, or its answer is lost.
Invoke(c) ==
  /\ Claimed(c) /\ call[c].to = "resolved" /\ ~call[c].blank
  /\ \/ /\ delivered' = [delivered EXCEPT ![Id(c)] = @ + 1]
        /\ pc' = [pc EXCEPT ![c] = "render"]
        /\ UNCHANGED <<lost, faults>>
     \/ /\ faults.invoke < MaxInvokeFaults
        /\ faults' = [faults EXCEPT !.invoke = @ + 1]
        /\ pc' = [pc EXCEPT ![c] = "reopen"]
        /\ UNCHANGED <<delivered, lost>>
     \/ /\ lost[Id(c)] < MaxLostAnswers
        /\ lost' = [lost EXCEPT ![Id(c)] = @ + 1]
        /\ delivered' = [delivered EXCEPT ![Id(c)] = @ + 1]
        /\ pc' = [pc EXCEPT ![c] = "reopen"]
        /\ UNCHANGED faults
  /\ UNCHANGED <<stored, chains, call, snap, due, action, teams, timeouts, damaged>>

\* Nothing to send, or the invoke rejected (both after auditReopen): reopen().
Reopen(c) ==
  /\ pc[c] = "reopen" \/ (Claimed(c) /\ call[c].blank)
  /\ Enter(c, [call[c] EXCEPT !.op = "reopen"])
  /\ UNCHANGED <<stored, indexChain, snap, due, action, teams, history>>

\* The card takes its final form, or the update fails and is logged.
UpdateCard(c) ==
  /\ pc[c] = "render" \/ (Claimed(c) /\ call[c].to = "dismissed")
  /\ pc' = [pc EXCEPT ![c] = "done"]
  /\ \E shown \in {card[Id(c)], call[c].to} : card' = [card EXCEPT ![Id(c)] = shown]
  /\ UNCHANGED <<stored, chains, call, snap, due, action, overdue, history>>

ClickStep(c) == Invoke(c) \/ Reopen(c) \/ UpdateCard(c)

-----------------------------------------------------------------------------
(* The timeout sweep (a cron job).                                          *)

\* Reads the config, then listOpen() reads the index without a lock.
StartSweep(s) ==
  /\ pc[s] = "idle"
  /\ \E a \in {"dismiss", "defer"} : action' = [action EXCEPT ![s] = a]
  /\ snap' = [snap EXCEPT ![s] = index]
  /\ due' = [due EXCEPT ![s] = {}]
  /\ pc' = [pc EXCEPT ![s] = "scan"]
  /\ UNCHANGED <<stored, chains, call, teams, history>>

\* Seeded fault: deferred escalations expire again.
ExpiresAgain(e) == entry[e].status = "open"

Expires(e) == entry[e].status = "open" /\ ~entry[e].deferred

\* One of listOpen()'s concurrent reads comes back.
ReadOpen(s) ==
  /\ pc[s] = "scan"
  /\ \E e \in snap[s] :
       /\ snap' = [snap EXCEPT ![s] = @ \ {e}]
       /\ due' = [due EXCEPT ![s] = IF Expires(e) THEN @ \cup {e} ELSE @]
  /\ UNCHANGED <<stored, chains, pc, call, action, teams, history>>

\* All reads are back: expiredEscalations() keeps the records past the timeout.
FilterExpired(s) ==
  /\ pc[s] = "scan" /\ snap[s] = {}
  /\ due' = [due EXCEPT ![s] = @ \cap overdue]
  /\ pc' = [pc EXCEPT ![s] = "act"]
  /\ UNCHANGED <<stored, chains, call, snap, action, teams, history>>

ApplyDefault(s) ==
  /\ pc[s] = "act"
  /\ \E e \in due[s] :
       /\ due' = [due EXCEPT ![s] = @ \ {e}]
       /\ Enter(s, [id |-> e, op |-> IF action[s] = "dismiss" THEN "close" ELSE "defer",
                    to |-> "timed_out", blank |-> FALSE])
  /\ UNCHANGED <<stored, indexChain, snap, action, teams, history>>

\* Seeded fault: the card is dismissed whether or not close() returned the entry.
AfterDefaultAlways(s) ==
  /\ pc[s] \in {"ok", "none"}
  /\ card' = IF call[s].op = "close" THEN [card EXCEPT ![Id(s)] = "timed_out"] ELSE card
  /\ timeouts' = [timeouts EXCEPT ![Id(s)] = @ + 1]
  /\ pc' = [pc EXCEPT ![s] = "act"]
  /\ UNCHANGED <<stored, chains, call, snap, due, action, overdue, delivered,
                 lost, damaged, faults>>

\* After close() or defer(): nothing for null, else the card and the audit log.
AfterDefault(s) ==
  /\ \/ /\ pc[s] = "none" /\ UNCHANGED <<card, timeouts>>
     \/ /\ pc[s] = "ok"
        /\ timeouts' = [timeouts EXCEPT ![Id(s)] = @ + 1]
        /\ \/ UNCHANGED card
           \/ call[s].op = "close" /\ card' = [card EXCEPT ![Id(s)] = "timed_out"]
  /\ pc' = [pc EXCEPT ![s] = "act"]
  /\ UNCHANGED <<stored, chains, call, snap, due, action, overdue, delivered,
                 lost, damaged, faults>>

\* The loop is done, or a store call rejected and the job with it.
EndSweep(s) ==
  /\ (pc[s] = "act" /\ due[s] = {}) \/ pc[s] = "failed"
  /\ pc' = [pc EXCEPT ![s] = "idle"]
  /\ due' = [due EXCEPT ![s] = {}]
  /\ call' = [call EXCEPT ![s] = NoCall]
  /\ UNCHANGED <<stored, chains, snap, action, teams, history>>

\* listOpen() rejects, and the job with it.
ScanRejects(s) ==
  /\ pc[s] = "scan" /\ faults.store < MaxStoreFaults
  /\ faults' = [faults EXCEPT !.store = @ + 1]
  /\ pc' = [pc EXCEPT ![s] = "idle"]
  /\ snap' = [snap EXCEPT ![s] = {}]
  /\ due' = [due EXCEPT ![s] = {}]
  /\ UNCHANGED <<stored, chains, call, action, teams, delivered, lost, timeouts, damaged>>

SweepStep(s) ==
  \/ StartSweep(s) \/ ReadOpen(s) \/ FilterExpired(s)
  \/ ApplyDefault(s) \/ AfterDefault(s) \/ EndSweep(s)

-----------------------------------------------------------------------------
\* The worker dies: what is in memory is gone, the state store and the cards
\* stay.  The host starts the next sweep in a new worker; turns are not retried.
Crash ==
  /\ faults.crash < MaxCrashes
  /\ faults' = [faults EXCEPT !.crash = @ + 1]
  /\ damaged' = damaged \cup {Id(p) : p \in {q \in Procs : pc[q] \in {"index", "indexWrite"}}}
  /\ pc' = [p \in Procs |-> IF p \in Sweeps \/ pc[p] = "idle" THEN "idle" ELSE "done"]
  /\ call' = [p \in Procs |-> NoCall]
  /\ idChain' = [e \in Escalations |-> <<>>]
  /\ indexChain' = <<>>
  /\ snap' = [p \in Procs |-> {}]
  /\ due' = [s \in Sweeps |-> {}]
  /\ UNCHANGED <<stored, action, teams, delivered, lost, timeouts>>

Next ==
  \/ \E e \in Escalations : PostEscalationCard(e) \/ CreateRecord(e) \/ TimePasses(e)
  \/ \E c \in Clicks : Submit(c) \/ ClickStep(c)
  \/ \E s \in Sweeps : SweepStep(s) \/ ScanRejects(s)
  \/ \E p \in Procs : StoreStep(p) \/ StoreRejects(p)
  \/ Crash

Spec == Init /\ [][Next]_vars

\* The worker keeps running what it has started, and the host starts the sweep
\* again and again; humans, failures and crashes owe nothing.
Fairness ==
  /\ \A e \in Escalations : WF_vars(CreateRecord(e))
  /\ \A c \in Clicks : WF_vars(ClickStep(c))
  /\ \A s \in Sweeps : WF_vars(SweepStep(s))
  /\ \A p \in Procs : WF_vars(StoreStep(p))

FairSpec == Spec /\ Fairness

-----------------------------------------------------------------------------
(* Safety.                                                                  *)

\* A reply-back takes effect once, plus once for each invoke whose answer was
\* lost and whose escalation was therefore reopened: two clicks, or a click and
\* the sweep, never both get through close() (escalation-store.ts, close).
ReplyOnce == \A e \in Escalations : delivered[e] <= 1 + lost[e]

\* A card that shows an outcome shows the one the store holds, for ever: no
\* reopen or later close undoes what a human has been told (handleEscalation-
\* Submit, and the sweep's card update).
CardTruth == \A e \in Escalations : card[e] \in Terminal => entry[e].status = card[e]

UpdatingIndex(e) == \E p \in Procs : pc[p] \in {"index", "indexWrite"} /\ Id(p) = e

\* Concurrent calls on different ids lose no index update: unless a fault or a
\* crash cut a call off, the index lists exactly the open escalations whenever
\* the id's own call is not between its two writes (mutateIndex).
IndexExact == \A e \in Escalations \ damaged :
  ~UpdatingIndex(e) => (e \in index <=> entry[e].status = "open")

Answering(e) == \E c \in Clicks :
  /\ call[c] # NoCall /\ Id(c) = e
  /\ pc[c] \in StoreSteps \cup {"render", "reopen"} \/ Claimed(c)

\* The turn of a click that a store call broke off: onSubmit throws.
Threw(e) == \E c \in Clicks : pc[c] = "failed" /\ Id(c) = e

\* As long as the worker stays up, an escalation that stays resolved has had its
\* reply delivered: a failed invoke or an empty reply leaves it open for a retry
\* (onSubmit's two reopen branches).  A call of the store that rejects in its own
\* close() or reopen() excuses it, nothing else does.
ReplyNotLost == \A e \in Escalations :
  /\ faults.crash = 0
  /\ entry[e].status = "resolved"
  /\ ~Answering(e) /\ ~Threw(e)
  => delivered[e] >= 1

\* The default action is applied and logged at most once by each sweep that may
\* run at the same time: a deferred or closed escalation is not processed again
\* on later ticks (expiredEscalations, close, defer).
DefaultOnce == \A e \in Escalations : timeouts[e] <= Cardinality(Sweeps)

-----------------------------------------------------------------------------
(* The inductive invariant behind them.                                     *)

Calling == StoreSteps \cup Results \cup {"render", "reopen"}

\* Who makes which calls.
Roles == \A p \in Procs : pc[p] \in Calling =>
  /\ call[p] \in Call
  /\ p \in Escalations => /\ call[p].op = "create" /\ Id(p) = p
                          /\ pc[p] \notin {"render", "reopen"}
  /\ p \in Clicks => /\ call[p].op \in {"close", "reopen"}
                     /\ call[p].to \in {"resolved", "dismissed"}
                     /\ call[p].blank \/ call[p].op = "reopen" => call[p].to = "resolved"
                     /\ pc[p] \in {"render", "reopen"} => call[p].op = "close" /\ call[p].to = "resolved"
  /\ p \in Sweeps => /\ call[p].op \in {"close", "defer"} /\ call[p].to = "timed_out"
                     /\ pc[p] \notin {"render", "reopen"}

\* The locks exclude.
Locked == \A p \in Procs :
  /\ pc[p] \in {"write", "index", "indexWrite"} => HoldsId(p)
  /\ pc[p] = "indexWrite" => HoldsIndex(p) /\ snap[p] = index

\* A record is written for the first time by its own tool call.
Fresh == \A e \in Escalations :
  pc[e] \in {"idle", "posted", "queued", "write"} => entry[e].status = "none"

\* What close() and defer() read is still so when they write.
SawOpen == \A p \in Procs :
  pc[p] = "write" /\ call[p].op \in {"close", "defer"} => entry[Id(p)].status = "open"

\* Between the two writes the entry is as the call left it; close() to a final
\* status leaves it so for good.
Wrote == \A p \in Procs :
  /\ pc[p] \in {"index", "indexWrite"} =>
       /\ call[p].op # "defer"
       /\ entry[Id(p)].status = IF call[p].op = "close" THEN call[p].to ELSE "open"
  /\ pc[p] = "ok" /\ call[p].op = "close" /\ call[p].to # "resolved" =>
       entry[Id(p)].status = call[p].to

\* A click that has closed an escalation to send its reply, and not sent it.
Claimant(c) ==
  /\ call[c].to = "resolved"
  /\ \/ call[c].op = "close" /\ pc[c] \in {"index", "indexWrite", "ok", "reopen"}
     \/ call[c].op = "reopen" /\ pc[c] \in {"queued", "write"}

\* It is the only one, and no acknowledged reply precedes it.
Claims == \A c \in Clicks : Claimant(c) =>
  /\ entry[Id(c)].status = "resolved"
  /\ delivered[Id(c)] = lost[Id(c)]
  /\ \A d \in Clicks : Claimant(d) /\ Id(d) = Id(c) => d = c

\* A reply that was acknowledged leaves the escalation resolved.
Counts == \A e \in Escalations :
  /\ delivered[e] \in {lost[e], lost[e] + 1}
  /\ delivered[e] # lost[e] => entry[e].status = "resolved"

\* What is, or is about to be, shown is the final outcome.
Outcomes ==
  /\ \A e \in Escalations : card[e] \in Terminal =>
       /\ entry[e].status = card[e]
       /\ card[e] = "resolved" => delivered[e] # lost[e]
  /\ \A c \in Clicks : pc[c] = "render" => delivered[Id(c)] # lost[Id(c)]

IInv == /\ TypeOK /\ Roles /\ Locked
        /\ Fresh /\ SawOpen /\ Wrote /\ Claims /\ Counts /\ Outcomes
        /\ IndexExact

-----------------------------------------------------------------------------
(* Refinement.                                                              *)

\* A resolved escalation is claimed until a reply to it is acknowledged.
Life(e) ==
  CASE entry[e].status = "resolved" /\ delivered[e] = lost[e] -> "claimed"
    [] entry[e].status = "resolved" /\ delivered[e] # lost[e] -> "replied"
    [] OTHER -> entry[e].status

Ledger == INSTANCE EscalationLedger WITH life <- [e \in Escalations |-> Life(e)]

\* The tool, the clicks, the sweep and the store together implement the ledger.
ImplementsLedger == Ledger!Spec

-----------------------------------------------------------------------------
(* Liveness.                                                                *)

\* No store call waits for ever: each id's chain and the index chain, entered in
\* that order by every method, always drain (withLock, mutateIndex).
CallsReturn == \A p \in Procs : pc[p] \in StoreSteps ~> pc[p] \notin StoreSteps

\* An open escalation past its timeout is deferred or closed in the end, unless
\* a fault or a crash cut off one of its index updates (the sweep job).
OverdueHandled == \A e \in Escalations :
  (e \in overdue /\ Expires(e) /\ e \notin damaged)
    ~> (~Expires(e) \/ e \in damaged)
=============================================================================
