---------------------------- MODULE OutboundMirror ----------------------------
(***************************************************************************)
(* The Plane plugin's outbound mirror: a Paperclip change is resolved to a *)
(* mirror action, saved to a durable queue (outbox), and sent to Plane     *)
(* inline; a scheduled drain retries what is left.                         *)
(*                                                                         *)
(* The queue and the dead letters are two keys of the host's state store.  *)
(* enqueue, remove and a whole drain each run under one in-memory lock, a  *)
(* chain of promises; the inline delivery runs outside it.  Every action   *)
(* below runs from one await to the next.                                  *)
(***************************************************************************)
EXTENDS Naturals, Sequences, FiniteSets

CONSTANTS
  Changes,         \* Paperclip changes; each names its event and its action
  Drains,          \* runs of the drain job that may overlap
  MaxAttempts,     \* drain attempts before an action is dead-lettered
  Capacity,        \* longest queue that is saved
  DeadCapacity,    \* longest list of dead letters that is saved
  MaxCrashes,      \* bound: worker crashes
  MaxStoreFaults,  \* bound: state-store calls that reject without effect
  MaxLostAnswers   \* bound: requests Plane carries out, whose answer is lost

ASSUME ConstantsAssumption ==
  /\ Changes \cap Drains = {}
  /\ {MaxAttempts, Capacity, DeadCapacity} \subseteq Nat \ {0}
  /\ {MaxCrashes, MaxStoreFaults, MaxLostAnswers} \subseteq Nat

Procs == Changes \cup Drains

\* MirrorAction.  Whether nextAttemptAt has come is left to the drain's choice.
MirrorAction == [id: Changes, attempts: 0..(MaxAttempts - 1)]

-----------------------------------------------------------------------------
VARIABLES
  queue,     \* "outbound-queue" in the state store
  dead,      \* "outbound-deadletter" in the state store, by action id
  lock,      \* the queue's lock: the calls chained on it, the running one first
  pc,        \* where each event handler and drain is
  snap,      \* the queue it has loaded; for a drain, what it has yet to look at
  keep,      \* a drain's items to save back
  letters,   \* a drain's new dead letters
  tomb,      \* the saved dead letters, as the drain has loaded them
  effects,   \* Plane: how often each action was carried out
  accepted,  \* history: the actions once saved in the queue, in order
  evicted,   \* history: actions pushed out of a full queue or dead-letter list
  dropped,   \* history: dead letters a fault or crash kept from being saved
  faults     \* how often each external failure has happened

stored  == <<queue, dead>>
locals  == <<pc, snap, keep, letters, tomb>>
history == <<accepted, evicted, dropped>>
vars    == <<stored, lock, locals, effects, history, faults>>

InEnqueue == {"enqLoad", "enqSave"}
InRemove  == {"rmLoad", "rmSave"}
InDrain   == {"load", "loop", "deadLoad", "deadSave"}
Buried    == {"deadLoad", "deadSave"}

Ids(items) == {items[i].id : i \in DOMAIN items}
Elems(ids) == {ids[i] : i \in DOMAIN ids}

TypeOK ==
  /\ queue \in Seq(MirrorAction)
  /\ dead \in Seq(Changes)
  /\ lock \in Seq(Procs)
  /\ pc \in [Procs -> {"idle", "deliver", "done"} \cup InEnqueue \cup InRemove \cup InDrain]
  /\ snap \in [Procs -> Seq(MirrorAction)]
  /\ keep \in [Drains -> Seq(MirrorAction)]
  /\ letters \in [Drains -> Seq(Changes)]
  /\ tomb \in [Drains -> Seq(Changes)]
  /\ effects \in [Changes -> Nat]
  /\ accepted \in Seq(Changes)
  /\ evicted \in SUBSET Changes /\ dropped \in SUBSET Changes
  /\ faults \in [{"crash", "store", "answer"} -> Nat]

Init ==
  /\ queue = <<>> /\ dead = <<>> /\ lock = <<>>
  /\ pc = [p \in Procs |-> "idle"]
  /\ snap = [p \in Procs |-> <<>>]
  /\ keep = [d \in Drains |-> <<>>]
  /\ letters = [d \in Drains |-> <<>>]
  /\ tomb = [d \in Drains |-> <<>>]
  /\ effects = [a \in Changes |-> 0]
  /\ accepted = <<>> /\ evicted = {} /\ dropped = {}
  /\ faults = [f \in {"crash", "store", "answer"} |-> 0]

-----------------------------------------------------------------------------
(* The lock, and the bounded lists.                                         *)

\* Seeded fault: a call runs without waiting for the lock.
Unlocked(p) == TRUE

Holds(p) == lock # <<>> /\ Head(lock) = p

Enter(p, at) == lock' = Append(lock, p) /\ pc' = [pc EXCEPT ![p] = at]

Leave(p, at) == lock' = Tail(lock) /\ pc' = [pc EXCEPT ![p] = at]

\* What a settled call had in its variables is gone.
Forget(p) == snap' = [snap EXCEPT ![p] = <<>>]

ForgetDrain(d) ==
  /\ Forget(d)
  /\ keep' = [keep EXCEPT ![d] = <<>>]
  /\ letters' = [letters EXCEPT ![d] = <<>>]
  /\ tomb' = [tomb EXCEPT ![d] = <<>>]

\* Seeded fault: a full list turns the new item away.
Oldest(s, n) == IF Len(s) > n THEN SubSeq(s, 1, n) ELSE s

\* save() and appendDeadLetters() shift the oldest out of a list that is too long.
Newest(s, n) == IF Len(s) > n THEN SubSeq(s, Len(s) - n + 1, Len(s)) ELSE s

\* remove() filters the action out, which the queue holds once at most.
Without(items, a) ==
  IF a \notin Ids(items) THEN items
  ELSE LET at == CHOOSE i \in DOMAIN items : items[i].id = a
       IN  [i \in 1..(Len(items) - 1) |-> items[IF i < at THEN i ELSE i + 1]]

-----------------------------------------------------------------------------
(* handle(): one event.                                                     *)

\* evaluateMirror() or the missing mapping skips the event, or it is enqueued.
Handle(a) ==
  /\ pc[a] = "idle"
  /\ \/ Enter(a, "enqLoad")
     \/ pc' = [pc EXCEPT ![a] = "done"] /\ UNCHANGED lock
  /\ UNCHANGED <<stored, snap, keep, letters, tomb, effects, history, faults>>

LoadQueue(a) ==
  /\ \/ pc[a] = "enqLoad" /\ pc' = [pc EXCEPT ![a] = "enqSave"]
     \/ pc[a] = "rmLoad"  /\ pc' = [pc EXCEPT ![a] = "rmSave"]
  /\ Holds(a)
  /\ snap' = [snap EXCEPT ![a] = queue]
  /\ UNCHANGED <<stored, lock, keep, letters, tomb, effects, history, faults>>

SaveEnqueued(a) ==
  /\ pc[a] = "enqSave"
  /\ LET items == Append(snap[a], [id |-> a, attempts |-> 0])
     IN  /\ queue' = Newest(items, Capacity)
         /\ evicted' = evicted \cup (Ids(items) \ Ids(queue'))
  /\ accepted' = Append(accepted, a)
  /\ Leave(a, "deliver") /\ Forget(a)
  /\ UNCHANGED <<dead, keep, letters, tomb, effects, dropped, faults>>

\* One request to Plane: carried out or refused, or carried out and its answer
\* lost (the deadline passes; the request is not aborted).
Request(a, ok) ==
  \/ ok /\ effects' = [effects EXCEPT ![a] = @ + 1] /\ UNCHANGED faults
  \/ ~ok /\ UNCHANGED <<effects, faults>>
  \/ /\ ~ok /\ faults.answer < MaxLostAnswers
     /\ faults' = [faults EXCEPT !.answer = @ + 1]
     /\ effects' = [effects EXCEPT ![a] = @ + 1]

\* The inline attempt: on success the action is removed, on any failure it stays.
DeliverInline(a) ==
  /\ pc[a] = "deliver"
  /\ \/ Request(a, TRUE) /\ Enter(a, "rmLoad")
     \/ Request(a, FALSE) /\ pc' = [pc EXCEPT ![a] = "done"] /\ UNCHANGED lock
  /\ UNCHANGED <<stored, snap, keep, letters, tomb, history>>

SaveRemoved(a) ==
  /\ pc[a] = "rmSave"
  /\ queue' = Without(snap[a], a)
  /\ Leave(a, "done") /\ Forget(a)
  /\ UNCHANGED <<dead, keep, letters, tomb, effects, history, faults>>

\* A state-store call rejects: enqueue() with the event lost, or remove() with
\* the action left in the queue (handle() catches that one).
HandleRejects(a) ==
  /\ faults.store < MaxStoreFaults
  /\ (pc[a] \in {"enqLoad", "rmLoad"} /\ Holds(a)) \/ pc[a] \in {"enqSave", "rmSave"}
  /\ Leave(a, "done") /\ Forget(a)
  /\ faults' = [faults EXCEPT !.store = @ + 1]
  /\ UNCHANGED <<stored, keep, letters, tomb, effects, history>>

HandleStep(a) == LoadQueue(a) \/ SaveEnqueued(a) \/ DeliverInline(a) \/ SaveRemoved(a)

-----------------------------------------------------------------------------
(* drain(): the whole of it under the lock.                                 *)

StartDrain(d) ==
  /\ pc[d] = "idle"
  /\ Enter(d, "load")
  /\ UNCHANGED <<stored, snap, keep, letters, tomb, effects, history, faults>>

LoadForDrain(d) ==
  /\ pc[d] = "load" /\ Holds(d)
  /\ snap' = [snap EXCEPT ![d] = queue]
  /\ pc' = [pc EXCEPT ![d] = "loop"]
  /\ UNCHANGED <<stored, lock, keep, letters, tomb, effects, history, faults>>

\* Seeded fault: kept items change places.
KeepItemFirst(d) ==
  /\ pc[d] = "loop" /\ snap[d] # <<>>
  /\ keep' = [keep EXCEPT ![d] = <<Head(snap[d])>> \o @]
  /\ snap' = [snap EXCEPT ![d] = Tail(@)]
  /\ UNCHANGED <<stored, lock, pc, letters, tomb, effects, history, faults>>

\* nextAttemptAt has not come: the item is kept as it is.
KeepItem(d) ==
  /\ pc[d] = "loop" /\ snap[d] # <<>>
  /\ keep' = [keep EXCEPT ![d] = Append(@, Head(snap[d]))]
  /\ snap' = [snap EXCEPT ![d] = Tail(@)]
  /\ UNCHANGED <<stored, lock, pc, letters, tomb, effects, history, faults>>

\* Seeded fault: a failed attempt is not counted.
RetriedUncounted(item) == item

Retried(item) == [item EXCEPT !.attempts = @ + 1]

\* Seeded fault: one attempt too many.
ExhaustedLate(item) == item.attempts + 1 > MaxAttempts

Exhausted(item) == item.attempts + 1 >= MaxAttempts

\* An attempt succeeds, fails for now, or fails for good.
AttemptItem(d) ==
  /\ pc[d] = "loop" /\ snap[d] # <<>>
  /\ LET item == Head(snap[d])
     IN  \/ Request(item.id, TRUE) /\ UNCHANGED <<keep, letters>>
         \/ /\ Request(item.id, FALSE)
            /\ ~Exhausted(item)
            /\ keep' = [keep EXCEPT ![d] = Append(@, Retried(item))]
            /\ UNCHANGED letters
         \/ /\ Request(item.id, FALSE)
            /\ letters' = [letters EXCEPT ![d] = Append(@, item.id)]
            /\ UNCHANGED keep
  /\ snap' = [snap EXCEPT ![d] = Tail(@)]
  /\ UNCHANGED <<stored, lock, pc, tomb, history>>

SaveKept(d) ==
  /\ pc[d] = "loop" /\ snap[d] = <<>>
  /\ queue' = Newest(keep[d], Capacity)
  /\ IF letters[d] = <<>>
       THEN Leave(d, "idle")
       ELSE pc' = [pc EXCEPT ![d] = "deadLoad"] /\ UNCHANGED lock
  /\ keep' = [keep EXCEPT ![d] = <<>>]
  /\ UNCHANGED <<dead, snap, letters, tomb, effects, history, faults>>

LoadDeadLetters(d) ==
  /\ pc[d] = "deadLoad"
  /\ tomb' = [tomb EXCEPT ![d] = dead]
  /\ pc' = [pc EXCEPT ![d] = "deadSave"]
  /\ UNCHANGED <<stored, lock, snap, keep, letters, effects, history, faults>>

SaveDeadLetters(d) ==
  /\ pc[d] = "deadSave"
  /\ LET all == tomb[d] \o letters[d]
     IN  /\ dead' = Newest(all, DeadCapacity)
         /\ evicted' = evicted \cup (Elems(all) \ Elems(dead'))
  /\ Leave(d, "idle") /\ ForgetDrain(d)
  /\ UNCHANGED <<queue, effects, accepted, dropped, faults>>

\* A state-store call of the drain rejects, and the job with it.
DrainRejects(d) ==
  /\ faults.store < MaxStoreFaults
  /\ \/ pc[d] = "load" /\ Holds(d)
     \/ pc[d] = "loop" /\ snap[d] = <<>>
     \/ pc[d] \in Buried
  /\ dropped' = IF pc[d] \in Buried THEN dropped \cup Elems(letters[d]) ELSE dropped
  /\ Leave(d, "idle") /\ ForgetDrain(d)
  /\ faults' = [faults EXCEPT !.store = @ + 1]
  /\ UNCHANGED <<stored, effects, accepted, evicted>>

DrainStep(d) ==
  \/ StartDrain(d) \/ LoadForDrain(d) \/ KeepItem(d) \/ AttemptItem(d)
  \/ SaveKept(d) \/ LoadDeadLetters(d) \/ SaveDeadLetters(d)

-----------------------------------------------------------------------------
\* The worker dies: the store stays; handlers are not run again, the job is.
Crash ==
  /\ faults.crash < MaxCrashes
  /\ faults' = [faults EXCEPT !.crash = @ + 1]
  /\ dropped' = dropped \cup UNION {Elems(letters[d]) : d \in {x \in Drains : pc[x] \in Buried}}
  /\ pc' = [p \in Procs |-> IF p \in Drains \/ pc[p] = "idle" THEN "idle" ELSE "done"]
  /\ lock' = <<>>
  /\ snap' = [p \in Procs |-> <<>>]
  /\ keep' = [d \in Drains |-> <<>>]
  /\ letters' = [d \in Drains |-> <<>>]
  /\ tomb' = [d \in Drains |-> <<>>]
  /\ UNCHANGED <<stored, effects, accepted, evicted>>

Next ==
  \/ \E a \in Changes : Handle(a) \/ HandleStep(a) \/ HandleRejects(a)
  \/ \E d \in Drains : DrainStep(d) \/ DrainRejects(d)
  \/ Crash

Spec == Init /\ [][Next]_vars

\* The worker runs what it has started, the host starts the drain again and
\* again, and no item's nextAttemptAt stays in the future (backoff is capped).
Fairness ==
  /\ \A a \in Changes : WF_vars(HandleStep(a))
  /\ \A d \in Drains : WF_vars(DrainStep(d))
  /\ \A a \in Changes, d \in Drains :
       SF_vars(AttemptItem(d) /\ Head(snap[d]).id = a)

FairSpec == Spec /\ Fairness

-----------------------------------------------------------------------------
(* Safety.                                                                  *)

Burying(a) == \E d \in Drains : pc[d] \in Buried /\ a \in Elems(letters[d])

\* Sent, waiting to be sent, or on the operators' list.
Kept(a) ==
  a \in Ids(queue) \/ effects[a] > 0 \/ a \in Elems(dead) \/ Burying(a)

\* Whatever handlers and drains do at the same time, an action the queue has
\* accepted is kept, unless a full list pushed it out or a fault or crash hit the
\* drain between its two saves (the queue's lock; save, appendDeadLetters).
NothingLost == \A a \in Elems(accepted) \ (evicted \cup dropped) : Kept(a)

\* The queue holds each action once, in the order of acceptance, so that what a
\* full queue pushes out is the oldest (enqueue, drain's keep, save).
QueueInOrder ==
  \E at \in [DOMAIN queue -> DOMAIN accepted] :
    /\ \A i \in DOMAIN queue : accepted[at[i]] = queue[i].id
    /\ \A i, j \in DOMAIN queue : i < j => at[i] < at[j]

\* With the store healthy and the worker up, an action is carried out at most
\* twice (the inline attempt and one drain attempt cross), plus once for each lost
\* answer: no drain sends again what another has sent (drain under the lock).
AtMostTwice == \A a \in Changes :
  faults.crash = 0 /\ faults.store = 0 => effects[a] <= 2 + faults.answer

\* The queue is sound: it loses nothing but by its capacity, and keeps the order
\* of acceptance (the queue's lock; enqueue, remove, drain).
QueueSound == NothingLost /\ QueueInOrder

-----------------------------------------------------------------------------
(* Refinement: what is being buried is still pending.                       *)

Pending == Ids(queue) \cup {a \in Changes : Burying(a)}

Promise == INSTANCE Outbox WITH
  accepted <- Elems(accepted), pending <- Pending, dead <- Elems(dead),
  sent <- {a \in Changes : effects[a] > 0}, lost <- evicted \cup dropped

\* Handlers, drains, their lock and the store together implement the outbox.
ImplementsOutbox == Promise!Spec

-----------------------------------------------------------------------------
\* Every accepted action leaves the queue in the end, sent or given up: attempts
\* are counted and saved, and no drain holds the lock for ever (drain).
Settles == \A a \in Changes : a \in Ids(queue) ~> a \notin Ids(queue)
=============================================================================
