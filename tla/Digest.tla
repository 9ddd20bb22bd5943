-------------------------------- MODULE Digest --------------------------------
(***************************************************************************)
(* The Teams plugin's daily digest: event handlers count activity in one   *)
(* rollup in the state store, and an hourly job reads and resets it, posts *)
(* a card once a day, and merges the rollup back when the post fails.      *)
(*                                                                         *)
(* The rollup's calls run one at a time (createLock).  The job is run by   *)
(* the host once an hour and takes far less, so there is one of it.  Every *)
(* action below runs from one await to the next; the clock may tick at any *)
(* time.  Counters are kept per event, to tell which are in which rollup.  *)
(***************************************************************************)
EXTENDS Integers, Sequences

CONSTANTS
  Events,       \* issue.created, agent.run.finished and cost events
  Day,          \* ticks in a day, and in DIGEST_WINDOW_MS
  DigestHour,   \* the tick of the day from which the digest is posted
  Horizon,      \* bound: ticks of the clock
  MaxFailures,  \* bound: posts that fail
  MaxFaults     \* bound: state-store calls that reject, and crashes

ASSUME ConstantsAssumption ==
  /\ "job" \notin Events
  /\ Day \in Nat \ {0} /\ DigestHour \in 0..(Day - 1)
  /\ {Horizon, MaxFailures, MaxFaults} \subseteq Nat

DigestProcs == Events \cup {"job"}

\* DigestRollup: when its window began, and how often it counts each event.
Rollup == [windowStart: 0..Horizon, count: [Events -> Nat]]

emptyRollup(since) == [windowStart |-> since, count |-> [e \in Events |-> 0]]

\* The state store before anything is saved; coerceRollup() replaces it.
NoRollup == [windowStart |-> -1, count |-> [e \in Events |-> 0]]

coerceRollup(r, since) == IF r = NoRollup THEN emptyRollup(since) ELSE r

-----------------------------------------------------------------------------
VARIABLES
  now,        \* the clock
  rollup,     \* "digest:rollup" in the state store
  lastRun,    \* "digest:last-run-date" in the state store; -1 when absent
  lock,       \* the calls chained on the accumulator's lock, the running one first
  pc,         \* where each handler and the job are
  snap,       \* the rollup each has made of the one it loaded
  held,       \* the job: what readAndReset() returned
  readAt,     \* the job: the time readAndReset() was called
  today,      \* the job: digestDateKey() when it began
  counted,    \* history: when each event was counted; -1 before
  reported,   \* Teams: how often each event is in a posted digest
  postedOn,   \* Teams: how many digests were posted for each day
  discarded,  \* history: events dropped with a window that had aged
  young,      \* history: those of them counted less than a day before
  merged,     \* history: events that were merged back after a failed post
  dropped,    \* history: events a fault or crash has lost
  lost,       \* how many posts were shown though the request failed
  failedPosts, \* how many posts have failed
  faults      \* how many store calls and workers have failed

stored  == <<rollup, lastRun>>
locals  == <<pc, snap, held, readAt, today>>
teams   == <<reported, postedOn, lost, failedPosts>>
digestHistory == <<counted, discarded, young, merged, dropped>>
digestVars    == <<now, stored, lock, locals, teams, digestHistory, faults>>

In(r) == {e \in Events : r.count[e] > 0}

DigestTypeOK ==
  /\ now \in 0..Horizon
  /\ rollup \in Rollup \cup {NoRollup}
  /\ lastRun \in -1..(Horizon \div Day)
  /\ lock \in Seq(DigestProcs)
  /\ pc \in [DigestProcs -> {"idle", "queued", "save", "done"}
                       \cup {"check", "reset", "post", "mark", "merge", "mergeSave"}]
  /\ snap \in [DigestProcs -> Rollup \cup {NoRollup}]
  /\ held \in Rollup \cup {NoRollup}
  /\ readAt \in 0..Horizon /\ today \in 0..(Horizon \div Day)
  /\ counted \in [Events -> -1..Horizon]
  /\ reported \in [Events -> Nat] /\ postedOn \in [0..(Horizon \div Day) -> Nat]
  /\ {discarded, young, merged, dropped} \subseteq SUBSET Events
  /\ {lost, failedPosts, faults} \subseteq Nat

DigestInit ==
  /\ now = 0
  /\ rollup = NoRollup /\ lastRun = -1 /\ lock = <<>>
  /\ pc = [p \in DigestProcs |-> "idle"]
  /\ snap = [p \in DigestProcs |-> NoRollup]
  /\ held = NoRollup /\ readAt = 0 /\ today = 0
  /\ counted = [e \in Events |-> -1]
  /\ reported = [e \in Events |-> 0]
  /\ postedOn = [d \in 0..(Horizon \div Day) |-> 0]
  /\ discarded = {} /\ young = {} /\ merged = {} /\ dropped = {}
  /\ lost = 0 /\ failedPosts = 0 /\ faults = 0

DigestTick ==
  /\ now < Horizon
  /\ now' = now + 1
  /\ UNCHANGED <<stored, lock, locals, teams, digestHistory, faults>>

-----------------------------------------------------------------------------
(* The lock.                                                                *)

\* Seeded fault: calls do not wait for each other.
Unlocked(p) == TRUE

HoldsLock(p) == lock # <<>> /\ Head(lock) = p

GoTo(p, where) == pc' = [pc EXCEPT ![p] = where]

Enter(p, where) == lock' = Append(lock, p) /\ GoTo(p, where)

Leave(p, where) == lock' = Tail(lock) /\ GoTo(p, where)

Forget(p) == snap' = [snap EXCEPT ![p] = NoRollup]

-----------------------------------------------------------------------------
(* An event handler: accumulateIfEnabled() and mutate().                    *)

\* The digest is enabled, as far as the cached flag knows, or the event is skipped.
HandleEvent(e) ==
  /\ pc[e] = "idle"
  /\ Enter(e, "queued") \/ (GoTo(e, "done") /\ UNCHANGED lock)
  /\ UNCHANGED <<now, stored, snap, held, readAt, today, teams, digestHistory, faults>>

Aged(r) == now - r.windowStart >= Day

\* A window a day old or more is replaced by a new one; then the event is counted.
LoadAndCount(e) ==
  /\ pc[e] = "queued" /\ HoldsLock(e)
  /\ LET old == coerceRollup(rollup, now)
         r   == IF Aged(old) THEN emptyRollup(now) ELSE old
     IN  snap' = [snap EXCEPT ![e] = [r EXCEPT !.count[e] = @ + 1]]
  /\ GoTo(e, "save")
  /\ UNCHANGED <<now, stored, lock, held, readAt, today, teams, digestHistory, faults>>

SaveCount(e) ==
  /\ pc[e] = "save"
  /\ rollup' = snap[e]
  /\ counted' = [counted EXCEPT ![e] = now]
  /\ LET gone == IF rollup.windowStart < snap[e].windowStart THEN In(rollup) ELSE {}
     IN  /\ discarded' = discarded \cup gone
         /\ young' = young \cup {d \in gone : now - counted[d] < Day}
  /\ Leave(e, "done") /\ Forget(e)
  /\ UNCHANGED <<now, lastRun, held, readAt, today, teams, merged, dropped, faults>>

\* A state-store call of the handler rejects, and the handler swallows it.
HandlerRejects(e) ==
  /\ pc[e] = "save" \/ (pc[e] = "queued" /\ HoldsLock(e))
  /\ faults < MaxFaults /\ faults' = faults + 1
  /\ Leave(e, "done") /\ Forget(e)
  /\ UNCHANGED <<now, stored, held, readAt, today, teams, digestHistory>>

-----------------------------------------------------------------------------
(* The job.                                                                 *)

\* Enabled, and the hour has come; else this tick of the job does nothing.
StartJob ==
  /\ pc["job"] = "idle"
  /\ now % Day >= DigestHour
  /\ today' = now \div Day
  /\ GoTo("job", "check")
  /\ UNCHANGED <<now, stored, lock, snap, held, readAt, teams, digestHistory, faults>>

\* Seeded fault: the date of the last digest is not looked at.
DueAlways == TRUE

Due == lastRun # today

\* Not posted today and a channel is configured: readAndReset() is called, and
\* takes the time before it takes the lock.
CheckDate ==
  /\ pc["job"] = "check"
  /\ \/ Due /\ Enter("job", "queued") /\ readAt' = now
     \/ GoTo("job", "idle") /\ UNCHANGED <<lock, readAt>>
  /\ UNCHANGED <<now, stored, snap, held, today, teams, digestHistory, faults>>

LoadForDigest ==
  /\ pc["job"] = "queued" /\ HoldsLock("job")
  /\ snap' = [snap EXCEPT !["job"] = coerceRollup(rollup, readAt)]
  /\ GoTo("job", "reset")
  /\ UNCHANGED <<now, stored, lock, held, readAt, today, teams, digestHistory, faults>>

\* Seeded fault: the rollup is read and not reset.
ReadOnly ==
  /\ pc["job"] = "reset"
  /\ held' = snap["job"]
  /\ Leave("job", "post") /\ Forget("job")
  /\ UNCHANGED <<now, stored, readAt, today, teams, digestHistory, faults>>

Reset ==
  /\ pc["job"] = "reset"
  /\ rollup' = emptyRollup(readAt)
  /\ held' = snap["job"]
  /\ Leave("job", "post") /\ Forget("job")
  /\ UNCHANGED <<now, lastRun, readAt, today, teams, digestHistory, faults>>

\* The card is shown in Teams n more times.
Shown(n) ==
  /\ reported' = [e \in Events |-> reported[e] + n * held.count[e]]
  /\ postedOn' = [postedOn EXCEPT ![today] = @ + n]

\* deliverTracked(): one of its attempts succeeds, or all fail; a failed one may
\* have shown the card.
PostDigest ==
  /\ pc["job"] = "post"
  /\ \/ Shown(1) /\ GoTo("job", "mark") /\ UNCHANGED <<lock, lost, failedPosts>>
     \/ /\ failedPosts < MaxFailures /\ failedPosts' = failedPosts + 1
        /\ \E n \in {0, 1} : Shown(n) /\ lost' = lost + n
        /\ \/ Enter("job", "merge")
           \/ GoTo("job", "post") /\ UNCHANGED lock
  /\ UNCHANGED <<now, stored, snap, held, readAt, today, digestHistory, faults>>

MarkDay ==
  /\ pc["job"] = "mark"
  /\ lastRun' = today
  /\ held' = NoRollup
  /\ GoTo("job", "idle")
  /\ UNCHANGED <<now, rollup, lock, snap, readAt, today, teams, digestHistory, faults>>

Earlier(s, t) == IF s < t THEN s ELSE t

\* mergeBack(): the counts are added, and the earlier window start is kept.
Sum(r, s) == [windowStart |-> Earlier(r.windowStart, s.windowStart),
              count |-> [e \in Events |-> r.count[e] + s.count[e]]]

LoadForMerge ==
  /\ pc["job"] = "merge" /\ HoldsLock("job")
  /\ snap' = [snap EXCEPT !["job"] = Sum(coerceRollup(rollup, now), held)]
  /\ GoTo("job", "mergeSave")
  /\ UNCHANGED <<now, stored, lock, held, readAt, today, teams, digestHistory, faults>>

SaveMerged ==
  /\ pc["job"] = "mergeSave"
  /\ rollup' = snap["job"]
  /\ merged' = merged \cup In(held)
  /\ held' = NoRollup
  /\ Leave("job", "idle") /\ Forget("job")
  /\ UNCHANGED <<now, lastRun, readAt, today, teams, counted, discarded, young, dropped, faults>>

\* The job, or the worker, has lost what was read and not posted.
Drop == dropped' = dropped \cup (IF pc["job"] = "mark" THEN {} ELSE In(held))

\* A state-store call of the job rejects, and the job with it.
JobRejects ==
  /\ \/ pc["job"] \in {"check", "mark"} /\ UNCHANGED lock
     \/ /\ pc["job"] \in {"reset", "mergeSave"} \/ (pc["job"] \in {"queued", "merge"} /\ HoldsLock("job"))
        /\ lock' = Tail(lock)
  /\ faults < MaxFaults /\ faults' = faults + 1
  /\ GoTo("job", "idle") /\ Forget("job") /\ Drop
  /\ held' = NoRollup
  /\ UNCHANGED <<now, stored, readAt, today, teams, counted, discarded, young, merged>>

JobStep ==
  \/ StartJob \/ CheckDate \/ LoadForDigest \/ Reset \/ PostDigest \/ MarkDay
  \/ LoadForMerge \/ SaveMerged

-----------------------------------------------------------------------------
\* The worker dies; handlers are not run again, the job is.
DigestCrash ==
  /\ faults < MaxFaults /\ faults' = faults + 1
  /\ pc' = [p \in DigestProcs |-> IF p = "job" \/ pc[p] = "idle" THEN "idle" ELSE "done"]
  /\ lock' = <<>>
  /\ snap' = [p \in DigestProcs |-> NoRollup]
  /\ held' = NoRollup /\ Drop
  /\ UNCHANGED <<now, stored, readAt, today, teams, counted, discarded, young, merged>>

DigestNext ==
  \/ DigestTick
  \/ \E e \in Events : HandleEvent(e) \/ LoadAndCount(e) \/ SaveCount(e) \/ HandlerRejects(e)
  \/ JobStep \/ JobRejects
  \/ DigestCrash

DigestSpec == DigestInit /\ [][DigestNext]_digestVars

-----------------------------------------------------------------------------
(* Safety.                                                                  *)

\* How often e waits to be posted: in the rollup, or with the job that has read it
\* and reset the rollup.
Unposted(e) == rollup.count[e] + IF pc["job"] = "mark" THEN 0 ELSE held.count[e]

\* Whatever handlers and job do at the same time, an event once counted waits to be
\* posted or has been, unless its window aged or a fault or crash lost it: no
\* update is lost (createLock), and a failed post takes nothing with it
\* (readAndReset, mergeBack).
NothingForgotten == \A e \in Events \ (discarded \cup dropped) :
  counted[e] >= 0 => Unposted(e) + reported[e] >= 1

\* No event is reported twice, but for posts that were shown and not acknowledged
\* (readAndReset and mergeBack move the counts, and copy none).
ReportedOnce == \A e \in Events : Unposted(e) + reported[e] <= 1 + lost

\* One digest is posted for each day, but for those posts and for a date that could
\* not be saved: the hourly retries stop with the first success (the job's check
\* and mark).
OncePerDay == \A d \in DOMAIN postedOn : postedOn[d] <= 1 + lost + faults

\* "It [...] retries hourly on failure until it succeeds that day, so a transient
\* outage doesn't drop the day's stats" (worker.ts:427-428).
OutageDropsNothing == merged \cap young = {}
=============================================================================
