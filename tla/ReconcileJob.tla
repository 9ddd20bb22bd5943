---------------------------- MODULE ReconcileJob ----------------------------
(***************************************************************************)
(* The reconcile job of the Plane worker (plane/worker.ts): the host fires *)
(* it every minute, and it throttles itself to one run per interval by a   *)
(* time of the last run that it keeps in the plugin state; the summary of  *)
(* a run goes to "reconcile:last" and into a bounded history.  What a run  *)
(* does to the issues is Reconcile's subject; here it takes time.          *)
(*                                                                         *)
(* The unit of time is half a minute: ticks are two units apart, give or   *)
(* take one, and the tolerance of the throttle is one.  Calls of the store *)
(* take no time, a run takes up to MaxRun units.                           *)
(***************************************************************************)
EXTENDS Naturals, Sequences

CONSTANTS
    NumTicks,       \* how often the host fires the job
    Interval,       \* reconcileIntervalMinutes, in units
    MaxRun,         \* the longest run
    HistoryLimit,   \* RECONCILE_HISTORY_LIMIT
    MaxJobFaults    \* rejections of the store, or of the run itself

ASSUME JobAssumption ==
    /\ NumTicks \in Nat
    /\ Interval \in Nat /\ Interval > 1
    /\ HistoryLimit \in Nat \ {0}
    /\ MaxRun \in Nat /\ MaxJobFaults \in Nat

VARIABLES
    jobNow,         \* the clock
    lastRunAt,      \* "reconcile:last-run-at", 0 when never set
    lastSummary,    \* "reconcile:last", the tick whose summary it is
    runHistory,     \* "reconcile:runs"
    job,            \* where each execution is
    finished,       \* history variable: the runs in the order they finished
    jobFaults

jobVars == <<jobNow, lastRunAt, lastSummary, runHistory, job, finished, jobFaults>>

NewJob == [at |-> "waiting", since |-> 0, snap |-> <<>>]

Ticks == 1..NumTicks
FireAt(t) == 2 * t                          \* the minute of tick t, jitter aside
EndOfTime == FireAt(NumTicks) + MaxRun + 1

(* Where an execution is between two calls that take no time.              *)
Prompt == {"stamp", "last", "read", "append"}

---------------------------------------------------------------------------
JobInit ==
    /\ jobNow = 1
    /\ lastRunAt = 0
    /\ lastSummary = 0
    /\ runHistory = <<>>
    /\ job = [t \in Ticks |-> NewJob]
    /\ finished = <<>>
    /\ jobFaults = 0

(* Time passes when no execution waits for the store, no run has lasted    *)
(* MaxRun, and the tick that is due has fired.                             *)
PassTime ==
    /\ jobNow < EndOfTime
    /\ \A t \in Ticks :
          /\ job[t].at \notin Prompt
          /\ job[t].at = "running" => jobNow < job[t].since + MaxRun
          /\ job[t].at = "waiting" => jobNow <= FireAt(t)
    /\ jobNow' = jobNow + 1
    /\ UNCHANGED <<lastRunAt, lastSummary, runHistory, job, finished, jobFaults>>

(* "if (lastRunAt && nowMs - lastRunAt < interval - tolerance) return".    *)
Throttled == lastRunAt # 0 /\ jobNow - lastRunAt < Interval - 1

(* The job fires, reads its configuration and the last run's time.         *)
Fire(t) ==
    /\ job[t].at = "waiting"
    /\ jobNow \in {FireAt(t), FireAt(t) + 1}
    /\ \A u \in Ticks : u < t => job[u].at # "waiting"
    /\ job' = [job EXCEPT ![t].at = IF Throttled THEN "done" ELSE "stamp"]
    /\ UNCHANGED <<jobNow, lastRunAt, lastSummary, runHistory, finished, jobFaults>>

(* Seeded fault: the run starts and the time of it is not saved.           *)
StampNothing(t) ==
    /\ job[t].at = "stamp"
    /\ job' = [job EXCEPT ![t].at = "running", ![t].since = jobNow]
    /\ UNCHANGED <<jobNow, lastRunAt, lastSummary, runHistory, finished, jobFaults>>

(* The attempt's time is saved before the run, which then starts.          *)
Stamp(t) ==
    /\ job[t].at = "stamp"
    /\ lastRunAt' = jobNow
    /\ job' = [job EXCEPT ![t].at = "running", ![t].since = jobNow]
    /\ UNCHANGED <<jobNow, lastSummary, runHistory, finished, jobFaults>>

(* reconciler.reconcile() returns its summary.                             *)
FinishRun(t) ==
    /\ job[t].at = "running"
    /\ job' = [job EXCEPT ![t].at = "last"]
    /\ finished' = Append(finished, t)
    /\ UNCHANGED <<jobNow, lastRunAt, lastSummary, runHistory, jobFaults>>

(* recordReconcileRun: the last summary, then the history, read and saved. *)
SaveLast(t) ==
    /\ job[t].at = "last"
    /\ lastSummary' = t
    /\ job' = [job EXCEPT ![t].at = "read"]
    /\ UNCHANGED <<jobNow, lastRunAt, runHistory, finished, jobFaults>>

ReadHistory(t) ==
    /\ job[t].at = "read"
    /\ job' = [job EXCEPT ![t].at = "append", ![t].snap = runHistory]
    /\ UNCHANGED <<jobNow, lastRunAt, lastSummary, runHistory, finished, jobFaults>>

Shifted(history) ==
    IF Len(history) > HistoryLimit THEN Tail(history) ELSE history

AppendHistory(t) ==
    /\ job[t].at = "append"
    /\ runHistory' = Shifted(Append(job[t].snap, t))
    /\ job' = [job EXCEPT ![t].at = "done", ![t].snap = <<>>]
    /\ UNCHANGED <<jobNow, lastRunAt, lastSummary, finished, jobFaults>>

(* A call rejects, or the run does (its rules cannot be read): the         *)
(* execution ends there, and what it has saved stays.                      *)
JobFails(t) ==
    /\ job[t].at \in Prompt \cup {"running"}
    /\ jobFaults < MaxJobFaults
    /\ jobFaults' = jobFaults + 1
    /\ job' = [job EXCEPT ![t].at = "done", ![t].snap = <<>>]
    /\ UNCHANGED <<jobNow, lastRunAt, lastSummary, runHistory, finished>>

JobNext ==
    \/ PassTime
    \/ \E t \in Ticks :
          Fire(t) \/ Stamp(t) \/ FinishRun(t) \/ SaveLast(t)
            \/ ReadHistory(t) \/ AppendHistory(t) \/ JobFails(t)

JobSpec == JobInit /\ [][JobNext]_jobVars

---------------------------------------------------------------------------
(* Type correctness of the job's state.                                    *)
JobTypeOK ==
    /\ jobNow \in 1..EndOfTime
    /\ lastRunAt \in 0..EndOfTime
    /\ lastSummary \in {0} \cup Ticks
    /\ runHistory \in Seq(Ticks) /\ Len(runHistory) <= HistoryLimit
    /\ finished \in Seq(Ticks)
    /\ jobFaults \in 0..MaxJobFaults
    /\ \A t \in Ticks : job[t].at \in {"waiting", "running", "done"} \cup Prompt

Scanning(t) == job[t].at \in {"running", "last", "read", "append"}

(* "Stamp the attempt time BEFORE running so a slow run doesn't overlap    *)
(* the next tick" (plane/worker.ts:314): no two executions scan at the     *)
(* same time, provided that a run is shorter than the interval.            *)
OneScan ==
    MaxRun < Interval - 1 =>
        \A t, u \in Ticks : Scanning(t) /\ Scanning(u) => t = u

(* With every run recorded by itself, the history is the latest runs in    *)
(* the order they finished, and "reconcile:last" is the last of them: the  *)
(* read and the save of the history have no lock.                          *)
RunsRecorded ==
    (MaxRun < Interval - 1 /\ jobFaults = 0 /\ ~\E t \in Ticks : Scanning(t)) =>
        LET kept == IF Len(finished) > HistoryLimit THEN HistoryLimit ELSE Len(finished)
        IN /\ runHistory = SubSeq(finished, Len(finished) - kept + 1, Len(finished))
           /\ finished # <<>> => lastSummary = finished[Len(finished)]

JobOrderly == OneScan /\ RunsRecorded
=============================================================================
