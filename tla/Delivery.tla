------------------------------- MODULE Delivery -------------------------------
(***************************************************************************)
(* Notifications: an event becomes a card that is posted to a Workflows    *)
(* URL with retries, the outcome is recorded as the health of the URL, and *)
(* a budget's threshold is announced once.                                 *)
(*                                                                         *)
(* One URL.  A delivery's time is its own: how long its attempts took and  *)
(* how long it slept.                                                      *)
(***************************************************************************)
EXTENDS Integers, Sequences, FiniteSets, FiniteSetsExt

CONSTANTS
  Deliveries,          \* events that become notifications
  Budgets,             \* budgets with a threshold
  MaxRetries, BaseDelay, MaxDelay, Deadline, Timeout,
  Threshold,           \* consecutive failures that make the URL degraded
  MaxLate,             \* bound: a timer fires this much late
  MaxDeliveryFaults,   \* bound: answers lost, and store calls that reject
  MaxDeliveryCrashes   \* bound: worker crashes

Plain == "plain"   \* a notification that is no budget's
NoDelivery == "no delivery"

ASSUME DeliveryAssumption ==
  /\ {MaxRetries, MaxLate, MaxDeliveryFaults, MaxDeliveryCrashes} \subseteq Nat
  /\ {BaseDelay, MaxDelay, Deadline, Timeout, Threshold} \subseteq Nat \ {0}
  /\ Plain \notin Budgets /\ NoDelivery \notin Deliveries

Outcomes == {"none", "ok", "transient", "permanent"}

-----------------------------------------------------------------------------
VARIABLES
  posted,          \* Teams: cards posted for each budget
  marked,          \* state store: budgets marked as announced
  dedupeLock,      \* the delivery that holds the lock of the marks
  health,          \* state store: the health of the URL
  healthLock,
  delivery,        \* what each delivery knows
  outcomeLog,      \* history: the outcomes that were recorded, in that order
  unmarked,        \* history: cards posted whose mark was prevented by a fault or crash
  deliveryFaults, deliveryCrashes

deliveryCounts == <<deliveryFaults, deliveryCrashes>>
deliveryVars == <<posted, marked, dedupeLock, health, healthLock, delivery, outcomeLog, unmarked, deliveryCounts>>

Health == [failures: Nat, successes: Nat, consecutive: Nat, degraded: BOOLEAN]
Healthy == [failures |-> 0, successes |-> 0, consecutive |-> 0, degraded |-> FALSE]

DeliveryState ==
  [at: {"idle", "check", "resolve", "attempt", "backoff", "health", "record", "mark", "done"},
   about: Budgets \cup {Plain}, attempt: 0..(MaxRetries + 1), elapsed: Nat,
   outcome: Outcomes, read: Health]
NewDelivery ==
  [at |-> "idle", about |-> Plain, attempt |-> 0, elapsed |-> 0, outcome |-> "none", read |-> Healthy]

DeliveryTypeOK ==
  /\ posted \in [Budgets -> Nat] /\ unmarked \in [Budgets -> Nat]
  /\ marked \subseteq Budgets
  /\ {dedupeLock, healthLock} \subseteq Deliveries \cup {NoDelivery}
  /\ health \in Health
  /\ delivery \in [Deliveries -> DeliveryState]
  /\ outcomeLog \in Seq(BOOLEAN)
  /\ {deliveryFaults, deliveryCrashes} \subseteq Nat

DeliveryInit ==
  /\ posted = [b \in Budgets |-> 0] /\ unmarked = [b \in Budgets |-> 0]
  /\ marked = {} /\ dedupeLock = NoDelivery
  /\ health = Healthy /\ healthLock = NoDelivery
  /\ delivery = [d \in Deliveries |-> NewDelivery]
  /\ outcomeLog = <<>>
  /\ deliveryFaults = 0 /\ deliveryCrashes = 0

DeliveryFault ==
  deliveryFaults < MaxDeliveryFaults /\ deliveryFaults' = deliveryFaults + 1 /\ UNCHANGED deliveryCrashes

At(d) == delivery[d].at
BudgetOf(d) == delivery[d].about

\* A delivery ends; a budget's gives back the lock of the marks.
End(d) ==
  /\ delivery' = [delivery EXCEPT ![d] = [NewDelivery EXCEPT !.at = "done"]]
  /\ dedupeLock' = IF dedupeLock = d THEN NoDelivery ELSE dedupeLock

Move(d, at) == delivery' = [delivery EXCEPT ![d].at = at] /\ UNCHANGED dedupeLock

-----------------------------------------------------------------------------
(* The handler, and postOnce() around a budget's delivery.                  *)

\* An event the adapter makes nothing of is dropped.
OnEvent(d) ==
  /\ At(d) = "idle"
  /\ \/ End(d)
     \/ \E b \in Budgets \cup {Plain} :
          /\ delivery' = [delivery EXCEPT ![d].about = b,
                                          ![d].at = IF b = Plain THEN "resolve" ELSE "check"]
          /\ UNCHANGED dedupeLock
  /\ UNCHANGED <<posted, marked, health, healthLock, outcomeLog, unmarked, deliveryCounts>>

\* Seeded fault: the lock is not kept over the delivery.
CheckMarkOnly(d) ==
  /\ At(d) = "check" /\ dedupeLock = NoDelivery
  /\ IF BudgetOf(d) \in marked THEN End(d) ELSE Move(d, "resolve")
  /\ UNCHANGED <<posted, marked, health, healthLock, outcomeLog, unmarked, deliveryCounts>>

CheckMark(d) ==
  /\ At(d) = "check" /\ dedupeLock = NoDelivery
  /\ IF BudgetOf(d) \in marked
       THEN End(d)
       ELSE /\ delivery' = [delivery EXCEPT ![d].at = "resolve"]
            /\ dedupeLock' = d
  /\ UNCHANGED <<posted, marked, health, healthLock, outcomeLog, unmarked, deliveryCounts>>

\* resolveChannelUrl(): no URL, or none that may be used: nothing is delivered.
ResolveUrl(d) ==
  /\ At(d) = "resolve"
  /\ End(d) \/ Move(d, "attempt")
  /\ UNCHANGED <<posted, marked, health, healthLock, outcomeLog, unmarked, deliveryCounts>>

-----------------------------------------------------------------------------
(* deliverWithRetry().                                                      *)

\* Another attempt: after a transient failure, while retries and time are left.
MayRetry(r) == r.outcome = "transient" /\ r.attempt <= MaxRetries /\ r.elapsed < Deadline

\* One post(): it is accepted, refused, or fails for now, also after the card
\* has arrived; it takes at most the timeout.
Attempt(d) ==
  \E outcome \in Outcomes \ {"none"}, arrived \in BOOLEAN, took \in 0..Timeout :
    LET r == [delivery[d] EXCEPT !.attempt = @ + 1, !.elapsed = @ + took, !.outcome = outcome]
    IN  /\ At(d) = "attempt"
        /\ outcome = "ok" => arrived
        /\ outcome = "permanent" => ~arrived
        /\ delivery' = [delivery EXCEPT ![d] = [r EXCEPT !.at = IF MayRetry(r) THEN "backoff" ELSE "health"]]
        /\ IF arrived /\ outcome = "transient" THEN DeliveryFault ELSE UNCHANGED deliveryCounts
        /\ IF arrived /\ BudgetOf(d) \in Budgets
             THEN /\ posted' = [posted EXCEPT ![BudgetOf(d)] = @ + 1]
                  /\ unmarked' = IF outcome = "ok" THEN unmarked
                                 ELSE [unmarked EXCEPT ![BudgetOf(d)] = @ + 1]
             ELSE UNCHANGED <<posted, unmarked>>
        /\ UNCHANGED <<marked, dedupeLock, health, healthLock, outcomeLog>>

Smaller(a, b) == IF a < b THEN a ELSE b
Larger(a, b) == IF a > b THEN a ELSE b
Ceiling(k) == Smaller(MaxDelay, BaseDelay * 2^(k - 1))

\* With jitter, and no longer than the time that is left.
Delays(r) ==
  {Larger(1, Smaller(j, Deadline - r.elapsed)) :
     j \in Larger(1, (Ceiling(r.attempt) + 1) \div 2)..Ceiling(r.attempt)}

\* Seeded fault: the time the sleep took is not looked at.
RetryAfterBackoff(r) == TRUE

\* The deadline is checked again after the sleep.
GoesOn(r) == r.elapsed < Deadline

Backoff(d) ==
  /\ At(d) = "backoff"
  /\ \E delay \in Delays(delivery[d]), late \in 0..MaxLate :
       LET r == [delivery[d] EXCEPT !.elapsed = @ + delay + late]
       IN  delivery' = [delivery EXCEPT ![d] = [r EXCEPT !.at = IF GoesOn(r) THEN "attempt" ELSE "health"]]
  /\ UNCHANGED <<posted, marked, dedupeLock, health, healthLock, outcomeLog, unmarked, deliveryCounts>>

-----------------------------------------------------------------------------
(* deliverTracked(): record() under the lock of the health map.             *)

Recorded(h, ok) ==
  IF ok THEN [h EXCEPT !.successes = @ + 1, !.consecutive = 0, !.degraded = FALSE]
        ELSE [h EXCEPT !.failures = @ + 1, !.consecutive = @ + 1,
                       !.degraded = @ \/ h.consecutive + 1 >= Threshold]

\* Seeded fault: the map is read before the lock is waited for.
ReadHealthUnlocked(d) ==
  /\ At(d) = "health"
  /\ delivery' = [delivery EXCEPT ![d].read = health, ![d].at = "record"]
  /\ UNCHANGED <<posted, marked, dedupeLock, health, healthLock, outcomeLog, unmarked, deliveryCounts>>

ReadHealth(d) ==
  /\ At(d) = "health" /\ healthLock = NoDelivery
  /\ healthLock' = d
  /\ delivery' = [delivery EXCEPT ![d].read = health, ![d].at = "record"]
  /\ UNCHANGED <<posted, marked, dedupeLock, health, outcomeLog, unmarked, deliveryCounts>>

\* A record that fails is swallowed.  A budget whose card was delivered is marked next.
RecordHealth(d) ==
  LET ok == delivery[d].outcome = "ok"
  IN  /\ At(d) = "record"
      /\ healthLock' = NoDelivery
      /\ \/ health' = Recorded(delivery[d].read, ok) /\ outcomeLog' = Append(outcomeLog, ok) /\ UNCHANGED deliveryCounts
         \/ DeliveryFault /\ UNCHANGED <<health, outcomeLog>>
      /\ IF ok /\ BudgetOf(d) \in Budgets THEN Move(d, "mark") ELSE End(d)
      /\ UNCHANGED <<posted, marked, unmarked>>

\* The mark may fail; the card has been posted and will be again.
Mark(d) ==
  /\ At(d) = "mark"
  /\ \/ marked' = marked \cup {BudgetOf(d)} /\ UNCHANGED <<unmarked, deliveryCounts>>
     \/ DeliveryFault /\ unmarked' = [unmarked EXCEPT ![BudgetOf(d)] = @ + 1] /\ UNCHANGED marked
  /\ End(d)
  /\ UNCHANGED <<posted, health, healthLock, outcomeLog>>

\* The worker dies; what Teams and the store have stays.
DeliveryCrash ==
  /\ deliveryCrashes < MaxDeliveryCrashes /\ deliveryCrashes' = deliveryCrashes + 1
  /\ delivery' = [d \in Deliveries |-> IF At(d) = "idle" THEN NewDelivery ELSE [NewDelivery EXCEPT !.at = "done"]]
  /\ dedupeLock' = NoDelivery /\ healthLock' = NoDelivery
  /\ unmarked' = [b \in Budgets |->
       unmarked[b] + Cardinality({d \in Deliveries : BudgetOf(d) = b /\ delivery[d].outcome = "ok"})]
  /\ UNCHANGED <<posted, marked, health, outcomeLog, deliveryFaults>>

DeliveryNext ==
  \/ \E d \in Deliveries : \/ OnEvent(d) \/ CheckMark(d) \/ ResolveUrl(d) \/ Attempt(d) \/ Backoff(d)
                           \/ ReadHealth(d) \/ RecordHealth(d) \/ Mark(d)
  \/ DeliveryCrash

DeliverySpec == DeliveryInit /\ [][DeliveryNext]_deliveryVars

-----------------------------------------------------------------------------
(* Properties.                                                              *)

\* A threshold that is marked was announced, and it is announced once: two
\* crossings at once, retries and restarts add a card only where an answer was
\* lost after the card had arrived, or where a fault or crash prevented the mark.
AnnouncedOnce ==
  \A b \in Budgets :
    /\ b \in marked => posted[b] > 0
    /\ posted[b] <= 1 + unmarked[b]

\* However long attempts and timers take, a delivery is over in less than its
\* deadline, one more timeout, and one late timer: it is not attempted too late.
BusyBounded == \A d \in Deliveries : delivery[d].elapsed < Deadline + Larger(Timeout, MaxLate + 1)

\* The last run of failures in the outcomes that were recorded.
FailedInARow == Len(outcomeLog) - Max({0} \cup {i \in 1..Len(outcomeLog) : outcomeLog[i]})

\* Concurrent deliveries do not lose each other's outcomes: the URL is degraded
\* exactly while the last Threshold recorded outcomes, or more, are failures.
HealthTrue ==
  /\ health.failures + health.successes = Len(outcomeLog)
  /\ health.consecutive = FailedInARow
  /\ health.degraded <=> FailedInARow >= Threshold
=============================================================================
