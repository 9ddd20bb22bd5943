------------------------------ MODULE Reconcile -------------------------------
(***************************************************************************)
(* The Plane plugin's reconciliation of one project: page its work items   *)
(* newest first, bring each that changed since the watermark up to date,   *)
(* and move the watermark when every page was read.  Webhooks bring some   *)
(* changes too.  Items keep changing and going while a run is under way.   *)
(*                                                                         *)
(* Plane is external: it gives every change a later updated_at, and its    *)
(* cursor is a page number (plane-client.ts:207).  How one item is synced  *)
(* is PlaneSync's subject; here a sync is one step that leaves Paperclip   *)
(* with the content the page or the event had.                             *)
(***************************************************************************)
EXTENDS Naturals, FiniteSets

CONSTANTS
  Items,       \* work items of the project
  PerPage,     \* items on a page
  MaxPages,    \* maxPagesPerProject
  Webhooks,    \* whether webhooks are configured
  MaxTime,     \* bound: changes of items
  MaxDeletes,  \* bound: items that leave the project while a run is under way
  MaxHalts     \* bound: runs cut off by a failing call or a crash

ASSUME ConstantsAssumption ==
  /\ IsFiniteSet(Items)
  /\ {PerPage, MaxPages} \subseteq Nat \ {0}
  /\ Webhooks \in BOOLEAN
  /\ {MaxTime, MaxDeletes, MaxHalts} \subseteq Nat

-----------------------------------------------------------------------------
VARIABLES
  clock,      \* Plane: the time of the last change
  stamp,      \* Plane: each item's updated_at; 0 when it is not in the project
  events,     \* Plane: webhook deliveries under way, each with the item as it was
  synced,     \* Paperclip: the updated_at of the content each item was synced with
  watermark,  \* "reconcile:watermark:{project}" in the state store
  pc,         \* where the run is
  wm,         \* the watermark it has read
  newest,     \* the newest updated_at it has synced
  page,       \* what it has yet to look at of the page it has fetched
  pages,      \* how many pages it has fetched
  more,       \* hasMore of that page
  excused,    \* history: items left behind in one of the ways named below
  deletes,    \* how many items have left during a run
  halts       \* how many runs have been cut off

external == <<clock, stamp, events>>
run      == <<pc, wm, newest, page, pages, more>>
vars     == <<external, synced, watermark, run, excused, deletes, halts>>

Item == [id: Items, updatedAt: 1..MaxTime]

Pages == {S \in SUBSET Item : Cardinality(S) <= PerPage}

TypeOK ==
  /\ clock \in 0..MaxTime
  /\ stamp \in [Items -> 0..MaxTime]
  /\ events \in SUBSET Item
  /\ synced \in [Items -> 0..MaxTime]
  /\ watermark \in 0..MaxTime
  /\ pc \in {"idle", "fetch", "items"}
  /\ wm \in 0..MaxTime /\ newest \in 0..MaxTime
  /\ page \in Pages
  /\ pages \in 0..MaxPages /\ more \in BOOLEAN
  /\ excused \in SUBSET Items
  /\ deletes \in 0..MaxDeletes /\ halts \in 0..MaxHalts

Init ==
  /\ clock = 0
  /\ stamp = [i \in Items |-> 0]
  /\ events = {}
  /\ synced = [i \in Items |-> 0]
  /\ watermark = 0
  /\ pc = "idle" /\ wm = 0 /\ newest = 0 /\ page = {} /\ pages = 0 /\ more = FALSE
  /\ excused = {} /\ deletes = 0 /\ halts = 0

\* Paperclip does not have what Plane has.
Behind(i) == stamp[i] # 0 /\ synced[i] # stamp[i]

-----------------------------------------------------------------------------
(* Plane and its webhooks.                                                  *)

\* An item is created or changed; its webhook may never come (Plane CE #4097).
Change(i) ==
  /\ clock < MaxTime
  /\ clock' = clock + 1
  /\ stamp' = [stamp EXCEPT ![i] = clock + 1]
  /\ \/ UNCHANGED events
     \/ Webhooks /\ events' = events \cup {[id |-> i, updatedAt |-> clock + 1]}
  /\ excused' = excused \ {i}
  /\ UNCHANGED <<synced, watermark, run, deletes, halts>>

\* A delivery is routed; a late one takes Paperclip back to an older content.
Deliver(e) ==
  /\ events' = events \ {e}
  /\ synced' = [synced EXCEPT ![e.id] = e.updatedAt]
  /\ excused' = IF e.updatedAt < stamp[e.id] THEN excused \cup {e.id} ELSE excused
  /\ UNCHANGED <<clock, stamp, watermark, run, deletes, halts>>

\* An item leaves the project, and those after it move up on the pages.
Delete(i) ==
  /\ stamp[i] # 0
  /\ stamp' = [stamp EXCEPT ![i] = 0]
  /\ IF pc = "idle"
       THEN UNCHANGED <<excused, deletes>>
       ELSE /\ deletes < MaxDeletes /\ deletes' = deletes + 1
            /\ excused' = excused \cup {j \in Items : Behind(j) /\ stamp[j] < stamp[i]}
  /\ UNCHANGED <<clock, events, synced, watermark, run, halts>>

-----------------------------------------------------------------------------
(* reconcileProject().                                                      *)

StartRun ==
  /\ pc = "idle"
  /\ wm' = watermark /\ newest' = watermark
  /\ page' = {} /\ pages' = 0 /\ more' = FALSE
  /\ pc' = "fetch"
  /\ UNCHANGED <<external, synced, watermark, excused, deletes, halts>>

\* Where Plane lists an item: newest first, from 0.
Rank(i) == Cardinality({j \in Items : stamp[j] > stamp[i]})

Live == {i \in Items : stamp[i] # 0}

\* The ranks the next page holds.
OnPage == pages * PerPage .. (pages + 1) * PerPage - 1

\* Seeded faults, for the runs: a page with one item too many; the first page again
\* and again, its cursor never passed on.
FetchOneMore ==
  /\ pc = "fetch"
  /\ page' = {[id |-> i, updatedAt |-> stamp[i]] : i \in {j \in Live :
                Rank(j) \in pages * PerPage .. (pages + 1) * PerPage}}
  /\ more' = (Cardinality(Live) > (pages + 1) * PerPage)
  /\ pages' = pages + 1
  /\ pc' = "items"
  /\ UNCHANGED <<external, synced, watermark, wm, newest, excused, deletes, halts>>

FetchFirst ==
  /\ pc = "fetch"
  /\ page' = {[id |-> i, updatedAt |-> stamp[i]] : i \in {j \in Live : Rank(j) < PerPage}}
  /\ more' = (Cardinality(Live) > (pages + 1) * PerPage)
  /\ pages' = pages + 1
  /\ pc' = "items"
  /\ UNCHANGED <<external, synced, watermark, wm, newest, excused, deletes, halts>>

FetchPage ==
  /\ pc = "fetch"
  /\ page' = {[id |-> i, updatedAt |-> stamp[i]] :
                i \in {j \in Live : Rank(j) \in OnPage}}
  /\ more' = (Cardinality(Live) > (pages + 1) * PerPage)
  /\ pages' = pages + 1
  /\ pc' = "items"
  /\ UNCHANGED <<external, synced, watermark, wm, newest, excused, deletes, halts>>

IsFirst(item) == item \in page /\ \A other \in page : other.updatedAt <= item.updatedAt

\* reconcileItem(): the upsert, or the unsync of an item without the rule's label.
ReconcileItem ==
  /\ pc = "items"
  /\ \E item \in page :
       /\ IsFirst(item) /\ item.updatedAt > wm
       /\ synced' = [synced EXCEPT ![item.id] = item.updatedAt]
       /\ newest' = IF item.updatedAt > newest THEN item.updatedAt ELSE newest
       /\ page' = page \ {item}
  /\ UNCHANGED <<external, watermark, pc, wm, pages, more, excused, deletes, halts>>

ReachedWatermark == \E item \in page : IsFirst(item) /\ item.updatedAt <= wm

NextPage ==
  /\ pc = "items" /\ page = {} /\ more /\ pages < MaxPages
  /\ pc' = "fetch"
  /\ UNCHANGED <<external, synced, watermark, wm, newest, page, pages, more, excused, deletes, halts>>

EndRun ==
  pc' = "idle" /\ wm' = 0 /\ newest' = 0 /\ page' = {} /\ pages' = 0 /\ more' = FALSE

\* Capped: more pages than a run may read; the watermark moves all the same.
Finish ==
  /\ pc = "items"
  /\ \/ (ReachedWatermark \/ (page = {} /\ ~more)) /\ UNCHANGED excused
     \/ /\ page = {} /\ more /\ pages = MaxPages
        /\ excused' = excused \cup {i \in Items : Behind(i) /\ stamp[i] <= newest}
  /\ watermark' = newest
  /\ EndRun
  /\ UNCHANGED <<external, synced, deletes, halts>>

\* Seeded fault, for the runs: the watermark moves however the run ends.
HaltAndAdvance ==
  /\ pc # "idle" /\ halts < MaxHalts /\ halts' = halts + 1
  /\ watermark' = newest
  /\ EndRun
  /\ UNCHANGED <<external, synced, excused, deletes>>

\* A call rejects, or the worker dies: the run ends and leaves the watermark.
Halt ==
  /\ pc # "idle" /\ halts < MaxHalts /\ halts' = halts + 1
  /\ EndRun
  /\ UNCHANGED <<external, synced, watermark, excused, deletes>>

RunStep == StartRun \/ FetchPage \/ ReconcileItem \/ NextPage \/ Finish

Next ==
  \/ \E i \in Items : Change(i) \/ Delete(i)
  \/ \E e \in events : Deliver(e)
  \/ RunStep \/ Halt

Spec == Init /\ [][Next]_vars

\* The host runs the job again and again; Plane owes nothing.
Fairness == WF_vars(RunStep)

FairSpec == Spec /\ Fairness

-----------------------------------------------------------------------------
(* Safety.                                                                  *)

\* "A Plane rate-limit/outage stops that project's run WITHOUT advancing its
\* watermark, so the next cycle resumes and nothing is dropped" (reconcile.ts:
\* 18-20): what Paperclip does not have is always newer than the watermark, and
\* so the next run comes to it, but for an item that a page cap left unread, that
\* moved up past the run's cursor, or that a late webhook took back.
NothingSkipped == \A i \in Items \ excused : Behind(i) => stamp[i] > watermark

\* What is behind is brought up to date in the end, unless it is left behind in one
\* of those ways: runs end, and a run that was cut off is repeated.
Healed == \A i \in Items : Behind(i) ~> (~Behind(i) \/ i \in excused)
=============================================================================
