------------------------------- MODULE PlaneSync -------------------------------
(***************************************************************************)
(* The Plane plugin's inbound write path: upsertMappedIssue(), shared by   *)
(* the webhook handler and the reconciliation job, the unsync of deleted   *)
(* or no longer labelled items, and the ID mapping both of them write.     *)
(*                                                                         *)
(* A mapping is two rows of the host's entity table, a forward row keyed   *)
(* by the Plane item and a reverse row keyed by the Paperclip issue.  Each *)
(* upsert of a row is atomic; nothing spans two of them, and no lock is    *)
(* held between an await and the next.                                     *)
(***************************************************************************)
EXTENDS Naturals, Sequences, FiniteSets

CONSTANTS
  Items,      \* Plane work items
  Projects,   \* Paperclip projects a sync rule may send an item to
  Syncs,      \* webhook deliveries and reconcile runs at work at the same time
  Overlap,    \* whether two of them may work on one item at the same time
  MaxIssues,  \* bound: Paperclip issues created
  MaxFaults   \* bound: syncs cut off by a rejected call or a crash

Issues == 1..MaxIssues

None == 0

ASSUME ConstantsAssumption ==
  /\ Overlap \in BOOLEAN /\ None \notin Items
  /\ MaxIssues \in Nat /\ MaxFaults \in Nat

Origin == [item: Items, project: Projects]

Row(Partners) == [to: Partners, live: BOOLEAN]

NoRow == [to |-> None, live |-> FALSE]

ForwardRow == Row(Issues) \cup {NoRow}
ReverseRow == Row(Items) \cup {NoRow}

\* One upsert of an entity row.
Write == [table: {"forward"}, key: Items, row: Row(Issues)]
           \cup [table: {"reverse"}, key: Issues, row: Row(Items)]

-----------------------------------------------------------------------------
VARIABLES
  issues,   \* Paperclip: the origin of each issue created so far
  forward,  \* rows "plane-issue", by Plane item
  reverse,  \* rows "paperclip-issue", by Paperclip issue
  pc,       \* where each sync is
  job,      \* what it was started for
  issue,    \* the Paperclip issue it has found or created
  found,    \* whether it was found
  prior,    \* link(): the forward row it has read
  plan,     \* the row upserts it has yet to make
  faults    \* how many syncs were cut off

host   == <<issues, forward, reverse>>
locals == <<pc, job, issue, found, prior, plan>>
vars   == <<host, locals, faults>>

Job == [item: Items, project: Projects, kind: {"upsert", "unsync"}]

NoJob == [item |-> None, project |-> None, kind |-> "none"]

AnyJob == Job \cup {NoJob}

Active(s) == pc[s] # "idle"

TypeOK ==
  /\ issues \in Seq(Origin) /\ Len(issues) <= MaxIssues
  /\ forward \in [Items -> ForwardRow]
  /\ reverse \in [Issues -> ReverseRow]
  /\ pc \in [Syncs -> {"idle", "find", "resolve", "create", "readForward", "readReverse",
                       "write", "update", "resolveLive", "readStale"}]
  /\ job \in [Syncs -> AnyJob]
  /\ issue \in [Syncs -> Issues \cup {None}]
  /\ found \in [Syncs -> BOOLEAN]
  /\ prior \in [Syncs -> ForwardRow]
  /\ plan \in [Syncs -> Seq(Write)]
  /\ faults \in 0..MaxFaults

Init ==
  /\ issues = <<>>
  /\ forward = [i \in Items |-> NoRow]
  /\ reverse = [n \in Issues |-> NoRow]
  /\ pc = [s \in Syncs |-> "idle"]
  /\ job = [s \in Syncs |-> NoJob]
  /\ issue = [s \in Syncs |-> None]
  /\ found = [s \in Syncs |-> FALSE]
  /\ prior = [s \in Syncs |-> NoRow]
  /\ plan = [s \in Syncs |-> <<>>]
  /\ faults = 0

-----------------------------------------------------------------------------
(* upsertMappedIssue().                                                     *)

Goto(s, at) == pc' = [pc EXCEPT ![s] = at]

Finish(s) ==
  /\ Goto(s, "idle")
  /\ job' = [job EXCEPT ![s] = NoJob]
  /\ issue' = [issue EXCEPT ![s] = None]
  /\ found' = [found EXCEPT ![s] = FALSE]
  /\ prior' = [prior EXCEPT ![s] = NoRow]
  /\ plan' = [plan EXCEPT ![s] = <<>>]

\* An event, a retry of one, or a reconcile scan brings up an item; the rules in
\* force send it to a project, or its label or a deletion takes it out.
Start(s) ==
  /\ pc[s] = "idle"
  /\ \E j \in Job :
       /\ Overlap \/ \A t \in Syncs : Active(t) => job[t].item # j.item
       /\ job' = [job EXCEPT ![s] = j]
       /\ Goto(s, IF j.kind = "upsert" THEN "find" ELSE "resolveLive")
  /\ UNCHANGED <<host, issue, found, prior, plan, faults>>

OriginOf(j) == [item |-> j.item, project |-> j.project]

\* Seeded fault: the existing issue is looked up by the mapping, not by its origin.
FindByMapping(s) ==
  /\ pc[s] = "find"
  /\ LET row == forward[job[s].item]
     IN  IF row.live /\ issues[row.to] = OriginOf(job[s])
           THEN /\ issue' = [issue EXCEPT ![s] = row.to] /\ found' = [found EXCEPT ![s] = TRUE]
                /\ Goto(s, "resolve")
           ELSE Goto(s, "create") /\ UNCHANGED <<issue, found>>
  /\ UNCHANGED <<host, job, prior, plan, faults>>

\* findByOrigin(): some issue of this item in this project, or none.
FindByOrigin(s) ==
  /\ pc[s] = "find"
  /\ \/ \E n \in DOMAIN issues :
          /\ issues[n] = OriginOf(job[s])
          /\ issue' = [issue EXCEPT ![s] = n] /\ found' = [found EXCEPT ![s] = TRUE]
          /\ Goto(s, "resolve")
     \/ /\ \A n \in DOMAIN issues : issues[n] # OriginOf(job[s])
        /\ Goto(s, "create") /\ UNCHANGED <<issue, found>>
  /\ UNCHANGED <<host, job, prior, plan, faults>>

\* Seeded fault: a stale row counts as mapped.
ResolveAny(s) ==
  /\ pc[s] = "resolve"
  /\ Goto(s, IF forward[job[s].item].to = issue[s] THEN "update" ELSE "readForward")
  /\ UNCHANGED <<host, job, issue, found, prior, plan, faults>>

\* resolveByPlaneId(): a stale row counts as none.  The mapping is healed if it is
\* missing or points elsewhere.
ResolveMapped(s) ==
  /\ pc[s] = "resolve"
  /\ LET mapped == forward[job[s].item]
     IN  Goto(s, IF mapped.live /\ mapped.to = issue[s] THEN "update" ELSE "readForward")
  /\ UNCHANGED <<host, job, issue, found, prior, plan, faults>>

CreateIssue(s) ==
  /\ pc[s] = "create" /\ Len(issues) < MaxIssues
  /\ issues' = Append(issues, OriginOf(job[s]))
  /\ issue' = [issue EXCEPT ![s] = Len(issues) + 1]
  /\ Goto(s, "readForward")
  /\ UNCHANGED <<forward, reverse, job, found, prior, plan, faults>>

\* The title and description are written; the sync is done.
UpdateIssue(s) ==
  /\ pc[s] = "update"
  /\ Finish(s)
  /\ UNCHANGED <<host, faults>>

-----------------------------------------------------------------------------
(* link() and markStaleByPlaneId(): the rows are read, then written.        *)

PutForward(i, to, live) == [table |-> "forward", key |-> i, row |-> [to |-> to, live |-> live]]
PutReverse(n, to, live) == [table |-> "reverse", key |-> n, row |-> [to |-> to, live |-> live]]

ReadForward(s) ==
  /\ pc[s] = "readForward"
  /\ prior' = [prior EXCEPT ![s] = forward[job[s].item]]
  /\ Goto(s, "readReverse")
  /\ UNCHANGED <<host, job, issue, found, plan, faults>>

\* The rows that name another partner go stale first, then the pair is written.
LinkPlan(i, n, was, wasReverse) ==
  (IF was.to \notin {None, n} THEN <<PutReverse(was.to, i, FALSE)>> ELSE <<>>)
  \o (IF wasReverse.to \notin {None, i} THEN <<PutForward(wasReverse.to, n, FALSE)>> ELSE <<>>)
  \o <<PutForward(i, n, TRUE), PutReverse(n, i, TRUE)>>

ReadReverse(s) ==
  /\ pc[s] = "readReverse"
  /\ plan' = [plan EXCEPT ![s] =
       LinkPlan(job[s].item, issue[s], prior[s], reverse[issue[s]])]
  /\ Goto(s, "write")
  /\ UNCHANGED <<host, job, issue, found, prior, faults>>

\* One upsert.  After the last of them an issue that was found is updated; an
\* unsync, or an upsert that created its issue, is done.
WriteRow(s) ==
  /\ pc[s] = "write"
  /\ LET w == Head(plan[s])
     IN  IF w.table = "forward"
           THEN forward' = [forward EXCEPT ![w.key] = w.row] /\ UNCHANGED reverse
           ELSE reverse' = [reverse EXCEPT ![w.key] = w.row] /\ UNCHANGED forward
  /\ IF Len(plan[s]) > 1 \/ found[s]
       THEN /\ plan' = [plan EXCEPT ![s] = Tail(@)]
            /\ Goto(s, IF Len(plan[s]) > 1 THEN "write" ELSE "update")
            /\ UNCHANGED <<job, issue, found, prior>>
       ELSE Finish(s)
  /\ UNCHANGED <<issues, faults>>

\* Seeded fault: an unmapped item is unsynced all the same.
ResolveUnchecked(s) ==
  /\ pc[s] = "resolveLive"
  /\ Goto(s, "readStale") /\ UNCHANGED <<job, issue, found, prior, plan>>
  /\ UNCHANGED <<host, faults>>

\* A deleted item, or one without its rule's label: nothing to do unless it is
\* mapped, else markStaleByPlaneId() reads the row again.
ResolveLive(s) ==
  /\ pc[s] = "resolveLive"
  /\ IF forward[job[s].item].live
       THEN Goto(s, "readStale") /\ UNCHANGED <<job, issue, found, prior, plan>>
       ELSE Finish(s)
  /\ UNCHANGED <<host, faults>>

\* Seeded fault: only the forward row goes stale.
ReadStaleForward(s) ==
  /\ pc[s] = "readStale"
  /\ LET i == job[s].item
     IN  plan' = [plan EXCEPT ![s] = <<PutForward(i, forward[i].to, FALSE)>>]
  /\ Goto(s, "write")
  /\ UNCHANGED <<host, job, issue, found, prior, faults>>

ReadStale(s) ==
  /\ pc[s] = "readStale"
  /\ LET i == job[s].item
         n == forward[i].to
     IN  plan' = [plan EXCEPT ![s] = <<PutForward(i, n, FALSE), PutReverse(n, i, FALSE)>>]
  /\ Goto(s, "write")
  /\ UNCHANGED <<host, job, issue, found, prior, faults>>

SyncStep(s) ==
  \/ FindByOrigin(s) \/ ResolveMapped(s) \/ CreateIssue(s) \/ UpdateIssue(s)
  \/ ReadForward(s) \/ ReadReverse(s) \/ WriteRow(s)
  \/ ResolveLive(s) \/ ReadStale(s)

\* A call rejects, with or without effect, or the worker dies: the sync stops
\* where it is.  Plane sends the event again, or the next reconcile run does.
CutOff(s) ==
  /\ Active(s) /\ faults < MaxFaults
  /\ faults' = faults + 1
  /\ Finish(s)
  /\ UNCHANGED host

Next == \E s \in Syncs : Start(s) \/ SyncStep(s) \/ CutOff(s)

Spec == Init /\ [][Next]_vars

-----------------------------------------------------------------------------
(* Safety.                                                                  *)

\* A Plane item has at most one Paperclip issue in a project: an issue whose link
\* failed is found again by its origin (upsertMappedIssue).
NoDuplicate == \A m, n \in DOMAIN issues : issues[m] = issues[n] => m = n

\* At most one Paperclip issue is mirrored to a Plane item, whatever fails in
\* between: link() makes the superseded rows stale before it writes the new ones.
OneMirror == \A m, n \in Issues :
  reverse[m].live /\ reverse[n].live /\ reverse[m].to = reverse[n].to => m = n

Settled(i) == \A s \in Syncs : Active(s) => job[s].item # i

\* Both directions agree while no sync was cut off: an item resolves to an issue
\* exactly if that issue resolves to it (link, markStaleByPlaneId).
RowsAgree == faults = 0 => \A i \in Items : Settled(i) =>
  \A n \in Issues : forward[i] = [to |-> n, live |-> TRUE] <=> reverse[n] = [to |-> i, live |-> TRUE]

\* The mapping is sound in both directions, whatever was cut off and tried again
\* (link, markStaleByPlaneId).
MappingSound == OneMirror /\ RowsAgree

\* s ends, and not because it was cut off.
Completes(s, kind) ==
  Active(s) /\ job[s].kind = kind /\ pc'[s] = "idle" /\ UNCHANGED faults

\* However often it was cut off before, an upsert that completes leaves the item
\* mapped to its issue in the rule's project, and an unsync leaves it unmapped.
SyncTakesEffect == [][\A s \in Syncs :
  LET row == forward'[job[s].item]
  IN  /\ Completes(s, "upsert") => row.live /\ issues'[row.to] = OriginOf(job[s])
      /\ Completes(s, "unsync") => ~row.live]_vars

\* "Until the new rows are committed, a retry [...] re-applies the (idempotent)
\* stale + upserts, converging" (id-mapping.ts:210-212): an upsert that completes
\* has mapped both directions, also after one that was cut off.
RetryConverges == [][\A s \in Syncs : Completes(s, "upsert") =>
  LET row == forward'[job[s].item]
  IN  row.live /\ reverse'[row.to] = [to |-> job[s].item, live |-> TRUE]]_vars
=============================================================================
