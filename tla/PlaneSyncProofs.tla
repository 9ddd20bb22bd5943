---------------------------- MODULE PlaneSyncProofs ----------------------------
(***************************************************************************)
(* Proofs about PlaneSync, for any number of items, projects, syncs and    *)
(* issues, and any number of syncs cut off.  What holds although syncs     *)
(* work on one item at the same time is proved without a hypothesis, the   *)
(* rest for syncs that do not (~Overlap).                                  *)
(***************************************************************************)
EXTENDS PlaneSync, SequenceTheorems, TLAPS

-----------------------------------------------------------------------------
(* The inductive invariant.                                                 *)

\* An item has one sync at a time.
Alone == \A s, t \in Syncs : Active(s) /\ Active(t) /\ job[s].item = job[t].item => s = t

\* Issue n was created for item i.
IssueOf(n, i) == n \in DOMAIN issues /\ issues[n].item = i

\* A row names a partner that belongs to it.
Belong ==
  /\ \A i \in Items : forward[i].to # None => IssueOf(forward[i].to, i)
  /\ \A n \in Issues : reverse[n].to # None => IssueOf(n, reverse[n].to)

\* Besides, an issue that is live in one direction is the one its item names in the
\* other, live or not.
RowsMatch ==
  /\ Belong
  /\ \A n \in Issues : reverse[n].live => forward[reverse[n].to].to = n

\* The issue an upsert works on is the one for its origin.
HasIssue(s) == issue[s] \in DOMAIN issues /\ issues[issue[s]] = OriginOf(job[s])

\* Only issue n may be live for item i.
OnlyLive(n, i) == \A m \in Issues : reverse[m].live /\ reverse[m].to = i => m = n

\* The row upserts that link() and markStaleByPlaneId() have left to make.
LinkLeft(s, i, n) ==
  \/ /\ forward[i].to \notin {None, n}
     /\ plan[s] = <<PutReverse(forward[i].to, i, FALSE), PutForward(i, n, TRUE), PutReverse(n, i, TRUE)>>
  \/ OnlyLive(n, i) /\ plan[s] = <<PutForward(i, n, TRUE), PutReverse(n, i, TRUE)>>
  \/ forward[i] = [to |-> n, live |-> TRUE] /\ plan[s] = <<PutReverse(n, i, TRUE)>>

StaleLeft(s, i) ==
  LET n == forward[i].to
  IN  /\ n # None
      /\ \/ plan[s] = <<PutForward(i, n, FALSE), PutReverse(n, i, FALSE)>>
         \/ ~forward[i].live /\ plan[s] = <<PutReverse(n, i, FALSE)>>

\* What a sync knows where it is.
Upserting(s) ==
  /\ pc[s] \in {"resolve", "readForward", "readReverse", "write", "update"} => HasIssue(s)
  /\ pc[s] = "create" => \A n \in DOMAIN issues : issues[n] # OriginOf(job[s])
  /\ pc[s] = "readReverse" => prior[s] = forward[job[s].item]
  /\ pc[s] = "write" => LinkLeft(s, job[s].item, issue[s])
  /\ pc[s] = "update" => forward[job[s].item] = [to |-> issue[s], live |-> TRUE]

Unsyncing(s) ==
  /\ ~found[s]
  /\ pc[s] = "readStale" => forward[job[s].item].live
  /\ pc[s] = "write" => StaleLeft(s, job[s].item)

UpsertAt == {"find", "resolve", "create", "readForward", "readReverse", "write", "update"}
UnsyncAt == {"resolveLive", "readStale", "write"}

Knows(s) ==
  \/ pc[s] = "idle" /\ ~found[s] /\ job[s] = NoJob
  \/ pc[s] \in UpsertAt /\ job[s] \in Job /\ job[s].kind = "upsert" /\ Upserting(s)
  \/ pc[s] \in UnsyncAt /\ job[s] \in Job /\ job[s].kind = "unsync" /\ Unsyncing(s)

Known == \A s \in Syncs : Knows(s)

\* Both directions of an item agree, unless its rows are being written.
Agrees(i) == \A n \in Issues :
  forward[i] = [to |-> n, live |-> TRUE] <=> reverse[n] = [to |-> i, live |-> TRUE]

Agreement == faults = 0 => \A i \in Items :
  (\A s \in Syncs : pc[s] = "write" => job[s].item # i) => Agrees(i)

SyncInv == TypeOK /\ Alone /\ RowsMatch /\ Known /\ Agreement /\ NoDuplicate

-----------------------------------------------------------------------------
(* Facts about the rows and jobs.                                           *)

LEMMA RowFacts ==
  /\ \A r \in ForwardRow : /\ r.to \in Issues \cup {None} /\ r.live \in BOOLEAN
                           /\ r.live => r.to \in Issues
                           /\ r = [to |-> r.to, live |-> r.live]
  /\ \A r \in ReverseRow : /\ r.to \in Items \cup {None} /\ r.live \in BOOLEAN
                           /\ r.live => r.to \in Items
                           /\ r = [to |-> r.to, live |-> r.live]
  /\ NoRow \in ForwardRow /\ NoRow \in ReverseRow
  /\ NoRow.to = None /\ NoRow.live = FALSE
  /\ None \notin Issues /\ None \notin Items
<1>1. NoRow.to = None /\ NoRow.live = FALSE /\ NoRow = [to |-> NoRow.to, live |-> NoRow.live]
  BY DEF NoRow
<1>2. None \notin Issues /\ None \notin Items
  BY ConstantsAssumption DEF None, Issues
<1>3. \A r \in Row(Issues) : r.to \in Issues /\ r.live \in BOOLEAN /\ r = [to |-> r.to, live |-> r.live]
  BY DEF Row
<1>4. \A r \in Row(Items) : r.to \in Items /\ r.live \in BOOLEAN /\ r = [to |-> r.to, live |-> r.live]
  BY DEF Row
<1>5. /\ \A r \in ForwardRow : r \in Row(Issues) \/ r = NoRow
      /\ \A r \in ReverseRow : r \in Row(Items) \/ r = NoRow
      /\ NoRow \in ForwardRow /\ NoRow \in ReverseRow
  BY DEF ForwardRow, ReverseRow
<1>6. \A r \in ForwardRow : /\ r.to \in Issues \cup {None} /\ r.live \in BOOLEAN
                            /\ r.live => r.to \in Issues
                            /\ r = [to |-> r.to, live |-> r.live]
  <2> SUFFICES ASSUME NEW r \in ForwardRow
               PROVE  /\ r.to \in Issues \cup {None} /\ r.live \in BOOLEAN
                      /\ r.live => r.to \in Issues
                      /\ r = [to |-> r.to, live |-> r.live]
    OBVIOUS
  <2>1. CASE r \in Row(Issues)
    BY <2>1, <1>3
  <2>2. CASE r = NoRow
    BY <2>2, <1>1
  <2> QED BY <2>1, <2>2, <1>5
<1>7. \A r \in ReverseRow : /\ r.to \in Items \cup {None} /\ r.live \in BOOLEAN
                            /\ r.live => r.to \in Items
                            /\ r = [to |-> r.to, live |-> r.live]
  <2> SUFFICES ASSUME NEW r \in ReverseRow
               PROVE  /\ r.to \in Items \cup {None} /\ r.live \in BOOLEAN
                      /\ r.live => r.to \in Items
                      /\ r = [to |-> r.to, live |-> r.live]
    OBVIOUS
  <2>1. CASE r \in Row(Items)
    BY <2>1, <1>4
  <2>2. CASE r = NoRow
    BY <2>2, <1>1
  <2> QED BY <2>1, <2>2, <1>5
<1> QED BY <1>1, <1>2, <1>5, <1>6, <1>7

LEMMA JobFacts ==
  /\ \A j \in Job : /\ j.item \in Items /\ j.project \in Projects
                    /\ j.kind \in {"upsert", "unsync"} /\ OriginOf(j) \in Origin
                    /\ OriginOf(j).item = j.item
  /\ Job \subseteq AnyJob /\ NoJob \in AnyJob
  /\ NoJob.item = None /\ NoJob.kind = "none"
BY DEF Job, AnyJob, NoJob, OriginOf, Origin

LEMMA WriteFacts ==
  /\ \A i \in Items, n \in Issues, live \in BOOLEAN :
       PutForward(i, n, live) \in Write /\ PutReverse(n, i, live) \in Write
  /\ \A i, n, live :
       /\ PutForward(i, n, live).table = "forward" /\ PutForward(i, n, live).key = i
       /\ PutForward(i, n, live).row = [to |-> n, live |-> live]
       /\ PutReverse(n, i, live).table = "reverse" /\ PutReverse(n, i, live).key = n
       /\ PutReverse(n, i, live).row = [to |-> i, live |-> live]
<1>1. \A i \in Items, n \in Issues, live \in BOOLEAN : PutForward(i, n, live) \in Write
  BY DEF PutForward, Write, Row
<1>2. \A i \in Items, n \in Issues, live \in BOOLEAN : PutReverse(n, i, live) \in Write
  BY DEF PutReverse, Write, Row
<1> QED BY <1>1, <1>2 DEF PutForward, PutReverse

\* An active sync has a job and an item of its own.
LEMMA ActiveFacts ==
  ASSUME SyncInv, NEW s \in Syncs
  PROVE  /\ Active(s) => job[s] \in Job /\ job[s].item \in Items
         /\ \A t \in Syncs \ {s} : Active(s) /\ Active(t) => job[t].item # job[s].item
BY JobFacts DEF SyncInv, Known, Knows, Alone, Active

\* What a sync knows depends on its variables, on the rows of its item and on the
\* issues created for it.
LEMMA OthersKnow ==
  ASSUME SyncInv, NEW t \in Syncs,
         pc'[t] = pc[t] /\ job'[t] = job[t] /\ issue'[t] = issue[t] /\ found'[t] = found[t],
         prior'[t] = prior[t] /\ plan'[t] = plan[t],
         \A n \in DOMAIN issues : n \in DOMAIN issues' /\ issues'[n] = issues[n],
         Active(t) => \A n \in DOMAIN issues' \ DOMAIN issues : issues'[n].item # job[t].item,
         Active(t) => forward'[job[t].item] = forward[job[t].item],
         Active(t) => \A m \in Issues : reverse'[m].live /\ reverse'[m].to = job[t].item =>
                                          reverse[m].live /\ reverse[m].to = job[t].item
  PROVE  Knows(t)'
<1> USE DEF OriginOf
<1>1. Knows(t)
  BY DEF SyncInv, Known
<1>2. CASE pc[t] = "idle"
  BY <1>1, <1>2 DEF Knows, UpsertAt, UnsyncAt
<1>3. CASE pc[t] # "idle" /\ job[t].kind = "upsert"
  <2>1. pc[t] \in UpsertAt /\ job[t] \in Job /\ Upserting(t) /\ Active(t)
    BY <1>1, <1>3 DEF Knows, Active
  <2>2. HasIssue(t) => HasIssue(t)'
    BY <2>1 DEF HasIssue
  <2>3. LinkLeft(t, job[t].item, issue[t]) => LinkLeft(t, job[t].item, issue[t])'
    BY <2>1 DEF LinkLeft, OnlyLive
  <2>4. Upserting(t)'
    BY <2>1, <2>2, <2>3, JobFacts DEF Upserting
  <2> QED BY <2>1, <2>4, <1>3 DEF Knows
<1>4. CASE pc[t] # "idle" /\ job[t].kind # "upsert"
  <2>1. pc[t] \in UnsyncAt /\ job[t] \in Job /\ job[t].kind = "unsync" /\ Unsyncing(t) /\ Active(t)
    BY <1>1, <1>4 DEF Knows, Active
  <2>2. Unsyncing(t)'
    BY <2>1 DEF Unsyncing, StaleLeft
  <2> QED BY <2>1, <2>2 DEF Knows
<1> QED BY <1>2, <1>3, <1>4

\* A step of s that leaves the host alone: only what s knows is to be shown.
LEMMA LocalStep ==
  ASSUME SyncInv, NEW s \in Syncs, TypeOK', Alone', Knows(s)',
         UNCHANGED <<issues, forward, reverse>>,
         \A t \in Syncs \ {s} :
            /\ pc'[t] = pc[t] /\ job'[t] = job[t] /\ issue'[t] = issue[t]
            /\ found'[t] = found[t] /\ prior'[t] = prior[t] /\ plan'[t] = plan[t],
         faults' = 0 => faults = 0 /\ pc[s] # "write"
  PROVE  SyncInv'
<1>1. \A t \in Syncs \ {s} : Knows(t)'
  BY OthersKnow DEF Active
<1>2. Known'
  BY <1>1 DEF Known
<1>3. RowsMatch' /\ NoDuplicate'
  BY DEF SyncInv, RowsMatch, Belong, IssueOf, NoDuplicate
<1>4. Agreement'
  <2> SUFFICES ASSUME faults' = 0, NEW i \in Items,
                      \A t \in Syncs : pc'[t] = "write" => job'[t].item # i
               PROVE  Agrees(i)'
    BY DEF Agreement
  <2>1. \A t \in Syncs : pc[t] = "write" => job[t].item # i
    OBVIOUS
  <2>2. Agrees(i)
    BY <2>1 DEF SyncInv, Agreement
  <2> QED BY <2>2 DEF Agrees
<1> QED BY <1>2, <1>3, <1>4 DEF SyncInv

\* The locals a sync does not have any more.
LEMMA FinishFacts ==
  ASSUME TypeOK, NEW s \in Syncs, Finish(s)
  PROVE  /\ pc'[s] = "idle" /\ job'[s] = NoJob /\ found'[s] = FALSE /\ Knows(s)'
         /\ \A t \in Syncs \ {s} :
              /\ pc'[t] = pc[t] /\ job'[t] = job[t] /\ issue'[t] = issue[t]
              /\ found'[t] = found[t] /\ prior'[t] = prior[t] /\ plan'[t] = plan[t]
         /\ pc' \in [Syncs -> {"idle", "find", "resolve", "create", "readForward", "readReverse",
                               "write", "update", "resolveLive", "readStale"}]
         /\ job' \in [Syncs -> AnyJob] /\ issue' \in [Syncs -> Issues \cup {None}]
         /\ found' \in [Syncs -> BOOLEAN] /\ prior' \in [Syncs -> ForwardRow]
         /\ plan' \in [Syncs -> Seq(Write)]
<1>1. <<>> \in Seq(Write)
  OBVIOUS
<1> QED BY <1>1, JobFacts, RowFacts DEF Finish, Goto, TypeOK, Knows

LEMMA FinishKeeps ==
  ASSUME SyncInv, NEW s \in Syncs, Finish(s), UNCHANGED <<issues, forward, reverse>>,
         faults' \in 0..MaxFaults
  PROVE  TypeOK' /\ Alone'
<1>1. TypeOK
  BY DEF SyncInv
<1>2. TypeOK'
  <2>1. /\ issues' \in Seq(Origin) /\ Len(issues') <= MaxIssues
        /\ forward' \in [Items -> ForwardRow] /\ reverse' \in [Issues -> ReverseRow]
    BY <1>1 DEF TypeOK
  <2> QED BY <1>1, <2>1, FinishFacts DEF TypeOK
<1>3. pc'[s] = "idle" /\ \A t \in Syncs \ {s} : pc'[t] = pc[t] /\ job'[t] = job[t]
  BY <1>1, FinishFacts
<1>4. Alone'
  BY <1>3 DEF SyncInv, Alone, Active
<1> QED BY <1>2, <1>4

-----------------------------------------------------------------------------
(* The steps.                                                               *)

LEMMA StartKeeps ==
  ASSUME SyncInv, NEW s \in Syncs, Start(s), ~Overlap
  PROVE  SyncInv'
<1>1. PICK j \in Job :
        /\ pc[s] = "idle"
        /\ \A t \in Syncs : Active(t) => job[t].item # j.item
        /\ job' = [job EXCEPT ![s] = j]
        /\ Goto(s, IF j.kind = "upsert" THEN "find" ELSE "resolveLive")
  BY DEF Start
<1>2. TypeOK'
  BY <1>1, JobFacts DEF SyncInv, TypeOK, Start, Goto, host
<1>3. /\ job'[s] = j /\ pc'[s] = (IF j.kind = "upsert" THEN "find" ELSE "resolveLive")
      /\ found'[s] = found[s]
      /\ \A t \in Syncs \ {s} : job'[t] = job[t] /\ pc'[t] = pc[t]
  BY <1>1 DEF SyncInv, TypeOK, Start, Goto
<1>4. Alone'
  BY <1>1, <1>3 DEF SyncInv, Alone, Active
<1>5. ~found[s]
  BY <1>1 DEF SyncInv, Known, Knows, UpsertAt, UnsyncAt
<1>6. Knows(s)'
  BY <1>3, <1>5, JobFacts DEF Knows, UpsertAt, UnsyncAt, Upserting, Unsyncing
<1> QED BY <1>1, <1>2, <1>3, <1>4, <1>6, LocalStep DEF Start, host

LEMMA FindByOriginKeeps ==
  ASSUME SyncInv, NEW s \in Syncs, FindByOrigin(s)
  PROVE  SyncInv'
<1>1. pc[s] = "find" /\ job[s] \in Job /\ job[s].kind = "upsert"
  BY DEF FindByOrigin, SyncInv, Known, Knows, UnsyncAt
<1>2. DOMAIN issues \subseteq Issues
  BY ConstantsAssumption DEF SyncInv, TypeOK, Issues
<1>3. TypeOK'
  BY <1>2 DEF SyncInv, TypeOK, FindByOrigin, Goto, host
<1>4. /\ job' = job /\ \A t \in Syncs \ {s} : pc'[t] = pc[t] /\ issue'[t] = issue[t] /\ found'[t] = found[t]
      /\ pc'[s] \in {"resolve", "create"}
  BY DEF SyncInv, TypeOK, FindByOrigin, Goto
<1>5. Alone'
  BY <1>1, <1>4 DEF SyncInv, Alone, Active
<1>6. Upserting(s)'
  BY DEF SyncInv, TypeOK, FindByOrigin, Goto, Upserting, HasIssue, OriginOf, host
<1>7. Knows(s)'
  BY <1>1, <1>4, <1>6 DEF Knows, UpsertAt
<1> QED BY <1>1, <1>3, <1>4, <1>5, <1>7, LocalStep DEF FindByOrigin, host

LEMMA ResolveMappedKeeps ==
  ASSUME SyncInv, NEW s \in Syncs, ResolveMapped(s)
  PROVE  SyncInv'
<1>1. pc[s] = "resolve" /\ job[s] \in Job /\ job[s].kind = "upsert" /\ HasIssue(s)
  BY DEF ResolveMapped, SyncInv, Known, Knows, UnsyncAt, Upserting
<1>2. TypeOK'
  BY DEF SyncInv, TypeOK, ResolveMapped, Goto, host
<1>3. /\ job' = job /\ issue' = issue /\ \A t \in Syncs \ {s} : pc'[t] = pc[t]
      /\ pc'[s] \in {"update", "readForward"}
      /\ pc'[s] = "update" => forward[job[s].item].live /\ forward[job[s].item].to = issue[s]
  BY DEF SyncInv, TypeOK, ResolveMapped, Goto
<1>4. Alone'
  BY <1>1, <1>3 DEF SyncInv, Alone, Active
<1>5. forward[job[s].item] \in ForwardRow
  BY <1>1, JobFacts DEF SyncInv, TypeOK
<1>6. pc'[s] = "update" => forward[job[s].item] = [to |-> issue[s], live |-> TRUE]
  BY <1>3, <1>5, RowFacts
<1>7. Upserting(s)'
  BY <1>1, <1>3, <1>6 DEF Upserting, HasIssue, OriginOf, ResolveMapped, host
<1>8. Knows(s)'
  BY <1>1, <1>3, <1>7 DEF Knows, UpsertAt
<1> QED BY <1>1, <1>2, <1>3, <1>4, <1>8, LocalStep DEF ResolveMapped, host

LEMMA UpdateIssueKeeps ==
  ASSUME SyncInv, NEW s \in Syncs, UpdateIssue(s)
  PROVE  SyncInv'
<1>1. Finish(s) /\ pc[s] = "update" /\ UNCHANGED <<issues, forward, reverse, faults>>
  BY DEF UpdateIssue, host
<1>2. TypeOK' /\ Alone'
  BY <1>1, FinishKeeps DEF SyncInv, TypeOK
<1> QED BY <1>1, <1>2, FinishFacts, LocalStep DEF SyncInv

LEMMA ReadForwardKeeps ==
  ASSUME SyncInv, NEW s \in Syncs, ReadForward(s)
  PROVE  SyncInv'
<1>1. pc[s] = "readForward" /\ job[s] \in Job /\ job[s].kind = "upsert" /\ HasIssue(s)
  BY DEF ReadForward, SyncInv, Known, Knows, UnsyncAt, Upserting
<1>2. forward[job[s].item] \in ForwardRow
  BY <1>1, JobFacts DEF SyncInv, TypeOK
<1>3. TypeOK'
  BY <1>2 DEF SyncInv, TypeOK, ReadForward, Goto, host
<1>4. /\ job' = job /\ issue' = issue /\ pc'[s] = "readReverse" /\ prior'[s] = forward[job[s].item]
      /\ \A t \in Syncs \ {s} : pc'[t] = pc[t] /\ prior'[t] = prior[t]
  BY DEF SyncInv, TypeOK, ReadForward, Goto
<1>5. Alone'
  BY <1>1, <1>4 DEF SyncInv, Alone, Active
<1>6. Knows(s)'
  BY <1>1, <1>4 DEF Knows, UpsertAt, Upserting, HasIssue, OriginOf, ReadForward, host
<1> QED BY <1>1, <1>3, <1>4, <1>5, <1>6, LocalStep DEF ReadForward, host

LEMMA ShortSequences ==
  ASSUME NEW S, NEW a \in S, NEW b \in S, NEW c \in S
  PROVE  /\ <<a>> \in Seq(S) /\ <<a, b>> \in Seq(S) /\ <<a, b, c>> \in Seq(S)
         /\ <<>> \o <<>> \o <<b, c>> = <<b, c>>
         /\ <<a>> \o <<>> \o <<b, c>> = <<a, b, c>>
<1>1. <<a>> \in Seq(S) /\ <<a, b>> \in Seq(S) /\ <<a, b, c>> \in Seq(S) /\ <<b, c>> \in Seq(S)
  OBVIOUS
<1>2. <<>> \o <<>> = <<>> /\ <<>> \o <<b, c>> = <<b, c>> /\ <<a>> \o <<>> = <<a>>
  BY <1>1, ConcatEmptySeq
<1>3. <<a>> \o <<b, c>> = <<a, b, c>>
  <2>1. Len(<<a>> \o <<b, c>>) = 3 /\ \A n \in 1..3 : (<<a>> \o <<b, c>>)[n] = <<a, b, c>>[n]
    BY <1>1, ConcatProperties
  <2> QED BY <1>1, <2>1, ConcatProperties, SeqEqual
<1> QED BY <1>1, <1>2, <1>3

\* The issue's reverse row names the sync's own item, if any: link() has no other
\* item's row to make stale.
LEMMA PlanFacts ==
  ASSUME SyncInv, NEW s \in Syncs, pc[s] = "readReverse"
  PROVE  LET i == job[s].item
             n == issue[s]
         IN  /\ job[s] \in Job /\ job[s].kind = "upsert" /\ HasIssue(s) /\ i \in Items /\ n \in Issues
             /\ LinkPlan(i, n, prior[s], reverse[n]) =
                  IF forward[i].to \notin {None, n}
                    THEN <<PutReverse(forward[i].to, i, FALSE), PutForward(i, n, TRUE), PutReverse(n, i, TRUE)>>
                    ELSE <<PutForward(i, n, TRUE), PutReverse(n, i, TRUE)>>
<1> DEFINE i == job[s].item
           n == issue[s]
<1>1. /\ job[s] \in Job /\ job[s].kind = "upsert" /\ HasIssue(s)
      /\ i \in Items /\ prior[s] = forward[i] /\ OriginOf(job[s]).item = i
  BY JobFacts DEF SyncInv, Known, Knows, Upserting, UnsyncAt
<1>2. n \in Issues /\ n \in DOMAIN issues /\ issues[n].item = i
  BY <1>1, ConstantsAssumption DEF HasIssue, SyncInv, TypeOK, Issues
<1>3. reverse[n].to \in {None, i}
  BY <1>2 DEF SyncInv, RowsMatch, Belong, IssueOf
<1> HIDE DEF i, n
<1>4. LinkPlan(i, n, prior[s], reverse[n]) =
        (IF forward[i].to \notin {None, n} THEN <<PutReverse(forward[i].to, i, FALSE)>> ELSE <<>>)
        \o <<>> \o <<PutForward(i, n, TRUE), PutReverse(n, i, TRUE)>>
  BY <1>1, <1>3 DEF LinkPlan
<1>5. LinkPlan(i, n, prior[s], reverse[n]) =
        IF forward[i].to \notin {None, n}
          THEN <<PutReverse(forward[i].to, i, FALSE), PutForward(i, n, TRUE), PutReverse(n, i, TRUE)>>
          ELSE <<PutForward(i, n, TRUE), PutReverse(n, i, TRUE)>>
  <2> DEFINE a == PutReverse(forward[i].to, i, FALSE)
             b == PutForward(i, n, TRUE)
             c == PutReverse(n, i, TRUE)
  <2>0. a \in {a, b, c} /\ b \in {a, b, c} /\ c \in {a, b, c}
    OBVIOUS
  <2>1. forward[i].to \notin {None, n} =>
          <<PutReverse(forward[i].to, i, FALSE)>> \o <<>> \o <<PutForward(i, n, TRUE), PutReverse(n, i, TRUE)>>
          = <<PutReverse(forward[i].to, i, FALSE), PutForward(i, n, TRUE), PutReverse(n, i, TRUE)>>
    BY <2>0, ShortSequences
  <2>2. <<>> \o <<>> \o <<PutForward(i, n, TRUE), PutReverse(n, i, TRUE)>>
          = <<PutForward(i, n, TRUE), PutReverse(n, i, TRUE)>>
    BY <2>0, ShortSequences
  <2> QED BY <1>4, <2>1, <2>2
<1> QED
  BY <1>1, <1>2, <1>5 DEF i, n

LEMMA ReadReverseKeeps ==
  ASSUME SyncInv, NEW s \in Syncs, ReadReverse(s)
  PROVE  SyncInv'
<1> DEFINE i == job[s].item
           n == issue[s]
           p == LinkPlan(i, n, prior[s], reverse[n])
<1>1. /\ pc[s] = "readReverse" /\ TypeOK
      /\ plan' = [plan EXCEPT ![s] = p] /\ Goto(s, "write")
      /\ UNCHANGED <<issues, forward, reverse, job, issue, found, prior, faults>>
  BY DEF ReadReverse, host, SyncInv
<1>2. job[s] \in Job /\ job[s].kind = "upsert" /\ HasIssue(s) /\ i \in Items /\ n \in Issues
  BY <1>1, PlanFacts
<1>3. p = IF forward[i].to \notin {None, n}
            THEN <<PutReverse(forward[i].to, i, FALSE), PutForward(i, n, TRUE), PutReverse(n, i, TRUE)>>
            ELSE <<PutForward(i, n, TRUE), PutReverse(n, i, TRUE)>>
  BY <1>1, PlanFacts
<1>4. forward[i].to \in Issues \cup {None}
  BY <1>1, <1>2, RowFacts DEF TypeOK
<1> HIDE DEF p, i, n
<1>5. p \in Seq(Write)
  <2>1. PutForward(i, n, TRUE) \in Write /\ PutReverse(n, i, TRUE) \in Write
    BY <1>2, WriteFacts
  <2>2. forward[i].to \notin {None, n} => PutReverse(forward[i].to, i, FALSE) \in Write
    BY <1>2, <1>4, WriteFacts
  <2> QED BY <1>3, <2>1, <2>2, ShortSequences
<1>6. /\ pc'[s] = "write" /\ plan'[s] = p
      /\ \A t \in Syncs \ {s} : pc'[t] = pc[t] /\ plan'[t] = plan[t]
      /\ plan' \in [Syncs -> Seq(Write)]
  BY <1>1, <1>5 DEF TypeOK, Goto
<1>7. TypeOK'
  BY <1>1, <1>6 DEF TypeOK, Goto
<1>8. Alone'
  BY <1>1, <1>6 DEF SyncInv, Alone, Active
<1>9. forward[i].to \in {None, n} => OnlyLive(n, i)
  BY <1>2, RowFacts DEF SyncInv, RowsMatch, Belong, OnlyLive, i
<1>10. LinkLeft(s, i, n)'
  <2>1. forward' = forward /\ reverse' = reverse
    BY <1>1
  <2>2. i' = i /\ n' = n
    BY <1>1 DEF i, n
  <2> QED BY <2>1, <2>2, <1>3, <1>6, <1>9 DEF LinkLeft, OnlyLive
<1>11. Knows(s)'
  BY <1>1, <1>2, <1>6, <1>10 DEF Knows, UpsertAt, Upserting, HasIssue, OriginOf, i, n
<1> QED BY <1>1, <1>6, <1>7, <1>8, <1>11, LocalStep

LEMMA ResolveLiveKeeps ==
  ASSUME SyncInv, NEW s \in Syncs, ResolveLive(s)
  PROVE  SyncInv'
<1>1. /\ pc[s] = "resolveLive" /\ job[s] \in Job /\ job[s].kind = "unsync" /\ ~found[s]
      /\ UNCHANGED <<issues, forward, reverse, faults>> /\ TypeOK
  BY DEF ResolveLive, SyncInv, Known, Knows, UpsertAt, Unsyncing, host
<1>2. CASE ~forward[job[s].item].live
  <2>1. Finish(s)
    BY <1>2 DEF ResolveLive
  <2> QED BY <2>1, <1>1, FinishKeeps, FinishFacts, LocalStep DEF TypeOK
<1>3. CASE forward[job[s].item].live
  <2>1. Goto(s, "readStale") /\ UNCHANGED <<job, issue, found, prior, plan>>
    BY <1>3 DEF ResolveLive
  <2>2. pc'[s] = "readStale" /\ \A t \in Syncs \ {s} : pc'[t] = pc[t]
    BY <1>1, <2>1 DEF TypeOK, Goto
  <2>3. TypeOK'
    BY <1>1, <2>1 DEF TypeOK, Goto
  <2>4. Alone'
    BY <1>1, <2>1, <2>2 DEF SyncInv, Alone, Active
  <2>5. Knows(s)'
    BY <1>1, <1>3, <2>1, <2>2 DEF Knows, UnsyncAt, Unsyncing
  <2> QED BY <1>1, <2>1, <2>2, <2>3, <2>4, <2>5, LocalStep
<1> QED BY <1>2, <1>3

LEMMA ReadStaleKeeps ==
  ASSUME SyncInv, NEW s \in Syncs, ReadStale(s)
  PROVE  SyncInv'
<1> DEFINE i == job[s].item
           n == forward[i].to
           p == <<PutForward(i, n, FALSE), PutReverse(n, i, FALSE)>>
<1>1. /\ pc[s] = "readStale" /\ job[s] \in Job /\ job[s].kind = "unsync" /\ ~found[s]
      /\ forward[i].live /\ TypeOK
      /\ plan' = [plan EXCEPT ![s] = p] /\ Goto(s, "write")
      /\ UNCHANGED <<issues, forward, reverse, job, issue, found, prior, faults>>
  BY DEF ReadStale, SyncInv, Known, Knows, UpsertAt, Unsyncing, host
<1>2. i \in Items /\ n \in Issues /\ n # None
  BY <1>1, JobFacts, RowFacts DEF TypeOK
<1>3. p \in Seq(Write)
  <2>1. PutForward(i, n, FALSE) \in Write /\ PutReverse(n, i, FALSE) \in Write
    BY <1>2, WriteFacts
  <2> QED BY <2>1, ShortSequences
<1> HIDE DEF p
<1>4. /\ pc'[s] = "write" /\ plan'[s] = p
      /\ \A t \in Syncs \ {s} : pc'[t] = pc[t] /\ plan'[t] = plan[t]
      /\ plan' \in [Syncs -> Seq(Write)]
  BY <1>1, <1>3 DEF TypeOK, Goto
<1>5. TypeOK'
  BY <1>1, <1>4 DEF TypeOK, Goto
<1>6. Alone'
  BY <1>1, <1>4 DEF SyncInv, Alone, Active
<1>7. Knows(s)'
  BY <1>1, <1>2, <1>4 DEF Knows, UnsyncAt, Unsyncing, StaleLeft, p
<1> QED BY <1>1, <1>4, <1>5, <1>6, <1>7, LocalStep

LEMMA CutOffKeeps ==
  ASSUME SyncInv, NEW s \in Syncs, CutOff(s)
  PROVE  SyncInv'
<1>1. /\ Finish(s) /\ TypeOK /\ faults' = faults + 1 /\ faults \in Nat /\ faults' \in 0..MaxFaults
      /\ UNCHANGED <<issues, forward, reverse>>
  BY ConstantsAssumption DEF CutOff, host, SyncInv, TypeOK
<1>2. faults' # 0
  BY <1>1
<1> QED BY <1>1, <1>2, FinishKeeps, FinishFacts, LocalStep

LEMMA CreateIssueKeeps ==
  ASSUME SyncInv, NEW s \in Syncs, CreateIssue(s)
  PROVE  SyncInv'
<1> DEFINE o == OriginOf(job[s])
           n == Len(issues) + 1
<1>1. /\ pc[s] = "create" /\ job[s] \in Job /\ job[s].kind = "upsert" /\ TypeOK
      /\ \A m \in DOMAIN issues : issues[m] # o
      /\ issues' = Append(issues, o) /\ issue' = [issue EXCEPT ![s] = n] /\ Goto(s, "readForward")
      /\ Len(issues) < MaxIssues
      /\ UNCHANGED <<forward, reverse, job, found, prior, plan, faults>>
  BY DEF CreateIssue, SyncInv, Known, Knows, UnsyncAt, Upserting
<1>2. o \in Origin /\ o.item = job[s].item
  BY <1>1, JobFacts
<1> HIDE DEF o
<1>3. /\ issues \in Seq(Origin) /\ Len(issues) \in Nat /\ DOMAIN issues = 1..Len(issues)
      /\ n \in Issues
  BY <1>1, ConstantsAssumption DEF TypeOK, Issues
<1>4. /\ issues' \in Seq(Origin) /\ Len(issues') = n /\ DOMAIN issues' = DOMAIN issues \cup {n}
      /\ issues'[n] = o /\ \A m \in DOMAIN issues : issues'[m] = issues[m]
      /\ n \notin DOMAIN issues
  BY <1>1, <1>2, <1>3
<1> HIDE DEF n
<1>5. /\ pc'[s] = "readForward" /\ issue'[s] = n
      /\ \A t \in Syncs \ {s} : pc'[t] = pc[t] /\ issue'[t] = issue[t]
  BY <1>1 DEF TypeOK, Goto
<1>6. TypeOK'
  <2>1. Len(issues') <= MaxIssues
    BY <1>1, <1>3, <1>4, ConstantsAssumption DEF n
  <2> QED BY <1>1, <1>3, <1>4, <2>1 DEF TypeOK, Goto
<1>7. Alone'
  BY <1>1, <1>5 DEF SyncInv, Alone, Active
<1>8. Knows(s)'
  <2>1. HasIssue(s)'
    BY <1>1, <1>4, <1>5 DEF HasIssue, OriginOf, o
  <2> QED BY <2>1, <1>1, <1>5 DEF Knows, UpsertAt, Upserting
<1>9. ASSUME NEW t \in Syncs \ {s} PROVE Knows(t)'
  <2>1. Active(s)
    BY <1>1 DEF Active
  <2>2. Active(t) => job[t].item # job[s].item
    BY <2>1, ActiveFacts
  <2>3. Active(t) => \A m \in DOMAIN issues' \ DOMAIN issues : issues'[m].item # job[t].item
    BY <2>2, <1>2, <1>4
  <2> QED BY <2>3, <1>1, <1>4, <1>5, OthersKnow
<1>10. Known'
  BY <1>8, <1>9 DEF Known
<1>11. RowsMatch'
  BY <1>1, <1>4 DEF SyncInv, RowsMatch, Belong, IssueOf
<1>12. NoDuplicate'
  BY <1>1, <1>4 DEF SyncInv, NoDuplicate
<1>13. Agreement'
  <2> SUFFICES ASSUME faults' = 0, NEW i \in Items,
                      \A t \in Syncs : pc'[t] = "write" => job'[t].item # i
               PROVE  Agrees(i)'
    BY DEF Agreement
  <2>1. \A t \in Syncs : pc[t] = "write" => job[t].item # i
    BY <1>1, <1>5
  <2>2. Agrees(i)
    BY <1>1, <2>1 DEF SyncInv, Agreement
  <2> QED BY <1>1, <2>2 DEF Agrees
<1> QED BY <1>6, <1>7, <1>10, <1>11, <1>12, <1>13 DEF SyncInv

-----------------------------------------------------------------------------
(* The row upserts.                                                         *)

\* A reverse row of the item's issue is upserted: no other item is disturbed.
LEMMA ReverseWritten ==
  ASSUME SyncInv, NEW i \in Items, NEW n \in Issues, NEW r \in ReverseRow,
         IssueOf(n, i), r.to = i, r.live => forward[i].to = n,
         reverse'[n] = r, \A m \in Issues \ {n} : reverse'[m] = reverse[m],
         forward' = forward, issues' = issues
  PROVE  /\ RowsMatch'
         /\ \A k \in Items \ {i} : Agrees(k) => Agrees(k)'
         /\ \A k \in Items \ {i}, m \in Issues :
              reverse'[m].live /\ reverse'[m].to = k => reverse[m].live /\ reverse[m].to = k
<1>3. \A k \in Items : r = [to |-> k, live |-> TRUE] => k = i
  OBVIOUS
<1>5. reverse[n].to \in {None, i}
  BY DEF SyncInv, RowsMatch, Belong, IssueOf
<1>6. i # None
  BY RowFacts
<1>7. RowsMatch'
  <2>1. (\A k \in Items : forward[k].to # None => IssueOf(forward[k].to, k))'
    BY DEF SyncInv, RowsMatch, Belong, IssueOf
  <2>2. (\A m \in Issues : reverse[m].to # None => IssueOf(m, reverse[m].to))'
    BY DEF SyncInv, RowsMatch, Belong, IssueOf
  <2>3. (\A m \in Issues : reverse[m].live => forward[reverse[m].to].to = m)'
    BY DEF SyncInv, RowsMatch, Belong
  <2> QED BY <2>1, <2>2, <2>3 DEF RowsMatch, Belong
<1>8. ASSUME NEW k \in Items \ {i}, NEW m \in Issues
      PROVE  (reverse'[m] = [to |-> k, live |-> TRUE]) <=> (reverse[m] = [to |-> k, live |-> TRUE])
  <2>1. CASE m # n
    BY <2>1
  <2>2. CASE m = n
    <3>1. r # [to |-> k, live |-> TRUE]
      BY <1>3
    <3>2. reverse[n] # [to |-> k, live |-> TRUE]
      <4>1. k # None /\ k # i
        BY RowFacts
      <4> QED BY <4>1, <1>5
    <3> QED BY <2>2, <3>1, <3>2
  <2> QED BY <2>1, <2>2
<1>9. \A k \in Items \ {i} : Agrees(k) => Agrees(k)'
  BY <1>8 DEF Agrees
<1>10. \A k \in Items \ {i}, m \in Issues :
         reverse'[m].live /\ reverse'[m].to = k => reverse[m].live /\ reverse[m].to = k
  OBVIOUS
<1> QED BY <1>7, <1>9, <1>10

\* The forward row of the item is upserted: only that issue may be live.
LEMMA ForwardWritten ==
  ASSUME SyncInv, NEW i \in Items, NEW n \in Issues, NEW live \in BOOLEAN,
         IssueOf(n, i), OnlyLive(n, i),
         forward' = [forward EXCEPT ![i] = [to |-> n, live |-> live]],
         reverse' = reverse, issues' = issues
  PROVE  /\ forward' \in [Items -> ForwardRow]
         /\ RowsMatch'
         /\ \A k \in Items \ {i} : Agrees(k) => Agrees(k)'
         /\ forward'[i] = [to |-> n, live |-> live]
         /\ \A k \in Items \ {i} : forward'[k] = forward[k]
<1> DEFINE r == [to |-> n, live |-> live]
<1>1. forward \in [Items -> ForwardRow] /\ r \in ForwardRow /\ r.to = n /\ r.live = live
  BY DEF SyncInv, TypeOK, ForwardRow, Row
<1>2. forward' = [forward EXCEPT ![i] = r]
  OBVIOUS
<1> HIDE DEF r
<1>3. forward'[i] = r /\ forward' \in [Items -> ForwardRow] /\ \A k \in Items \ {i} : forward'[k] = forward[k]
  BY <1>1, <1>2
<1>4. RowsMatch'
  <2>1. (\A k \in Items : forward[k].to # None => IssueOf(forward[k].to, k))'
    BY <1>1, <1>3 DEF SyncInv, RowsMatch, Belong, IssueOf
  <2>2. (\A m \in Issues : reverse[m].to # None => IssueOf(m, reverse[m].to))'
    BY DEF SyncInv, RowsMatch, Belong, IssueOf
  <2>3. (\A m \in Issues : reverse[m].live => forward[reverse[m].to].to = m)'
    <3> SUFFICES ASSUME NEW m \in Issues, reverse[m].live
                 PROVE  forward'[reverse[m].to].to = m
      OBVIOUS
    <3>1. reverse[m].to \in Items /\ forward[reverse[m].to].to = m
      BY RowFacts DEF SyncInv, TypeOK, RowsMatch, Belong
    <3>2. CASE reverse[m].to = i
      BY <3>2, <1>1, <1>3 DEF OnlyLive
    <3>3. CASE reverse[m].to # i
      BY <3>1, <3>3, <1>3
    <3> QED BY <3>2, <3>3
  <2> QED BY <2>1, <2>2, <2>3 DEF RowsMatch, Belong
<1>5. \A k \in Items \ {i} : Agrees(k) => Agrees(k)'
  BY <1>3 DEF Agrees
<1> QED BY <1>3, <1>4, <1>5 DEF r

LEMMA Shortened ==
  /\ \A p, a, b, c : p = <<a, b, c>> => Len(p) = 3 /\ Tail(p) = <<b, c>>
  /\ \A p, b, c : p = <<b, c>> => Len(p) = 2 /\ Tail(p) = <<c>>
  /\ \A p, c : p = <<c>> => Len(p) = 1
<1>1. \A a, b, c : Len(<<a, b, c>>) = 3 /\ Tail(<<a, b, c>>) = <<b, c>>
  OBVIOUS
<1>2. \A b, c : Len(<<b, c>>) = 2 /\ Tail(<<b, c>>) = <<c>>
  OBVIOUS
<1>3. \A c : Len(<<c>>) = 1
  OBVIOUS
<1> QED BY <1>1, <1>2, <1>3, Zenon

\* The upserts that are left are made one by one.
LEMMA WriteCases ==
  ASSUME SyncInv, NEW s \in Syncs, WriteRow(s)
  PROVE  LET i == job[s].item
             n == issue[s]
             old == forward[i].to
         IN  /\ i \in Items /\ job[s] \in Job /\ plan[s] # <<>>
             /\ \/ /\ job[s].kind = "upsert" /\ old \in Issues /\ old # n /\ IssueOf(old, i) /\ HasIssue(s)
                   /\ reverse' = [reverse EXCEPT ![old] = [to |-> i, live |-> FALSE]] /\ forward' = forward
                   /\ plan[s] = <<PutReverse(old, i, FALSE), PutForward(i, n, TRUE), PutReverse(n, i, TRUE)>>
                \/ /\ job[s].kind = "upsert" /\ HasIssue(s) /\ OnlyLive(n, i)
                   /\ forward' = [forward EXCEPT ![i] = [to |-> n, live |-> TRUE]] /\ reverse' = reverse
                   /\ plan[s] = <<PutForward(i, n, TRUE), PutReverse(n, i, TRUE)>>
                \/ /\ job[s].kind = "upsert" /\ HasIssue(s) /\ forward[i] = [to |-> n, live |-> TRUE]
                   /\ reverse' = [reverse EXCEPT ![n] = [to |-> i, live |-> TRUE]] /\ forward' = forward
                   /\ plan[s] = <<PutReverse(n, i, TRUE)>>
                \/ /\ job[s].kind = "unsync" /\ ~found[s] /\ old \in Issues /\ IssueOf(old, i)
                   /\ forward' = [forward EXCEPT ![i] = [to |-> old, live |-> FALSE]] /\ reverse' = reverse
                   /\ plan[s] = <<PutForward(i, old, FALSE), PutReverse(old, i, FALSE)>>
                \/ /\ job[s].kind = "unsync" /\ ~found[s] /\ old \in Issues /\ IssueOf(old, i)
                   /\ ~forward[i].live
                   /\ reverse' = [reverse EXCEPT ![old] = [to |-> i, live |-> FALSE]] /\ forward' = forward
                   /\ plan[s] = <<PutReverse(old, i, FALSE)>>
<1> DEFINE i == job[s].item
           n == issue[s]
           old == forward[i].to
<1>1. pc[s] = "write" /\ job[s] \in Job /\ i \in Items
  BY JobFacts DEF WriteRow, SyncInv, Known, Knows
<1>2. old \in Issues \cup {None} /\ (old # None => IssueOf(old, i))
  BY <1>1, RowFacts DEF SyncInv, TypeOK, RowsMatch, Belong
<1>3. \/ job[s].kind = "upsert" /\ HasIssue(s) /\ LinkLeft(s, i, n)
      \/ job[s].kind = "unsync" /\ ~found[s] /\ StaleLeft(s, i)
  BY <1>1 DEF SyncInv, Known, Knows, Upserting, Unsyncing
<1>4. LET w == Head(plan[s])
      IN  IF w.table = "forward"
            THEN forward' = [forward EXCEPT ![w.key] = w.row] /\ UNCHANGED reverse
            ELSE reverse' = [reverse EXCEPT ![w.key] = w.row] /\ UNCHANGED forward
  BY DEF WriteRow
<1>5. ASSUME NEW k, NEW m, NEW live, Head(plan[s]) = PutForward(k, m, live)
      PROVE  forward' = [forward EXCEPT ![k] = [to |-> m, live |-> live]] /\ reverse' = reverse
  <2>1. /\ Head(plan[s]).table = "forward" /\ Head(plan[s]).key = k
        /\ Head(plan[s]).row = [to |-> m, live |-> live]
    BY <1>5 DEF PutForward
  <2> QED BY <1>4, <2>1
<1>6. ASSUME NEW k, NEW m, NEW live, Head(plan[s]) = PutReverse(m, k, live)
      PROVE  reverse' = [reverse EXCEPT ![m] = [to |-> k, live |-> live]] /\ forward' = forward
  <2>1. /\ Head(plan[s]).table = "reverse" /\ Head(plan[s]).key = m
        /\ Head(plan[s]).row = [to |-> k, live |-> live]
    BY <1>6 DEF PutReverse
  <2> QED BY <1>4, <2>1
<1> HIDE DEF i, n, old
<1>8. CASE job[s].kind = "upsert" /\ HasIssue(s) /\ LinkLeft(s, i, n)
  <2>1. CASE old \notin {None, n} /\ plan[s] = <<PutReverse(old, i, FALSE), PutForward(i, n, TRUE), PutReverse(n, i, TRUE)>>
    <3>1. Head(plan[s]) = PutReverse(old, i, FALSE)
      BY <2>1
    <3>2. reverse' = [reverse EXCEPT ![old] = [to |-> i, live |-> FALSE]] /\ forward' = forward
      BY <3>1, <1>6
    <3>3. old \in Issues /\ old # n /\ IssueOf(old, i)
      BY <2>1, <1>2
    <3> QED BY <2>1, <3>2, <3>3, <1>1, <1>8 DEF i, n, old
  <2>2. CASE OnlyLive(n, i) /\ plan[s] = <<PutForward(i, n, TRUE), PutReverse(n, i, TRUE)>>
    <3>1. Head(plan[s]) = PutForward(i, n, TRUE)
      BY <2>2
    <3>2. forward' = [forward EXCEPT ![i] = [to |-> n, live |-> TRUE]] /\ reverse' = reverse
      BY <3>1, <1>5
    <3> QED BY <2>2, <3>2, <1>1, <1>8 DEF i, n, old
  <2>3. CASE forward[i] = [to |-> n, live |-> TRUE] /\ plan[s] = <<PutReverse(n, i, TRUE)>>
    <3>1. Head(plan[s]) = PutReverse(n, i, TRUE)
      BY <2>3
    <3>2. reverse' = [reverse EXCEPT ![n] = [to |-> i, live |-> TRUE]] /\ forward' = forward
      BY <3>1, <1>6
    <3> QED BY <2>3, <3>2, <1>1, <1>8 DEF i, n, old
  <2> QED BY <2>1, <2>2, <2>3, <1>8 DEF LinkLeft, old
<1>9. CASE job[s].kind = "unsync" /\ ~found[s] /\ StaleLeft(s, i)
  <2>0. old # None /\ old \in Issues /\ IssueOf(old, i)
    BY <1>2, <1>9 DEF StaleLeft, old
  <2>1. CASE plan[s] = <<PutForward(i, old, FALSE), PutReverse(old, i, FALSE)>>
    <3>1. Head(plan[s]) = PutForward(i, old, FALSE)
      BY <2>1
    <3>2. forward' = [forward EXCEPT ![i] = [to |-> old, live |-> FALSE]] /\ reverse' = reverse
      BY <3>1, <1>5
    <3> QED BY <2>0, <2>1, <3>2, <1>1, <1>9 DEF i, n, old
  <2>2. CASE ~forward[i].live /\ plan[s] = <<PutReverse(old, i, FALSE)>>
    <3>1. Head(plan[s]) = PutReverse(old, i, FALSE)
      BY <2>2
    <3>2. reverse' = [reverse EXCEPT ![old] = [to |-> i, live |-> FALSE]] /\ forward' = forward
      BY <3>1, <1>6
    <3> QED BY <2>0, <2>2, <3>2, <1>1, <1>9 DEF i, n, old
  <2> QED BY <2>1, <2>2, <1>9 DEF StaleLeft, old
<1>10. plan[s] # <<>>
  <2>1. \E a, b, c : plan[s] = <<a, b, c>> \/ plan[s] = <<b, c>> \/ plan[s] = <<c>>
    BY <1>3, Zenon DEF LinkLeft, StaleLeft
  <2> QED BY <2>1
<1> QED BY <1>1, <1>3, <1>8, <1>9, <1>10 DEF i, n, old

\* What the upsert does to the sync itself.
LEMMA AfterWrite ==
  ASSUME SyncInv, NEW s \in Syncs, WriteRow(s)
  PROVE  /\ \A t \in Syncs \ {s} :
              /\ pc'[t] = pc[t] /\ job'[t] = job[t] /\ issue'[t] = issue[t]
              /\ found'[t] = found[t] /\ prior'[t] = prior[t] /\ plan'[t] = plan[t]
         /\ pc' \in [Syncs -> {"idle", "find", "resolve", "create", "readForward", "readReverse",
                               "write", "update", "resolveLive", "readStale"}]
         /\ job' \in [Syncs -> AnyJob] /\ issue' \in [Syncs -> Issues \cup {None}]
         /\ found' \in [Syncs -> BOOLEAN] /\ prior' \in [Syncs -> ForwardRow]
         /\ plan' \in [Syncs -> Seq(Write)]
         /\ Alone'
<1>1. TypeOK /\ pc[s] = "write" /\ plan[s] \in Seq(Write)
  BY DEF SyncInv, TypeOK, WriteRow
<1>2. CASE ~(Len(plan[s]) > 1 \/ found[s])
  <2>1. Finish(s)
    BY <1>2 DEF WriteRow
  <2>2. pc'[s] = "idle" /\ \A t \in Syncs \ {s} : pc'[t] = pc[t] /\ job'[t] = job[t]
    BY <1>1, <2>1, FinishFacts
  <2>3. Alone'
    BY <2>2 DEF SyncInv, Alone, Active
  <2> QED BY <1>1, <1>2, <2>1, <2>3, FinishFacts
<1>3. CASE Len(plan[s]) > 1 \/ found[s]
  <2>1. /\ plan' = [plan EXCEPT ![s] = Tail(plan[s])]
        /\ Goto(s, IF Len(plan[s]) > 1 THEN "write" ELSE "update")
        /\ UNCHANGED <<job, issue, found, prior>>
    BY <1>3 DEF WriteRow
  <2>2. plan[s] # <<>>
    BY WriteCases
  <2>3. Tail(plan[s]) \in Seq(Write)
    BY <1>1, <2>2, HeadTailProperties
  <2>4. /\ pc'[s] = (IF Len(plan[s]) > 1 THEN "write" ELSE "update")
        /\ \A t \in Syncs \ {s} : pc'[t] = pc[t] /\ plan'[t] = plan[t]
        /\ plan' \in [Syncs -> Seq(Write)] /\ plan'[s] = Tail(plan[s])
        /\ pc' \in [Syncs -> {"idle", "find", "resolve", "create", "readForward", "readReverse",
                              "write", "update", "resolveLive", "readStale"}]
    BY <1>1, <2>1, <2>3 DEF TypeOK, Goto
  <2>5. Alone'
    BY <1>1, <2>1, <2>4 DEF SyncInv, Alone, Active
  <2> QED BY <1>1, <1>3, <2>1, <2>4, <2>5 DEF TypeOK
<1> QED BY <1>2, <1>3

LEMMA GoesOn ==
  ASSUME SyncInv, NEW s \in Syncs, WriteRow(s)
  PROVE  /\ Len(plan[s]) \in {2, 3} =>
              pc'[s] = "write" /\ plan'[s] = Tail(plan[s]) /\ UNCHANGED <<job, issue, found, prior>>
         /\ Len(plan[s]) = 1 /\ found[s] => pc'[s] = "update" /\ UNCHANGED <<job, issue, found, prior>>
         /\ Len(plan[s]) = 1 /\ ~found[s] => pc'[s] = "idle" /\ Knows(s)'
<1>1. TypeOK
  BY DEF SyncInv
<1>2. ASSUME Len(plan[s]) > 1 \/ found[s]
      PROVE  /\ plan' = [plan EXCEPT ![s] = Tail(plan[s])]
             /\ pc' = [pc EXCEPT ![s] = IF Len(plan[s]) > 1 THEN "write" ELSE "update"]
             /\ UNCHANGED <<job, issue, found, prior>>
  BY <1>2 DEF WriteRow, Goto
<1>3. ASSUME Len(plan[s]) \in {2, 3}
      PROVE  pc'[s] = "write" /\ plan'[s] = Tail(plan[s]) /\ UNCHANGED <<job, issue, found, prior>>
  <2>1. Len(plan[s]) > 1
    BY <1>3
  <2> QED BY <1>1, <1>2, <2>1 DEF TypeOK
<1>4. ASSUME Len(plan[s]) = 1, found[s]
      PROVE  pc'[s] = "update" /\ UNCHANGED <<job, issue, found, prior>>
  <2>1. ~(Len(plan[s]) > 1)
    BY <1>4
  <2> QED BY <1>1, <1>2, <1>4, <2>1 DEF TypeOK
<1>5. ASSUME Len(plan[s]) = 1, ~found[s]
      PROVE  pc'[s] = "idle" /\ Knows(s)'
  <2>1. ~(Len(plan[s]) > 1)
    BY <1>5
  <2>2. Finish(s)
    BY <1>5, <2>1 DEF WriteRow
  <2> QED BY <1>1, <2>2, FinishFacts
<1> QED BY <1>3, <1>4, <1>5

\* The rest of the argument, once the rows are known to be sound.
LEMMA WrittenRow ==
  ASSUME SyncInv, NEW s \in Syncs, WriteRow(s), Knows(s)',
         RowsMatch', reverse' \in [Issues -> ReverseRow], forward' \in [Items -> ForwardRow],
         \A k \in Items \ {job[s].item} : forward'[k] = forward[k],
         \A k \in Items \ {job[s].item}, m \in Issues :
           reverse'[m].live /\ reverse'[m].to = k => reverse[m].live /\ reverse[m].to = k,
         \A k \in Items \ {job[s].item} : Agrees(k) => Agrees(k)',
         (pc'[s] = "write" /\ job'[s] = job[s]) \/ \A k \in Items : k = job[s].item => Agrees(k)'
  PROVE  SyncInv'
<1>1. pc[s] = "write" /\ Active(s) /\ job[s].item \in Items /\ UNCHANGED <<issues, faults>>
  BY ActiveFacts DEF WriteRow, Active
<1>2. TypeOK'
  BY <1>1, AfterWrite DEF SyncInv, TypeOK
<1>3. ASSUME NEW t \in Syncs \ {s} PROVE Knows(t)'
  <2>1. Active(t) => job[t].item \in Items \ {job[s].item}
    BY <1>1, ActiveFacts
  <2>2. /\ pc'[t] = pc[t] /\ job'[t] = job[t] /\ issue'[t] = issue[t]
        /\ found'[t] = found[t] /\ prior'[t] = prior[t] /\ plan'[t] = plan[t]
    BY AfterWrite
  <2> QED BY <1>1, <2>1, <2>2, OthersKnow
<1>4. Known'
  BY <1>3 DEF Known
<1>5. NoDuplicate'
  BY <1>1 DEF SyncInv, NoDuplicate
<1>6. Agreement'
  <2> SUFFICES ASSUME faults' = 0, NEW i \in Items,
                      \A t \in Syncs : pc'[t] = "write" => job'[t].item # i
               PROVE  Agrees(i)'
    BY DEF Agreement
  <2>1. CASE i = job[s].item
    BY <2>1
  <2>2. CASE i # job[s].item
    <3>1. ASSUME NEW t \in Syncs PROVE pc[t] = "write" => job[t].item # i
      <4>1. t # s => pc'[t] = pc[t] /\ job'[t] = job[t]
        BY AfterWrite
      <4> QED BY <2>2, <4>1
    <3>2. Agrees(i)
      BY <1>1, <3>1 DEF SyncInv, Agreement
    <3> QED BY <2>2, <3>2
  <2> QED BY <2>1, <2>2
<1> QED BY <1>2, <1>4, <1>5, <1>6, AfterWrite DEF SyncInv

LEMMA WriteRowKeeps ==
  ASSUME SyncInv, NEW s \in Syncs, WriteRow(s)
  PROVE  SyncInv'
<1> SUFFICES ASSUME NEW i, NEW n, NEW old,
                    i = job[s].item, n = issue[s], old = forward[i].to
             PROVE  SyncInv'
  OBVIOUS
<1>1. /\ i \in Items /\ job[s] \in Job /\ pc[s] = "write" /\ issues' = issues
      /\ forward \in [Items -> ForwardRow] /\ reverse \in [Issues -> ReverseRow]
      /\ \A m \in Issues : reverse[m].live /\ reverse[m].to = i => forward[i].to = m
      /\ HasIssue(s) => IssueOf(n, i) /\ n \in Issues
  <2>1. i \in Items /\ job[s] \in Job /\ pc[s] = "write" /\ issues' = issues
    BY WriteCases DEF WriteRow
  <2>2. HasIssue(s) => IssueOf(n, i) /\ n \in Issues
    BY <2>1, JobFacts, ConstantsAssumption DEF HasIssue, IssueOf, SyncInv, TypeOK, Issues
  <2> QED BY <2>1, <2>2 DEF SyncInv, TypeOK, RowsMatch, Belong
<1>2. CASE /\ job[s].kind = "upsert" /\ old \in Issues /\ old # n /\ IssueOf(old, i) /\ HasIssue(s)
           /\ reverse' = [reverse EXCEPT ![old] = [to |-> i, live |-> FALSE]] /\ forward' = forward
           /\ plan[s] = <<PutReverse(old, i, FALSE), PutForward(i, n, TRUE), PutReverse(n, i, TRUE)>>
  <2>1. /\ reverse' \in [Issues -> ReverseRow] /\ RowsMatch'
        /\ \A k \in Items \ {i} : Agrees(k) => Agrees(k)'
        /\ \A k \in Items \ {i}, m \in Issues :
             reverse'[m].live /\ reverse'[m].to = k => reverse[m].live /\ reverse[m].to = k
        /\ reverse'[old] = [to |-> i, live |-> FALSE]
        /\ \A m \in Issues \ {old} : reverse'[m] = reverse[m]
    <3> DEFINE r == [to |-> i, live |-> FALSE]
    <3>1. r \in ReverseRow /\ r.to = i /\ ~r.live
      BY <1>1 DEF ReverseRow, Row
    <3>2. reverse' = [reverse EXCEPT ![old] = r] /\ forward' = forward /\ issues' = issues
      BY <1>1, <1>2
    <3> HIDE DEF r
    <3>3. /\ reverse' \in [Issues -> ReverseRow] /\ reverse'[old] = r
          /\ \A m \in Issues \ {old} : reverse'[m] = reverse[m]
      BY <1>1, <1>2, <3>1, <3>2
    <3>4. old \in Issues /\ IssueOf(old, i) /\ (r.live => forward[i].to = old)
      BY <1>1, <1>2, <3>1
    <3>5. /\ RowsMatch'
          /\ \A k \in Items \ {i} : Agrees(k) => Agrees(k)'
          /\ \A k \in Items \ {i}, m \in Issues :
               reverse'[m].live /\ reverse'[m].to = k => reverse[m].live /\ reverse[m].to = k
      BY <1>1, <3>1, <3>2, <3>3, <3>4, ReverseWritten
    <3> QED BY <3>3, <3>5 DEF r
  <2>2. OnlyLive(n, i)'
    BY <1>1, <2>1 DEF OnlyLive
  <2>3. /\ pc'[s] = "write" /\ plan'[s] = <<PutForward(i, n, TRUE), PutReverse(n, i, TRUE)>>
        /\ UNCHANGED <<job, issue, found, prior>>
    <3> DEFINE a == PutReverse(old, i, FALSE)
               b == PutForward(i, n, TRUE)
               c == PutReverse(n, i, TRUE)
    <3>1. plan[s] = <<a, b, c>>
      BY <1>2
    <3> HIDE DEF a, b, c
    <3>2. Len(plan[s]) = 3 /\ Tail(plan[s]) = <<b, c>>
      BY <3>1, Shortened
    <3> QED BY <3>2, GoesOn DEF b, c
  <2>4. LinkLeft(s, job[s].item, issue[s])'
    BY <2>2, <2>3 DEF LinkLeft
  <2>5. Knows(s)'
    BY <1>1, <1>2, <2>3, <2>4 DEF Knows, UpsertAt, Upserting, HasIssue, OriginOf
  <2> QED BY <1>1, <1>2, <2>1, <2>3, <2>5, WrittenRow
<1>3. CASE /\ job[s].kind = "upsert" /\ HasIssue(s) /\ OnlyLive(n, i)
           /\ forward' = [forward EXCEPT ![i] = [to |-> n, live |-> TRUE]] /\ reverse' = reverse
           /\ plan[s] = <<PutForward(i, n, TRUE), PutReverse(n, i, TRUE)>>
  <2>1. /\ forward' \in [Items -> ForwardRow] /\ RowsMatch'
        /\ \A k \in Items \ {i} : Agrees(k) => Agrees(k)'
        /\ forward'[i] = [to |-> n, live |-> TRUE]
        /\ \A k \in Items \ {i} : forward'[k] = forward[k]
    BY <1>1, <1>3, ForwardWritten
  <2>2. /\ pc'[s] = "write" /\ plan'[s] = <<PutReverse(n, i, TRUE)>>
        /\ UNCHANGED <<job, issue, found, prior>>
    <3> DEFINE b == PutForward(i, n, TRUE)
               c == PutReverse(n, i, TRUE)
    <3>1. plan[s] = <<b, c>>
      BY <1>3
    <3> HIDE DEF b, c
    <3>2. Len(plan[s]) = 2 /\ Tail(plan[s]) = <<c>>
      BY <3>1, Shortened
    <3> QED BY <3>2, GoesOn DEF c
  <2>3. LinkLeft(s, job[s].item, issue[s])'
    BY <2>1, <2>2 DEF LinkLeft
  <2>4. Knows(s)'
    BY <1>1, <1>3, <2>2, <2>3 DEF Knows, UpsertAt, Upserting, HasIssue, OriginOf
  <2> QED BY <1>1, <1>3, <2>1, <2>2, <2>4, WrittenRow
<1>4. CASE /\ job[s].kind = "upsert" /\ HasIssue(s) /\ forward[i] = [to |-> n, live |-> TRUE]
           /\ reverse' = [reverse EXCEPT ![n] = [to |-> i, live |-> TRUE]] /\ forward' = forward
           /\ plan[s] = <<PutReverse(n, i, TRUE)>>
  <2>0. forward[i].to = n
    BY <1>4
  <2>1. /\ reverse' \in [Issues -> ReverseRow] /\ RowsMatch'
        /\ \A k \in Items \ {i} : Agrees(k) => Agrees(k)'
        /\ \A k \in Items \ {i}, m \in Issues :
             reverse'[m].live /\ reverse'[m].to = k => reverse[m].live /\ reverse[m].to = k
        /\ reverse'[n] = [to |-> i, live |-> TRUE]
        /\ \A m \in Issues \ {n} : reverse'[m] = reverse[m]
    <3> DEFINE r == [to |-> i, live |-> TRUE]
    <3>1. r \in ReverseRow /\ r.to = i
      BY <1>1 DEF ReverseRow, Row
    <3>2. reverse' = [reverse EXCEPT ![n] = r] /\ forward' = forward /\ issues' = issues
      BY <1>1, <1>4
    <3> HIDE DEF r
    <3>3. /\ reverse' \in [Issues -> ReverseRow] /\ reverse'[n] = r
          /\ \A m \in Issues \ {n} : reverse'[m] = reverse[m]
      BY <1>1, <1>4, <3>1, <3>2
    <3>4. n \in Issues /\ IssueOf(n, i) /\ (r.live => forward[i].to = n)
      BY <1>1, <1>4, <2>0, <3>1
    <3>5. /\ RowsMatch'
          /\ \A k \in Items \ {i} : Agrees(k) => Agrees(k)'
          /\ \A k \in Items \ {i}, m \in Issues :
               reverse'[m].live /\ reverse'[m].to = k => reverse[m].live /\ reverse[m].to = k
      BY <1>1, <3>1, <3>2, <3>3, <3>4, ReverseWritten
    <3> QED BY <3>3, <3>5 DEF r
  <2>2. Agrees(i)'
    <3> SUFFICES ASSUME NEW m \in Issues
                 PROVE  forward'[i] = [to |-> m, live |-> TRUE] <=> reverse'[m] = [to |-> i, live |-> TRUE]
      BY DEF Agrees
    <3>1. CASE m = n
      BY <3>1, <1>4, <2>1
    <3>2. CASE m # n
      <4>1. forward'[i] # [to |-> m, live |-> TRUE]
        BY <3>2, <1>4, <2>0
      <4>2. reverse'[m] # [to |-> i, live |-> TRUE]
        BY <3>2, <1>1, <2>0, <2>1
      <4> QED BY <4>1, <4>2
    <3> QED BY <3>1, <3>2
  <2>3. Knows(s)'
    <3>1. CASE found[s]
      <4>1. pc'[s] = "update" /\ UNCHANGED <<job, issue, found, prior>>
        <5>1. Len(plan[s]) = 1
          BY <1>4, Shortened
        <5> QED BY <3>1, <5>1, GoesOn
      <4> QED BY <1>1, <1>4, <4>1 DEF Knows, UpsertAt, Upserting, HasIssue, OriginOf
    <3>2. CASE ~found[s]
      <4>1. Len(plan[s]) = 1
        BY <1>4, Shortened
      <4> QED BY <3>2, <4>1, GoesOn
    <3> QED BY <3>1, <3>2
  <2>4. \A k \in Items : k = job[s].item => Agrees(k)'
    BY <2>2
  <2> QED BY <1>1, <1>4, <2>1, <2>3, <2>4, WrittenRow
<1>5. CASE /\ job[s].kind = "unsync" /\ ~found[s] /\ old \in Issues /\ IssueOf(old, i)
           /\ forward' = [forward EXCEPT ![i] = [to |-> old, live |-> FALSE]] /\ reverse' = reverse
           /\ plan[s] = <<PutForward(i, old, FALSE), PutReverse(old, i, FALSE)>>
  <2>0. OnlyLive(old, i)
    BY <1>1 DEF OnlyLive
  <2>1. /\ forward' \in [Items -> ForwardRow] /\ RowsMatch'
        /\ \A k \in Items \ {i} : Agrees(k) => Agrees(k)'
        /\ forward'[i] = [to |-> old, live |-> FALSE]
        /\ \A k \in Items \ {i} : forward'[k] = forward[k]
    BY <1>1, <1>5, <2>0, ForwardWritten
  <2>2. /\ pc'[s] = "write" /\ plan'[s] = <<PutReverse(old, i, FALSE)>>
        /\ UNCHANGED <<job, issue, found, prior>>
    <3> DEFINE b == PutForward(i, old, FALSE)
               c == PutReverse(old, i, FALSE)
    <3>1. plan[s] = <<b, c>>
      BY <1>5
    <3> HIDE DEF b, c
    <3>2. Len(plan[s]) = 2 /\ Tail(plan[s]) = <<c>>
      BY <3>1, Shortened
    <3> QED BY <3>2, GoesOn DEF c
  <2>3. forward'[i].to = old /\ ~forward'[i].live
    BY <2>1
  <2>4. old # None
    BY <1>5, RowFacts
  <2>5. StaleLeft(s, job[s].item)'
    BY <2>2, <2>3, <2>4 DEF StaleLeft
  <2>6. Knows(s)'
    BY <1>1, <1>5, <2>2, <2>5 DEF Knows, UnsyncAt, Unsyncing
  <2> QED BY <1>1, <1>5, <2>1, <2>2, <2>6, WrittenRow
<1>6. CASE /\ job[s].kind = "unsync" /\ ~found[s] /\ old \in Issues /\ IssueOf(old, i)
           /\ ~forward[i].live
           /\ reverse' = [reverse EXCEPT ![old] = [to |-> i, live |-> FALSE]] /\ forward' = forward
           /\ plan[s] = <<PutReverse(old, i, FALSE)>>
  <2>1. /\ reverse' \in [Issues -> ReverseRow] /\ RowsMatch'
        /\ \A k \in Items \ {i} : Agrees(k) => Agrees(k)'
        /\ \A k \in Items \ {i}, m \in Issues :
             reverse'[m].live /\ reverse'[m].to = k => reverse[m].live /\ reverse[m].to = k
        /\ reverse'[old] = [to |-> i, live |-> FALSE]
        /\ \A m \in Issues \ {old} : reverse'[m] = reverse[m]
    <3> DEFINE r == [to |-> i, live |-> FALSE]
    <3>1. r \in ReverseRow /\ r.to = i /\ ~r.live
      BY <1>1 DEF ReverseRow, Row
    <3>2. reverse' = [reverse EXCEPT ![old] = r] /\ forward' = forward /\ issues' = issues
      BY <1>1, <1>6
    <3> HIDE DEF r
    <3>3. /\ reverse' \in [Issues -> ReverseRow] /\ reverse'[old] = r
          /\ \A m \in Issues \ {old} : reverse'[m] = reverse[m]
      BY <1>1, <1>6, <3>1, <3>2
    <3>4. old \in Issues /\ IssueOf(old, i) /\ (r.live => forward[i].to = old)
      BY <1>1, <1>6, <3>1
    <3>5. /\ RowsMatch'
          /\ \A k \in Items \ {i} : Agrees(k) => Agrees(k)'
          /\ \A k \in Items \ {i}, m \in Issues :
               reverse'[m].live /\ reverse'[m].to = k => reverse[m].live /\ reverse[m].to = k
      BY <1>1, <3>1, <3>2, <3>3, <3>4, ReverseWritten
    <3> QED BY <3>3, <3>5 DEF r
  <2>2. Agrees(i)'
    <3> SUFFICES ASSUME NEW m \in Issues
                 PROVE  forward'[i] # [to |-> m, live |-> TRUE] /\ reverse'[m] # [to |-> i, live |-> TRUE]
      BY DEF Agrees
    <3>1. forward'[i] # [to |-> m, live |-> TRUE]
      BY <1>6
    <3>2. CASE m = old
      BY <3>1, <3>2, <2>1
    <3>3. CASE m # old
      BY <3>1, <3>3, <1>1, <2>1
    <3> QED BY <3>2, <3>3
  <2>3. Knows(s)'
    <3>1. Len(plan[s]) = 1
      BY <1>6, Shortened
    <3> QED BY <1>6, <3>1, GoesOn
  <2>4. \A k \in Items : k = job[s].item => Agrees(k)'
    BY <2>2
  <2> QED BY <1>1, <1>6, <2>1, <2>3, <2>4, WrittenRow
<1> QED BY <1>2, <1>3, <1>4, <1>5, <1>6, WriteCases

-----------------------------------------------------------------------------
(* The theorems.                                                            *)

LEMMA SyncStart == Init => SyncInv
<1> SUFFICES ASSUME Init PROVE SyncInv
  OBVIOUS
<1>1. TypeOK
  <2>1. <<>> \in Seq(Origin) /\ Len(<<>>) <= MaxIssues /\ <<>> \in Seq(Write) /\ 0 \in 0..MaxFaults
    BY ConstantsAssumption
  <2> QED BY <2>1, JobFacts, RowFacts DEF Init, TypeOK
<1>2. Alone /\ Known
  BY DEF Init, Alone, Active, Known, Knows
<1>3. RowsMatch
  BY RowFacts DEF Init, RowsMatch, Belong
<1>4. Agreement
  BY RowFacts DEF Init, Agreement, Agrees, NoRow
<1>5. NoDuplicate
  BY DEF Init, NoDuplicate
<1> QED BY <1>1, <1>2, <1>3, <1>4, <1>5 DEF SyncInv

LEMMA SyncNext == ~Overlap /\ SyncInv /\ [Next]_vars => SyncInv'
<1> SUFFICES ASSUME ~Overlap, SyncInv, [Next]_vars PROVE SyncInv'
  OBVIOUS
<1>1. CASE Next
  <2>1. PICK s \in Syncs : Start(s) \/ SyncStep(s) \/ CutOff(s)
    BY <1>1 DEF Next
  <2> QED BY <2>1, StartKeeps, FindByOriginKeeps, ResolveMappedKeeps, CreateIssueKeeps, UpdateIssueKeeps,
             ReadForwardKeeps, ReadReverseKeeps, WriteRowKeeps, ResolveLiveKeeps, ReadStaleKeeps,
             CutOffKeeps DEF SyncStep
<1>2. CASE UNCHANGED vars
  <2>1. /\ UNCHANGED issues /\ UNCHANGED forward /\ UNCHANGED reverse /\ UNCHANGED pc /\ UNCHANGED job
        /\ UNCHANGED issue /\ UNCHANGED found /\ UNCHANGED prior /\ UNCHANGED plan /\ UNCHANGED faults
    BY <1>2 DEF vars, host, locals
  <2>2. TypeOK' /\ Alone' /\ RowsMatch' /\ NoDuplicate'
    BY <2>1 DEF SyncInv, TypeOK, Alone, Active, RowsMatch, Belong, IssueOf, NoDuplicate
  <2>3. Agreement'
    BY <2>1 DEF SyncInv, Agreement, Agrees
  <2>4. Known'
    <3> SUFFICES ASSUME NEW t \in Syncs PROVE Knows(t)'
      BY DEF Known
    <3> QED BY <2>1, OthersKnow
  <2> QED BY <2>2, <2>3, <2>4 DEF SyncInv
<1> QED BY <1>1, <1>2

-----------------------------------------------------------------------------
(* Syncs that overlap.                                                      *)

\* A row that is to be written belongs to its key.
OwnWrite(w) == IF w.table = "forward" THEN IssueOf(w.row.to, w.key) ELSE IssueOf(w.key, w.row.to)

OwnPlan(s) == plan[s] # <<>> /\ \A k \in 1..Len(plan[s]) : OwnWrite(plan[s][k])

\* What a sync knows whatever the others do to its item.
Mine(s) ==
  /\ Active(s) => job[s] \in Job
  /\ pc[s] \in {"resolve", "readForward", "readReverse"} => HasIssue(s)
  /\ pc[s] = "readReverse" /\ prior[s].to # None => IssueOf(prior[s].to, job[s].item)
  /\ pc[s] = "readStale" => forward[job[s].item].to # None
  /\ pc[s] = "write" => OwnPlan(s)

OverlapInv == TypeOK /\ Belong /\ \A s \in Syncs : Mine(s)

\* An issue keeps its origin, and a row that names a partner goes on naming one.
LEMMA OthersKeep ==
  ASSUME OverlapInv, NEW t \in Syncs,
         pc'[t] = pc[t] /\ job'[t] = job[t] /\ issue'[t] = issue[t]
           /\ prior'[t] = prior[t] /\ plan'[t] = plan[t],
         \A n \in DOMAIN issues : n \in DOMAIN issues' /\ issues'[n] = issues[n],
         \A i \in Items : forward[i].to # None => forward'[i].to # None
  PROVE  Mine(t)'
<1>1. Mine(t)
  BY DEF OverlapInv
<1>2. \A n, i : IssueOf(n, i) => IssueOf(n, i)'
  BY DEF IssueOf
<1>3. HasIssue(t) => HasIssue(t)'
  BY DEF HasIssue, OriginOf
<1>4. OwnPlan(t) => OwnPlan(t)'
  BY DEF OwnPlan, OwnWrite, IssueOf
<1>5. pc[t] = "readStale" => forward'[job'[t].item].to # None
  BY <1>1, JobFacts DEF Mine, Active
<1> QED BY <1>1, <1>2, <1>3, <1>4, <1>5 DEF Mine, Active

\* A step of s that leaves the rows and issues alone.
LEMMA OwnStep ==
  ASSUME OverlapInv, NEW s \in Syncs, TypeOK', Mine(s)', UNCHANGED <<issues, forward, reverse>>,
         \A t \in Syncs \ {s} :
            /\ pc'[t] = pc[t] /\ job'[t] = job[t] /\ issue'[t] = issue[t]
            /\ prior'[t] = prior[t] /\ plan'[t] = plan[t]
  PROVE  OverlapInv'
<1>1. \A t \in Syncs \ {s} : Mine(t)'
  BY OthersKeep
<1>2. Belong'
  BY DEF OverlapInv, Belong, IssueOf
<1> QED BY <1>1, <1>2 DEF OverlapInv

LEMMA OverlapEnds ==
  ASSUME OverlapInv, NEW s \in Syncs, Finish(s), UNCHANGED <<issues, forward, reverse>>,
         faults' \in 0..MaxFaults
  PROVE  OverlapInv'
<1>1. TypeOK
  BY DEF OverlapInv
<1>2. TypeOK'
  <2>1. /\ issues' \in Seq(Origin) /\ Len(issues') <= MaxIssues
        /\ forward' \in [Items -> ForwardRow] /\ reverse' \in [Issues -> ReverseRow]
    BY <1>1 DEF TypeOK
  <2> QED BY <1>1, <2>1, FinishFacts DEF TypeOK
<1>3. pc'[s] = "idle"
  BY <1>1, FinishFacts
<1>4. Mine(s)'
  BY <1>3 DEF Mine, Active
<1> QED BY <1>1, <1>2, <1>4, FinishFacts, OwnStep

\* The steps up to the plan of what to write.
LEMMA OverlapReads ==
  ASSUME OverlapInv, NEW s \in Syncs,
         \/ Start(s) \/ FindByOrigin(s) \/ ResolveMapped(s) \/ ReadForward(s)
         \/ ResolveLive(s) /\ forward[job[s].item].live
  PROVE  OverlapInv'
<1>1. TypeOK /\ Belong /\ Mine(s)
  BY DEF OverlapInv
<1>2. pc[s] # "idle" => job[s] \in Job /\ job[s].item \in Items
  BY <1>1, JobFacts DEF Mine, Active
<1>3. CASE Start(s)
  <2>1. PICK j \in Job : /\ job' = [job EXCEPT ![s] = j]
                         /\ Goto(s, IF j.kind = "upsert" THEN "find" ELSE "resolveLive")
    BY <1>3 DEF Start
  <2>2. TypeOK'
    BY <1>1, <1>3, <2>1, JobFacts DEF TypeOK, Start, Goto, host
  <2>3. /\ job'[s] = j /\ pc'[s] \in {"find", "resolveLive"}
        /\ \A t \in Syncs \ {s} : job'[t] = job[t] /\ pc'[t] = pc[t]
    BY <1>1, <2>1 DEF TypeOK, Goto
  <2>4. Mine(s)'
    BY <2>3 DEF Mine, Active
  <2> QED BY <1>3, <2>2, <2>3, <2>4, OwnStep DEF Start, host
<1>4. CASE FindByOrigin(s)
  <2>1. DOMAIN issues \subseteq Issues
    BY <1>1, ConstantsAssumption DEF TypeOK, Issues
  <2>2. TypeOK'
    BY <1>1, <1>4, <2>1 DEF TypeOK, FindByOrigin, Goto, host
  <2>3. /\ pc[s] = "find" /\ pc'[s] \in {"resolve", "create"} /\ job' = job
        /\ \A t \in Syncs \ {s} : pc'[t] = pc[t] /\ issue'[t] = issue[t]
        /\ UNCHANGED <<issues, forward, reverse, prior, plan>>
    BY <1>1, <1>4 DEF TypeOK, FindByOrigin, Goto, host
  <2>4. pc'[s] = "resolve" => HasIssue(s)'
    BY <1>1, <1>4 DEF TypeOK, FindByOrigin, Goto, HasIssue, OriginOf, host
  <2>5. Mine(s)'
    BY <1>2, <2>3, <2>4 DEF Mine, Active
  <2> QED BY <2>2, <2>3, <2>5, OwnStep
<1>5. CASE ResolveMapped(s)
  <2>1. TypeOK'
    BY <1>1, <1>5 DEF TypeOK, ResolveMapped, Goto, host
  <2>2. /\ pc[s] = "resolve" /\ pc'[s] \in {"update", "readForward"}
        /\ \A t \in Syncs \ {s} : pc'[t] = pc[t]
        /\ UNCHANGED <<issues, forward, reverse, job, issue, prior, plan>>
    BY <1>1, <1>5 DEF TypeOK, ResolveMapped, Goto, host
  <2>3. Mine(s)'
    BY <1>1, <1>2, <2>2 DEF Mine, Active, HasIssue, OriginOf
  <2> QED BY <2>1, <2>2, <2>3, OwnStep
<1>6. CASE ReadForward(s)
  <2>1. /\ pc[s] = "readForward" /\ prior' = [prior EXCEPT ![s] = forward[job[s].item]]
        /\ Goto(s, "readReverse")
        /\ UNCHANGED <<issues, forward, reverse, job, issue, found, plan, faults>>
    BY <1>6 DEF ReadForward, host
  <2>2. forward[job[s].item] \in ForwardRow
    BY <1>1, <1>2, <2>1 DEF TypeOK
  <2>3. TypeOK'
    BY <1>1, <2>1, <2>2 DEF TypeOK, Goto
  <2>4. /\ pc'[s] = "readReverse" /\ prior'[s] = forward[job[s].item]
        /\ \A t \in Syncs \ {s} : pc'[t] = pc[t] /\ prior'[t] = prior[t]
    BY <1>1, <2>1 DEF TypeOK, Goto
  <2>5. prior'[s].to # None => IssueOf(prior'[s].to, job[s].item)
    BY <1>1, <1>2, <2>1, <2>4 DEF Belong
  <2>6. Mine(s)'
    BY <1>1, <1>2, <2>1, <2>4, <2>5 DEF Mine, Active, HasIssue, OriginOf, IssueOf
  <2> QED BY <2>1, <2>3, <2>4, <2>6, OwnStep
<1>7. CASE ResolveLive(s) /\ forward[job[s].item].live
  <2>1. /\ pc[s] = "resolveLive" /\ Goto(s, "readStale")
        /\ UNCHANGED <<issues, forward, reverse, job, issue, found, prior, plan, faults>>
    BY <1>7 DEF ResolveLive, host
  <2>2. pc'[s] = "readStale" /\ \A t \in Syncs \ {s} : pc'[t] = pc[t]
    BY <1>1, <2>1 DEF TypeOK, Goto
  <2>3. TypeOK'
    BY <1>1, <2>1 DEF TypeOK, Goto
  <2>4. forward[job[s].item].to # None
    BY <1>1, <1>2, <1>7, <2>1, RowFacts DEF TypeOK
  <2>5. Mine(s)'
    BY <1>2, <2>1, <2>2, <2>4 DEF Mine, Active
  <2> QED BY <2>1, <2>2, <2>3, <2>5, OwnStep
<1> QED BY <1>3, <1>4, <1>5, <1>6, <1>7

\* A new issue belongs to the item it was created for.
LEMMA OverlapCreates ==
  ASSUME OverlapInv, NEW s \in Syncs, CreateIssue(s)
  PROVE  OverlapInv'
<1> DEFINE o == OriginOf(job[s])
           n == Len(issues) + 1
<1>1. /\ pc[s] = "create" /\ job[s] \in Job /\ TypeOK /\ Belong
      /\ issues' = Append(issues, o) /\ issue' = [issue EXCEPT ![s] = n] /\ Goto(s, "readForward")
      /\ Len(issues) < MaxIssues
      /\ UNCHANGED <<forward, reverse, job, found, prior, plan, faults>>
  BY DEF CreateIssue, OverlapInv, Mine, Active
<1>2. o \in Origin
  BY <1>1, JobFacts
<1> HIDE DEF o
<1>3. issues \in Seq(Origin) /\ Len(issues) \in Nat /\ DOMAIN issues = 1..Len(issues) /\ n \in Issues
  BY <1>1, ConstantsAssumption DEF TypeOK, Issues
<1>4. /\ issues' \in Seq(Origin) /\ Len(issues') = n /\ DOMAIN issues' = DOMAIN issues \cup {n}
      /\ issues'[n] = o /\ \A m \in DOMAIN issues : issues'[m] = issues[m]
  BY <1>1, <1>2, <1>3
<1>5. Len(issues') <= MaxIssues
  BY <1>1, <1>3, <1>4, ConstantsAssumption
<1> HIDE DEF n
<1>6. /\ pc'[s] = "readForward" /\ issue'[s] = n
      /\ \A t \in Syncs \ {s} : pc'[t] = pc[t] /\ issue'[t] = issue[t]
  BY <1>1 DEF TypeOK, Goto
<1>7. TypeOK'
  BY <1>1, <1>3, <1>4, <1>5 DEF TypeOK, Goto
<1>8. Mine(s)'
  BY <1>1, <1>4, <1>6 DEF Mine, Active, HasIssue, OriginOf, o
<1>9. \A t \in Syncs \ {s} : Mine(t)'
  BY <1>1, <1>4, <1>6, OthersKeep
<1>10. Belong'
  BY <1>1, <1>4 DEF Belong, IssueOf
<1> QED BY <1>7, <1>8, <1>9, <1>10 DEF OverlapInv

\* Both rows of a pair that belongs together belong to their keys.
LEMMA OwnPair ==
  ASSUME NEW i \in Items, NEW n \in Issues, NEW live \in BOOLEAN, IssueOf(n, i)
  PROVE  /\ PutForward(i, n, live) \in Write /\ OwnWrite(PutForward(i, n, live))
         /\ PutReverse(n, i, live) \in Write /\ OwnWrite(PutReverse(n, i, live))
<1>1. PutForward(i, n, live) \in Write /\ PutReverse(n, i, live) \in Write
  BY WriteFacts
<1> QED BY <1>1 DEF OwnWrite, PutForward, PutReverse

LEMMA PairTriple ==
  ASSUME NEW a, NEW b, NEW c, b \in Write /\ c \in Write /\ OwnWrite(b) /\ OwnWrite(c)
  PROVE  /\ <<b, c>> \in Seq(Write) /\ <<b, c>> # <<>> /\ \A k \in 1..Len(<<b, c>>) : OwnWrite(<<b, c>>[k])
         /\ a \in Write /\ OwnWrite(a) =>
              <<a, b, c>> \in Seq(Write) /\ <<a, b, c>> # <<>>
                /\ \A k \in 1..Len(<<a, b, c>>) : OwnWrite(<<a, b, c>>[k])
<1>1. 1..Len(<<b, c>>) = {1, 2} /\ <<b, c>>[1] = b /\ <<b, c>>[2] = c
  OBVIOUS
<1>2. 1..Len(<<a, b, c>>) = {1, 2, 3} /\ <<a, b, c>>[1] = a /\ <<a, b, c>>[2] = b /\ <<a, b, c>>[3] = c
  OBVIOUS
<1>3. <<b, c>> # <<>> /\ <<a, b, c>> # <<>>
  OBVIOUS
<1> QED BY <1>1, <1>2, <1>3, ShortSequences

\* The step that makes the plan.
LEMMA Planned ==
  ASSUME OverlapInv, NEW s \in Syncs, pc[s] # "idle", Goto(s, "write"),
         UNCHANGED <<issues, forward, reverse, job, issue, found, prior, faults>>,
         plan' \in [Syncs -> Seq(Write)], \A t \in Syncs \ {s} : plan'[t] = plan[t],
         plan'[s] # <<>> /\ \A k \in 1..Len(plan'[s]) : OwnWrite(plan'[s][k])
  PROVE  OverlapInv'
<1>1. TypeOK /\ Mine(s)
  BY DEF OverlapInv
<1>2. pc'[s] = "write" /\ \A t \in Syncs \ {s} : pc'[t] = pc[t]
  BY <1>1 DEF TypeOK, Goto
<1>3. TypeOK'
  BY <1>1 DEF TypeOK, Goto
<1>4. OwnPlan(s)'
  BY DEF OwnPlan, OwnWrite, IssueOf
<1>5. Mine(s)'
  BY <1>1, <1>2, <1>4 DEF Mine, Active
<1> QED BY <1>2, <1>3, <1>5, OwnStep

\* A plan is made: each row in it belongs to its key.
LEMMA OverlapPlans ==
  ASSUME OverlapInv, NEW s \in Syncs, ReadReverse(s) \/ ReadStale(s)
  PROVE  OverlapInv'
<1> DEFINE i == job[s].item
           n == issue[s]
           old == IF pc[s] = "readStale" THEN forward[i].to ELSE prior[s].to
           p == plan'[s]
<1>1. /\ pc[s] \in {"readReverse", "readStale"} /\ TypeOK /\ Belong /\ Mine(s) /\ Goto(s, "write")
      /\ UNCHANGED <<issues, forward, reverse, job, issue, found, prior, faults>>
  BY DEF ReadReverse, ReadStale, host, OverlapInv
<1>2. job[s] \in Job /\ i \in Items
  BY <1>1, JobFacts DEF Mine, Active
<1>3. pc[s] = "readReverse" => n \in Issues /\ IssueOf(n, i)
  BY <1>1, <1>2, JobFacts, ConstantsAssumption DEF Mine, HasIssue, IssueOf, TypeOK, Issues
<1>4. old \in Issues \cup {None} /\ (old # None => IssueOf(old, i))
  BY <1>1, <1>2, RowFacts DEF Mine, Belong, TypeOK
<1>5. CASE ReadReverse(s)
  <2>1. pc[s] = "readReverse" /\ plan' = [plan EXCEPT ![s] = LinkPlan(i, n, prior[s], reverse[n])]
    BY <1>5 DEF ReadReverse
  <2>2. reverse[n].to \in {None, i} /\ old = prior[s].to
    BY <1>1, <1>3, <2>1 DEF Belong, IssueOf
  <2> DEFINE a == PutReverse(old, i, FALSE)
             b == PutForward(i, n, TRUE)
             c == PutReverse(n, i, TRUE)
  <2>3. LinkPlan(i, n, prior[s], reverse[n]) = IF old \notin {None, n} THEN <<a, b, c>> ELSE <<b, c>>
    <3>1. LinkPlan(i, n, prior[s], reverse[n]) =
            (IF old \notin {None, n} THEN <<a>> ELSE <<>>) \o <<>> \o <<b, c>>
      <4> HIDE DEF i, n, old
      <4> QED BY <2>2 DEF LinkPlan
    <3>2. a \in {a, b, c} /\ b \in {a, b, c} /\ c \in {a, b, c}
      OBVIOUS
    <3> HIDE DEF a, b, c, old, n, i
    <3>3. <<>> \o <<>> \o <<b, c>> = <<b, c>> /\ <<a>> \o <<>> \o <<b, c>> = <<a, b, c>>
      BY <3>2, ShortSequences
    <3> QED BY <3>1, <3>3
  <2>4. b \in Write /\ c \in Write /\ OwnWrite(b) /\ OwnWrite(c)
    BY <1>2, <1>3, <2>1, OwnPair
  <2>5. old # None => a \in Write /\ OwnWrite(a)
    BY <1>2, <1>4, OwnPair
  <2> HIDE DEF a, b, c, i, n, old
  <2> DEFINE new == LinkPlan(i, n, prior[s], reverse[n])
  <2>6. new \in Seq(Write) /\ new # <<>> /\ \A k \in 1..Len(new) : OwnWrite(new[k])
    BY <2>3, <2>4, <2>5, PairTriple
  <2>7. plan' \in [Syncs -> Seq(Write)] /\ p = new /\ \A t \in Syncs \ {s} : plan'[t] = plan[t]
    BY <1>1, <2>1, <2>6 DEF TypeOK, i, n
  <2>8. p # <<>> /\ \A k \in 1..Len(p) : OwnWrite(p[k])
    BY <2>6, <2>7
  <2> QED BY <1>1, <1>2, <2>7, <2>8, Planned
<1>6. CASE ReadStale(s)
  <2>1. /\ pc[s] = "readStale" /\ old = forward[i].to
        /\ plan' = [plan EXCEPT ![s] = <<PutForward(i, old, FALSE), PutReverse(old, i, FALSE)>>]
    BY <1>6 DEF ReadStale
  <2>2. old # None
    BY <1>1, <2>1 DEF Mine
  <2> DEFINE b == PutForward(i, old, FALSE)
             c == PutReverse(old, i, FALSE)
  <2>3. b \in Write /\ c \in Write /\ OwnWrite(b) /\ OwnWrite(c)
    BY <1>2, <1>4, <2>2, OwnPair
  <2> HIDE DEF b, c, i, old
  <2>4. <<b, c>> \in Seq(Write) /\ <<b, c>> # <<>> /\ \A k \in 1..Len(<<b, c>>) : OwnWrite(<<b, c>>[k])
    BY <2>3, PairTriple
  <2>5. plan' \in [Syncs -> Seq(Write)] /\ p = <<b, c>> /\ \A t \in Syncs \ {s} : plan'[t] = plan[t]
    BY <1>1, <2>1, <2>4 DEF TypeOK, b, c
  <2>6. p # <<>> /\ \A k \in 1..Len(p) : OwnWrite(p[k])
    BY <2>4, <2>5
  <2> QED BY <1>1, <1>2, <2>5, <2>6, Planned
<1> QED BY <1>5, <1>6

\* One row is written: it belongs to its key, and so do those that are left.
LEMMA OverlapWrites ==
  ASSUME OverlapInv, NEW s \in Syncs, WriteRow(s)
  PROVE  OverlapInv'
<1> DEFINE w == Head(plan[s])
<1>1. /\ pc[s] = "write" /\ TypeOK /\ Belong /\ Mine(s) /\ job[s] \in Job
      /\ IF w.table = "forward"
           THEN forward' = [forward EXCEPT ![w.key] = w.row] /\ UNCHANGED reverse
           ELSE reverse' = [reverse EXCEPT ![w.key] = w.row] /\ UNCHANGED forward
      /\ UNCHANGED issues /\ UNCHANGED faults
  BY DEF WriteRow, OverlapInv, Mine, Active
<1>2. plan[s] \in Seq(Write) /\ plan[s] # <<>> /\ \A k \in 1..Len(plan[s]) : OwnWrite(plan[s][k])
  BY <1>1 DEF Mine, OwnPlan, TypeOK
<1>3. w \in Write /\ OwnWrite(w)
  <2>1. w = plan[s][1] /\ 1 \in 1..Len(plan[s]) /\ plan[s][1] \in Write
    BY <1>2
  <2> QED BY <1>2, <2>1
<1> HIDE DEF w
<1>4. /\ w.table = "forward" => w.key \in Items /\ w.row \in Row(Issues) /\ IssueOf(w.row.to, w.key)
      /\ w.table # "forward" => w.key \in Issues /\ w.row \in Row(Items) /\ IssueOf(w.key, w.row.to)
  BY <1>3 DEF Write, OwnWrite
<1>5. \A r : (r \in Row(Issues) => r \in ForwardRow /\ r.to # None) /\ (r \in Row(Items) => r \in ReverseRow)
  <2>1. \A r \in Row(Issues) : r.to \in Issues
    BY DEF Row
  <2> QED BY <2>1, RowFacts DEF ForwardRow, ReverseRow
<1>6. /\ forward' \in [Items -> ForwardRow] /\ reverse' \in [Issues -> ReverseRow]
      /\ Belong' /\ \A i \in Items : forward[i].to # None => forward'[i].to # None
  <2>1. CASE w.table = "forward"
    <3>1. /\ forward' \in [Items -> ForwardRow] /\ reverse' = reverse /\ forward'[w.key] = w.row
          /\ \A i \in Items \ {w.key} : forward'[i] = forward[i]
      BY <1>1, <1>4, <1>5, <2>1 DEF TypeOK
    <3> QED BY <1>1, <1>4, <1>5, <2>1, <3>1 DEF Belong, IssueOf, TypeOK
  <2>2. CASE w.table # "forward"
    <3>1. /\ reverse' \in [Issues -> ReverseRow] /\ forward' = forward /\ reverse'[w.key] = w.row
          /\ \A n \in Issues \ {w.key} : reverse'[n] = reverse[n]
      BY <1>1, <1>4, <1>5, <2>2 DEF TypeOK
    <3> QED BY <1>1, <1>4, <2>2, <3>1 DEF Belong, IssueOf, TypeOK
  <2> QED BY <2>1, <2>2
<1>7. CASE Len(plan[s]) > 1 \/ found[s]
  <2>1. /\ plan' = [plan EXCEPT ![s] = Tail(plan[s])]
        /\ Goto(s, IF Len(plan[s]) > 1 THEN "write" ELSE "update")
        /\ UNCHANGED <<job, issue, found, prior>>
    BY <1>7 DEF WriteRow
  <2>2. /\ Tail(plan[s]) \in Seq(Write) /\ Len(Tail(plan[s])) = Len(plan[s]) - 1
        /\ \A k \in 1..Len(Tail(plan[s])) : Tail(plan[s])[k] = plan[s][k + 1] /\ k + 1 \in 1..Len(plan[s])
    BY <1>2
  <2>3. \A k \in 1..Len(Tail(plan[s])) : OwnWrite(Tail(plan[s])[k])
    BY <1>2, <2>2
  <2>4. Len(plan[s]) > 1 => Tail(plan[s]) # <<>>
    <3> DEFINE rest == Tail(plan[s])
    <3>1. rest \in Seq(Write) /\ Len(rest) = Len(plan[s]) - 1 /\ Len(plan[s]) \in Nat
      BY <1>2, <2>2
    <3> HIDE DEF rest
    <3>2. Len(plan[s]) > 1 => rest # <<>>
      BY <3>1, EmptySeq
    <3> QED BY <3>2 DEF rest
  <2>5. /\ pc'[s] = (IF Len(plan[s]) > 1 THEN "write" ELSE "update") /\ plan'[s] = Tail(plan[s])
        /\ \A t \in Syncs \ {s} : pc'[t] = pc[t] /\ plan'[t] = plan[t]
    BY <1>1, <2>1 DEF TypeOK, Goto
  <2>6. issues' = issues /\ Len(Tail(plan[s])) \in Nat
    BY <1>1, <2>2
  <2>7. pc'[s] = "write" => OwnPlan(s)'
    BY <2>3, <2>4, <2>5, <2>6 DEF OwnPlan, OwnWrite, IssueOf
  <2>8. Mine(s)'
    BY <1>1, <2>1, <2>5, <2>7 DEF Mine, Active
  <2>9. TypeOK'
    BY <1>1, <1>6, <2>1, <2>2 DEF TypeOK, Goto
  <2>10. \A t \in Syncs \ {s} : Mine(t)'
    BY <1>1, <1>6, <2>1, <2>5, OthersKeep
  <2> QED BY <1>6, <2>8, <2>9, <2>10 DEF OverlapInv
<1>8. CASE ~(Len(plan[s]) > 1 \/ found[s])
  <2>1. Finish(s)
    BY <1>8 DEF WriteRow
  <2>2. TypeOK'
    BY <1>1, <1>6, <2>1, FinishFacts DEF TypeOK
  <2>3. pc'[s] = "idle"
    BY <1>1, <2>1, FinishFacts
  <2>4. Mine(s)'
    BY <2>3 DEF Mine, Active
  <2>5. \A t \in Syncs \ {s} : Mine(t)'
    BY <1>1, <1>6, <2>1, FinishFacts, OthersKeep
  <2> QED BY <1>6, <2>2, <2>4, <2>5 DEF OverlapInv
<1> QED BY <1>7, <1>8

LEMMA OverlapNext == OverlapInv /\ [Next]_vars => OverlapInv'
<1> SUFFICES ASSUME OverlapInv, [Next]_vars PROVE OverlapInv'
  OBVIOUS
<1>1. faults \in 0..MaxFaults /\ MaxFaults \in Nat
  BY ConstantsAssumption DEF OverlapInv, TypeOK
<1>2. CASE Next
  <2>1. PICK s \in Syncs : Start(s) \/ SyncStep(s) \/ CutOff(s)
    BY <1>2 DEF Next
  <2>2. UpdateIssue(s) \/ (ResolveLive(s) /\ ~forward[job[s].item].live) => OverlapInv'
    BY <1>1, OverlapEnds DEF UpdateIssue, ResolveLive, host
  <2>3. CutOff(s) => OverlapInv'
    BY <1>1, OverlapEnds DEF CutOff, host
  <2> QED BY <2>1, <2>2, <2>3, OverlapReads, OverlapCreates, OverlapPlans, OverlapWrites DEF SyncStep
<1>3. CASE UNCHANGED vars
  BY <1>3 DEF vars, host, locals, OverlapInv, TypeOK, Belong, Mine, Active, HasIssue, OriginOf, IssueOf, OwnPlan,
              OwnWrite
<1> QED BY <1>2, <1>3

LEMMA OverlapAlways == Spec => []OverlapInv
<1>1. Init => OverlapInv
  <2> SUFFICES ASSUME Init PROVE OverlapInv
    OBVIOUS
  <2>1. TypeOK /\ Belong
    BY SyncStart DEF SyncInv, RowsMatch
  <2> QED BY <2>1 DEF Init, OverlapInv, Mine, Active
<1> QED BY <1>1, OverlapNext, PTL DEF Spec

\* The issues, rows and what the syncs hold are of their types, also when several
\* syncs work on one item (upsertMappedIssue, link, markStaleByPlaneId).
THEOREM TypeCorrect == Spec => []TypeOK
<1>1. OverlapInv => TypeOK
  BY DEF OverlapInv
<1> QED BY <1>1, OverlapAlways, PTL

\* No row ever names a partner of another item, however syncs overlap: what goes
\* wrong when two of them work on one item stays with that item (link).
THEOREM NoCrossLink == Spec => []Belong
<1>1. OverlapInv => Belong
  BY DEF OverlapInv
<1> QED BY <1>1, OverlapAlways, PTL

\* The inductive invariant: what each sync at work knows of the rows of its item,
\* as long as no two of them work on one item (upsertMappedIssue, link,
\* markStaleByPlaneId).
THEOREM SyncAlways == ASSUME ~Overlap PROVE Spec => []SyncInv
<1>1. Init => SyncInv
  BY SyncStart
<1>2. SyncInv /\ [Next]_vars => SyncInv'
  BY SyncNext
<1> QED BY <1>1, <1>2, PTL DEF Spec

\* An item never gets a second issue in a project, however often its sync is cut
\* off and tried again: an issue whose link failed is found by its origin.
THEOREM NeverDuplicate == ASSUME ~Overlap PROVE Spec => []NoDuplicate
<1>1. SyncInv => NoDuplicate
  BY DEF SyncInv
<1> QED BY <1>1, SyncAlways, PTL

LEMMA MappingSoundFollows == SyncInv => MappingSound
<1> SUFFICES ASSUME SyncInv PROVE MappingSound
  OBVIOUS
<1>1. OneMirror
  BY DEF SyncInv, RowsMatch, Belong, OneMirror
<1>2. RowsAgree
  <2> SUFFICES ASSUME faults = 0, NEW i \in Items, Settled(i), NEW n \in Issues
               PROVE  forward[i] = [to |-> n, live |-> TRUE] <=> reverse[n] = [to |-> i, live |-> TRUE]
    BY DEF RowsAgree
  <2>1. \A s \in Syncs : pc[s] = "write" => job[s].item # i
    BY DEF Settled, Active
  <2>2. Agrees(i)
    BY <2>1 DEF SyncInv, Agreement
  <2> QED BY <2>2 DEF Agrees
<1> QED BY <1>1, <1>2 DEF MappingSound

\* The mapping is sound in both directions: one issue at most is mirrored to an
\* item, whatever was cut off, and both directions agree as long as nothing was.
THEOREM MappingAlwaysSound == ASSUME ~Overlap PROVE Spec => []MappingSound
BY SyncAlways, MappingSoundFollows, PTL

\* The step that ends a sync, and is not a cut.
LEMMA CompletedFacts ==
  ASSUME SyncInv, NEW s \in Syncs, Next, Active(s), pc'[s] = "idle", UNCHANGED faults
  PROVE  UpdateIssue(s) \/ WriteRow(s) \/ (ResolveLive(s) /\ ~forward[job[s].item].live)
<1>1. PICK t \in Syncs : Start(t) \/ SyncStep(t) \/ CutOff(t)
  BY DEF Next
<1>2. TypeOK /\ faults \in Nat
  BY ConstantsAssumption DEF SyncInv, TypeOK
<1>3. ~CutOff(t)
  BY <1>2 DEF CutOff
<1>4. CASE t # s
  <2>1. Start(t) => pc'[s] = pc[s]
    BY <1>2, <1>4 DEF Start, Goto, TypeOK
  <2>2. FindByOrigin(t) \/ ResolveMapped(t) \/ CreateIssue(t) => pc'[s] = pc[s]
    BY <1>2, <1>4 DEF FindByOrigin, ResolveMapped, CreateIssue, Goto, TypeOK
  <2>3. UpdateIssue(t) \/ ReadForward(t) \/ ReadReverse(t) \/ ReadStale(t) => pc'[s] = pc[s]
    BY <1>2, <1>4 DEF UpdateIssue, ReadForward, ReadReverse, ReadStale, Finish, Goto, TypeOK
  <2>4. WriteRow(t) => pc'[s] = pc[s]
    BY <1>4, AfterWrite
  <2>5. ResolveLive(t) => pc'[s] = pc[s]
    BY <1>2, <1>4 DEF ResolveLive, Finish, Goto, TypeOK
  <2> QED BY <1>1, <1>3, <2>1, <2>2, <2>3, <2>4, <2>5 DEF SyncStep, Active
<1>5. CASE t = s
  <2>1. ~Start(s)
    BY DEF Start, Active
  <2>2. FindByOrigin(s) \/ ResolveMapped(s) \/ CreateIssue(s) => pc'[s] # "idle"
    BY <1>2 DEF FindByOrigin, ResolveMapped, CreateIssue, Goto, TypeOK
  <2>3. ReadForward(s) \/ ReadReverse(s) \/ ReadStale(s) => pc'[s] # "idle"
    BY <1>2 DEF ReadForward, ReadReverse, ReadStale, Goto, TypeOK
  <2>4. ResolveLive(s) /\ forward[job[s].item].live => pc'[s] # "idle"
    BY <1>2 DEF ResolveLive, Goto, TypeOK
  <2> QED BY <1>1, <1>3, <1>5, <2>1, <2>2, <2>3, <2>4 DEF SyncStep
<1> QED BY <1>4, <1>5

LEMMA CompletedTakesEffect ==
  ASSUME SyncInv, Next, NEW s \in Syncs
  PROVE  LET row == forward'[job[s].item]
         IN  /\ Completes(s, "upsert") => row.live /\ issues'[row.to] = OriginOf(job[s])
             /\ Completes(s, "unsync") => ~row.live
<1> SUFFICES ASSUME NEW i, i = job[s].item, Active(s), pc'[s] = "idle", UNCHANGED faults
             PROVE  /\ job[s].kind = "upsert" => forward'[i].live /\ issues'[forward'[i].to] = OriginOf(job[s])
                    /\ job[s].kind = "unsync" => ~forward'[i].live
  BY DEF Completes
<1>1. i \in Items /\ forward \in [Items -> ForwardRow]
  BY ActiveFacts DEF SyncInv, TypeOK
<1>2. CASE UpdateIssue(s)
  <2>1. pc[s] = "update" /\ UNCHANGED <<issues, forward>>
    BY <1>2 DEF UpdateIssue, host
  <2>2. job[s].kind = "upsert" /\ HasIssue(s) /\ forward[i] = [to |-> issue[s], live |-> TRUE]
    BY <2>1 DEF SyncInv, Known, Knows, UnsyncAt, Upserting
  <2> QED BY <2>1, <2>2 DEF HasIssue
<1>3. CASE ResolveLive(s) /\ ~forward[job[s].item].live
  <2>1. pc[s] = "resolveLive" /\ UNCHANGED <<issues, forward>>
    BY <1>3 DEF ResolveLive, host
  <2>2. job[s].kind = "unsync"
    BY <2>1 DEF SyncInv, Known, Knows, UpsertAt
  <2> QED BY <1>3, <2>1, <2>2
<1>4. CASE WriteRow(s)
  <2>1. issues' = issues
    BY <1>4 DEF WriteRow
  <2>2. Len(plan[s]) \notin {2, 3}
    BY <1>4, GoesOn
  <2>3. \/ job[s].kind = "upsert" /\ HasIssue(s) /\ forward[i] = [to |-> issue[s], live |-> TRUE] /\ forward' = forward
        \/ job[s].kind = "unsync" /\ ~forward[i].live /\ forward' = forward
    BY <1>4, <2>2, WriteCases, Shortened
  <2> QED BY <2>1, <2>3 DEF HasIssue
<1> QED BY <1>2, <1>3, <1>4, CompletedFacts

\* However often it was cut off before, an upsert that completes leaves its item
\* mapped to the issue in the rule's project, and an unsync leaves it unmapped.
THEOREM CompletedSyncTakesEffect == ASSUME ~Overlap PROVE Spec => SyncTakesEffect
<1> DEFINE Effect(s) ==
             LET row == forward'[job[s].item]
             IN  /\ Completes(s, "upsert") => row.live /\ issues'[row.to] = OriginOf(job[s])
                 /\ Completes(s, "unsync") => ~row.live
           Effects == \A s \in Syncs : Effect(s)
<1>1. SyncInv /\ [Next]_vars => [Effects]_vars
  BY CompletedTakesEffect
<1>2. SyncTakesEffect <=> [][Effects]_vars
  BY DEF SyncTakesEffect
<1> HIDE DEF Effects
<1> QED BY <1>1, <1>2, SyncAlways, PTL DEF Spec
=============================================================================
