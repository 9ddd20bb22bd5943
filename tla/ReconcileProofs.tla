---------------------------- MODULE ReconcileProofs ----------------------------
(***************************************************************************)
(* Proofs about the parts of the Plane plugin that read Plane: a run of    *)
(* the reconciliation leaves nothing behind its watermark, the job that    *)
(* starts it runs one at a time and records each, and the agents' tools    *)
(* answer the truth; for every set of items, ticks and calls, every page   *)
(* size, interval and limit, and any number of failures.                   *)
(***************************************************************************)
EXTENDS MCReconcile, FiniteSetTheorems, SequenceTheorems, TLAPS

-----------------------------------------------------------------------------
(* The inductive invariant.                                                 *)

\* What a page holds of item i when it is as it was when the page was fetched.
Copy(i) == [id |-> i, updatedAt |-> stamp[i]]

\* Times are given once, and nothing is of a time that has yet to come.
Times ==
  /\ \A i, j \in Items : stamp[i] # 0 /\ stamp[i] = stamp[j] => i = j
  /\ \A i \in Items : stamp[i] <= clock
  /\ watermark <= clock /\ newest <= clock
  /\ \A o \in page : o.updatedAt <= clock
  /\ \A e \in events : e.updatedAt <= clock /\ (stamp[e.id] = 0 \/ e.updatedAt <= stamp[e.id])

\* Where the run is.
Places ==
  /\ IsFiniteSet(page)
  /\ pc # "idle" => wm = watermark
  /\ pc = "fetch" => page = {} /\ pages < MaxPages

\* The watermark would pass i, were the run to end after the page it has.
Within(i) == stamp[i] <= newest \/ \E o \in page : stamp[i] <= o.updatedAt

\* An item that has changed since its page was fetched is newer than all of it.
Stale ==
  \A o \in page : stamp[o.id] \in {0, o.updatedAt} \/ ~Within(o.id)

\* A later page holds i.
ToCome(i) ==
  /\ pages * PerPage <= Rank(i)
  /\ pc = "items" => more
  /\ \A o \in page : stamp[i] < o.updatedAt

\* What is behind, and the watermark would pass, the run has yet to come to.
Covered ==
  pc # "idle" => \A i \in Items \ excused :
    Behind(i) /\ Within(i) => Copy(i) \in page \/ ToCome(i)

IInv == TypeOK /\ Times /\ Places /\ Stale /\ Covered /\ NothingSkipped

-----------------------------------------------------------------------------
(* Ranks and pages.                                                         *)

\* The constants, one at a time.
LEMMA Numbers ==
  /\ IsFiniteSet(Items)
  /\ PerPage \in Nat /\ PerPage # 0 /\ MaxPages \in Nat /\ MaxPages # 0
  /\ MaxTime \in Nat /\ MaxDeletes \in Nat /\ MaxHalts \in Nat
BY ConstantsAssumption

\* A rank is a number.
LEMMA RankType ==
  ASSUME NEW i \in Items
  PROVE  Rank(i) \in Nat /\ Rank(i)' \in Nat
BY Numbers, FS_Subset, FS_CardinalityType DEF Rank

\* An older item has the higher rank.
LEMMA RankOrder ==
  ASSUME TypeOK, NEW i \in Items, NEW j \in Items, stamp[i] < stamp[j]
  PROVE  Rank(j) < Rank(i)
<1> DEFINE Above(k) == {m \in Items : stamp[m] > stamp[k]}
<1>1. stamp \in [Items -> Nat]
  BY Numbers DEF TypeOK
<1>2. Above(j) \in SUBSET Above(i) /\ j \in Above(i) /\ j \notin Above(j)
  BY <1>1
<1>3. IsFiniteSet(Above(i)) /\ IsFiniteSet(Above(j))
  BY Numbers, FS_Subset
<1>4. Cardinality(Above(j)) <= Cardinality(Above(i)) /\ Cardinality(Above(j)) # Cardinality(Above(i))
  BY <1>2, <1>3, FS_Subset
<1>5. Cardinality(Above(j)) \in Nat /\ Cardinality(Above(i)) \in Nat
  BY <1>3, FS_CardinalityType
<1> QED
  BY <1>4, <1>5 DEF Rank

\* Items listed before i are not older than it.
LEMMA ListedBefore ==
  ASSUME TypeOK, NEW i \in Items, NEW j \in Items, Rank(j) < Rank(i)
  PROVE  stamp[i] < stamp[j]
<1>1. stamp[i] \in Nat /\ stamp[j] \in Nat /\ Rank(i) \in Nat /\ Rank(j) \in Nat
  BY RankType, Numbers DEF TypeOK
<1>2. stamp[i] = stamp[j] => Rank(i) = Rank(j)
  BY DEF Rank
<1>3. stamp[j] < stamp[i] => Rank(i) < Rank(j)
  BY RankOrder
<1> QED
  BY <1>1, <1>2, <1>3

\* An item of the project is listed within its length.
LEMMA RankBound ==
  ASSUME TypeOK, NEW i \in Live
  PROVE  Rank(i) < Cardinality(Live)
<1> DEFINE above == {j \in Items : stamp[j] > stamp[i]}
<1>1. i \in Items /\ stamp \in [Items -> Nat]
  BY DEF Live, TypeOK
<1>2. above \in SUBSET Live /\ i \notin above
  BY <1>1 DEF Live
<1>3. IsFiniteSet(Live)
  BY Numbers, FS_Subset DEF Live
<1>4. Cardinality(above) <= Cardinality(Live) /\ Cardinality(above) # Cardinality(Live) /\ IsFiniteSet(above)
  BY <1>2, <1>3, FS_Subset
<1>5. Cardinality(above) \in Nat /\ Cardinality(Live) \in Nat
  BY <1>3, <1>4, FS_CardinalityType
<1> QED
  BY <1>4, <1>5 DEF Rank

\* What FetchPage puts on the page.
Fetched == {Copy(i) : i \in {j \in Live : Rank(j) \in OnPage}}

\* The next page holds at most PerPage items: no two have the same rank.
LEMMA PageSize ==
  ASSUME TypeOK, Times, pages \in Nat
  PROVE  IsFiniteSet(Fetched) /\ Fetched \in Pages
<1> DEFINE rank == [o \in Fetched |-> Rank(o.id)]
<1>1. stamp \in [Items -> Nat] /\ PerPage \in Nat
  BY Numbers DEF TypeOK
<1>2. \A o \in Fetched : o.id \in Live /\ o = Copy(o.id) /\ Rank(o.id) \in OnPage
  BY DEF Fetched, Copy
<1>3. rank \in [Fetched -> OnPage]
  BY <1>2
<1>4. ASSUME NEW o \in Fetched, NEW p \in Fetched, rank[o] = rank[p]
      PROVE  o = p
  <2>1. o.id \in Items /\ p.id \in Items /\ stamp[o.id] # 0 /\ Rank(o.id) = Rank(p.id)
    BY <1>2, <1>4 DEF Live
  <2>2. ~(stamp[o.id] < stamp[p.id]) /\ ~(stamp[p.id] < stamp[o.id])
    BY <2>1, RankOrder, RankType
  <2>3. o.id = p.id
    BY <2>1, <2>2, <1>1 DEF Times
  <2> QED
    BY <2>3, <1>2
<1>5. rank \in Injection(Fetched, OnPage)
  BY <1>3, <1>4 DEF Injection, IsInjective
<1>6. IsFiniteSet(OnPage) /\ Cardinality(OnPage) = PerPage
  <2> DEFINE a == pages * PerPage
  <2>1. a \in Int /\ (pages + 1) * PerPage - 1 = a + PerPage - 1
    BY <1>1
  <2> HIDE DEF a
  <2>2. a \in Int /\ a + PerPage - 1 \in Int /\ ~(a > a + PerPage - 1) /\ (a + PerPage - 1) - a + 1 = PerPage
    BY <2>1, <1>1, Numbers
  <2>3. IsFiniteSet(a .. a + PerPage - 1) /\ Cardinality(a .. a + PerPage - 1) = PerPage
    BY <2>2, FS_Interval
  <2> QED
    BY <2>1, <2>3 DEF OnPage, a
<1>7. IsFiniteSet(Fetched) /\ Cardinality(Fetched) <= PerPage
  BY <1>5, <1>6, FS_Injection
<1>8. Fetched \in SUBSET Item
  BY DEF Fetched, Copy, Live, Item, TypeOK
<1> QED
  BY <1>7, <1>8 DEF Pages

\* The empty page.
LEMMA NoPage == IsFiniteSet({}) /\ {} \in Pages
<1>1. IsFiniteSet({}) /\ Cardinality({}) = 0
  BY FS_EmptySet
<1>2. 0 <= PerPage
  BY Numbers
<1> QED
  BY <1>1, <1>2 DEF Pages

-----------------------------------------------------------------------------
(* The invariant is inductive, one of its parts at a time.                  *)

USE Numbers

LEMMA InitIInv == Init => IInv
<1> SUFFICES ASSUME Init PROVE IInv
  OBVIOUS
<1>1. TypeOK
  <2>1. page \in Pages
    BY NoPage DEF Init
  <2>2. more \in BOOLEAN
    BY Zenon DEF Init
  <2>3. pages \in 0..MaxPages /\ pc \in {"idle", "fetch", "items"}
    BY DEF Init
  <2> QED
    BY <2>1, <2>2, <2>3 DEF Init, TypeOK
<1> QED
  BY <1>1, NoPage DEF Init, IInv, Times, Places, Stale, Covered, NothingSkipped, Behind

LEMMA TypeStep ==
  ASSUME IInv, [Next]_vars
  PROVE  TypeOK'
<1> USE DEF TypeOK, Item, external, run, vars
<1>0. TypeOK /\ Places
  BY DEF IInv
<1>1. ASSUME NEW i \in Items, Change(i) PROVE TypeOK'
  <2>1. clock + 1 \in 1..MaxTime
    BY <1>0, <1>1 DEF Change
  <2> QED
    BY <1>0, <1>1, <2>1 DEF Change
<1>2. ASSUME NEW i \in Items, Delete(i) PROVE TypeOK'
  BY <1>0, <1>2 DEF Delete
<1>3. ASSUME NEW e \in events, Deliver(e) PROVE TypeOK'
  BY <1>0, <1>3 DEF Deliver
<1>4. CASE StartRun
  <2>1. page' \in Pages
    BY <1>4, NoPage DEF StartRun
  <2>2. pages' \in 0..MaxPages
    BY <1>4 DEF StartRun
  <2> QED
    BY <1>0, <1>4, <2>1, <2>2 DEF StartRun
<1>5. CASE FetchPage
  <2>1. page' = Fetched
    BY <1>5 DEF FetchPage, Fetched, Copy
  <2>2. Fetched \in Pages
    BY <1>0, PageSize DEF IInv
  <2>4. pages + 1 \in 0..MaxPages
    BY <1>0, <1>5 DEF FetchPage, Places
  <2>5. more' \in BOOLEAN
    BY <1>5 DEF FetchPage
  <2> QED
    BY <1>0, <1>5, <2>1, <2>2, <2>4, <2>5 DEF FetchPage
<1>6. CASE ReconcileItem
  <2>1. PICK item \in page : page' = page \ {item} /\ synced' = [synced EXCEPT ![item.id] = item.updatedAt]
                             /\ newest' = IF item.updatedAt > newest THEN item.updatedAt ELSE newest
    BY <1>6 DEF ReconcileItem
  <2>2. IsFiniteSet(page)
    BY <1>0 DEF Places
  <2>3. Cardinality(page') <= Cardinality(page) /\ IsFiniteSet(page')
    <3> DEFINE rest == page \ {item}
    <3>1. rest \in SUBSET page
      OBVIOUS
    <3>2. Cardinality(rest) <= Cardinality(page) /\ IsFiniteSet(rest)
      BY <2>2, <3>1, FS_Subset
    <3> QED
      BY <2>1, <3>2
  <2>4. Cardinality(page) \in Nat /\ Cardinality(page') \in Nat
    BY <2>2, <2>3, FS_CardinalityType
  <2>5. page' \in Pages
    BY <1>0, <2>1, <2>3, <2>4 DEF Pages
  <2>6. item \in Item
    BY <1>0 DEF Pages
  <2>7. newest' \in 0..MaxTime /\ synced' \in [Items -> 0..MaxTime]
    BY <1>0, <2>1, <2>6
  <2> QED
    BY <1>0, <1>6, <2>5, <2>7 DEF ReconcileItem
<1>7. CASE NextPage
  BY <1>0, <1>7 DEF NextPage
<1>8. CASE Finish
  <2>1. page' \in Pages
    BY <1>8, NoPage DEF Finish, EndRun
  <2>2. pages' \in 0..MaxPages
    BY <1>8 DEF Finish, EndRun
  <2>3. more' \in BOOLEAN
    BY <1>8, Zenon DEF Finish, EndRun
  <2>4. pc' \in {"idle", "fetch", "items"} /\ wm' \in 0..MaxTime /\ newest' \in 0..MaxTime
    BY <1>8 DEF Finish, EndRun
  <2> QED
    BY <1>0, <1>8, <2>1, <2>2, <2>3, <2>4 DEF Finish
<1>9. CASE Halt
  <2>1. page' \in Pages
    BY <1>9, NoPage DEF Halt, EndRun
  <2>2. pages' \in 0..MaxPages
    BY <1>9 DEF Halt, EndRun
  <2>3. more' \in BOOLEAN
    BY <1>9, Zenon DEF Halt, EndRun
  <2>4. pc' \in {"idle", "fetch", "items"} /\ wm' \in 0..MaxTime /\ newest' \in 0..MaxTime
    BY <1>9 DEF Halt, EndRun
  <2> QED
    BY <1>0, <1>9, <2>1, <2>2, <2>3, <2>4 DEF Halt
<1>10. CASE UNCHANGED vars
  BY <1>0, <1>10
<1> QED
  BY <1>1, <1>2, <1>3, <1>4, <1>5, <1>6, <1>7, <1>8, <1>9, <1>10 DEF Next, RunStep

LEMMA TimesStep ==
  ASSUME IInv, [Next]_vars
  PROVE  Times'
<1> USE DEF Times, TypeOK, Item, Pages, external, run, vars
<1>0. TypeOK /\ Times /\ Places
  BY DEF IInv
<1>1. ASSUME NEW i \in Items, Change(i) PROVE Times'
  <2>1. /\ clock' = clock + 1 /\ stamp' = [stamp EXCEPT ![i] = clock + 1]
        /\ events' \in {events, events \cup {[id |-> i, updatedAt |-> clock + 1]}}
        /\ page' = page /\ watermark' = watermark /\ newest' = newest
    BY <1>1 DEF Change
  <2>2. \A j \in Items : stamp'[j] = IF j = i THEN clock + 1 ELSE stamp[j]
    BY <1>0, <2>1
  <2>3. \A j, k \in Items : stamp'[j] # 0 /\ stamp'[j] = stamp'[k] => j = k
    BY <1>0, <2>2
  <2>4. \A e \in events' : e.updatedAt <= clock' /\ (stamp'[e.id] = 0 \/ e.updatedAt <= stamp'[e.id])
    <3>1. ASSUME NEW e \in events PROVE e.updatedAt <= clock' /\ (stamp'[e.id] = 0 \/ e.updatedAt <= stamp'[e.id])
      <4>1. e.id \in Items /\ e.updatedAt \in Nat /\ stamp[e.id] \in Nat
        BY <1>0
      <4>2. e.updatedAt <= clock
        BY <1>0, <4>1
      <4> QED
        BY <1>0, <2>1, <2>2, <4>1, <4>2
    <3> QED
      BY <2>1, <2>2, <3>1
  <2> QED
    BY <1>0, <2>1, <2>2, <2>3, <2>4
<1>2. ASSUME NEW i \in Items, Delete(i) PROVE Times'
  BY <1>0, <1>2 DEF Delete
<1>3. ASSUME NEW e \in events, Deliver(e) PROVE Times'
  BY <1>0, <1>3 DEF Deliver
<1>4. CASE StartRun
  BY <1>0, <1>4 DEF StartRun
<1>5. CASE FetchPage
  BY <1>0, <1>5 DEF FetchPage, Live
<1>6. CASE ReconcileItem
  BY <1>0, <1>6 DEF ReconcileItem
<1>7. CASE NextPage
  BY <1>0, <1>7 DEF NextPage
<1>8. CASE Finish
  BY <1>0, <1>8 DEF Finish, EndRun
<1>9. CASE Halt
  BY <1>0, <1>9 DEF Halt, EndRun
<1>10. CASE UNCHANGED vars
  BY <1>0, <1>10
<1> QED
  BY <1>1, <1>2, <1>3, <1>4, <1>5, <1>6, <1>7, <1>8, <1>9, <1>10 DEF Next, RunStep

LEMMA PlacesStep ==
  ASSUME IInv, [Next]_vars
  PROVE  Places'
<1> USE DEF Places, TypeOK, external, run, vars
<1>0. TypeOK /\ Places
  BY DEF IInv
<1>1. ASSUME NEW i \in Items, Change(i) \/ Delete(i) PROVE Places'
  BY <1>0, <1>1 DEF Change, Delete
<1>2. ASSUME NEW e \in events, Deliver(e) PROVE Places'
  BY <1>0, <1>2 DEF Deliver
<1>3. CASE StartRun \/ Finish \/ Halt
  <2>1. IsFiniteSet(page')
    BY <1>3, NoPage DEF StartRun, Finish, Halt, EndRun
  <2> QED
    BY <1>0, <1>3, <2>1 DEF StartRun, Finish, Halt, EndRun
<1>4. CASE FetchPage
  <2>1. IsFiniteSet(page')
    BY <1>0, <1>4, PageSize DEF IInv, FetchPage, Fetched, Copy
  <2> QED
    BY <1>0, <1>4, <2>1 DEF FetchPage
<1>5. CASE ReconcileItem
  <2>1. page' \in SUBSET page
    BY <1>5 DEF ReconcileItem
  <2>2. IsFiniteSet(page')
    BY <1>0, <2>1, FS_Subset
  <2> QED
    BY <1>0, <1>5, <2>2 DEF ReconcileItem
<1>6. CASE NextPage
  BY <1>0, <1>6 DEF NextPage
<1>7. CASE UNCHANGED vars
  BY <1>0, <1>7
<1> QED
  BY <1>1, <1>2, <1>3, <1>4, <1>5, <1>6, <1>7 DEF Next, RunStep

\* A step that reads one more item of the page reaches no further than before.
LEMMA Reach ==
  ASSUME TypeOK, ReconcileItem, NEW i \in Items, Within(i)'
  PROVE  Within(i)
<1>1. PICK item \in page : page' = page \ {item}
                           /\ newest' = IF item.updatedAt > newest THEN item.updatedAt ELSE newest
  BY DEF ReconcileItem
<1>2. stamp' = stamp
  BY DEF ReconcileItem, external
<1> QED
  BY <1>1, <1>2 DEF Within

\* An item that changes is out of the run's reach.
LEMMA OutOfReach ==
  ASSUME TypeOK, Times, NEW i \in Items, Change(i)
  PROVE  ~Within(i)' /\ stamp'[i] > watermark
<1>1. stamp'[i] = clock + 1 /\ page' = page /\ newest' = newest
  BY DEF Change, TypeOK, run
<1>2. \A o \in page : o.updatedAt \in Nat /\ o.updatedAt <= clock
  BY DEF TypeOK, Pages, Item, Times
<1> QED
  BY <1>1, <1>2 DEF Within, TypeOK, Times

LEMMA StaleStep ==
  ASSUME IInv, [Next]_vars
  PROVE  Stale'
<1> USE DEF external, run, vars
<1>0. TypeOK /\ Times /\ Stale
  BY DEF IInv
<1>a. \A o \in page : o.id \in Items /\ o.updatedAt \in 1..MaxTime
  BY <1>0 DEF TypeOK, Pages, Item
<1>1. ASSUME NEW i \in Items, Change(i) PROVE Stale'
  <2>1. ~Within(i)'
    BY <1>0, <1>1, OutOfReach
  <2>2. page' = page /\ newest' = newest /\ \A j \in Items : j # i => stamp'[j] = stamp[j]
    BY <1>0, <1>1 DEF Change, TypeOK
  <2>3. ASSUME NEW o \in page, o.id # i
        PROVE  stamp'[o.id] = stamp[o.id] /\ (Within(o.id)' => Within(o.id))
    BY <1>a, <2>2, <2>3 DEF Within
  <2> QED
    BY <1>0, <1>a, <2>1, <2>2, <2>3 DEF Stale
<1>2. ASSUME NEW i \in Items, Delete(i) PROVE Stale'
  <2>1. page' = page /\ newest' = newest /\ stamp' = [stamp EXCEPT ![i] = 0]
    BY <1>2 DEF Delete
  <2>2. ASSUME NEW o \in page
        PROVE  stamp'[o.id] = 0 \/ (stamp'[o.id] = stamp[o.id] /\ (Within(o.id)' => Within(o.id)))
    BY <1>0, <1>a, <2>1 DEF Within, TypeOK
  <2> QED
    BY <1>0, <2>1, <2>2 DEF Stale
<1>3. ASSUME NEW e \in events, Deliver(e) PROVE Stale'
  BY <1>0, <1>3 DEF Deliver, Stale, Within
<1>4. CASE StartRun \/ Finish \/ Halt
  BY <1>4 DEF StartRun, Finish, Halt, EndRun, Stale
<1>5. CASE FetchPage
  BY <1>0, <1>5 DEF FetchPage, Stale
<1>6. CASE ReconcileItem
  <2>1. page' \in SUBSET page /\ stamp' = stamp
    BY <1>6 DEF ReconcileItem
  <2> QED
    BY <1>0, <1>6, <1>a, <2>1, Reach DEF Stale
<1>7. CASE NextPage
  BY <1>0, <1>7 DEF NextPage, Stale, Within
<1>8. CASE UNCHANGED vars
  BY <1>0, <1>8 DEF Stale, Within
<1> QED
  BY <1>1, <1>2, <1>3, <1>4, <1>5, <1>6, <1>7, <1>8 DEF Next, RunStep

LEMMA SkippedStep ==
  ASSUME IInv, [Next]_vars
  PROVE  NothingSkipped'
<1> USE DEF external, run, vars
<1>0. TypeOK /\ Times /\ Places /\ Covered /\ NothingSkipped
  BY DEF IInv
<1>1. ASSUME NEW i \in Items, Change(i) PROVE NothingSkipped'
  <2>1. stamp'[i] > watermark' /\ excused' = excused \ {i} /\ synced' = synced
        /\ watermark' = watermark
    BY <1>0, <1>1, OutOfReach DEF Change
  <2>2. \A j \in Items : j # i => stamp'[j] = stamp[j]
    BY <1>0, <1>1 DEF Change, TypeOK
  <2> QED
    BY <1>0, <2>1, <2>2 DEF NothingSkipped, Behind
<1>2. ASSUME NEW i \in Items, Delete(i) PROVE NothingSkipped'
  BY <1>0, <1>2 DEF Delete, NothingSkipped, Behind, TypeOK
<1>3. ASSUME NEW e \in events, Deliver(e) PROVE NothingSkipped'
  BY <1>0, <1>3 DEF Deliver, NothingSkipped, Behind, TypeOK, Item, Times
<1>4. CASE StartRun \/ FetchPage \/ NextPage \/ Halt
  BY <1>0, <1>4 DEF StartRun, FetchPage, NextPage, Halt, NothingSkipped, Behind
<1>5. CASE ReconcileItem
  <2>1. PICK item \in page : item.updatedAt > wm
                             /\ synced' = [synced EXCEPT ![item.id] = item.updatedAt]
    BY <1>5 DEF ReconcileItem
  <2>2. stamp' = stamp /\ watermark' = watermark /\ excused' = excused /\ wm = watermark
    BY <1>0, <1>5 DEF ReconcileItem, Places
  <2>3. item.id \in Items /\ item.updatedAt \in 1..MaxTime
    BY <1>0 DEF TypeOK, Pages, Item
  <2>4. Behind(item.id)' => stamp[item.id] > watermark
    BY <1>0, <2>1, <2>2, <2>3 DEF Behind, IInv, Stale, Within, TypeOK
  <2> QED
    BY <1>0, <2>1, <2>2, <2>3, <2>4 DEF NothingSkipped, Behind, TypeOK
<1>6. CASE Finish
  <2>1. SUFFICES ASSUME NEW i \in Items \ excused', Behind(i)
                 PROVE  stamp[i] > newest
    BY <1>6 DEF Finish, NothingSkipped, Behind
  <2>2. stamp[i] \in Nat /\ newest \in Nat /\ i \notin excused
    BY <1>0, <1>6, <2>1 DEF Finish, TypeOK
  <2>3. stamp[i] > wm
    BY <1>0, <1>6, <2>1, <2>2 DEF Finish, Places, NothingSkipped
  <2>4. Within(i) => Copy(i) \in page \/ ToCome(i)
    BY <1>0, <1>6, <2>1, <2>2 DEF Finish, Covered
  <2>5. CASE ReachedWatermark
    <3>1. PICK item \in page : IsFirst(item) /\ item.updatedAt <= wm
      BY <2>5 DEF ReachedWatermark
    <3>2. \A o \in page : o.updatedAt \in Nat /\ o.updatedAt <= item.updatedAt
      BY <1>0, <3>1 DEF IsFirst, TypeOK, Pages, Item
    <3>3. wm \in Nat
      BY <1>0 DEF TypeOK
    <3>4. Copy(i) \notin page /\ ~ToCome(i)
      BY <2>2, <2>3, <3>1, <3>2, <3>3 DEF Copy, ToCome
    <3> QED
      BY <2>2, <2>4, <3>4 DEF Within
  <2>6. CASE page = {} /\ ~more
    BY <1>6, <2>2, <2>4, <2>6 DEF Finish, Within, ToCome
  <2>7. CASE excused' = excused \cup {j \in Items : Behind(j) /\ stamp[j] <= newest}
    BY <2>1, <2>2, <2>7
  <2> QED
    BY <1>6, <2>5, <2>6, <2>7 DEF Finish
<1>7. CASE UNCHANGED vars
  BY <1>0, <1>7 DEF NothingSkipped, Behind
<1> QED
  BY <1>1, <1>2, <1>3, <1>4, <1>5, <1>6, <1>7 DEF Next, RunStep

\* No item's rank falls when the items above it stay above it.
LEMMA RankKept ==
  ASSUME NEW i \in Items,
         \A j \in Items : stamp[j] > stamp[i] => stamp'[j] > stamp'[i]
  PROVE  Rank(i) <= Rank(i)'
<1> DEFINE old == {j \in Items : stamp[j] > stamp[i]}
           new == {j \in Items : stamp'[j] > stamp'[i]}
<1>1. old \in SUBSET new
  OBVIOUS
<1>2. IsFiniteSet(new)
  BY Numbers, FS_Subset
<1> QED
  BY <1>1, <1>2, FS_Subset DEF Rank

LEMMA CoveredStep ==
  ASSUME IInv, [Next]_vars
  PROVE  Covered'
<1> USE DEF external, run, vars
<1>0. TypeOK /\ Times /\ Places /\ Stale /\ Covered /\ NothingSkipped
  BY DEF IInv
<1>a. \A o \in page : o.id \in Items /\ o.updatedAt \in 1..MaxTime /\ o = [id |-> o.id, updatedAt |-> o.updatedAt]
  BY <1>0 DEF TypeOK, Pages, Item
<1>b. stamp \in [Items -> Nat] /\ newest \in Nat /\ pages \in Nat /\ PerPage \in Nat
  BY <1>0 DEF TypeOK
<1>1. ASSUME NEW i \in Items, Change(i) PROVE Covered'
  <2>1. /\ ~Within(i)' /\ page' = page /\ newest' = newest /\ pc' = pc /\ pages' = pages /\ more' = more
        /\ synced' = synced /\ excused' = excused \ {i}
    BY <1>0, <1>1, OutOfReach DEF Change
  <2>2. stamp' = [stamp EXCEPT ![i] = clock + 1] /\ \A j \in Items : stamp[j] < clock + 1
    BY <1>0, <1>1 DEF Change, TypeOK, Times
  <2>3. SUFFICES ASSUME pc # "idle", NEW j \in Items \ excused, j # i, Behind(j)', Within(j)'
                 PROVE  Copy(j)' \in page \/ ToCome(j)'
    BY <2>1 DEF Covered
  <2>4. stamp'[j] = stamp[j] /\ Behind(j) /\ Within(j) /\ Copy(j)' = Copy(j)
    BY <1>b, <2>1, <2>2, <2>3 DEF Behind, Within, Copy
  <2>5. Rank(j) <= Rank(j)'
    BY <1>b, <2>2, <2>4, RankKept
  <2>6. Rank(j) \in Nat /\ Rank(j)' \in Nat
    BY RankType
  <2>7. ToCome(j) => ToCome(j)'
    BY <1>b, <2>1, <2>4, <2>5, <2>6 DEF ToCome
  <2> QED
    BY <1>0, <2>3, <2>4, <2>7 DEF Covered
<1>2. ASSUME NEW i \in Items, Delete(i) PROVE Covered'
  <2>1. /\ page' = page /\ newest' = newest /\ pc' = pc /\ pages' = pages /\ more' = more
        /\ synced' = synced /\ stamp' = [stamp EXCEPT ![i] = 0]
    BY <1>2 DEF Delete
  <2>2. SUFFICES ASSUME pc # "idle", NEW j \in Items \ excused', Behind(j)', Within(j)'
                 PROVE  Copy(j)' \in page \/ ToCome(j)'
    BY <2>1 DEF Covered
  <2>3. j # i /\ stamp'[j] = stamp[j] /\ Behind(j) /\ Within(j) /\ Copy(j)' = Copy(j)
    BY <1>b, <2>1, <2>2 DEF Behind, Within, Copy
  <2>4. j \notin excused /\ ~(stamp[j] < stamp[i])
    BY <1>2, <2>2, <2>3 DEF Delete
  <2>5. Rank(j) <= Rank(j)'
    BY <1>b, <2>1, <2>3, <2>4, RankKept
  <2>6. Rank(j) \in Nat /\ Rank(j)' \in Nat
    BY RankType
  <2>7. ToCome(j) => ToCome(j)'
    BY <1>b, <2>1, <2>3, <2>5, <2>6 DEF ToCome
  <2> QED
    BY <1>0, <2>2, <2>3, <2>4, <2>7 DEF Covered
<1>3. ASSUME NEW e \in events, Deliver(e) PROVE Covered'
  <2>1. stamp' = stamp /\ page' = page /\ newest' = newest /\ pc' = pc /\ pages' = pages /\ more' = more
    BY <1>3 DEF Deliver
  <2>2. ASSUME NEW j \in Items \ excused', Behind(j)' PROVE j \notin excused /\ Behind(j)
    BY <1>0, <1>3, <2>2 DEF Deliver, Behind, TypeOK, Item, Times
  <2>3. \A j \in Items : (Within(j)' <=> Within(j)) /\ (ToCome(j)' <=> ToCome(j)) /\ Copy(j)' = Copy(j)
    BY <2>1 DEF Within, ToCome, Copy, Rank
  <2> QED
    BY <1>0, <2>1, <2>2, <2>3 DEF Covered
<1>4. CASE StartRun
  BY <1>0, <1>4 DEF StartRun, Covered, Within, NothingSkipped, Behind, TypeOK
<1>5. CASE FetchPage
  <2>1. /\ page' = Fetched /\ stamp' = stamp /\ newest' = newest /\ pages' = pages + 1 /\ pc = "fetch"
        /\ synced' = synced /\ excused' = excused /\ more' = (Cardinality(Live) > (pages + 1) * PerPage)
    BY <1>5 DEF FetchPage, Fetched, Copy
  <2>2. SUFFICES ASSUME NEW i \in Items \ excused, Behind(i), Within(i)'
                 PROVE  Copy(i) \in Fetched \/ ToCome(i)'
    BY <2>1 DEF Covered, Behind, Copy
  <2>3. i \in Live /\ Rank(i) \in Nat
    BY <2>2, RankType DEF Behind, Live
  <2>4. CASE Rank(i) \in OnPage
    BY <2>3, <2>4 DEF Fetched
  <2>5. CASE (pages + 1) * PerPage <= Rank(i)
    <3>1. Rank(i)' = Rank(i)
      BY <2>1 DEF Rank
    <3>2. Rank(i) < Cardinality(Live) /\ Cardinality(Live) \in Nat
      BY <1>0, <2>3, RankBound, Numbers, FS_Subset, FS_CardinalityType DEF Live
    <3>3. more'
      <4>1. Cardinality(Live) > (pages + 1) * PerPage
        BY <1>b, <2>3, <2>5, <3>2
      <4> QED
        BY <2>1, <4>1, Zenon
    <3>4. ASSUME NEW o \in Fetched PROVE stamp[i] < o.updatedAt
      <4>1. o.id \in Items /\ o.updatedAt = stamp[o.id] /\ Rank(o.id) \in OnPage
        BY DEF Fetched, Copy, Live
      <4>2. Rank(o.id) < Rank(i)
        BY <1>b, <2>3, <2>5, <4>1 DEF OnPage
      <4> QED
        BY <1>0, <4>1, <4>2, ListedBefore
    <3> QED
      BY <2>1, <2>5, <3>1, <3>3, <3>4 DEF ToCome
  <2>6. CASE Rank(i) < pages * PerPage
    <3>1. ~Within(i)
      BY <1>0, <1>b, <2>1, <2>2, <2>3, <2>6 DEF Covered, Places, ToCome
    <3>2. PICK o \in Fetched : stamp[i] <= o.updatedAt
      BY <2>1, <2>2, <3>1 DEF Within
    <3>3. o.id \in Items /\ o.updatedAt = stamp[o.id] /\ Rank(o.id) \in OnPage
      BY DEF Fetched, Copy, Live
    <3>4. Rank(i) < Rank(o.id)
      BY <1>b, <2>3, <2>6, <3>3 DEF OnPage
    <3>5. stamp[o.id] < stamp[i]
      BY <1>0, <3>3, <3>4, ListedBefore
    <3> QED
      BY <1>b, <3>2, <3>3, <3>5
  <2> QED
    BY <1>b, <2>3, <2>4, <2>5, <2>6 DEF OnPage
<1>6. CASE ReconcileItem
  <2>1. PICK item \in page : /\ synced' = [synced EXCEPT ![item.id] = item.updatedAt]
                             /\ page' = page \ {item}
    BY <1>6 DEF ReconcileItem
  <2>2. stamp' = stamp /\ pc' = pc /\ pages' = pages /\ more' = more /\ excused' = excused
    BY <1>6 DEF ReconcileItem
  <2>3. SUFFICES ASSUME pc # "idle", NEW i \in Items \ excused, Behind(i)', Within(i)'
                 PROVE  Copy(i) \in page' \/ ToCome(i)'
    BY <2>2 DEF Covered, Copy
  <2>4. Within(i)
    BY <1>0, <1>6, <2>3, Reach
  <2>5. i # item.id
    BY <1>0, <1>a, <2>1, <2>2, <2>3, <2>4 DEF Stale, Behind, TypeOK
  <2>6. Behind(i)
    BY <1>0, <1>a, <2>1, <2>2, <2>3, <2>5 DEF Behind, TypeOK
  <2>7. Copy(i) # item
    BY <2>5 DEF Copy
  <2>8. ToCome(i) => ToCome(i)'
    BY <2>1, <2>2 DEF ToCome, Rank
  <2> QED
    BY <1>0, <2>1, <2>3, <2>4, <2>6, <2>7, <2>8 DEF Covered
<1>7. CASE NextPage
  BY <1>0, <1>7 DEF NextPage, Covered, Within, ToCome, Copy, Rank, Behind
<1>8. CASE Finish \/ Halt
  BY <1>8 DEF Finish, Halt, EndRun, Covered
<1>9. CASE UNCHANGED vars
  BY <1>0, <1>9 DEF Covered, Within, ToCome, Copy, Rank, Behind
<1> QED
  BY <1>1, <1>2, <1>3, <1>4, <1>5, <1>6, <1>7, <1>8, <1>9 DEF Next, RunStep

-----------------------------------------------------------------------------
(* The theorems.                                                            *)

\* The whole inductive invariant holds in every state of a reconciliation.
THEOREM Inductive == Spec => []IInv
<1>1. IInv /\ [Next]_vars => IInv'
  BY TypeStep, TimesStep, PlacesStep, StaleStep, CoveredStep, SkippedStep DEF IInv
<1> QED
  BY InitIInv, <1>1, PTL DEF Spec

\* Type correctness: a page holds at most PerPage items and a run reads at most
\* MaxPages of them, however often items change, come and go meanwhile.
THEOREM TypeCorrect == Spec => []TypeOK
<1>1. IInv => TypeOK
  BY DEF IInv
<1> QED
  BY Inductive, <1>1, PTL

\* The watermark never passes an item Paperclip does not have, for any number of
\* items, pages, changes, deletions, late webhooks and failures (reconcileProject).
THEOREM WatermarkIsSafe == Spec => []NothingSkipped
<1>1. IInv => NothingSkipped
  BY DEF IInv
<1> QED
  BY Inductive, <1>1, PTL

-----------------------------------------------------------------------------
(* The agents' tools.                                                       *)

Tools == Reading \cup Writing \cup {"none"}

\* What a call of a tool may still have to do: the requests of its opening, and
\* the look-up that a reply can put before the next one.
Plans(tool) ==
  {<<>>} \cup
  CASE tool \in {"comment", "update"} ->
         {<<"item", "write">>, <<"projects", "write">>, <<"project", "write">>, <<"write">>}
    [] tool = "create" -> {<<"write">>, <<"project">>}
    [] tool = "get"    -> {<<"item">>, <<"project">>}
    [] tool = "list"   -> {<<"page">>, <<"project">>}
    [] tool = "none"   -> {}
    [] OTHER           -> {<<"read">>}

Requests == {"item", "write", "projects", "project", "page", "read"}

CallType == [tool: Tools, project: Projects \cup {"none"}, readable: BOOLEAN,
             todo: Seq(Requests), leg: Legs, answer: Kinds \cup {"none", "ok"}]

\* A call is at one of its plans, and on its way only with something to do.
Planned(call) ==
  /\ call.todo \in Plans(call.tool)
  /\ call.todo = <<>> => call.leg = "ready"
  /\ call.tool \in {"get", "comment", "update"} \/ ~call.readable
  /\ call.project = "none" => call.todo = <<>>

\* What Plane has written for a call, by where the call is.
Wrote(c) ==
  LET call == calls[c] IN
  /\ c \in planeWrites => call.tool \in Writing
  /\ call.tool \in Writing /\ call.todo = <<"write">> /\ call.leg = "served" => c \in planeWrites
  /\ call.tool = "create" /\ call.todo = <<"project">> => c \in planeWrites
  /\ call.tool \in {"comment", "update"} /\ c \in planeWrites =>
        call.todo = <<>> \/ (call.todo = <<"write">> /\ call.leg = "served")
  /\ call.answer = "ok" => call.todo = <<>>

ClientInv ==
  /\ cachedIds \subseteq Projects /\ planeWrites \subseteq ToolCalls
  /\ calls \in [ToolCalls -> CallType] /\ callFaults \in 0..MaxCallFaults
  /\ \A c \in ToolCalls : Planned(calls[c]) /\ Wrote(c)
  /\ AnswersTrue

\* The lists of requests, one by one.
LEMMA PlanFacts ==
  /\ <<"item", "write">> \in Seq(Requests) /\ Head(<<"item", "write">>) = "item" /\ Tail(<<"item", "write">>) = <<"write">>
  /\ <<"projects", "write">> \in Seq(Requests) /\ Head(<<"projects", "write">>) = "projects" /\ Tail(<<"projects", "write">>) = <<"write">>
  /\ <<"project", "write">> \in Seq(Requests) /\ Head(<<"project", "write">>) = "project" /\ Tail(<<"project", "write">>) = <<"write">>
  /\ \A r \in Requests : <<r>> \in Seq(Requests) /\ Head(<<r>>) = r /\ Tail(<<r>>) = <<>> /\ <<r>> # <<>>
  /\ <<"item", "write">> # <<>> /\ <<"projects", "write">> # <<>> /\ <<"project", "write">> # <<>>
  /\ <<>> \in Seq(Requests)
  BY DEF Requests

LEMMA Joined ==
  ASSUME NEW r \in Requests, NEW q \in Requests
  PROVE  <<r>> \o <<q>> = <<r, q>>
<1>1. <<r>> \in Seq(Requests) /\ <<q>> \in Seq(Requests) /\ <<r, q>> \in Seq(Requests)
  OBVIOUS
<1>2. Len(<<r>>) = 1 /\ Len(<<q>>) = 1 /\ Len(<<r, q>>) = 2 /\ <<r>>[1] = r /\ <<q>>[1] = q
  OBVIOUS
<1>3. <<r>> \o <<q>> \in Seq(Requests)
  BY <1>1, ConcatProperties
<1>4. Len(<<r>> \o <<q>>) = 2
  BY <1>1, <1>2, ConcatProperties
<1>5. \A i \in 1..2 : (<<r>> \o <<q>>)[i] = IF i <= 1 THEN <<r>>[i] ELSE <<q>>[i - 1]
  BY <1>1, <1>2, ConcatProperties
<1>6. (<<r>> \o <<q>>)[1] = r /\ (<<r>> \o <<q>>)[2] = q
  BY <1>2, <1>5
<1>7. \A i \in 1..2 : (<<r>> \o <<q>>)[i] = <<r, q>>[i]
  BY <1>6
<1> QED BY <1>1, <1>2, <1>3, <1>4, <1>7, SeqEqual

LEMMA JoinFacts ==
  /\ \A s \in Seq(Requests) : <<>> \o s = s /\ s \o <<>> = s
  /\ <<"projects">> \o <<"write">> = <<"projects", "write">>
  /\ <<"project">> \o <<"write">> = <<"project", "write">>
  BY Joined, ConcatEmptySeq DEF Requests

\* Different lists are different.
LEMMA PlanDiffer ==
  /\ \A r, q \in Requests : <<r>> = <<q>> => r = q
  /\ \A r, q, p \in Requests : <<r, q>> # <<p>>
  BY DEF Requests

\* A call whose plan goes on has a project, and its list of requests a type.
LEMMA PlanTypes ==
  ASSUME NEW tool \in Tools
  PROVE  /\ Plans(tool) \in SUBSET Seq(Requests) /\ <<>> \in Plans(tool)
         /\ tool # "none" => Opening(tool) \in Plans(tool) /\ Opening(tool) # <<>>
<1>1. <<>> \in Plans(tool) /\ (tool # "none" => Opening(tool) \in Plans(tool) /\ Opening(tool) # <<>>)
  BY PlanFacts DEF Plans, Opening, Tools, Reading, Writing, Requests
<1>2. \A s \in Plans(tool) : s \in Seq(Requests)
  BY PlanFacts DEF Plans, Requests
<1> QED BY <1>1, <1>2

\* A reply leads on along the plan.
LEMMA NextPlan ==
  ASSUME NEW call \in CallType, Planned(call), call.todo # <<>>, NEW reply \in Shapes
  PROVE  /\ Needed(call, reply) \o Tail(call.todo) \in Plans(call.tool)
         /\ Needed(call, reply) \o Tail(call.todo) = <<>> /\ call.tool \in Writing =>
              call.todo = <<"write">> \/ (call.tool = "create" /\ call.todo = <<"project">>)
         /\ call.todo = <<"write">> /\ call.tool # "create" => Needed(call, reply) \o Tail(call.todo) = <<>>
         /\ call.tool = "create" => Needed(call, reply) \o Tail(call.todo) \in {<<>>, <<"project">>}
         /\ call.tool = "create" /\ call.todo = <<"project">> => Needed(call, reply) \o Tail(call.todo) = <<>>
<1> DEFINE request == Head(call.todo)
           rest == Tail(call.todo)
<1>0. call.tool \in Tools /\ call.todo \in Plans(call.tool) /\ call.todo # <<>>
  BY DEF CallType, Planned
<1>1. CASE call.tool \in {"comment", "update"}
  <2>1. /\ call.tool \in Writing /\ call.tool # "create"
        /\ call.todo \in {<<"item", "write">>, <<"projects", "write">>, <<"project", "write">>, <<"write">>}
    BY <1>0, <1>1 DEF Plans, Writing
  <2>2. \/ (call.todo = <<"item", "write">> /\ request = "item" /\ rest = <<"write">>)
        \/ (call.todo \in {<<"projects", "write">>, <<"project", "write">>}
                 /\ request \in {"project", "projects"} /\ rest = <<"write">>)
        \/ (call.todo = <<"write">> /\ request = "write" /\ rest = <<>>)
    BY <2>1, PlanFacts DEF Requests
  <2>3. /\ Needed(call, reply) \in {<<>>, <<"projects">>, <<"project">>}
        /\ request # "item" => Needed(call, reply) = <<>>
    BY <2>1, <2>2 DEF Needed
  <2>4. \/ Needed(call, reply) \o rest \in {<<"write">>, <<"projects", "write">>, <<"project", "write">>}
        \/ (call.todo = <<"write">> /\ Needed(call, reply) \o rest = <<>>)
    BY <2>2, <2>3, JoinFacts, PlanFacts DEF Requests
  <2>5. call.todo = <<"write">> => Needed(call, reply) \o rest = <<>>
    BY <2>2, <2>3, JoinFacts, PlanFacts, PlanDiffer DEF Requests
  <2> QED BY <1>0, <1>1, <2>1, <2>4, <2>5, PlanFacts DEF Plans, Requests
<1>2. CASE call.tool = "create"
  <2>1. call.tool \in Writing /\ call.todo \in {<<"write">>, <<"project">>}
    BY <1>0, <1>2 DEF Plans, Writing
  <2>2. /\ rest = <<>> /\ (request = "write" \/ (request = "project" /\ call.todo = <<"project">>))
        /\ call.todo = <<"project">> => request = "project"
    BY <2>1, PlanFacts DEF Requests
  <2>3. /\ Needed(call, reply) \in {<<>>, <<"project">>}
        /\ request = "project" => Needed(call, reply) = <<>>
    BY <1>2, <2>2 DEF Needed
  <2>4. Needed(call, reply) \o rest = Needed(call, reply)
    BY <2>2, <2>3, JoinFacts, PlanFacts DEF Requests
  <2> QED BY <1>0, <1>2, <2>1, <2>2, <2>3, <2>4 DEF Plans
<1>3. CASE call.tool \in Reading
  <2>1. /\ call.tool \notin Writing /\ call.tool # "create" /\ call.todo # <<"write">>
        /\ call.todo \in {<<"item">>, <<"project">>, <<"page">>, <<"read">>}
    BY <1>0, <1>3, PlanDiffer DEF Plans, Reading, Writing, Requests
  <2>2. /\ rest = <<>> /\ request \in Requests /\ call.todo = <<request>>
    BY <2>1, PlanFacts DEF Requests
  <2>3. /\ Needed(call, reply) \in {<<>>, <<"project">>}
        /\ Needed(call, reply) = <<"project">> => call.todo \in {<<"item">>, <<"page">>}
    BY <2>1, <2>2, PlanFacts, PlanDiffer DEF Needed, Requests
  <2>4. Needed(call, reply) \o rest = Needed(call, reply)
    BY <2>2, <2>3, JoinFacts, PlanFacts DEF Requests
  <2>5. call.todo \in {<<"item">>, <<"page">>} => <<"project">> \in Plans(call.tool)
    BY <1>0, <1>3, PlanDiffer DEF Plans, Reading, Requests
  <2>6. Needed(call, reply) \o rest \in Plans(call.tool)
    BY <1>0, <2>3, <2>4, <2>5, PlanTypes
  <2> QED BY <2>1, <2>6
<1>4. CASE call.tool = "none"
  BY <1>0, <1>4 DEF Plans
<1> QED BY <1>0, <1>1, <1>2, <1>3, <1>4 DEF Tools, Writing

\* What the answer of one call says.
Told(c) ==
  LET call == calls[c] IN
  /\ call.tool \in Writing /\ call.answer = "ok" => c \in planeWrites
  /\ call.tool \in {"comment", "update"} /\ call.answer \in Refusals =>
        c \notin planeWrites /\ call.todo = <<>>

\* One call moves, and the others keep what is true of them.
LEMMA CallMoves ==
  ASSUME ClientInv, NEW c \in ToolCalls, NEW k \in CallType, calls' = [calls EXCEPT ![c] = k],
         Planned(k), planeWrites' = planeWrites \/ planeWrites' = planeWrites \cup {c},
         cachedIds' \subseteq Projects, callFaults' \in 0..MaxCallFaults, Wrote(c)', Told(c)'
  PROVE  ClientInv'
<1>1. /\ calls' \in [ToolCalls -> CallType] /\ calls'[c] = k /\ planeWrites' \subseteq ToolCalls
      /\ \A d \in ToolCalls \ {c} : calls'[d] = calls[d] /\ (d \in planeWrites' <=> d \in planeWrites)
  BY DEF ClientInv
<1>2. \A d \in ToolCalls : Planned(calls[d])'
  BY <1>1 DEF ClientInv, Planned, Plans
<1>3. \A d \in ToolCalls : Wrote(d)'
  BY <1>1 DEF ClientInv, Wrote
<1>4. \A d \in ToolCalls : Told(d)'
  BY <1>1 DEF ClientInv, AnswersTrue, Told
<1> QED BY <1>1, <1>2, <1>3, <1>4 DEF ClientInv, AnswersTrue, Told

\* What is true of one call.
LEMMA CallFacts ==
  ASSUME ClientInv, NEW c \in ToolCalls
  PROVE  /\ calls[c] \in CallType /\ Planned(calls[c]) /\ Wrote(c) /\ Told(c)
         /\ cachedIds \subseteq Projects /\ callFaults \in 0..MaxCallFaults /\ MaxCallFaults \in Nat
         /\ calls = [calls EXCEPT ![c] = calls[c]]
  BY ClientAssumption DEF ClientInv, AnswersTrue, Told

LEMMA NoCallFacts == NoCall.tool = "none" /\ NoCall.todo = <<>> /\ NoCall.leg = "ready"
                     /\ NoCall.answer = "none" /\ NoCall.project = "none" /\ NoCall.readable = FALSE
  BY DEF NoCall

\* A settled call has nothing left to do, and keeps the answer it has given.
LEMMA SettleFacts ==
  ASSUME NEW call \in CallType, NEW answer \in Kinds \cup {"ok"}
  PROVE  /\ Settle(call, answer) \in CallType /\ Settle(call, answer).tool = call.tool
         /\ Settle(call, answer).todo = <<>> /\ Settle(call, answer).leg = "ready"
         /\ Settle(call, answer).readable = call.readable
         /\ Settle(call, answer).answer = IF call.answer = "none" THEN answer ELSE call.answer
<1> DEFINE a == IF call.answer = "none" THEN answer ELSE call.answer
<1>1. a \in Kinds \cup {"none", "ok"}
  BY DEF CallType
<1>2. Settle(call, answer) = [call EXCEPT !.todo = <<>>, !.leg = "ready", !.answer = a]
  BY DEF Settle
<1> HIDE DEF a
<1>3. [call EXCEPT !.todo = <<>>, !.leg = "ready", !.answer = a] \in CallType
  BY <1>1, PlanFacts DEF CallType, Legs
<1>4. /\ Settle(call, answer).tool = call.tool /\ Settle(call, answer).todo = <<>>
      /\ Settle(call, answer).leg = "ready" /\ Settle(call, answer).readable = call.readable
      /\ Settle(call, answer).answer = a
  BY <1>2 DEF CallType
<1> QED BY <1>2, <1>3, <1>4 DEF a

\* The tools that answer without a request.
LEMMA AnswersAtOnce ==
  ASSUME ClientInv, NEW c \in ToolCalls, calls[c] = NoCall, NEW tool \in Tools \ {"none"},
         NEW answer \in Kinds \cup {"ok"}, tool \in Writing => answer = "bad_request",
         calls' = [calls EXCEPT ![c] = Settle([NoCall EXCEPT !.tool = tool], answer)],
         UNCHANGED cachedIds, UNCHANGED planeWrites, UNCHANGED callFaults
  PROVE  ClientInv'
<1> DEFINE new == [NoCall EXCEPT !.tool = tool]
           k == Settle(new, answer)
<1>1. new \in CallType /\ new.tool = tool /\ new.answer = "none" /\ new.readable = FALSE
  BY PlanFacts DEF NoCall, CallType, Legs
<1> HIDE DEF new
<1>2. k \in CallType /\ k.tool = tool /\ k.todo = <<>> /\ k.leg = "ready" /\ k.answer = answer /\ k.readable = FALSE
  BY <1>1, SettleFacts
<1>3. c \notin planeWrites
  BY CallFacts, NoCallFacts DEF Wrote, Writing
<1>4. calls' = [calls EXCEPT ![c] = k] /\ calls'[c] = k
  BY DEF new, ClientInv
<1> HIDE DEF k
<1>5. Planned(k)
  BY <1>2, PlanTypes DEF Planned
<1>6. Wrote(c)'
  BY <1>2, <1>3, <1>4, PlanFacts DEF Wrote, Requests
<1>7. Told(c)'
  BY <1>2, <1>3, <1>4 DEF Told, Kinds
<1> QED BY <1>2, <1>4, <1>5, <1>6, <1>7, CallFacts, CallMoves

LEMMA StartCallKeeps ==
  ASSUME ClientInv, NEW c \in ToolCalls, NEW tool \in Reading \cup Writing, NEW p \in Projects, p # "none",
         NEW readable \in BOOLEAN, StartCall(c, tool, p, readable)
  PROVE  ClientInv'
<1> DEFINE k == [NoCall EXCEPT !.tool = tool, !.project = p, !.readable = readable, !.todo = Opening(tool)]
<1>1. /\ calls[c] = NoCall /\ (readable => tool \in {"get", "comment", "update"})
      /\ calls' = [calls EXCEPT ![c] = k]
      /\ UNCHANGED cachedIds /\ UNCHANGED planeWrites /\ UNCHANGED callFaults
  BY DEF StartCall
<1>2. tool \in Tools /\ tool # "none" /\ Opening(tool) \in Plans(tool) /\ Opening(tool) # <<>>
      /\ Opening(tool) \in Seq(Requests)
  BY PlanTypes DEF Tools, Reading, Writing
<1>3. /\ k.tool = tool /\ k.project = p /\ k.readable = readable /\ k.todo = Opening(tool)
      /\ k.leg = "ready" /\ k.answer = "none"
  BY DEF NoCall
<1>4. k \in CallType
  BY <1>2 DEF NoCall, CallType, Legs
<1>5. c \notin planeWrites
  BY <1>1, CallFacts, NoCallFacts DEF Wrote, Writing
<1>6. calls'[c] = k
  BY <1>1 DEF ClientInv
<1> HIDE DEF k
<1>7. Planned(k)
  BY <1>1, <1>2, <1>3 DEF Planned
<1>8. Wrote(c)'
  <2>1. tool = "create" => Opening(tool) # <<"project">>
    BY PlanDiffer DEF Opening, Requests
  <2> QED BY <1>1, <1>3, <1>5, <1>6, <2>1 DEF Wrote
<1>9. Told(c)'
  BY <1>1, <1>3, <1>5, <1>6 DEF Told, Refusals, Kinds
<1> QED BY <1>1, <1>4, <1>7, <1>8, <1>9, CallFacts, CallMoves

LEMMA SendKeeps ==
  ASSUME ClientInv, NEW c \in ToolCalls, Send(c)
  PROVE  ClientInv'
<1> DEFINE k == [calls[c] EXCEPT !.leg = "sent"]
<1>1. /\ calls[c] \in CallType /\ calls[c].todo # <<>> /\ calls[c].leg = "ready" /\ calls' = [calls EXCEPT ![c] = k]
      /\ UNCHANGED cachedIds /\ UNCHANGED planeWrites /\ UNCHANGED callFaults
  BY CallFacts DEF Send
<1>2. /\ k \in CallType /\ k.leg = "sent" /\ k.tool = calls[c].tool /\ k.todo = calls[c].todo
      /\ k.answer = calls[c].answer /\ k.readable = calls[c].readable /\ k.project = calls[c].project
  BY <1>1 DEF CallType, Legs
<1>3. calls'[c] = k
  BY <1>1 DEF ClientInv
<1> HIDE DEF k
<1>4. Planned(k)
  BY <1>1, <1>2, CallFacts DEF Planned
<1>5. Wrote(c)' /\ Told(c)'
  BY <1>1, <1>2, <1>3, CallFacts DEF Wrote, Told
<1> QED BY <1>1, <1>2, <1>4, <1>5, CallFacts, CallMoves

LEMMA ServeKeeps ==
  ASSUME ClientInv, NEW c \in ToolCalls, Serve(c)
  PROVE  ClientInv'
<1> DEFINE k == [calls[c] EXCEPT !.leg = "served"]
<1>1. /\ calls[c] \in CallType /\ calls[c].leg = "sent" /\ calls' = [calls EXCEPT ![c] = k]
      /\ planeWrites' = IF Head(calls[c].todo) = "write" THEN planeWrites \cup {c} ELSE planeWrites
      /\ UNCHANGED cachedIds /\ UNCHANGED callFaults
      /\ Planned(calls[c]) /\ Wrote(c) /\ Told(c) /\ calls[c].todo # <<>>
  BY CallFacts DEF Serve, Planned
<1>2. /\ k \in CallType /\ k.leg = "served" /\ k.tool = calls[c].tool /\ k.todo = calls[c].todo
      /\ k.answer = calls[c].answer /\ k.readable = calls[c].readable /\ k.project = calls[c].project
  BY <1>1 DEF CallType, Legs
<1>3. calls'[c] = k
  BY <1>1 DEF ClientInv
<1> HIDE DEF k
<1>4. Planned(k)
  BY <1>1, <1>2 DEF Planned
<1>5. Head(calls[c].todo) = "write" => calls[c].todo = <<"write">> /\ calls[c].tool \in Writing
  <2>1. calls[c].todo \in Plans(calls[c].tool) /\ calls[c].tool \in Tools
    BY <1>1 DEF Planned, CallType
  <2> QED BY <1>1, <2>1, PlanFacts DEF Plans, Tools, Reading, Writing, Requests
<1>6. calls[c].todo = <<"write">> => Head(calls[c].todo) = "write"
  BY PlanFacts DEF Requests
<1>7. Wrote(c)'
  BY <1>1, <1>2, <1>3, <1>5, <1>6, PlanDiffer DEF Wrote, Requests, Writing
<1>8. calls[c].answer \in Refusals /\ calls[c].tool \in {"comment", "update"} => FALSE
  BY <1>1 DEF Told
<1>9. Told(c)'
  BY <1>1, <1>2, <1>3, <1>8 DEF Told
<1>10. planeWrites' = planeWrites \/ planeWrites' = planeWrites \cup {c}
  BY <1>1
<1> QED BY <1>1, <1>2, <1>4, <1>7, <1>9, <1>10, CallFacts, CallMoves

\* A call settles with an answer that is true of it.
LEMMA SettleKeeps ==
  ASSUME ClientInv, NEW c \in ToolCalls, NEW answer \in Kinds \cup {"ok"},
         calls' = [calls EXCEPT ![c] = Settle(calls[c], answer)], calls[c].todo # <<>>,
         calls[c].tool \in Writing /\ answer = "ok" => c \in planeWrites,
         calls[c].tool \in {"comment", "update"} /\ answer \in Refusals => c \notin planeWrites',
         planeWrites' = planeWrites \/ (planeWrites' = planeWrites \cup {c} /\ calls[c].tool \in Writing),
         cachedIds' \subseteq Projects, callFaults' \in 0..MaxCallFaults
  PROVE  ClientInv'
<1> DEFINE k == Settle(calls[c], answer)
<1>1. calls[c] \in CallType /\ Planned(calls[c]) /\ Wrote(c) /\ Told(c)
  BY CallFacts
<1>2. /\ k \in CallType /\ k.tool = calls[c].tool /\ k.todo = <<>> /\ k.leg = "ready" /\ k.readable = calls[c].readable
      /\ k.answer = IF calls[c].answer = "none" THEN answer ELSE calls[c].answer
  BY <1>1, SettleFacts
<1>3. calls'[c] = k /\ k.tool \in Tools
  BY <1>2 DEF ClientInv, CallType
<1> HIDE DEF k
<1>4. Planned(k)
  BY <1>1, <1>2, <1>3, PlanTypes DEF Planned
<1>5. Wrote(c)'
  BY <1>1, <1>2, <1>3, PlanFacts DEF Wrote, Requests
<1>6. Told(c)'
  <2>1. calls[c].answer \in Refusals /\ calls[c].tool \in {"comment", "update"} => FALSE
    BY <1>1 DEF Told
  <2>2. calls[c].answer # "ok"
    BY <1>1 DEF Wrote
  <2> QED BY <1>1, <1>2, <1>3, <2>1, <2>2 DEF Told
<1> QED BY <1>2, <1>4, <1>5, <1>6, CallFacts, CallMoves DEF k

LEMMA FailsKeeps ==
  ASSUME ClientInv, NEW c \in ToolCalls, NEW kind \in Kinds, NoKey(c, kind) \/ Refuse(c, kind) \/ Lose(c, kind)
  PROVE  ClientInv'
<1>1. /\ calls[c] \in CallType /\ Planned(calls[c]) /\ Wrote(c)
      /\ calls' = [calls EXCEPT ![c] = Settle(calls[c], kind)]
      /\ callFaults < MaxCallFaults /\ callFaults' = callFaults + 1 /\ UNCHANGED cachedIds
  BY CallFacts DEF NoKey, Refuse, Lose, ClientInv
<1>2. cachedIds' \subseteq Projects /\ callFaults' \in 0..MaxCallFaults
  BY <1>1, CallFacts
<1>3. calls[c].todo # <<>> /\ kind # "ok"
  BY <1>1 DEF NoKey, Refuse, Lose, Planned, Kinds
<1>4. CASE NoKey(c, kind) \/ Refuse(c, kind)
  <2>1. calls[c].leg \in {"ready", "sent"} /\ UNCHANGED planeWrites
    BY <1>4 DEF NoKey, Refuse
  <2>2. calls[c].tool \in {"comment", "update"} => c \notin planeWrites
    BY <1>1, <1>3, <2>1 DEF Wrote
  <2> QED BY <1>1, <1>2, <1>3, <2>1, <2>2, SettleKeeps
<1>5. CASE Lose(c, kind)
  <2>1. kind \notin Refusals
    BY <1>5 DEF Lose, Refusals
  <2>2. Head(calls[c].todo) = "write" => calls[c].tool \in Writing
    <3>1. calls[c].todo \in Plans(calls[c].tool) /\ calls[c].tool \in Tools
      BY <1>1 DEF Planned, CallType
    <3> QED BY <1>3, <3>1, PlanFacts DEF Plans, Tools, Reading, Writing, Requests
  <2>3. planeWrites' = planeWrites \/ (planeWrites' = planeWrites \cup {c} /\ calls[c].tool \in Writing)
    BY <1>5, <2>2 DEF Lose
  <2> QED BY <1>1, <1>2, <1>3, <2>1, <2>3, SettleKeeps
<1> QED BY <1>4, <1>5

LEMMA ArriveKeeps ==
  ASSUME ClientInv, NEW c \in ToolCalls, NEW reply \in Shapes, Arrive(c, reply)
  PROVE  ClientInv'
<1> DEFINE todo == Needed(calls[c], reply) \o Tail(calls[c].todo)
           k == [calls[c] EXCEPT !.todo = todo, !.leg = "ready"]
<1>1. /\ calls[c] \in CallType /\ Planned(calls[c]) /\ Wrote(c) /\ Told(c) /\ calls[c].leg = "served"
      /\ calls' = [calls EXCEPT ![c] = IF todo = <<>> THEN Settle(calls[c], "ok") ELSE k]
      /\ UNCHANGED planeWrites /\ UNCHANGED callFaults
  BY CallFacts DEF Arrive
<1>2. calls[c].todo # <<>> /\ calls[c].tool \in Tools
  BY <1>1 DEF Planned, CallType
<1>3. /\ todo \in Plans(calls[c].tool)
      /\ todo = <<>> /\ calls[c].tool \in Writing =>
           calls[c].todo = <<"write">> \/ (calls[c].tool = "create" /\ calls[c].todo = <<"project">>)
      /\ calls[c].todo = <<"write">> /\ calls[c].tool # "create" => todo = <<>>
      /\ calls[c].tool = "create" => todo \in {<<>>, <<"project">>}
      /\ calls[c].tool = "create" /\ calls[c].todo = <<"project">> => todo = <<>>
  BY <1>1, <1>2, NextPlan
<1>4. cachedIds' \subseteq Projects
  <2>1. calls[c].project \in Projects
    BY <1>1, <1>2 DEF Planned, CallType
  <2> QED BY <2>1, CallFacts DEF Arrive
<1>5. CASE todo = <<>>
  <2>1. calls[c].tool \in Writing => c \in planeWrites
    BY <1>1, <1>3, <1>5 DEF Wrote, Writing
  <2>2. calls' = [calls EXCEPT ![c] = Settle(calls[c], "ok")]
    BY <1>1, <1>5
  <2>3. callFaults' \in 0..MaxCallFaults /\ "ok" \notin Refusals
    BY <1>1, CallFacts DEF Refusals, Kinds
  <2> QED BY <1>1, <1>2, <1>4, <2>1, <2>2, <2>3, SettleKeeps
<1>6. CASE todo # <<>>
  <2>1. todo \in Seq(Requests)
    BY <1>2, <1>3, PlanTypes
  <2> HIDE DEF todo
  <2>2. /\ k \in CallType /\ k.tool = calls[c].tool /\ k.todo = todo /\ k.leg = "ready" /\ k.answer = calls[c].answer
        /\ k.readable = calls[c].readable /\ k.project = calls[c].project
    BY <1>1, <2>1 DEF CallType, Legs
  <2>3. calls' = [calls EXCEPT ![c] = k] /\ calls'[c] = k
    BY <1>1, <1>6 DEF ClientInv
  <2> HIDE DEF k
  <2>4. Planned(k)
    BY <1>1, <1>2, <1>3, <2>2 DEF Planned
  <2>5. calls[c].tool \in {"comment", "update"} => c \notin planeWrites
    BY <1>1, <1>2, <1>3, <1>6 DEF Wrote
  <2>6. calls[c].tool = "create" => calls[c].todo = <<"write">> /\ c \in planeWrites
    <3>1. calls[c].tool = "create" => calls[c].todo \in {<<"write">>, <<"project">>}
      BY <1>1, <1>2 DEF Planned, Plans
    <3> QED BY <1>1, <1>3, <1>6, <3>1 DEF Wrote, Writing
  <2>7. Wrote(c)'
    BY <1>1, <1>2, <2>2, <2>3, <2>5, <2>6 DEF Wrote, Writing
  <2>8. Told(c)'
    BY <1>1, <1>2, <2>2, <2>3 DEF Told
  <2>9. callFaults' \in 0..MaxCallFaults
    BY <1>1, CallFacts
  <2> QED BY <1>1, <1>4, <2>2, <2>3, <2>4, <2>7, <2>8, <2>9, CallMoves
<1> QED BY <1>5, <1>6

LEMMA DeadlineKeeps ==
  ASSUME ClientInv, NEW c \in ToolCalls, DeadlinePasses(c)
  PROVE  ClientInv'
<1> DEFINE k == [calls[c] EXCEPT !.answer = "unavailable"]
<1>1. /\ calls[c] \in CallType /\ calls[c].todo # <<>> /\ calls' = [calls EXCEPT ![c] = k]
      /\ UNCHANGED cachedIds /\ UNCHANGED planeWrites /\ UNCHANGED callFaults
  BY CallFacts DEF DeadlinePasses
<1>2. /\ k \in CallType /\ k.leg = calls[c].leg /\ k.tool = calls[c].tool /\ k.todo = calls[c].todo
      /\ k.answer = "unavailable" /\ k.readable = calls[c].readable /\ k.project = calls[c].project
  BY <1>1 DEF CallType, Kinds
<1>3. calls'[c] = k
  BY <1>1 DEF ClientInv
<1> HIDE DEF k
<1>4. Planned(k)
  BY <1>1, <1>2, CallFacts DEF Planned
<1>5. Wrote(c)' /\ Told(c)'
  BY <1>1, <1>2, <1>3, CallFacts DEF Wrote, Told, Refusals
<1> QED BY <1>1, <1>2, <1>4, <1>5, CallFacts, CallMoves

\* The inductive invariant of the tools and their client.
THEOREM ClientInductive == ClientSpec => []ClientInv
<1>1. ASSUME ClientInit
      PROVE  ClientInv
  <2>1. NoCall \in CallType /\ Planned(NoCall)
    BY NoCallFacts, PlanTypes, PlanFacts DEF NoCall, CallType, Legs, Planned, Tools
  <2>2. \A c \in ToolCalls : calls[c] = NoCall /\ c \notin planeWrites
    BY <1>1 DEF ClientInit
  <2>3. \A c \in ToolCalls : Planned(calls[c]) /\ Wrote(c) /\ Told(c)
    BY <2>1, <2>2, NoCallFacts DEF Wrote, Told, Writing
  <2> QED BY <1>1, <2>1, <2>3, ClientAssumption DEF ClientInit, ClientInv, AnswersTrue, Told
<1>2. ASSUME ClientInv, [ClientNext]_clientVars
      PROVE  ClientInv'
  <2>1. CASE UNCHANGED clientVars
    BY <1>2, <2>1 DEF clientVars, ClientInv, Wrote, AnswersTrue
  <2>2. ASSUME NEW c \in ToolCalls, NEW tool \in (Reading \cup Writing) \ {"search", "members", "test"},
               InvalidInput(c, tool)
        PROVE  ClientInv'
    BY <1>2, <2>2, AnswersAtOnce DEF InvalidInput, Tools, Reading, Writing, Kinds
  <2>3. ASSUME NEW c \in ToolCalls, EmptySearch(c)
        PROVE  ClientInv'
    BY <1>2, <2>3, AnswersAtOnce DEF EmptySearch, Tools, Reading, Writing
  <2>4. ASSUME NEW c \in ToolCalls, NEW tool \in Reading \cup Writing, NEW p \in Projects,
               NEW readable \in BOOLEAN, StartCall(c, tool, p, readable)
        PROVE  ClientInv'
    BY <1>2, <2>4, StartCallKeeps, ClientAssumption
  <2>5. CASE \E c \in ToolCalls : Send(c) \/ Serve(c) \/ DeadlinePasses(c)
    BY <1>2, <2>5, SendKeeps, ServeKeeps, DeadlineKeeps
  <2>6. CASE \E c \in ToolCalls, kind \in Kinds : NoKey(c, kind) \/ Refuse(c, kind) \/ Lose(c, kind)
    BY <1>2, <2>6, FailsKeeps
  <2>7. CASE \E c \in ToolCalls, reply \in Shapes : Arrive(c, reply)
    BY <1>2, <2>7, ArriveKeeps
  <2> QED BY <1>2, <2>1, <2>2, <2>3, <2>4, <2>5, <2>6, <2>7 DEF ClientNext
<1> QED BY <1>1, <1>2, PTL DEF ClientSpec

\* No tool answers "ok" for a write Plane has not performed, and no refusal of a
\* comment or an update hides one, whichever requests fail, are lost, or outlive
\* the tool's deadline (runTool, withDeadline, request).
THEOREM AnswersAlwaysTrue == ClientSpec => []AnswersTrue
<1>1. ClientInv => AnswersTrue
  BY DEF ClientInv
<1> QED BY ClientInductive, <1>1, PTL
-----------------------------------------------------------------------------
(* The job.                                                                 *)

JobPlaces == {"waiting", "running", "done"} \cup Prompt

JobType == [at: JobPlaces, since: Nat, snap: Seq(Ticks)]

JobTypes ==
  /\ jobNow \in 1..EndOfTime /\ lastRunAt \in 0..EndOfTime /\ lastRunAt <= jobNow
  /\ lastSummary \in {0} \cup Ticks
  /\ runHistory \in Seq(Ticks) /\ Len(runHistory) <= HistoryLimit
  /\ finished \in Seq(Ticks)
  /\ jobFaults \in 0..MaxJobFaults
  /\ job \in [Ticks -> JobType]
  /\ \A t \in Ticks : Len(job[t].snap) <= HistoryLimit

\* An execution that is about to stamp is at its tick, and was not throttled.
Due(t) == job[t].at = "stamp" => ~Throttled /\ jobNow \in {FireAt(t), FireAt(t) + 1}

\* A run that goes on is the last one stamped, or there is no telling.
Latest(t) == Scanning(t) => lastRunAt # 0 /\ job[t].since = lastRunAt /\ jobNow <= lastRunAt + MaxRun

\* What recordReconcileRun has saved when the runs of `done` are recorded.
Kept(s) == SubSeq(s, Len(s) - (IF Len(s) > HistoryLimit THEN HistoryLimit ELSE Len(s)) + 1, Len(s))

Saved(s) == runHistory = Kept(s)

Summed(s) == s # <<>> => lastSummary = s[Len(s)]

\* Where the one execution that records its run is.
Recording(t) ==
  job[t].at \in {"last", "read", "append"} => \E s \in Seq(Ticks) :
    /\ finished = Append(s, t) /\ Saved(s)
    /\ job[t].at # "last" => lastSummary = t
    /\ job[t].at = "append" => job[t].snap = runHistory

Recorded ==
  (MaxRun < Interval - 1 /\ jobFaults = 0) =>
    /\ \A t \in Ticks : Recording(t)
    /\ (\A t \in Ticks : job[t].at \notin {"last", "read", "append"}) => Saved(finished) /\ Summed(finished)

JobInv == /\ JobTypes /\ OneScan /\ Recorded
          /\ MaxRun < Interval - 1 => \A t \in Ticks : Due(t) /\ Latest(t)

LEMMA JobConstants ==
  /\ NumTicks \in Nat /\ Interval \in Nat /\ Interval > 1 /\ HistoryLimit \in Nat \ {0} /\ HistoryLimit \in Nat
  /\ HistoryLimit > 0 /\ MaxRun \in Nat /\ MaxJobFaults \in Nat /\ EndOfTime \in Nat
  /\ \A t \in Ticks : t \in Nat /\ t > 0 /\ FireAt(t) \in Nat /\ FireAt(t) + 1 <= EndOfTime
BY JobAssumption DEF EndOfTime, FireAt, Ticks

\* The last k elements of a sequence.
LEMMA Ending ==
  ASSUME NEW S, NEW s \in Seq(S), NEW k \in Nat, k <= Len(s)
  PROVE  /\ SubSeq(s, Len(s) - k + 1, Len(s)) \in Seq(S) /\ Len(SubSeq(s, Len(s) - k + 1, Len(s))) = k
         /\ \A i \in 1..k : SubSeq(s, Len(s) - k + 1, Len(s))[i] = s[Len(s) - k + i]
<1> DEFINE n == Len(s)
           m == n - k + 1
<1>1. n \in Nat /\ m \in Int /\ n \in Int /\ m >= 1 /\ m = n - k + 1 /\ \A i \in 1..n : s[i] \in S
  OBVIOUS
<1> HIDE DEF m, n
<1>2. \A i \in m..n : s[i] \in S
  BY <1>1
<1>3. /\ SubSeq(s, m, n) \in Seq(S)
      /\ Len(SubSeq(s, m, n)) = IF m <= n THEN n - m + 1 ELSE 0
      /\ \A i \in 1..(n - m + 1) : SubSeq(s, m, n)[i] = s[m + i - 1]
  BY <1>1, <1>2, SubSeqProperties
<1>4. Len(SubSeq(s, m, n)) = k
  BY <1>1, <1>3
<1>5. \A i \in 1..k : i \in 1..(n - m + 1) /\ m + i - 1 = n - k + i
  BY <1>1
<1>6. \A i \in 1..k : SubSeq(s, m, n)[i] = s[n - k + i]
  BY <1>3, <1>5
<1> QED BY <1>3, <1>4, <1>6 DEF m, n

\* The history after one more run is the history of the runs and it.
LEMMA ShiftKept ==
  ASSUME NEW s \in Seq(Ticks), NEW t \in Ticks
  PROVE  Shifted(Append(Kept(s), t)) = Kept(Append(s, t)) /\ Kept(s) \in Seq(Ticks) /\ Len(Kept(s)) <= HistoryLimit
<1> DEFINE n == Len(s)
           k == IF n > HistoryLimit THEN HistoryLimit ELSE n
           u == Append(s, t)
           m == IF n + 1 > HistoryLimit THEN HistoryLimit ELSE n + 1
<1>1. n \in Nat /\ k \in Nat /\ m \in Nat /\ k <= n /\ k <= HistoryLimit /\ HistoryLimit \in Nat /\ HistoryLimit > 0
  BY JobConstants
<1>2. u \in Seq(Ticks) /\ Len(u) = n + 1 /\ (\A i \in 1..n : u[i] = s[i]) /\ u[n + 1] = t
  OBVIOUS
<1>3. Kept(s) = SubSeq(s, n - k + 1, n) /\ Kept(u) = SubSeq(u, (n + 1) - m + 1, n + 1)
  BY <1>2 DEF Kept
<1>4. /\ Kept(s) \in Seq(Ticks) /\ Len(Kept(s)) = k
      /\ \A i \in 1..k : Kept(s)[i] = s[n - k + i]
  <2> HIDE DEF k, n
  <2>1. n = Len(s)
    BY DEF n
  <2> QED BY <1>1, <1>3, <2>1, Ending
<1>5. /\ Kept(u) \in Seq(Ticks) /\ Len(Kept(u)) = m
      /\ \A i \in 1..m : Kept(u)[i] = u[n + 1 - m + i]
  <2>1. m <= Len(u) /\ n + 1 = Len(u)
    BY <1>1, <1>2
  <2> HIDE DEF m, n, u
  <2>2. u \in Seq(Ticks) /\ m \in Nat
    BY <1>1, <1>2
  <2>3. /\ SubSeq(u, Len(u) - m + 1, Len(u)) \in Seq(Ticks) /\ Len(SubSeq(u, Len(u) - m + 1, Len(u))) = m
        /\ \A i \in 1..m : SubSeq(u, Len(u) - m + 1, Len(u))[i] = u[Len(u) - m + i]
    BY <2>1, <2>2, Ending
  <2>4. Kept(u) = SubSeq(u, Len(u) - m + 1, Len(u))
    BY <1>3, <2>1
  <2>5. \A i \in 1..m : Len(u) - m + i = n + 1 - m + i
    BY <1>1, <2>1
  <2> QED BY <2>3, <2>4, <2>5
<1>6. /\ Append(Kept(s), t) \in Seq(Ticks) /\ Len(Append(Kept(s), t)) = k + 1
      /\ (\A i \in 1..k : Append(Kept(s), t)[i] = Kept(s)[i]) /\ Append(Kept(s), t)[k + 1] = t
  BY <1>4, AppendProperties
<1> DEFINE a == Append(Kept(s), t)
<1>7. /\ Shifted(a) \in Seq(Ticks) /\ Len(Shifted(a)) = m
      /\ \A i \in 1..m : Shifted(a)[i] = Kept(u)[i]
  <2>1. CASE n >= HistoryLimit
    <3>1. k = HistoryLimit /\ m = HistoryLimit
      BY <1>1, <2>1
    <3>2. Shifted(a) = Tail(a) /\ a # <<>>
      BY <1>1, <1>6, <3>1 DEF Shifted
    <3>3. Tail(a) \in Seq(Ticks) /\ Len(Tail(a)) = k /\ \A i \in 1..k : Tail(a)[i] = a[i + 1]
      BY <1>1, <1>6, <3>2, HeadTailProperties
    <3>4. ASSUME NEW i \in 1..k PROVE a[i + 1] = Kept(u)[i]
      <4>1. Kept(u)[i] = u[n + 1 - k + i]
        BY <1>5, <3>1
      <4>2. CASE i = k
        BY <1>1, <1>2, <1>6, <4>1, <4>2
      <4>3. CASE i # k
        <5>1. i + 1 \in 1..k /\ n - k + (i + 1) = n + 1 - k + i /\ n + 1 - k + i \in 1..n
          BY <1>1, <4>3
        <5> QED BY <1>2, <1>4, <1>6, <4>1, <5>1
      <4> QED BY <4>2, <4>3
    <3> QED BY <3>1, <3>2, <3>3, <3>4
  <2>2. CASE n < HistoryLimit
    <3>1. k = n /\ m = n + 1 /\ Shifted(a) = a
      BY <1>1, <1>6, <2>2 DEF Shifted
    <3>2. ASSUME NEW i \in 1..m PROVE a[i] = Kept(u)[i]
      <4>1. Kept(u)[i] = u[i]
        <5>1. n + 1 - m + i = i
          BY <1>1, <3>1
        <5> QED BY <1>5, <5>1
      <4>2. CASE i = n + 1
        BY <1>2, <1>6, <3>1, <4>1, <4>2
      <4>3. CASE i # n + 1
        <5>1. i \in 1..n /\ n - n + i = i
          BY <1>1, <3>1, <4>3
        <5> QED BY <1>2, <1>4, <1>6, <3>1, <4>1, <5>1
      <4> QED BY <4>2, <4>3
    <3> QED BY <1>6, <3>1, <3>2
  <2> QED BY <1>1, <2>1, <2>2
<1>8. Shifted(a) = Kept(u)
  BY <1>5, <1>7, SeqEqual
<1> QED BY <1>1, <1>4, <1>8

Short == MaxRun < Interval - 1

\* One execution moves.
LEMMA JobMoves ==
  ASSUME JobTypes, NEW t \in Ticks, NEW k \in JobType, job' = [job EXCEPT ![t] = k], Len(k.snap) <= HistoryLimit
  PROVE  /\ job' \in [Ticks -> JobType] /\ job'[t] = k
         /\ \A u \in Ticks \ {t} : job'[u] = job[u]
         /\ \A u \in Ticks : Len(job'[u].snap) <= HistoryLimit
BY DEF JobTypes

\* What is known of an execution.
LEMMA JobFacts ==
  ASSUME JobInv, NEW t \in Ticks
  PROVE  /\ JobTypes /\ job[t] \in JobType /\ Len(job[t].snap) <= HistoryLimit
         /\ job = [job EXCEPT ![t] = job[t]] /\ jobNow \in Nat /\ jobNow >= 1 /\ lastRunAt \in Nat
         /\ Short => Due(t) /\ Latest(t) /\ \A u \in Ticks : Scanning(t) /\ Scanning(u) => t = u
BY JobConstants DEF JobInv, JobTypes, OneScan, Short

\* An execution that neither starts to run nor gets to its stamp unseen changes
\* nothing of what is known about when runs go on.
LEMMA TimesKept ==
  ASSUME JobInv, NEW t \in Ticks, NEW k \in JobType, job' = [job EXCEPT ![t] = k], Len(k.snap) <= HistoryLimit,
         UNCHANGED jobNow, UNCHANGED lastRunAt,
         k.at \in {"running", "last", "read", "append"} => Scanning(t) /\ k.since = job[t].since,
         k.at = "stamp" => ~Throttled /\ jobNow \in {FireAt(t), FireAt(t) + 1}
  PROVE  OneScan' /\ (Short => \A u \in Ticks : Due(u)' /\ Latest(u)')
<1>1. /\ job'[t] = k /\ \A u \in Ticks \ {t} : job'[u] = job[u]
  BY JobFacts, JobMoves
<1>2. \A u \in Ticks : Scanning(u)' => Scanning(u) /\ job'[u].since = job[u].since
  BY <1>1 DEF Scanning
<1>3. OneScan'
  BY <1>2 DEF OneScan, JobInv
<1>4. ASSUME Short, NEW u \in Ticks PROVE Due(u)' /\ Latest(u)'
  <2>1. Due(u) /\ Latest(u)
    BY <1>4, JobFacts
  <2>2. Latest(u)'
    BY <1>2, <2>1 DEF Latest
  <2>3. Due(u)'
    BY <1>1, <2>1 DEF Due, Throttled
  <2> QED BY <2>2, <2>3
<1> QED BY <1>3, <1>4

\* Steps that record nothing.
LEMMA RecordKept ==
  ASSUME JobInv, NEW t \in Ticks, NEW k \in JobType, job' = [job EXCEPT ![t] = k], Len(k.snap) <= HistoryLimit,
         UNCHANGED finished, UNCHANGED runHistory, UNCHANGED lastSummary, UNCHANGED jobFaults,
         job[t].at \notin {"last", "read", "append"}, k.at \notin {"last", "read", "append"}
  PROVE  Recorded'
<1>1. /\ job'[t] = k /\ \A u \in Ticks \ {t} : job'[u] = job[u]
  BY JobFacts, JobMoves
<1>2. \A u \in Ticks : Recording(u) => Recording(u)'
  BY <1>1 DEF Recording, Saved, Kept
<1>3. (\A u \in Ticks : job'[u].at \notin {"last", "read", "append"}) => \A u \in Ticks : job[u].at \notin {"last", "read", "append"}
  BY <1>1
<1>4. Saved(finished) => Saved(finished)'
  BY DEF Saved, Kept
<1>5. Summed(finished) => Summed(finished)'
  BY DEF Summed
<1> QED BY <1>2, <1>3, <1>4, <1>5 DEF JobInv, Recorded

LEMMA PassTimeKeeps ==
  ASSUME JobInv, PassTime
  PROVE  JobInv'
<1>1. /\ UNCHANGED job /\ UNCHANGED lastRunAt /\ UNCHANGED lastSummary /\ UNCHANGED runHistory
      /\ UNCHANGED finished /\ UNCHANGED jobFaults /\ jobNow' = jobNow + 1 /\ jobNow < EndOfTime
      /\ \A t \in Ticks : job[t].at \notin Prompt /\ (job[t].at = "running" => jobNow < job[t].since + MaxRun)
  BY DEF PassTime
<1>2. JobTypes'
  <2>1. jobNow' \in 1..EndOfTime /\ lastRunAt <= jobNow'
    BY <1>1, JobConstants DEF JobInv, JobTypes
  <2> QED BY <1>1, <2>1 DEF JobInv, JobTypes
<1>3. OneScan'
  BY <1>1 DEF JobInv, OneScan, Scanning
<1>4. Recorded'
  BY <1>1 DEF JobInv, Recorded, Recording, Saved, Summed
<1>5. ASSUME Short, NEW t \in Ticks PROVE Due(t)' /\ Latest(t)'
  <2>1. Due(t)'
    BY <1>1 DEF Due, Prompt
  <2>2. SUFFICES ASSUME Scanning(t)' PROVE lastRunAt' # 0 /\ job'[t].since = lastRunAt' /\ jobNow' <= lastRunAt' + MaxRun
    BY <2>1 DEF Latest
  <2>3. job[t].at = "running" /\ Scanning(t)
    BY <1>1, <2>2 DEF Scanning, Prompt
  <2>4. lastRunAt # 0 /\ job[t].since = lastRunAt /\ jobNow < lastRunAt + MaxRun
    BY <1>1, <1>5, <2>3, JobFacts DEF Latest
  <2>5. jobNow \in Nat /\ lastRunAt \in Nat /\ MaxRun \in Nat
    BY JobFacts, JobConstants
  <2> QED BY <1>1, <2>4, <2>5
<1> QED BY <1>2, <1>3, <1>4, <1>5 DEF JobInv, Short

LEMMA FireKeeps ==
  ASSUME JobInv, NEW t \in Ticks, Fire(t)
  PROVE  JobInv'
<1> DEFINE at == IF Throttled THEN "done" ELSE "stamp"
           k == [job[t] EXCEPT !.at = at]
<1>1. /\ job[t].at = "waiting" /\ jobNow \in {FireAt(t), FireAt(t) + 1} /\ job' = [job EXCEPT ![t] = k]
      /\ UNCHANGED jobNow /\ UNCHANGED lastRunAt /\ UNCHANGED lastSummary /\ UNCHANGED runHistory
      /\ UNCHANGED finished /\ UNCHANGED jobFaults
  BY JobFacts DEF Fire, JobType
<1>2. at \in {"done", "stamp"} /\ (at = "stamp" => ~Throttled)
  OBVIOUS
<1> HIDE DEF at
<1>3. k \in JobType /\ k.at = at /\ k.snap = job[t].snap
  BY <1>2, JobFacts DEF JobType, JobPlaces, Prompt
<1> HIDE DEF k
<1>4. Len(k.snap) <= HistoryLimit
  BY <1>3, JobFacts
<1>5. JobTypes'
  BY <1>1, <1>3, <1>4, JobFacts, JobMoves DEF JobTypes
<1>6. OneScan' /\ (Short => \A u \in Ticks : Due(u)' /\ Latest(u)')
  BY <1>1, <1>2, <1>3, <1>4, TimesKept
<1>7. Recorded'
  BY <1>1, <1>2, <1>3, <1>4, RecordKept
<1> QED BY <1>5, <1>6, <1>7 DEF JobInv, Short

LEMMA StampKeeps ==
  ASSUME JobInv, NEW t \in Ticks, Stamp(t)
  PROVE  JobInv'
<1> DEFINE k == [job[t] EXCEPT !.at = "running", !.since = jobNow]
<1>1. /\ job[t].at = "stamp" /\ job' = [job EXCEPT ![t] = k] /\ lastRunAt' = jobNow
      /\ UNCHANGED jobNow /\ UNCHANGED lastSummary /\ UNCHANGED runHistory
      /\ UNCHANGED finished /\ UNCHANGED jobFaults
  BY JobFacts DEF Stamp, JobType
<1>2. k \in JobType /\ k.at = "running" /\ k.since = jobNow /\ k.snap = job[t].snap
  BY JobFacts DEF JobType, JobPlaces, Prompt
<1> HIDE DEF k
<1>3. Len(k.snap) <= HistoryLimit
  BY <1>2, JobFacts
<1>4. job'[t] = k /\ \A u \in Ticks \ {t} : job'[u] = job[u]
  BY <1>1, <1>2, <1>3, JobFacts, JobMoves
<1>5. JobTypes'
  <2>1. lastRunAt' \in 0..EndOfTime /\ lastRunAt' <= jobNow'
    BY <1>1, JobConstants DEF JobInv, JobTypes
  <2> QED BY <1>1, <1>2, <1>3, <2>1, JobFacts, JobMoves DEF JobTypes
<1>6. Recorded'
  BY <1>1, <1>2, <1>3, RecordKept
<1>7. ASSUME Short, NEW u \in Ticks, u # t
      PROVE  ~Scanning(u) /\ job[u].at # "stamp"
  <2>1. Due(t) /\ Due(u) /\ Latest(u)
    BY <1>7, JobFacts
  <2>2. ~Throttled /\ jobNow \in {FireAt(t), FireAt(t) + 1}
    BY <1>1, <2>1 DEF Due
  <2>3. ~Scanning(u)
    <3>1. lastRunAt = 0 \/ ~(jobNow - lastRunAt < Interval - 1)
      BY <2>2 DEF Throttled
    <3>2. jobNow \in Nat /\ lastRunAt \in Nat /\ Interval \in Nat /\ MaxRun \in Nat /\ MaxRun < Interval - 1
      BY <1>7, JobFacts, JobConstants DEF Short
    <3>3. ~(lastRunAt # 0 /\ jobNow <= lastRunAt + MaxRun)
      BY <3>1, <3>2
    <3> QED BY <2>1, <3>3 DEF Latest
  <2>4. job[u].at # "stamp"
    <3>1. t \in Nat /\ u \in Nat
      BY JobConstants
    <3>2. ~(jobNow \in {2 * u, 2 * u + 1} /\ jobNow \in {2 * t, 2 * t + 1})
      BY <1>7, <3>1
    <3> QED BY <2>1, <2>2, <3>2 DEF Due, FireAt
  <2> QED BY <2>3, <2>4
<1>8. Short => \A u \in Ticks : Scanning(u)' => u = t
  BY <1>4, <1>7 DEF Scanning
<1>9. OneScan'
  BY <1>8 DEF OneScan, Short
<1>10. ASSUME Short, NEW u \in Ticks PROVE Due(u)' /\ Latest(u)'
  <2>1. jobNow \in Nat /\ jobNow >= 1 /\ MaxRun \in Nat
    BY JobFacts, JobConstants
  <2>2. CASE u = t
    BY <1>1, <1>2, <1>4, <2>1, <2>2 DEF Due, Latest
  <2>3. CASE u # t
    BY <1>4, <1>7, <1>8, <1>10, <2>3 DEF Due, Latest
  <2> QED BY <2>2, <2>3
<1> QED BY <1>5, <1>6, <1>9, <1>10 DEF JobInv, Short

\* What a run that records itself has to itself.
LEMMA Alone ==
  ASSUME JobInv, Short, NEW t \in Ticks, Scanning(t)
  PROVE  \A u \in Ticks \ {t} : job[u].at \notin {"last", "read", "append"}
BY JobFacts DEF Scanning

LEMMA FinishRunKeeps ==
  ASSUME JobInv, NEW t \in Ticks, FinishRun(t)
  PROVE  JobInv'
<1> DEFINE k == [job[t] EXCEPT !.at = "last"]
<1>1. /\ job[t].at = "running" /\ job' = [job EXCEPT ![t] = k] /\ finished' = Append(finished, t)
      /\ UNCHANGED jobNow /\ UNCHANGED lastRunAt /\ UNCHANGED lastSummary /\ UNCHANGED runHistory /\ UNCHANGED jobFaults
  BY JobFacts DEF FinishRun, JobType
<1>2. k \in JobType /\ k.at = "last" /\ k.since = job[t].since /\ k.snap = job[t].snap
  BY JobFacts DEF JobType, JobPlaces, Prompt
<1> HIDE DEF k
<1>3. Len(k.snap) <= HistoryLimit /\ Scanning(t) /\ finished \in Seq(Ticks)
  BY <1>1, <1>2, JobFacts DEF Scanning, JobTypes
<1>4. job'[t] = k /\ \A u \in Ticks \ {t} : job'[u] = job[u]
  BY <1>1, <1>2, <1>3, JobFacts, JobMoves
<1>5. JobTypes'
  BY <1>1, <1>2, <1>3, JobFacts, JobMoves DEF JobTypes
<1>6. OneScan' /\ (Short => \A u \in Ticks : Due(u)' /\ Latest(u)')
  BY <1>1, <1>2, <1>3, TimesKept
<1>7. ASSUME Short, jobFaults' = 0
      PROVE  Saved(finished)
  <2>1. \A u \in Ticks : job[u].at \notin {"last", "read", "append"}
    BY <1>1, <1>3, <1>7, Alone
  <2> QED BY <1>1, <1>7, <2>1 DEF JobInv, Recorded, Short
<1>8. ASSUME Short, jobFaults' = 0
      PROVE  Recording(t)' /\ \A u \in Ticks \ {t} : Recording(u)'
  <2>1. Saved(finished) => runHistory' = Kept(finished)
    BY <1>1 DEF Saved
  <2>2. \E s \in Seq(Ticks) : finished' = Append(s, t) /\ runHistory' = Kept(s)
    BY <1>1, <1>3, <1>7, <1>8, <2>1
  <2>3. Recording(t)'
    BY <1>2, <1>4, <2>2 DEF Recording, Saved
  <2>4. \A u \in Ticks \ {t} : Recording(u)'
    BY <1>3, <1>4, <1>8, Alone DEF Recording
  <2> QED BY <2>3, <2>4
<1>9. Recorded'
  BY <1>2, <1>4, <1>8 DEF Recorded, Short
<1> QED BY <1>5, <1>6, <1>9 DEF JobInv, Short

LEMMA SaveLastKeeps ==
  ASSUME JobInv, NEW t \in Ticks, SaveLast(t)
  PROVE  JobInv'
<1> DEFINE k == [job[t] EXCEPT !.at = "read"]
<1>1. /\ job[t].at = "last" /\ job' = [job EXCEPT ![t] = k] /\ lastSummary' = t
      /\ UNCHANGED jobNow /\ UNCHANGED lastRunAt /\ UNCHANGED finished /\ UNCHANGED runHistory /\ UNCHANGED jobFaults
  BY JobFacts DEF SaveLast, JobType
<1>2. k \in JobType /\ k.at = "read" /\ k.since = job[t].since /\ k.snap = job[t].snap
  BY JobFacts DEF JobType, JobPlaces, Prompt
<1> HIDE DEF k
<1>3. Len(k.snap) <= HistoryLimit /\ Scanning(t)
  BY <1>1, <1>2, JobFacts DEF Scanning
<1>4. job'[t] = k /\ \A u \in Ticks \ {t} : job'[u] = job[u]
  BY <1>1, <1>2, <1>3, JobFacts, JobMoves
<1>5. JobTypes'
  BY <1>1, <1>2, <1>3, JobFacts, JobMoves DEF JobTypes
<1>6. OneScan' /\ (Short => \A u \in Ticks : Due(u)' /\ Latest(u)')
  BY <1>1, <1>2, <1>3, TimesKept
<1>7. ASSUME Short, jobFaults' = 0
      PROVE  Recording(t)' /\ \A u \in Ticks \ {t} : Recording(u)'
  <2>1. Recording(t)
    BY <1>1, <1>7 DEF JobInv, Recorded, Short
  <2>2. Recording(t)'
    BY <1>1, <1>2, <1>4, <2>1 DEF Recording, Saved, Kept
  <2>3. \A u \in Ticks \ {t} : Recording(u)'
    BY <1>3, <1>4, <1>7, Alone DEF Recording
  <2> QED BY <2>2, <2>3
<1>8. Recorded'
  BY <1>2, <1>4, <1>7 DEF Recorded, Short
<1> QED BY <1>5, <1>6, <1>8 DEF JobInv, Short

LEMMA ReadHistoryKeeps ==
  ASSUME JobInv, NEW t \in Ticks, ReadHistory(t)
  PROVE  JobInv'
<1> DEFINE k == [job[t] EXCEPT !.at = "append", !.snap = runHistory]
<1>1. /\ job[t].at = "read" /\ job' = [job EXCEPT ![t] = k] /\ UNCHANGED lastSummary
      /\ UNCHANGED jobNow /\ UNCHANGED lastRunAt /\ UNCHANGED finished /\ UNCHANGED runHistory /\ UNCHANGED jobFaults
  BY JobFacts DEF ReadHistory, JobType
<1>2. k \in JobType /\ k.at = "append" /\ k.since = job[t].since /\ k.snap = runHistory
  BY JobFacts DEF JobType, JobTypes, JobPlaces, Prompt
<1> HIDE DEF k
<1>3. Len(k.snap) <= HistoryLimit /\ Scanning(t)
  BY <1>1, <1>2, JobFacts DEF Scanning, JobTypes
<1>4. job'[t] = k /\ \A u \in Ticks \ {t} : job'[u] = job[u]
  BY <1>1, <1>2, <1>3, JobFacts, JobMoves
<1>5. JobTypes'
  BY <1>1, <1>2, <1>3, JobFacts, JobMoves DEF JobTypes
<1>6. OneScan' /\ (Short => \A u \in Ticks : Due(u)' /\ Latest(u)')
  BY <1>1, <1>2, <1>3, TimesKept
<1>7. ASSUME Short, jobFaults' = 0
      PROVE  Recording(t)' /\ \A u \in Ticks \ {t} : Recording(u)'
  <2>1. Recording(t)
    BY <1>1, <1>7 DEF JobInv, Recorded, Short
  <2>2. Recording(t)'
    BY <1>1, <1>2, <1>4, <2>1 DEF Recording, Saved, Kept
  <2>3. \A u \in Ticks \ {t} : Recording(u)'
    BY <1>3, <1>4, <1>7, Alone DEF Recording
  <2> QED BY <2>2, <2>3
<1>8. Recorded'
  BY <1>2, <1>4, <1>7 DEF Recorded, Short
<1> QED BY <1>5, <1>6, <1>8 DEF JobInv, Short

\* What is saved is never longer than the limit.
LEMMA ShiftedType ==
  ASSUME NEW s \in Seq(Ticks), Len(s) <= HistoryLimit, NEW t \in Ticks
  PROVE  Shifted(Append(s, t)) \in Seq(Ticks) /\ Len(Shifted(Append(s, t))) <= HistoryLimit
<1>1. Append(s, t) \in Seq(Ticks) /\ Len(Append(s, t)) = Len(s) + 1 /\ Append(s, t) # <<>>
  BY AppendProperties
<1>2. Tail(Append(s, t)) \in Seq(Ticks) /\ Len(Tail(Append(s, t))) = Len(s)
  BY <1>1, HeadTailProperties
<1>3. HistoryLimit \in Nat /\ Len(s) \in Nat
  BY JobConstants
<1> QED BY <1>1, <1>2, <1>3 DEF Shifted

LEMMA AppendHistoryKeeps ==
  ASSUME JobInv, NEW t \in Ticks, AppendHistory(t)
  PROVE  JobInv'
<1> DEFINE k == [job[t] EXCEPT !.at = "done", !.snap = <<>>]
<1>1. /\ job[t].at = "append" /\ job' = [job EXCEPT ![t] = k] /\ runHistory' = Shifted(Append(job[t].snap, t))
      /\ UNCHANGED jobNow /\ UNCHANGED lastRunAt /\ UNCHANGED finished /\ UNCHANGED lastSummary /\ UNCHANGED jobFaults
  BY JobFacts DEF AppendHistory, JobType
<1>2. k \in JobType /\ k.at = "done" /\ k.snap = <<>>
  <2>1. <<>> \in Seq(Ticks)
    OBVIOUS
  <2>2. job[t] \in JobType
    BY JobFacts
  <2> QED BY <2>1, <2>2 DEF JobType, JobPlaces
<1> HIDE DEF k
<1>3. Len(k.snap) <= HistoryLimit /\ Scanning(t)
  BY <1>1, <1>2, JobConstants DEF Scanning
<1>4. job'[t] = k /\ \A u \in Ticks \ {t} : job'[u] = job[u]
  BY <1>1, <1>2, <1>3, JobFacts, JobMoves
<1>5. JobTypes'
  <2>1. job[t].snap \in Seq(Ticks) /\ Len(job[t].snap) <= HistoryLimit
    BY JobFacts DEF JobType
  <2>2. runHistory' \in Seq(Ticks) /\ Len(runHistory') <= HistoryLimit
    BY <1>1, <2>1, ShiftedType
  <2> QED BY <1>1, <1>2, <1>3, <2>2, JobFacts, JobMoves DEF JobTypes
<1>6. OneScan' /\ (Short => \A u \in Ticks : Due(u)' /\ Latest(u)')
  BY <1>1, <1>2, <1>3, TimesKept
<1>7. ASSUME Short, jobFaults' = 0
      PROVE  Saved(finished)' /\ Summed(finished)' /\ \A u \in Ticks : Recording(u)'
  <2>1. Recording(t)
    BY <1>1, <1>7 DEF JobInv, Recorded, Short
  <2>2. PICK s \in Seq(Ticks) : finished = Append(s, t) /\ Saved(s) /\ lastSummary = t /\ job[t].snap = runHistory
    BY <1>1, <2>1 DEF Recording
  <2>3. Saved(finished)'
    BY <1>1, <2>2, ShiftKept DEF Saved
  <2>4. Summed(finished)'
    <3>1. Len(finished) = Len(s) + 1 /\ finished[Len(s) + 1] = t
      BY <2>2, AppendProperties
    <3> QED BY <1>1, <2>2, <3>1 DEF Summed
  <2>5. \A u \in Ticks : job'[u].at \notin {"last", "read", "append"}
    BY <1>2, <1>3, <1>4, <1>7, Alone
  <2> QED BY <2>3, <2>4, <2>5 DEF Recording
<1>8. Recorded'
  BY <1>7 DEF Recorded, Short
<1> QED BY <1>5, <1>6, <1>8 DEF JobInv, Short

LEMMA JobFailsKeeps ==
  ASSUME JobInv, NEW t \in Ticks, JobFails(t)
  PROVE  JobInv'
<1> DEFINE k == [job[t] EXCEPT !.at = "done", !.snap = <<>>]
<1>1. /\ job' = [job EXCEPT ![t] = k] /\ jobFaults < MaxJobFaults /\ jobFaults' = jobFaults + 1
      /\ UNCHANGED jobNow /\ UNCHANGED lastRunAt /\ UNCHANGED finished /\ UNCHANGED lastSummary /\ UNCHANGED runHistory
  BY JobFacts DEF JobFails, JobType
<1>2. k \in JobType /\ k.at = "done" /\ k.snap = <<>>
  <2>1. <<>> \in Seq(Ticks)
    OBVIOUS
  <2>2. job[t] \in JobType
    BY JobFacts
  <2> QED BY <2>1, <2>2 DEF JobType, JobPlaces
<1> HIDE DEF k
<1>3. Len(k.snap) <= HistoryLimit
  BY <1>2, JobConstants
<1>4. jobFaults' \in 0..MaxJobFaults /\ jobFaults' # 0
  BY <1>1, JobConstants DEF JobInv, JobTypes
<1>5. JobTypes'
  BY <1>1, <1>2, <1>3, <1>4, JobFacts, JobMoves DEF JobTypes
<1>6. OneScan' /\ (Short => \A u \in Ticks : Due(u)' /\ Latest(u)')
  BY <1>1, <1>2, <1>3, TimesKept
<1>7. Recorded'
  BY <1>4 DEF Recorded
<1> QED BY <1>5, <1>6, <1>7 DEF JobInv, Short

LEMMA InitJobInv == JobInit => JobInv
<1> SUFFICES ASSUME JobInit PROVE JobInv
  OBVIOUS
<1>1. NewJob \in JobType /\ NewJob.at = "waiting" /\ NewJob.snap = <<>>
  BY DEF NewJob, JobType, JobPlaces
<1>2. \A t \in Ticks : job[t] = NewJob
  BY DEF JobInit
<1>3. JobTypes
  <2>1. 1 \in 1..EndOfTime /\ 0 \in 0..EndOfTime
    BY JobConstants DEF EndOfTime, FireAt
  <2> QED BY <1>1, <1>2, <2>1, JobConstants DEF JobInit, JobTypes
<1>4. OneScan /\ \A t \in Ticks : Due(t) /\ Latest(t)
  BY <1>1, <1>2 DEF OneScan, Scanning, Due, Latest
<1>5. Recorded
  <2>1. Kept(<<>>) = <<>>
    <3>1. <<>> \in Seq(Ticks) /\ Len(<<>>) = 0 /\ ~(Len(<<>>) > HistoryLimit)
      BY JobConstants
    <3>2. Kept(<<>>) = SubSeq(<<>>, 0 - 0 + 1, 0)
      BY <3>1 DEF Kept
    <3> QED BY <3>2, SubSeqEmpty
  <2>2. \A t \in Ticks : Recording(t)
    BY <1>1, <1>2 DEF Recording
  <2>3. Saved(finished) /\ Summed(finished)
    BY <2>1 DEF JobInit, Saved, Summed
  <2> QED BY <2>2, <2>3 DEF Recorded
<1> QED BY <1>3, <1>4, <1>5 DEF JobInv

\* The inductive invariant of the job.
THEOREM JobInductive == JobSpec => []JobInv
<1>1. ASSUME JobInv, [JobNext]_jobVars
      PROVE  JobInv'
  <2>1. CASE UNCHANGED jobVars
    BY <1>1, <2>1 DEF jobVars, JobInv, JobTypes, OneScan, Scanning, Due, Latest, Throttled, Recorded, Recording,
       Saved, Summed
  <2> QED BY <1>1, <2>1, PassTimeKeeps, FireKeeps, StampKeeps, FinishRunKeeps, SaveLastKeeps, ReadHistoryKeeps,
             AppendHistoryKeeps, JobFailsKeeps DEF JobNext
<1> QED BY InitJobInv, <1>1, PTL DEF JobSpec

\* Of runs shorter than the interval no two scan at a time, and their history is
\* the latest of them in order, for any number of ticks, interval and limit: the
\* stamp before the run is enough, without a lock (the reconcile job).
THEOREM JobAlwaysOrderly == JobSpec => []JobOrderly
<1>1. JobInv => JobOrderly
  <2> SUFFICES ASSUME JobInv PROVE RunsRecorded
    BY DEF JobInv, JobOrderly
  <2> SUFFICES ASSUME MaxRun < Interval - 1, jobFaults = 0, ~\E t \in Ticks : Scanning(t)
               PROVE  Saved(finished) /\ Summed(finished)
    BY DEF RunsRecorded, Saved, Summed, Kept
  <2>1. \A t \in Ticks : job[t].at \notin {"last", "read", "append"}
    BY DEF Scanning
  <2> QED BY <2>1 DEF JobInv, Recorded
<1> QED BY JobInductive, <1>1, PTL

-----------------------------------------------------------------------------
(* The three together.                                                      *)

\* A step of the whole is a step of one part, and none of the others.
LEMMA PlaneMoves ==
  ASSUME [PlaneNext]_planeVars
  PROVE  [Next]_vars /\ [JobNext]_jobVars /\ [ClientNext]_clientVars /\ UNCHANGED scene
BY DEF PlaneNext, planeVars

\* Each part of the whole behaves as it does alone.
LEMMA PlaneRuns == PlaneSpec => Spec /\ JobSpec /\ ClientSpec /\ [](scene \in {"run", "job", "client"})
<1>1. PlaneInit => Init /\ JobInit /\ ClientInit /\ scene \in {"run", "job", "client"}
  BY DEF PlaneInit
<1>2. scene \in {"run", "job", "client"} /\ [PlaneNext]_planeVars => (scene \in {"run", "job", "client"})'
  BY PlaneMoves
<1>3. [PlaneNext]_planeVars => [Next]_vars /\ [JobNext]_jobVars /\ [ClientNext]_clientVars
  BY PlaneMoves
<1> QED BY <1>1, <1>2, <1>3, PTL DEF PlaneSpec, Spec, JobSpec, ClientSpec

\* Type correctness of the parts of the plugin that read Plane, each with any
\* number of items, ticks, calls and failures.
THEOREM PlaneTyped == PlaneSpec => []PlaneTypeOK
<1>1. TypeOK /\ JobInv /\ ClientInv /\ scene \in {"run", "job", "client"} => PlaneTypeOK
  <2> SUFFICES ASSUME TypeOK, JobInv, ClientInv, scene \in {"run", "job", "client"}
               PROVE  TypeOK /\ JobTypeOK /\ ClientTypeOK
    BY DEF PlaneTypeOK
  <2>1. JobTypeOK
    BY DEF JobInv, JobTypes, JobType, JobPlaces, JobTypeOK
  <2>2. ClientTypeOK
    BY DEF ClientInv, CallType, Planned, Wrote, ClientTypeOK
  <2> QED BY <2>1, <2>2
<1> QED BY PlaneRuns, TypeCorrect, JobInductive, ClientInductive, <1>1, PTL
=============================================================================
