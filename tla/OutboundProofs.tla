---------------------------- MODULE OutboundProofs ----------------------------
(***************************************************************************)
(* Proofs about OutboundMirror, for any number of changes and drains, any  *)
(* capacities and any number of crashes, rejected store calls and lost     *)
(* answers.                                                                *)
(***************************************************************************)
EXTENDS OutboundMirror, SequenceTheorems, TLAPS

-----------------------------------------------------------------------------
(* The lock.                                                                *)

InLock   == InEnqueue \cup InRemove \cup InDrain
Critical == {"enqSave", "rmSave", "loop"} \cup Buried

HandlerAt == {"idle", "deliver", "done"} \cup InEnqueue \cup InRemove
DrainAt   == {"idle"} \cup InDrain

\* A call is chained on the lock once, from its start to its end; it gets past its
\* first await inside only while it is the first.
Locked ==
  /\ \A a \in Changes : pc[a] \in HandlerAt
  /\ \A d \in Drains : pc[d] \in DrainAt
  /\ \A i, j \in DOMAIN lock : lock[i] = lock[j] => i = j
  /\ \A p \in Procs : pc[p] \in InLock <=> \E i \in DOMAIN lock : lock[i] = p
  /\ \A p \in Procs : pc[p] \in Critical => Holds(p)

-----------------------------------------------------------------------------
(* The queue.                                                               *)

Distinct(ids) == \A m, n \in DOMAIN ids : ids[m] = ids[n] => m = n

\* a was accepted before b.
Before(ids, a, b) == \E m, n \in DOMAIN ids : m < n /\ ids[m] = a /\ ids[n] = b

\* The items are actions accepted, in the order of acceptance.
InOrder(ids, items) ==
  /\ Ids(items) \subseteq Elems(ids)
  /\ \A i, j \in DOMAIN items : i < j => Before(ids, items[i].id, items[j].id)

Sent == {a \in Changes : effects[a] > 0}

QueueOK ==
  /\ Distinct(accepted) /\ InOrder(accepted, queue) /\ Len(queue) <= Capacity
  /\ Elems(dead) \subseteq Elems(accepted) /\ Elems(dead) \cap Ids(queue) = {}

\* What a handler knows where it is.
HandlerKnows(a) ==
  /\ pc[a] \in {"enqSave", "rmSave"} => snap[a] = queue
  /\ pc[a] \in {"idle"} \cup InEnqueue => a \notin Elems(accepted) /\ effects[a] = 0
  /\ pc[a] \in {"deliver"} \cup InRemove => a \in Elems(accepted)
  /\ pc[a] \in InRemove => a \in Sent

\* A drain has the queue in three parts, but for what it has sent.
Draining(d) ==
  /\ InOrder(accepted, keep[d]) /\ InOrder(accepted, snap[d])
  /\ \A i \in DOMAIN keep[d], j \in DOMAIN snap[d] : Before(accepted, keep[d][i].id, snap[d][j].id)
  /\ Len(keep[d]) + Len(snap[d]) <= Len(queue)
  /\ Ids(keep[d]) \cup Ids(snap[d]) \cup Elems(letters[d]) \subseteq Ids(queue)
  /\ Elems(letters[d]) \cap (Ids(keep[d]) \cup Ids(snap[d])) = {}
  /\ Ids(queue) \subseteq Ids(keep[d]) \cup Ids(snap[d]) \cup Elems(letters[d]) \cup Sent

DrainKnows(d) ==
  /\ pc[d] \in {"idle", "load"} => keep[d] = <<>> /\ letters[d] = <<>>
  /\ pc[d] = "loop" => Draining(d)
  /\ pc[d] \in Buried =>
       /\ keep[d] = <<>>
       /\ Elems(letters[d]) \subseteq Elems(accepted)
       /\ Elems(letters[d]) \cap (Ids(queue) \cup Elems(dead)) = {}
  /\ pc[d] = "deadSave" => tomb[d] = dead

Handlers == \A a \in Changes : HandlerKnows(a)
Drainers == \A d \in Drains : DrainKnows(d)

\* The action has left the queue, or the drain at work has it no more.
Left(a) ==
  \/ a \notin Ids(queue)
  \/ \E d \in Drains : pc[d] = "loop" /\ a \notin Ids(keep[d]) \cup Ids(snap[d])

Once(condition) == IF condition THEN 1 ELSE 0

\* Each execution is a lost answer, the inline attempt, or takes the action out.
Counted == faults.crash = 0 /\ faults.store = 0 => \A a \in Changes :
  effects[a] <= faults.answer + Once(pc[a] \in InRemove \cup {"done"}) + Once(Left(a))

OutInv == TypeOK /\ Locked /\ QueueOK /\ Handlers /\ Drainers /\ Counted

-----------------------------------------------------------------------------
(* Lemmas about the lists.                                                  *)

LEMMA ItemFacts ==
  /\ \A item \in MirrorAction : /\ item.id \in Changes /\ item.attempts \in 0..(MaxAttempts - 1)
                                /\ ~Exhausted(item) => Retried(item) \in MirrorAction
                                /\ Retried(item).id = item.id
  /\ \A a \in Changes : [id |-> a, attempts |-> 0] \in MirrorAction
  /\ MaxAttempts \in Nat \ {0} /\ Capacity \in Nat \ {0} /\ DeadCapacity \in Nat \ {0}
<1>1. MaxAttempts \in Nat \ {0} /\ Capacity \in Nat \ {0} /\ DeadCapacity \in Nat \ {0}
  BY ConstantsAssumption
<1>2. \A a \in Changes : [id |-> a, attempts |-> 0] \in MirrorAction
  BY <1>1 DEF MirrorAction
<1>3. ASSUME NEW item \in MirrorAction
      PROVE  /\ item.id \in Changes /\ item.attempts \in 0..(MaxAttempts - 1)
             /\ ~Exhausted(item) => Retried(item) \in MirrorAction
             /\ Retried(item).id = item.id
  BY <1>1 DEF MirrorAction, Exhausted, Retried
<1> QED BY <1>1, <1>2, <1>3

\* save() and appendDeadLetters() leave an end of the list.
LEMMA NewestFacts ==
  ASSUME NEW S, NEW s \in Seq(S), NEW n \in Nat \ {0}
  PROVE  /\ Newest(s, n) \in Seq(S) /\ Len(Newest(s, n)) <= n
         /\ Len(s) <= n => Newest(s, n) = s
         /\ Len(s) > 0 => Len(Newest(s, n)) > 0
         /\ Len(s) - Len(Newest(s, n)) \in Nat
         /\ \A i \in 1..Len(Newest(s, n)) : Newest(s, n)[i] = s[i + (Len(s) - Len(Newest(s, n)))]
<1>1. CASE Len(s) <= n
  <2>1. Newest(s, n) = s
    BY <1>1 DEF Newest
  <2> QED BY <1>1, <2>1
<1>2. CASE Len(s) > n
  <2> DEFINE k == Len(s) - n
             t == SubSeq(s, k + 1, Len(s))
  <2>1. k \in Nat /\ Len(s) = n + k
    BY <1>2
  <2>2. t \in Seq(S) /\ Len(t) = n /\ \A i \in 1..Len(t) : t[i] = s[i + k]
    BY <1>2, SubSeqProperties
  <2>3. Newest(s, n) = t
    BY <1>2 DEF Newest
  <2> HIDE DEF t, k
  <2>4. Len(t) <= n /\ Len(t) > 0 /\ Len(s) = Len(t) + k
    BY <2>1, <2>2
  <2>5. Len(s) - Len(t) = k
    BY <2>1, <2>2
  <2>6. ~(Len(s) <= n)
    BY <1>2
  <2> QED BY <2>1, <2>2, <2>3, <2>4, <2>5, <2>6
<1> QED BY <1>1, <1>2

\* Without keeps the order of what is left.
LEMMA WithoutFacts ==
  ASSUME NEW s \in Seq(MirrorAction), NEW a,
         \A i, j \in DOMAIN s : s[i].id = s[j].id => i = j
  PROVE  /\ Without(s, a) \in Seq(MirrorAction)
         /\ Ids(Without(s, a)) = Ids(s) \ {a}
         /\ Len(Without(s, a)) <= Len(s)
         /\ \E f \in [DOMAIN Without(s, a) -> DOMAIN s] :
              /\ \A i \in DOMAIN Without(s, a) : Without(s, a)[i].id = s[f[i]].id
              /\ \A i, j \in DOMAIN Without(s, a) : i < j => f[i] < f[j]
<1>1. CASE a \notin Ids(s)
  <2>1. Without(s, a) = s
    BY <1>1 DEF Without
  <2> DEFINE f == [i \in DOMAIN s |-> i]
  <2>2. f \in [DOMAIN s -> DOMAIN s] /\ \A i \in DOMAIN s : f[i] = i
    OBVIOUS
  <2> HIDE DEF f
  <2>3. \E g \in [DOMAIN s -> DOMAIN s] :
          /\ \A i \in DOMAIN s : s[i].id = s[g[i]].id
          /\ \A i, j \in DOMAIN s : i < j => g[i] < g[j]
    BY <2>2
  <2>4. Ids(s) = Ids(s) \ {a} /\ Len(s) <= Len(s)
    BY <1>1
  <2> QED BY <2>1, <2>3, <2>4
<1>2. CASE a \in Ids(s)
  <2> DEFINE at == CHOOSE i \in DOMAIN s : s[i].id = a
             f == [i \in 1..(Len(s) - 1) |-> IF i < at THEN i ELSE i + 1]
             t == [i \in 1..(Len(s) - 1) |-> s[IF i < at THEN i ELSE i + 1]]
  <2>1. at \in DOMAIN s /\ s[at].id = a
    BY <1>2 DEF Ids
  <2>2. Without(s, a) = t
    BY <1>2 DEF Without
  <2> HIDE DEF at
  <2>3. at \in 1..Len(s) /\ Len(s) \in Nat /\ Len(s) - 1 \in Nat /\ DOMAIN s = 1..Len(s)
    BY <2>1
  <2>4. /\ \A i \in 1..(Len(s) - 1) : f[i] \in 1..Len(s) /\ f[i] # at /\ t[i] = s[f[i]]
        /\ \A i, j \in 1..(Len(s) - 1) : i < j => f[i] < f[j]
    BY <2>3
  <2>5. \A n \in 1..Len(s) : n # at => \E i \in 1..(Len(s) - 1) : f[i] = n
    <3> SUFFICES ASSUME NEW n \in 1..Len(s), n # at
                 PROVE  \E i \in 1..(Len(s) - 1) : f[i] = n
      OBVIOUS
    <3>1. CASE n < at
      <4>1. n \in 1..(Len(s) - 1) /\ f[n] = n
        BY <2>3, <3>1
      <4> QED BY <4>1
    <3>2. CASE n > at
      <4>1. n - 1 \in 1..(Len(s) - 1) /\ f[n - 1] = n
        BY <2>3, <3>2
      <4> QED BY <4>1
    <3> QED BY <2>3, <3>1, <3>2
  <2>6. DOMAIN t = 1..(Len(s) - 1) /\ f \in [1..(Len(s) - 1) -> DOMAIN s]
    BY <2>3
  <2>7. t \in Seq(MirrorAction) /\ Len(t) = Len(s) - 1
    <3>1. \A i \in 1..(Len(s) - 1) : s[IF i < at THEN i ELSE i + 1] \in MirrorAction
      BY <2>3
    <3>2. t \in [1..(Len(s) - 1) -> MirrorAction]
      BY <3>1
    <3> QED BY <2>3, <2>6, <3>2
  <2> HIDE DEF f, t
  <2>8. Ids(t) = Ids(s) \ {a}
    <3>1. \A i \in DOMAIN t : f[i] \in DOMAIN s /\ f[i] # at /\ t[i].id = s[f[i]].id
      BY <2>3, <2>4, <2>6
    <3>2. \A n \in DOMAIN s : n # at => \E i \in DOMAIN t : t[i].id = s[n].id
      <4> SUFFICES ASSUME NEW n \in DOMAIN s, n # at
                   PROVE  \E i \in DOMAIN t : t[i].id = s[n].id
        OBVIOUS
      <4>1. PICK i \in 1..(Len(s) - 1) : f[i] = n
        BY <2>3, <2>5
      <4>2. i \in DOMAIN t /\ t[i] = s[n]
        BY <2>4, <2>6, <4>1
      <4> QED BY <4>2
    <3>3. \A n \in DOMAIN s : s[n].id = a <=> n = at
      BY <2>1
    <3>4. Ids(t) \subseteq Ids(s) \ {a}
      BY <3>1, <3>3 DEF Ids
    <3>5. Ids(s) \ {a} \subseteq Ids(t)
      BY <3>2, <3>3 DEF Ids
    <3> QED BY <3>4, <3>5
  <2>9. Len(t) <= Len(s)
    BY <2>3, <2>7
  <2>10. \E g \in [DOMAIN t -> DOMAIN s] :
           /\ \A i \in DOMAIN t : t[i].id = s[g[i]].id
           /\ \A i, j \in DOMAIN t : i < j => g[i] < g[j]
    BY <2>4, <2>6
  <2> QED BY <2>2, <2>7, <2>8, <2>9, <2>10
<1> QED BY <1>1, <1>2

LEMMA IdsFacts ==
  /\ \A items, i : i \in DOMAIN items => items[i].id \in Ids(items)
  /\ \A items, a : a \in Ids(items) => \E i \in DOMAIN items : items[i].id = a
  /\ \A items \in Seq(MirrorAction) : Ids(items) \subseteq Changes
  /\ Ids(<<>>) = {}
  /\ \A items \in Seq(MirrorAction), item \in MirrorAction :
       Ids(Append(items, item)) = Ids(items) \cup {item.id}
<1>1. \A items \in Seq(MirrorAction) : Ids(items) \subseteq Changes
  BY ItemFacts DEF Ids
<1>2. ASSUME NEW items \in Seq(MirrorAction), NEW item \in MirrorAction
      PROVE  Ids(Append(items, item)) = Ids(items) \cup {item.id}
  <2> DEFINE t == Append(items, item)
             n == Len(items)
  <2>1. /\ n \in Nat /\ DOMAIN items = 1..n /\ DOMAIN t = 1..(n + 1) /\ t[n + 1] = item
        /\ \A i \in 1..n : t[i] = items[i]
    OBVIOUS
  <2> HIDE DEF t, n
  <2>2. 1..(n + 1) = (1..n) \cup {n + 1}
    BY <2>1
  <2>3. Ids(t) = Ids(items) \cup {item.id}
    BY <2>1, <2>2 DEF Ids
  <2> QED BY <2>3 DEF t
<1> QED BY <1>1, <1>2 DEF Ids

LEMMA ElemsFacts ==
  /\ \A ids, i : i \in DOMAIN ids => ids[i] \in Elems(ids)
  /\ \A ids, a : a \in Elems(ids) => \E i \in DOMAIN ids : ids[i] = a
  /\ Elems(<<>>) = {}
  /\ \A S : \A ids \in Seq(S) : Elems(ids) \subseteq S
  /\ \A ids \in Seq(Changes), a \in Changes : Elems(Append(ids, a)) = Elems(ids) \cup {a}
  /\ \A s \in Seq(Changes), t \in Seq(Changes) : Elems(s \o t) = Elems(s) \cup Elems(t)
<1>1. \A S : \A ids \in Seq(S) : Elems(ids) \subseteq S
  BY DEF Elems
<1>2. ASSUME NEW ids \in Seq(Changes), NEW a \in Changes
      PROVE  Elems(Append(ids, a)) = Elems(ids) \cup {a}
  <2> DEFINE t == Append(ids, a)
             n == Len(ids)
  <2>1. /\ n \in Nat /\ DOMAIN ids = 1..n /\ DOMAIN t = 1..(n + 1) /\ t[n + 1] = a
        /\ \A i \in 1..n : t[i] = ids[i]
    OBVIOUS
  <2> HIDE DEF t, n
  <2>2. 1..(n + 1) = (1..n) \cup {n + 1}
    BY <2>1
  <2>3. Elems(t) = Elems(ids) \cup {a}
    BY <2>1, <2>2 DEF Elems
  <2> QED BY <2>3 DEF t
<1>3. ASSUME NEW s \in Seq(Changes), NEW t \in Seq(Changes)
      PROVE  Elems(s \o t) = Elems(s) \cup Elems(t)
  <2> DEFINE c == s \o t
             n == Len(s)
             k == Len(t)
  <2>1. /\ n \in Nat /\ k \in Nat /\ DOMAIN s = 1..n /\ DOMAIN t = 1..k /\ DOMAIN c = 1..(n + k)
        /\ \A i \in 1..n : c[i] = s[i]
        /\ \A i \in 1..k : c[n + i] = t[i]
    BY ConcatProperties
  <2> HIDE DEF c, n, k
  <2>2. \A i \in 1..(n + k) : i \in 1..n \/ (i - n \in 1..k /\ i = n + (i - n))
    BY <2>1
  <2>3. \A i \in 1..k : n + i \in 1..(n + k)
    BY <2>1
  <2>4. \A i \in 1..n : i \in 1..(n + k)
    BY <2>1
  <2>5. Elems(c) \subseteq Elems(s) \cup Elems(t)
    <3>1. \A i \in 1..(n + k) : c[i] \in Elems(s) \cup Elems(t)
      <4> SUFFICES ASSUME NEW i \in 1..(n + k) PROVE c[i] \in Elems(s) \cup Elems(t)
        OBVIOUS
      <4>1. CASE i \in 1..n
        BY <2>1, <4>1 DEF Elems
      <4>2. CASE i - n \in 1..k /\ i = n + (i - n)
        <5>1. c[n + (i - n)] = t[i - n]
          BY <2>1, <4>2
        <5> QED BY <2>1, <4>2, <5>1 DEF Elems
      <4> QED BY <2>2, <4>1, <4>2
    <3> QED BY <2>1, <3>1 DEF Elems
  <2>6. Elems(s) \subseteq Elems(c) /\ Elems(t) \subseteq Elems(c)
    BY <2>1, <2>3, <2>4 DEF Elems
  <2> QED BY <2>5, <2>6 DEF c
<1>4. \A ids, i : i \in DOMAIN ids => ids[i] \in Elems(ids)
  BY DEF Elems
<1>5. \A ids, a : a \in Elems(ids) => \E i \in DOMAIN ids : ids[i] = a
  BY DEF Elems
<1>6. Elems(<<>>) = {}
  BY DEF Elems
<1> QED BY <1>1, <1>2, <1>3, <1>4, <1>5, <1>6

LEMMA HeadTail ==
  ASSUME NEW S, NEW s \in Seq(S), s # <<>>
  PROVE  /\ Head(s) \in S /\ Tail(s) \in Seq(S) /\ Len(s) \in Nat /\ Len(s) > 0
         /\ Head(s) = s[1] /\ 1 \in DOMAIN s /\ DOMAIN s = 1..Len(s)
         /\ Len(Tail(s)) = Len(s) - 1 /\ DOMAIN Tail(s) = 1..(Len(s) - 1)
         /\ \A i \in DOMAIN Tail(s) : i + 1 \in DOMAIN s /\ Tail(s)[i] = s[i + 1]
         /\ \A i \in DOMAIN s : i = 1 \/ (i - 1 \in DOMAIN Tail(s) /\ Tail(s)[i - 1] = s[i])
<1>1. Len(s) \in Nat /\ Len(s) > 0 /\ DOMAIN s = 1..Len(s)
  BY EmptySeq
<1>2. Head(s) = s[1] /\ Head(s) \in S
  BY <1>1
<1>3. /\ Tail(s) \in Seq(S) /\ Len(Tail(s)) = Len(s) - 1
      /\ \A i \in 1..Len(Tail(s)) : Tail(s)[i] = s[i + 1]
  BY HeadTailProperties
<1> QED BY <1>1, <1>2, <1>3

-----------------------------------------------------------------------------
(* Lemmas about the order of acceptance.                                    *)

LEMMA BeforeFacts ==
  ASSUME NEW ids \in Seq(Changes), Distinct(ids)
  PROVE  /\ \A a : ~Before(ids, a, a)
         /\ \A a, b : Before(ids, a, b) => a \in Elems(ids) /\ b \in Elems(ids)
         /\ \A items \in Seq(MirrorAction) : InOrder(ids, items) =>
              \A i, j \in DOMAIN items : items[i].id = items[j].id => i = j
<1>1. DOMAIN ids = 1..Len(ids) /\ Len(ids) \in Nat
  OBVIOUS
<1>2. \A m, n \in DOMAIN ids : m < n => m # n
  BY <1>1
<1>3. \A a : ~Before(ids, a, a)
  BY <1>2 DEF Before, Distinct
<1>4. \A a, b : Before(ids, a, b) => a \in Elems(ids) /\ b \in Elems(ids)
  BY DEF Before, Elems
<1>5. ASSUME NEW items \in Seq(MirrorAction), InOrder(ids, items), NEW i \in DOMAIN items, NEW j \in DOMAIN items,
             items[i].id = items[j].id
      PROVE  i = j
  <2>1. i \in Nat /\ j \in Nat
    OBVIOUS
  <2>2. ~(i < j) /\ ~(j < i)
    BY <1>3, <1>5 DEF InOrder
  <2> QED BY <2>1, <2>2
<1> QED BY <1>3, <1>4, <1>5

\* Another action is accepted.
LEMMA AcceptedFacts ==
  ASSUME NEW ids \in Seq(Changes), Distinct(ids), NEW a \in Changes, a \notin Elems(ids)
  PROVE  /\ Append(ids, a) \in Seq(Changes) /\ Distinct(Append(ids, a))
         /\ Elems(Append(ids, a)) = Elems(ids) \cup {a}
         /\ \A x, y : Before(ids, x, y) => Before(Append(ids, a), x, y)
         /\ \A x \in Elems(ids) : Before(Append(ids, a), x, a)
         /\ \A items : InOrder(ids, items) => InOrder(Append(ids, a), items)
<1> DEFINE t == Append(ids, a)
           n == Len(ids)
<1>1. /\ n \in Nat /\ DOMAIN ids = 1..n /\ DOMAIN t = 1..(n + 1) /\ t[n + 1] = a
      /\ \A i \in 1..n : t[i] = ids[i]
      /\ t \in Seq(Changes)
  OBVIOUS
<1>2. Elems(t) = Elems(ids) \cup {a}
  BY ElemsFacts
<1> HIDE DEF t, n
<1>3. \A i \in 1..n : ids[i] # a /\ i < n + 1 /\ i \in 1..(n + 1)
  BY <1>1 DEF Elems
<1>4. \A i \in 1..(n + 1) : i = n + 1 \/ i \in 1..n
  BY <1>1
<1>5. Distinct(t)
  BY <1>1, <1>3, <1>4 DEF Distinct
<1>6. \A x, y : Before(ids, x, y) => Before(t, x, y)
  BY <1>1, <1>3 DEF Before
<1>7. \A x \in Elems(ids) : Before(t, x, a)
  <2> SUFFICES ASSUME NEW x \in Elems(ids) PROVE Before(t, x, a)
    OBVIOUS
  <2>1. PICK i \in 1..n : ids[i] = x
    BY <1>1 DEF Elems
  <2>2. n + 1 \in 1..(n + 1) /\ i \in 1..(n + 1) /\ i < n + 1 /\ t[i] = x
    BY <1>1, <2>1
  <2> QED BY <1>1, <2>2 DEF Before
<1>8. \A items : InOrder(ids, items) => InOrder(t, items)
  BY <1>2, <1>6 DEF InOrder
<1> QED BY <1>1, <1>2, <1>5, <1>6, <1>7, <1>8 DEF t

\* What is left of a list in order is in order.
LEMMA PartInOrder ==
  ASSUME NEW ids, NEW s, NEW t, InOrder(ids, s),
         NEW f \in [DOMAIN t -> DOMAIN s],
         \A i \in DOMAIN t : t[i].id = s[f[i]].id,
         \A i, j \in DOMAIN t : i < j => f[i] < f[j]
  PROVE  InOrder(ids, t)
<1>1. Ids(t) \subseteq Ids(s)
  BY DEF Ids
<1>2. \A i, j \in DOMAIN t : i < j => Before(ids, t[i].id, t[j].id)
  BY DEF InOrder
<1> QED BY <1>1, <1>2 DEF InOrder

LEMMA TailInOrder ==
  ASSUME NEW ids \in Seq(Changes), Distinct(ids), NEW s \in Seq(MirrorAction), s # <<>>, InOrder(ids, s)
  PROVE  /\ InOrder(ids, Tail(s))
         /\ Ids(s) = Ids(Tail(s)) \cup {Head(s).id} /\ Head(s).id \notin Ids(Tail(s))
         /\ \A j \in DOMAIN Tail(s) : Before(ids, Head(s).id, Tail(s)[j].id)
<1> DEFINE t == Tail(s)
           f == [i \in DOMAIN t |-> i + 1]
<1>1. /\ Head(s) = s[1] /\ 1 \in DOMAIN s /\ DOMAIN s = 1..Len(s) /\ Len(s) \in Nat
      /\ DOMAIN t = 1..(Len(s) - 1)
      /\ \A i \in DOMAIN t : i + 1 \in DOMAIN s /\ t[i] = s[i + 1]
      /\ \A i \in DOMAIN s : i = 1 \/ (i - 1 \in DOMAIN t /\ t[i - 1] = s[i])
  BY HeadTail
<1> HIDE DEF t
<1>2. /\ f \in [DOMAIN t -> DOMAIN s] /\ \A i \in DOMAIN t : t[i].id = s[f[i]].id
      /\ \A i, j \in DOMAIN t : i < j => f[i] < f[j]
  BY <1>1
<1>3. \A j \in DOMAIN t : Before(ids, s[1].id, t[j].id)
  <2> SUFFICES ASSUME NEW j \in DOMAIN t PROVE Before(ids, s[1].id, t[j].id)
    OBVIOUS
  <2>1. j + 1 \in DOMAIN s /\ 1 < j + 1 /\ t[j] = s[j + 1]
    BY <1>1
  <2> QED BY <1>1, <2>1 DEF InOrder
<1>4. Ids(s) = Ids(t) \cup {s[1].id}
  BY <1>1 DEF Ids
<1>5. s[1].id \notin Ids(t)
  BY <1>3, BeforeFacts DEF Ids
<1> HIDE DEF f
<1>6. InOrder(ids, t)
  BY <1>2, PartInOrder
<1> QED BY <1>1, <1>3, <1>4, <1>5, <1>6 DEF t

LEMMA NewestElems ==
  ASSUME NEW s \in Seq(Changes), NEW n \in Nat \ {0}
  PROVE  Newest(s, n) \in Seq(Changes) /\ Elems(Newest(s, n)) \subseteq Elems(s)
<1> DEFINE t == Newest(s, n)
           k == Len(s) - Len(t)
<1>1. /\ t \in Seq(Changes) /\ k \in Nat
      /\ \A i \in 1..Len(t) : t[i] = s[i + k]
  BY NewestFacts
<1> HIDE DEF t
<1>2. Len(s) = Len(t) + k /\ Len(t) \in Nat /\ DOMAIN t = 1..Len(t) /\ DOMAIN s = 1..Len(s)
  BY <1>1
<1> HIDE DEF k
<1>3. \A i \in DOMAIN t : i + k \in DOMAIN s /\ t[i] = s[i + k]
  BY <1>1, <1>2
<1>4. Elems(t) \subseteq Elems(s)
  BY <1>3 DEF Elems
<1> QED BY <1>1, <1>4 DEF t

LEMMA NewestInOrder ==
  ASSUME NEW ids, NEW s \in Seq(MirrorAction), NEW n \in Nat \ {0}, InOrder(ids, s)
  PROVE  InOrder(ids, Newest(s, n)) /\ Ids(Newest(s, n)) \subseteq Ids(s)
<1> DEFINE t == Newest(s, n)
           k == Len(s) - Len(t)
<1>1. /\ t \in Seq(MirrorAction) /\ k \in Nat
      /\ \A i \in 1..Len(t) : t[i] = s[i + k]
  BY NewestFacts
<1> HIDE DEF t
<1>0. Len(s) = Len(t) + k /\ t \in Seq(MirrorAction)
  BY <1>1
<1> HIDE DEF k
<1> DEFINE f == [i \in DOMAIN t |-> i + k]
<1>2. DOMAIN t = 1..Len(t) /\ Len(t) \in Nat /\ DOMAIN s = 1..Len(s)
  BY <1>0
<1>3. /\ f \in [DOMAIN t -> DOMAIN s] /\ \A i \in DOMAIN t : t[i].id = s[f[i]].id
      /\ \A i, j \in DOMAIN t : i < j => f[i] < f[j]
  BY <1>0, <1>1, <1>2
<1> HIDE DEF f
<1>4. InOrder(ids, t)
  BY <1>3, PartInOrder
<1>5. Ids(t) \subseteq Ids(s)
  BY <1>3 DEF Ids
<1> QED BY <1>4, <1>5 DEF t

\* An item that comes after all others is added at the end.
LEMMA AppendInOrder ==
  ASSUME NEW ids, NEW s \in Seq(MirrorAction), NEW item \in MirrorAction, InOrder(ids, s),
         item.id \in Elems(ids), \A i \in DOMAIN s : Before(ids, s[i].id, item.id)
  PROVE  InOrder(ids, Append(s, item))
<1> DEFINE t == Append(s, item)
           n == Len(s)
<1>1. /\ n \in Nat /\ DOMAIN s = 1..n /\ DOMAIN t = 1..(n + 1) /\ t[n + 1] = item
      /\ \A i \in 1..n : t[i] = s[i]
  OBVIOUS
<1>2. Ids(t) = Ids(s) \cup {item.id}
  BY IdsFacts
<1> HIDE DEF t, n
<1>3. \A i, j \in 1..(n + 1) : i < j => i \in 1..n /\ (j \in 1..n \/ j = n + 1)
  BY <1>1
<1>4. \A i, j \in DOMAIN t : i < j => Before(ids, t[i].id, t[j].id)
  BY <1>1, <1>3 DEF InOrder
<1> QED BY <1>2, <1>4 DEF InOrder, t

-----------------------------------------------------------------------------
(* Lemmas about the lock.                                                   *)

At == HandlerAt \cup DrainAt

LEMMA PcFacts ==
  /\ Procs = Changes \cup Drains /\ \A a \in Changes : a \notin Drains
  /\ At = {"idle", "deliver", "done"} \cup InEnqueue \cup InRemove \cup InDrain
  /\ InEnqueue \subseteq InLock /\ InRemove \subseteq InLock /\ InDrain \subseteq InLock
  /\ "idle" \notin InLock /\ "deliver" \notin InLock /\ "done" \notin InLock
  /\ Critical \subseteq InLock
BY ConstantsAssumption
   DEF Procs, At, HandlerAt, DrainAt, InLock, InEnqueue, InRemove, InDrain, Critical, Buried

\* Only the call that is first on the lock is past its first await.
LEMMA OnlyHolder ==
  ASSUME Locked, NEW p \in Procs, Holds(p), NEW q \in Procs, q # p
  PROVE  pc[q] \notin Critical
BY DEF Locked, Holds

\* Where p goes.
Goes(p, at) == pc' = [pc EXCEPT ![p] = at]

Fits(p, at) == (p \in Changes /\ at \in HandlerAt) \/ (p \in Drains /\ at \in DrainAt)

LEMMA GoesFacts ==
  ASSUME TypeOK, Locked, NEW p \in Procs, NEW at, Fits(p, at), Goes(p, at)
  PROVE  /\ pc'[p] = at /\ \A q \in Procs \ {p} : pc'[q] = pc[q]
         /\ pc' \in [Procs -> {"idle", "deliver", "done"} \cup InEnqueue \cup InRemove \cup InDrain]
         /\ \A a \in Changes : pc'[a] \in HandlerAt
         /\ \A d \in Drains : pc'[d] \in DrainAt
<1>1. pc \in [Procs -> At] /\ at \in At
  BY PcFacts DEF TypeOK, Fits, At
<1>2. pc'[p] = at /\ pc' \in [Procs -> At] /\ \A q \in Procs \ {p} : pc'[q] = pc[q]
  BY <1>1 DEF Goes
<1>3. /\ \A a \in Changes : pc'[a] \in HandlerAt
      /\ \A d \in Drains : pc'[d] \in DrainAt
  BY <1>2, PcFacts DEF Locked, Fits
<1> QED BY <1>2, <1>3, PcFacts

\* A call is chained on the lock.
LEMMA EnterKeeps ==
  ASSUME TypeOK, Locked, NEW p \in Procs, NEW at, Fits(p, at), Enter(p, at),
         pc[p] \notin InLock, at \in InLock \ Critical
  PROVE  Locked' /\ lock' \in Seq(Procs)
<1> DEFINE n == Len(lock)
<1>1. Goes(p, at) /\ lock' = Append(lock, p)
  BY DEF Enter, Goes
<1>2. /\ n \in Nat /\ DOMAIN lock = 1..n /\ DOMAIN lock' = 1..(n + 1) /\ lock'[n + 1] = p
      /\ \A i \in 1..n : lock'[i] = lock[i]
      /\ lock' \in Seq(Procs)
  BY <1>1 DEF TypeOK
<1>3. \A q \in Procs : Holds(q) => Holds(q)'
  <2> SUFFICES ASSUME NEW q \in Procs, Holds(q) PROVE Holds(q)'
    OBVIOUS
  <2>1. lock # <<>> /\ Head(lock) = q /\ lock \in Seq(Procs)
    BY DEF Holds, TypeOK
  <2>2. Append(lock, p) # <<>> /\ Head(Append(lock, p)) = q
    BY <2>1, AppendProperties
  <2> QED BY <1>1, <2>2 DEF Holds
<1> HIDE DEF n
<1>4. pc'[p] = at /\ \A q \in Procs \ {p} : pc'[q] = pc[q]
  BY <1>1, GoesFacts
<1>5. \A i \in DOMAIN lock : lock[i] # p
  BY DEF Locked
<1>6. \A i \in 1..(n + 1) : i \in 1..n \/ i = n + 1
  BY <1>2
<1>7. \A i \in 1..n : i \in 1..(n + 1)
  BY <1>2
<1>8. \A i, j \in DOMAIN lock' : lock'[i] = lock'[j] => i = j
  BY <1>2, <1>5, <1>6 DEF Locked
<1>9. \A q \in Procs : pc'[q] \in InLock <=> \E i \in DOMAIN lock' : lock'[i] = q
  <2>1. \A q \in Procs : (\E i \in DOMAIN lock' : lock'[i] = q) <=> (q = p \/ \E i \in DOMAIN lock : lock[i] = q)
    <3>1. n + 1 \in 1..(n + 1)
      BY <1>2
    <3> QED BY <1>2, <1>6, <1>7, <3>1
  <2> QED BY <1>4, <2>1 DEF Locked
<1>10. \A q \in Procs : pc'[q] \in Critical => Holds(q)'
  BY <1>3, <1>4 DEF Locked
<1>11. /\ \A a \in Changes : pc'[a] \in HandlerAt
       /\ \A d \in Drains : pc'[d] \in DrainAt
  BY <1>1, GoesFacts
<1> QED BY <1>2, <1>8, <1>9, <1>10, <1>11 DEF Locked

\* The first call goes on.
LEMMA HoldKeeps ==
  ASSUME TypeOK, Locked, NEW p \in Procs, NEW at, Fits(p, at), Goes(p, at), lock' = lock,
         Holds(p), pc[p] \in InLock, at \in InLock
  PROVE  Locked'
<1>1. pc'[p] = at /\ \A q \in Procs \ {p} : pc'[q] = pc[q]
  BY GoesFacts
<1>2. /\ \A a \in Changes : pc'[a] \in HandlerAt
      /\ \A d \in Drains : pc'[d] \in DrainAt
  BY GoesFacts
<1> QED BY <1>1, <1>2 DEF Locked, Holds

\* The first call ends.
LEMMA LeaveKeeps ==
  ASSUME TypeOK, Locked, NEW p \in Procs, NEW at, Fits(p, at), Leave(p, at),
         Holds(p), at \notin InLock
  PROVE  Locked' /\ lock' \in Seq(Procs)
<1>1. Goes(p, at) /\ lock' = Tail(lock) /\ lock \in Seq(Procs) /\ lock # <<>> /\ Head(lock) = p
  BY DEF Leave, Goes, Holds, TypeOK
<1>2. /\ lock' \in Seq(Procs) /\ lock[1] = p /\ 1 \in DOMAIN lock
      /\ \A i \in DOMAIN lock' : i + 1 \in DOMAIN lock /\ lock'[i] = lock[i + 1]
      /\ \A i \in DOMAIN lock : i = 1 \/ (i - 1 \in DOMAIN lock' /\ lock'[i - 1] = lock[i])
  BY <1>1, HeadTail
<1>3. pc'[p] = at /\ \A q \in Procs \ {p} : pc'[q] = pc[q]
  BY <1>1, GoesFacts
<1>4. \A i, j \in DOMAIN lock' : lock'[i] = lock'[j] => i = j
  <2> SUFFICES ASSUME NEW i \in DOMAIN lock', NEW j \in DOMAIN lock', lock'[i] = lock'[j] PROVE i = j
    OBVIOUS
  <2>1. i + 1 = j + 1
    BY <1>2 DEF Locked
  <2>2. i \in Nat /\ j \in Nat
    BY <1>2
  <2> QED BY <2>1, <2>2
<1>5. \A q \in Procs : (\E i \in DOMAIN lock' : lock'[i] = q) <=> (q # p /\ \E i \in DOMAIN lock : lock[i] = q)
  <2> SUFFICES ASSUME NEW q \in Procs
               PROVE  (\E i \in DOMAIN lock' : lock'[i] = q) <=> (q # p /\ \E i \in DOMAIN lock : lock[i] = q)
    OBVIOUS
  <2>1. ASSUME NEW i \in DOMAIN lock', lock'[i] = q PROVE q # p /\ \E j \in DOMAIN lock : lock[j] = q
    <3>1. i + 1 \in DOMAIN lock /\ lock[i + 1] = q /\ i \in Nat /\ i # 0
      BY <1>2, <2>1
    <3>2. i + 1 # 1
      BY <3>1
    <3>3. q # p
      BY <1>2, <3>1, <3>2 DEF Locked
    <3> QED BY <3>1, <3>3
  <2>2. ASSUME q # p, NEW i \in DOMAIN lock, lock[i] = q PROVE \E j \in DOMAIN lock' : lock'[j] = q
    <3>1. i # 1
      BY <1>2, <2>2
    <3> QED BY <1>2, <2>2, <3>1
  <2> QED BY <2>1, <2>2
<1>6. \A q \in Procs : pc'[q] \in InLock <=> \E i \in DOMAIN lock' : lock'[i] = q
  BY <1>3, <1>5 DEF Locked
<1>7. \A q \in Procs : pc'[q] \notin Critical
  BY <1>3, OnlyHolder, PcFacts
<1>8. /\ \A a \in Changes : pc'[a] \in HandlerAt
      /\ \A d \in Drains : pc'[d] \in DrainAt
  BY <1>1, GoesFacts
<1> QED BY <1>2, <1>4, <1>6, <1>7, <1>8 DEF Locked

\* A step outside the lock.
LEMMA OutsideKeeps ==
  ASSUME TypeOK, Locked, NEW p \in Procs, NEW at, Fits(p, at), Goes(p, at), lock' = lock,
         pc[p] \notin InLock, at \notin InLock
  PROVE  Locked'
<1>1. pc'[p] = at /\ \A q \in Procs \ {p} : pc'[q] = pc[q]
  BY GoesFacts
<1>2. /\ \A a \in Changes : pc'[a] \in HandlerAt
      /\ \A d \in Drains : pc'[d] \in DrainAt
  BY GoesFacts
<1> QED BY <1>1, <1>2, PcFacts DEF Locked, Holds

-----------------------------------------------------------------------------
(* What a step of another process leaves alone.                             *)

LEMMA OtherHandler ==
  ASSUME NEW a \in Changes, HandlerKnows(a), effects \in [Changes -> Nat],
         pc'[a] = pc[a], snap'[a] = snap[a],
         a \in Elems(accepted') <=> a \in Elems(accepted),
         effects'[a] = effects[a] \/ (a \in Elems(accepted) /\ effects'[a] = effects[a] + 1),
         pc[a] \in Critical => queue' = queue
  PROVE  HandlerKnows(a)'
<1>1. effects[a] \in Nat
  OBVIOUS
<1>2. a \in Sent => a \in Sent'
  BY <1>1 DEF Sent
<1> QED BY <1>2 DEF HandlerKnows, Critical

LEMMA OtherDrain ==
  ASSUME NEW d \in Drains, DrainKnows(d),
         pc'[d] = pc[d], snap'[d] = snap[d], keep'[d] = keep[d], letters'[d] = letters[d], tomb'[d] = tomb[d],
         pc[d] \in Critical => queue' = queue /\ dead' = dead /\ accepted' = accepted,
         \A a \in Sent : a \in Sent'
  PROVE  DrainKnows(d)'
<1>1. pc[d] = "loop" => Draining(d)'
  BY DEF DrainKnows, Draining, Critical
<1>2. pc[d] \in {"idle", "load"} => keep'[d] = <<>> /\ letters'[d] = <<>>
  BY DEF DrainKnows
<1>3. pc[d] \in Buried => /\ keep'[d] = <<>>
                          /\ Elems(letters'[d]) \subseteq Elems(accepted')
                          /\ Elems(letters'[d]) \cap (Ids(queue') \cup Elems(dead')) = {}
  BY DEF DrainKnows, Critical
<1>4. pc[d] = "deadSave" => tomb'[d] = dead'
  BY DEF DrainKnows, Critical, Buried
<1> QED BY <1>1, <1>2, <1>3, <1>4 DEF DrainKnows

\* The count of an action that nothing sends.
LEMMA CountKeeps ==
  ASSUME TypeOK, Counted,
         faults'.answer = faults.answer, faults'.crash = 0 => faults.crash = 0, faults'.store = 0 => faults.store = 0,
         \A a \in Changes : effects'[a] = effects[a],
         \A a \in Changes : pc[a] \in InRemove \cup {"done"} => pc'[a] \in InRemove \cup {"done"},
         faults'.store = 0 => \A a \in Changes : Left(a) => Left(a)' \/ effects[a] = 0
  PROVE  Counted'
<1> SUFFICES ASSUME faults'.crash = 0, faults'.store = 0, NEW a \in Changes
             PROVE  effects'[a] <= faults'.answer + Once(pc'[a] \in InRemove \cup {"done"}) + Once(Left(a)')
  BY DEF Counted, Once
<1>1. effects[a] <= faults.answer + Once(pc[a] \in InRemove \cup {"done"}) + Once(Left(a))
  BY DEF Counted
<1>2. effects[a] \in Nat /\ faults.answer \in Nat
  BY DEF TypeOK
<1>3. Once(pc[a] \in InRemove \cup {"done"}) <= Once(pc'[a] \in InRemove \cup {"done"})
  BY DEF Once
<1>4. Left(a)' => Once(Left(a)) <= Once(Left(a)')
  BY DEF Once
<1>5. ~Left(a) => Once(Left(a)) <= Once(Left(a)')
  BY DEF Once
<1>6. /\ Once(pc[a] \in InRemove \cup {"done"}) \in Nat /\ Once(pc'[a] \in InRemove \cup {"done"}) \in Nat
      /\ Once(Left(a)) \in Nat /\ Once(Left(a)') \in Nat
  BY DEF Once
<1>7. CASE effects[a] = 0
  BY <1>2, <1>6, <1>7
<1>8. CASE effects[a] # 0
  <2>1. Left(a) => Left(a)'
    BY <1>8
  <2>2. Once(Left(a)) <= Once(Left(a)')
    BY <2>1, <1>4, <1>5
  <2> QED BY <1>1, <1>2, <1>3, <1>6, <2>2
<1> QED BY <1>7, <1>8

\* Another rejected call.
LEMMA StoreFault ==
  ASSUME TypeOK, faults' = [faults EXCEPT !.store = @ + 1]
  PROVE  /\ faults' \in [{"crash", "store", "answer"} -> Nat]
         /\ faults'.answer = faults.answer /\ faults'.crash = faults.crash /\ faults'.store # 0
<1>1. faults \in [{"crash", "store", "answer"} -> Nat] /\ faults.store \in Nat
  BY DEF TypeOK
<1> DEFINE n == faults.store + 1
<1>2. faults' = [faults EXCEPT !.store = n] /\ n \in Nat /\ n # 0
  BY <1>1
<1> HIDE DEF n
<1>3. faults' \in [{"crash", "store", "answer"} -> Nat] /\ faults'.store = n
  BY <1>1, <1>2
<1>4. faults'.answer = faults.answer /\ faults'.crash = faults.crash
  BY <1>1, <1>2
<1> QED BY <1>2, <1>3, <1>4

-----------------------------------------------------------------------------
(* The steps of a handler.                                                  *)

\* A step that changes only where a handler is, what it has loaded and the lock.
LEMMA HandlerMoves ==
  ASSUME OutInv, NEW a \in Changes, NEW at, Fits(a, at), Goes(a, at), Locked', lock' \in Seq(Procs),
         snap' \in [Procs -> Seq(MirrorAction)], \A p \in Procs \ {a} : snap'[p] = snap[p],
         UNCHANGED <<queue, dead, keep, letters, tomb, effects, accepted, evicted, dropped>>,
         HandlerKnows(a)', faults' \in [{"crash", "store", "answer"} -> Nat],
         faults'.answer = faults.answer, faults'.crash = 0 => faults.crash = 0, faults'.store = 0 => faults.store = 0,
         pc[a] \in InRemove \cup {"done"} => at \in InRemove \cup {"done"}
  PROVE  OutInv'
<1>1. /\ TypeOK /\ Locked /\ a \in Procs
      /\ UNCHANGED queue /\ UNCHANGED dead /\ UNCHANGED keep /\ UNCHANGED letters /\ UNCHANGED tomb
      /\ UNCHANGED effects /\ UNCHANGED accepted
  BY PcFacts DEF OutInv
<1>2. /\ pc'[a] = at /\ \A q \in Procs \ {a} : pc'[q] = pc[q]
      /\ pc' \in [Procs -> {"idle", "deliver", "done"} \cup InEnqueue \cup InRemove \cup InDrain]
  BY <1>1, GoesFacts
<1>3. TypeOK'
  BY <1>1, <1>2 DEF TypeOK
<1>4. QueueOK'
  BY <1>1 DEF OutInv, QueueOK
<1>5. Handlers'
  <2> SUFFICES ASSUME NEW b \in Changes, b # a PROVE HandlerKnows(b)'
    BY DEF Handlers
  <2>1. HandlerKnows(b) /\ effects \in [Changes -> Nat] /\ b \in Procs
    BY PcFacts DEF OutInv, Handlers, TypeOK
  <2> QED BY <1>1, <1>2, <2>1, OtherHandler
<1>6. Drainers'
  <2> SUFFICES ASSUME NEW d \in Drains PROVE DrainKnows(d)'
    BY DEF Drainers
  <2>1. DrainKnows(d) /\ d \in Procs /\ d # a
    BY PcFacts DEF OutInv, Drainers
  <2>2. Sent' = Sent
    BY <1>1 DEF Sent
  <2> QED BY <1>1, <1>2, <2>1, <2>2, OtherDrain
<1>7. \A b \in Changes : Left(b) => Left(b)'
  <2>1. \A d \in Drains : pc'[d] = pc[d] /\ keep'[d] = keep[d] /\ snap'[d] = snap[d]
    BY <1>1, <1>2, PcFacts
  <2> QED BY <1>1, <2>1 DEF Left
<1>8. Counted'
  <2>1. \A b \in Changes : pc[b] \in InRemove \cup {"done"} => pc'[b] \in InRemove \cup {"done"}
    BY <1>2, PcFacts
  <2> QED BY <1>1, <1>7, <2>1, CountKeeps DEF OutInv
<1> QED BY <1>3, <1>4, <1>5, <1>6, <1>8 DEF OutInv

LEMMA HandleKeeps ==
  ASSUME OutInv, NEW a \in Changes, Handle(a)
  PROVE  OutInv'
<1>1. /\ pc[a] = "idle" /\ a \in Procs /\ TypeOK /\ Locked /\ HandlerKnows(a)
      /\ UNCHANGED <<queue, dead, snap, keep, letters, tomb, effects, accepted, evicted, dropped, faults>>
  BY PcFacts DEF Handle, OutInv, Handlers, stored, history
<1>2. CASE Enter(a, "enqLoad")
  <2>1. Goes(a, "enqLoad") /\ Fits(a, "enqLoad")
    BY <1>2 DEF Enter, Goes, Fits, HandlerAt, InEnqueue
  <2>2. "enqLoad" \in InLock \ Critical /\ pc[a] \notin InLock
    BY <1>1, PcFacts DEF InLock, InEnqueue, Critical, Buried
  <2>3. Locked' /\ lock' \in Seq(Procs)
    BY <1>1, <1>2, <2>1, <2>2, EnterKeeps
  <2>4. pc'[a] = "enqLoad"
    BY <1>1, <2>1, GoesFacts
  <2>5. HandlerKnows(a)'
    BY <1>1, <2>4 DEF HandlerKnows, InEnqueue, InRemove
  <2>6. pc[a] \notin InRemove \cup {"done"}
    BY <1>1 DEF InRemove
  <2> QED BY <1>1, <2>1, <2>3, <2>5, <2>6, HandlerMoves DEF TypeOK
<1>3. CASE pc' = [pc EXCEPT ![a] = "done"] /\ UNCHANGED lock
  <2>1. Goes(a, "done") /\ Fits(a, "done")
    BY <1>3 DEF Goes, Fits, HandlerAt
  <2>2. Locked' /\ lock' \in Seq(Procs)
    BY <1>1, <1>3, <2>1, OutsideKeeps, PcFacts DEF TypeOK
  <2>3. pc'[a] = "done"
    BY <1>1, <2>1, GoesFacts
  <2>4. HandlerKnows(a)'
    BY <1>1, <2>3 DEF HandlerKnows, InEnqueue, InRemove
  <2> QED BY <1>1, <2>1, <2>2, <2>4, HandlerMoves DEF TypeOK
<1> QED BY <1>2, <1>3 DEF Handle

LEMMA LoadQueueKeeps ==
  ASSUME OutInv, NEW a \in Changes, LoadQueue(a)
  PROVE  OutInv'
<1>1. /\ Holds(a) /\ a \in Procs /\ TypeOK /\ Locked /\ HandlerKnows(a)
      /\ snap' = [snap EXCEPT ![a] = queue]
      /\ UNCHANGED <<queue, dead, lock, keep, letters, tomb, effects, accepted, evicted, dropped, faults>>
  BY PcFacts DEF LoadQueue, OutInv, Handlers, stored, history
<1>2. /\ snap' \in [Procs -> Seq(MirrorAction)] /\ snap'[a] = queue
      /\ \A p \in Procs \ {a} : snap'[p] = snap[p]
  BY <1>1 DEF TypeOK
<1>3. PICK at \in {"enqSave", "rmSave"} : /\ Goes(a, at)
                                          /\ \/ at = "enqSave" /\ pc[a] = "enqLoad"
                                             \/ at = "rmSave" /\ pc[a] = "rmLoad"
  BY DEF LoadQueue, Goes
<1>4. Fits(a, at) /\ pc[a] \in InLock /\ at \in InLock
  BY <1>3 DEF Fits, HandlerAt, InLock, InEnqueue, InRemove
<1>5. Locked' /\ lock' \in Seq(Procs)
  BY <1>1, <1>3, <1>4, HoldKeeps DEF TypeOK
<1>6. pc'[a] = at
  BY <1>1, <1>3, <1>4, GoesFacts
<1>7. a \in Sent => a \in Sent'
  BY <1>1 DEF Sent
<1>8. HandlerKnows(a)'
  BY <1>1, <1>2, <1>3, <1>6, <1>7 DEF HandlerKnows, InEnqueue, InRemove
<1>9. pc[a] \in InRemove \cup {"done"} => at \in InRemove \cup {"done"}
  BY <1>3 DEF InRemove
<1> QED BY <1>1, <1>2, <1>3, <1>4, <1>5, <1>8, <1>9, HandlerMoves DEF TypeOK

LEMMA HandleRejectsKeeps ==
  ASSUME OutInv, NEW a \in Changes, HandleRejects(a)
  PROVE  OutInv'
<1>1. /\ a \in Procs /\ TypeOK /\ Locked /\ HandlerKnows(a)
      /\ Leave(a, "done") /\ Forget(a) /\ faults' = [faults EXCEPT !.store = @ + 1]
      /\ UNCHANGED <<queue, dead, keep, letters, tomb, effects, accepted, evicted, dropped>>
  BY PcFacts DEF HandleRejects, OutInv, Handlers, stored, history
<1>2. Holds(a)
  BY <1>1 DEF HandleRejects, Locked, Critical
<1>3. <<>> \in Seq(MirrorAction)
  OBVIOUS
<1>4. snap' \in [Procs -> Seq(MirrorAction)] /\ \A p \in Procs \ {a} : snap'[p] = snap[p]
  BY <1>1, <1>3 DEF TypeOK, Forget
<1>5. /\ faults' \in [{"crash", "store", "answer"} -> Nat] /\ faults'.answer = faults.answer
      /\ faults'.crash = faults.crash /\ faults'.store # 0
  BY <1>1, StoreFault
<1>6. Goes(a, "done") /\ Fits(a, "done")
  BY <1>1 DEF Leave, Goes, Fits, HandlerAt
<1>7. Locked' /\ lock' \in Seq(Procs)
  BY <1>1, <1>2, <1>6, LeaveKeeps, PcFacts
<1>8. pc'[a] = "done"
  BY <1>1, <1>6, GoesFacts
<1>9. HandlerKnows(a)'
  BY <1>8 DEF HandlerKnows, InEnqueue, InRemove
<1> QED BY <1>1, <1>4, <1>5, <1>6, <1>7, <1>9, HandlerMoves

\* The action that is saved comes last, and stays.
LEMMA EnqueuedFacts ==
  ASSUME OutInv, NEW a \in Changes, SaveEnqueued(a)
  PROVE  /\ a \notin Elems(accepted) /\ effects[a] = 0 /\ a \in Ids(queue')
         /\ Ids(Append(queue, [id |-> a, attempts |-> 0])) = Ids(queue) \cup {a}
         /\ queue' \in Seq(MirrorAction) /\ Ids(queue') \subseteq Ids(queue) \cup {a}
         /\ evicted' = evicted \cup ((Ids(queue) \cup {a}) \ Ids(queue'))
         /\ accepted' = Append(accepted, a) /\ QueueOK'
<1> DEFINE item == [id |-> a, attempts |-> 0]
           items == Append(queue, item)
           t == Newest(items, Capacity)
<1>1. /\ TypeOK /\ QueueOK /\ HandlerKnows(a) /\ pc[a] = "enqSave"
      /\ queue \in Seq(MirrorAction) /\ accepted \in Seq(Changes) /\ dead \in Seq(Changes) /\ dead' = dead
      /\ accepted' = Append(accepted, a) /\ Distinct(accepted) /\ InOrder(accepted, queue)
  BY DEF OutInv, TypeOK, QueueOK, Handlers, SaveEnqueued
<1>2. snap[a] = queue /\ a \notin Elems(accepted) /\ effects[a] = 0
  BY <1>1 DEF HandlerKnows, InEnqueue
<1>3. queue' = t /\ evicted' = evicted \cup (Ids(items) \ Ids(queue'))
  BY <1>2 DEF SaveEnqueued
<1>4. item \in MirrorAction /\ item.id = a /\ Capacity \in Nat \ {0}
  BY ItemFacts
<1> HIDE DEF item
<1>5. /\ items \in Seq(MirrorAction) /\ Ids(items) = Ids(queue) \cup {a}
      /\ Len(items) = Len(queue) + 1 /\ Len(queue) \in Nat /\ items[Len(items)] = item
  BY <1>1, <1>4, IdsFacts
<1>6. /\ Elems(accepted') = Elems(accepted) \cup {a} /\ Distinct(accepted')
      /\ InOrder(accepted', queue) /\ \A x \in Elems(accepted) : Before(accepted', x, a)
  BY <1>1, <1>2, AcceptedFacts
<1>7. InOrder(accepted', items)
  <2>1. \A i \in DOMAIN queue : Before(accepted', queue[i].id, item.id)
    BY <1>1, <1>4, <1>6, IdsFacts DEF InOrder
  <2> QED BY <1>1, <1>4, <1>6, <2>1, AppendInOrder
<1> HIDE DEF items
<1>8. /\ t \in Seq(MirrorAction) /\ Len(t) <= Capacity /\ Len(t) > 0 /\ Len(t) \in Nat
      /\ Len(items) - Len(t) \in Nat /\ \A i \in 1..Len(t) : t[i] = items[i + (Len(items) - Len(t))]
  BY <1>4, <1>5, NewestFacts
<1>9. InOrder(accepted', t) /\ Ids(t) \subseteq Ids(items)
  BY <1>4, <1>5, <1>7, NewestInOrder
<1> HIDE DEF t
<1>10. a \in Ids(t)
  <2>1. Len(t) \in 1..Len(t) /\ t[Len(t)] = items[Len(items)]
    BY <1>5, <1>8
  <2>2. Len(t) \in DOMAIN t
    BY <1>8, <2>1
  <2> QED BY <1>4, <1>5, <2>1, <2>2, IdsFacts
<1>11. QueueOK'
  <2>1. Elems(dead') \subseteq Elems(accepted) /\ Elems(dead') \cap Ids(queue) = {}
    BY <1>1 DEF QueueOK
  <2>2. Elems(dead') \cap Ids(queue') = {}
    BY <1>2, <1>3, <1>5, <1>9, <2>1
  <2> QED BY <1>3, <1>6, <1>8, <1>9, <2>1, <2>2 DEF QueueOK
<1> QED BY <1>1, <1>2, <1>3, <1>5, <1>8, <1>9, <1>10, <1>11 DEF items, item

\* What others know when a handler that ends has changed the queue.
LEMMA HandlerSaves ==
  ASSUME OutInv, NEW a \in Changes, NEW at, Fits(a, at), Leave(a, at), Holds(a), at \notin InLock,
         Forget(a), QueueOK', queue' \in Seq(MirrorAction), accepted' \in Seq(Changes),
         evicted' \in SUBSET Changes,
         UNCHANGED <<dead, keep, letters, tomb, effects, dropped, faults>>,
         \A b \in Changes \ {a} : b \in Elems(accepted') <=> b \in Elems(accepted),
         \A b \in Changes : Left(b) => b \notin Ids(queue') \/ effects[b] = 0,
         HandlerKnows(a)',
         pc[a] \in InRemove \cup {"done"} => at \in InRemove \cup {"done"}
  PROVE  OutInv'
<1>1. /\ TypeOK /\ Locked /\ a \in Procs /\ Goes(a, at)
      /\ UNCHANGED dead /\ UNCHANGED keep /\ UNCHANGED letters /\ UNCHANGED tomb /\ UNCHANGED effects
      /\ UNCHANGED dropped /\ UNCHANGED faults
  BY PcFacts DEF OutInv, Leave, Goes
<1>2. Locked' /\ lock' \in Seq(Procs)
  BY <1>1, LeaveKeeps
<1>3. /\ pc'[a] = at /\ \A q \in Procs \ {a} : pc'[q] = pc[q]
      /\ pc' \in [Procs -> {"idle", "deliver", "done"} \cup InEnqueue \cup InRemove \cup InDrain]
  BY <1>1, GoesFacts
<1>4. snap' \in [Procs -> Seq(MirrorAction)] /\ \A q \in Procs \ {a} : snap'[q] = snap[q]
  <2>1. <<>> \in Seq(MirrorAction)
    OBVIOUS
  <2> QED BY <1>1, <2>1 DEF TypeOK, Forget
<1>5. TypeOK'
  BY <1>1, <1>2, <1>3, <1>4 DEF TypeOK
<1>6. Handlers'
  <2> SUFFICES ASSUME NEW b \in Changes, b # a PROVE HandlerKnows(b)'
    BY DEF Handlers
  <2>1. HandlerKnows(b) /\ effects \in [Changes -> Nat] /\ b \in Procs
    BY PcFacts DEF OutInv, Handlers, TypeOK
  <2>2. pc[b] \notin Critical
    BY <1>1, <2>1, OnlyHolder
  <2> QED BY <1>1, <1>3, <1>4, <2>1, <2>2, OtherHandler
<1>7. Drainers'
  <2> SUFFICES ASSUME NEW d \in Drains PROVE DrainKnows(d)'
    BY DEF Drainers
  <2>1. DrainKnows(d) /\ d \in Procs /\ d # a
    BY PcFacts DEF OutInv, Drainers
  <2>2. pc[d] \notin Critical
    BY <1>1, <2>1, OnlyHolder
  <2>3. Sent' = Sent
    BY <1>1 DEF Sent
  <2> QED BY <1>1, <1>3, <1>4, <2>1, <2>2, <2>3, OtherDrain
<1>8. Counted'
  <2>1. \A b \in Changes : pc[b] \in InRemove \cup {"done"} => pc'[b] \in InRemove \cup {"done"}
    BY <1>3, PcFacts
  <2>2. \A b \in Changes : Left(b) => Left(b)' \/ effects[b] = 0
    BY DEF Left
  <2>3. Counted
    BY DEF OutInv
  <2> QED BY <1>1, <2>1, <2>2, <2>3, CountKeeps
<1> QED BY <1>2, <1>5, <1>6, <1>7, <1>8 DEF OutInv

\* While a handler holds the lock, an action that has left is not in the queue.
LEMMA LeftFacts ==
  ASSUME OutInv, NEW a \in Changes, Holds(a)
  PROVE  \A b \in Changes : Left(b) => b \notin Ids(queue)
<1>1. ASSUME NEW d \in Drains PROVE pc[d] # "loop"
  <2>1. d \in Procs /\ a \in Procs /\ d # a
    BY PcFacts
  <2>2. pc[d] \notin Critical
    BY <2>1, OnlyHolder DEF OutInv
  <2> QED BY <2>2 DEF Critical
<1> QED BY <1>1 DEF Left

LEMMA SaveEnqueuedKeeps ==
  ASSUME OutInv, NEW a \in Changes, SaveEnqueued(a)
  PROVE  OutInv'
<1>1. /\ a \in Procs /\ TypeOK /\ Locked /\ pc[a] = "enqSave" /\ Leave(a, "deliver") /\ Forget(a)
      /\ UNCHANGED <<dead, keep, letters, tomb, effects, dropped, faults>>
  BY PcFacts DEF SaveEnqueued, OutInv
<1>2. Holds(a)
  BY <1>1 DEF Locked, Critical
<1>3. /\ a \notin Elems(accepted) /\ effects[a] = 0 /\ a \in Ids(queue')
      /\ queue' \in Seq(MirrorAction) /\ Ids(queue') \subseteq Ids(queue) \cup {a}
      /\ evicted' = evicted \cup ((Ids(queue) \cup {a}) \ Ids(queue'))
      /\ accepted' = Append(accepted, a) /\ QueueOK'
  BY EnqueuedFacts
<1>4. accepted' \in Seq(Changes) /\ Elems(accepted') = Elems(accepted) \cup {a}
  BY <1>1, <1>3, ElemsFacts DEF TypeOK
<1>5. evicted' \in SUBSET Changes
  BY <1>1, <1>3, IdsFacts DEF TypeOK
<1>6. Fits(a, "deliver") /\ Goes(a, "deliver") /\ "deliver" \notin InLock
  BY <1>1, PcFacts DEF Fits, HandlerAt, Leave, Goes
<1>7. pc'[a] = "deliver"
  BY <1>1, <1>6, GoesFacts
<1>8. HandlerKnows(a)'
  BY <1>4, <1>7 DEF HandlerKnows, InEnqueue, InRemove
<1>9. \A b \in Changes : Left(b) => b \notin Ids(queue') \/ effects[b] = 0
  BY <1>2, <1>3, LeftFacts
<1>10. pc[a] \notin InRemove \cup {"done"}
  BY <1>1 DEF InRemove
<1> QED BY <1>1, <1>2, <1>3, <1>4, <1>5, <1>6, <1>8, <1>9, <1>10, HandlerSaves

LEMMA RemovedFacts ==
  ASSUME OutInv, NEW a \in Changes, SaveRemoved(a)
  PROVE  /\ queue' \in Seq(MirrorAction) /\ Ids(queue') = Ids(queue) \ {a} /\ QueueOK'
         /\ a \in Sent /\ a \in Elems(accepted)
<1>1. /\ TypeOK /\ QueueOK /\ HandlerKnows(a) /\ pc[a] = "rmSave"
      /\ queue \in Seq(MirrorAction) /\ accepted \in Seq(Changes) /\ Distinct(accepted) /\ InOrder(accepted, queue)
      /\ dead' = dead /\ accepted' = accepted /\ Len(queue) <= Capacity
  BY DEF OutInv, TypeOK, QueueOK, Handlers, SaveRemoved, history
<1>2. snap[a] = queue /\ a \in Sent /\ a \in Elems(accepted)
  BY <1>1 DEF HandlerKnows, InRemove
<1>3. queue' = Without(queue, a)
  BY <1>2 DEF SaveRemoved
<1>4. \A i, j \in DOMAIN queue : queue[i].id = queue[j].id => i = j
  BY <1>1, BeforeFacts
<1>5. /\ queue' \in Seq(MirrorAction) /\ Ids(queue') = Ids(queue) \ {a} /\ Len(queue') <= Len(queue)
      /\ \E f \in [DOMAIN queue' -> DOMAIN queue] :
           /\ \A i \in DOMAIN queue' : queue'[i].id = queue[f[i]].id
           /\ \A i, j \in DOMAIN queue' : i < j => f[i] < f[j]
  BY <1>1, <1>3, <1>4, WithoutFacts
<1>6. InOrder(accepted, queue')
  BY <1>1, <1>5, PartInOrder
<1>7. Len(queue') <= Capacity
  <2>1. Len(queue') \in Nat /\ Len(queue) \in Nat /\ Capacity \in Nat
    BY <1>1, <1>5, ItemFacts
  <2> QED BY <1>1, <1>5, <2>1
<1>8. QueueOK'
  BY <1>1, <1>5, <1>6, <1>7 DEF QueueOK
<1> QED BY <1>2, <1>5, <1>8

LEMMA SaveRemovedKeeps ==
  ASSUME OutInv, NEW a \in Changes, SaveRemoved(a)
  PROVE  OutInv'
<1>1. /\ a \in Procs /\ TypeOK /\ Locked /\ pc[a] = "rmSave" /\ Leave(a, "done") /\ Forget(a)
      /\ UNCHANGED <<dead, keep, letters, tomb, effects, accepted, evicted, dropped, faults>>
  BY PcFacts DEF SaveRemoved, OutInv, history
<1>2. Holds(a)
  BY <1>1 DEF Locked, Critical
<1>3. queue' \in Seq(MirrorAction) /\ Ids(queue') = Ids(queue) \ {a} /\ QueueOK'
  BY RemovedFacts
<1>4. accepted' \in Seq(Changes) /\ evicted' \in SUBSET Changes
  BY <1>1 DEF TypeOK
<1>5. Fits(a, "done") /\ Goes(a, "done") /\ "done" \notin InLock
  BY <1>1, PcFacts DEF Fits, HandlerAt, Leave, Goes
<1>6. pc'[a] = "done"
  BY <1>1, <1>5, GoesFacts
<1>7. HandlerKnows(a)'
  BY <1>6 DEF HandlerKnows, InEnqueue, InRemove
<1>8. \A b \in Changes : Left(b) => b \notin Ids(queue') \/ effects[b] = 0
  BY <1>2, <1>3, LeftFacts
<1> QED BY <1>1, <1>2, <1>3, <1>4, <1>5, <1>7, <1>8, HandlerSaves

\* A request to Plane: a success counts once, and a lost answer is counted as one.
LEMMA RequestFacts ==
  ASSUME TypeOK, NEW a \in Changes, NEW ok, Request(a, ok)
  PROVE  /\ effects' \in [Changes -> Nat] /\ faults' \in [{"crash", "store", "answer"} -> Nat]
         /\ faults'.crash = faults.crash /\ faults'.store = faults.store
         /\ \A b \in Changes \ {a} : effects'[b] = effects[b]
         /\ \/ ok /\ effects'[a] = effects[a] + 1 /\ faults'.answer = faults.answer
            \/ ~ok /\ effects'[a] = effects[a] /\ faults'.answer = faults.answer
            \/ ~ok /\ effects'[a] = effects[a] + 1 /\ faults'.answer = faults.answer + 1
         /\ \A b \in Sent : b \in Sent'
<1>1. effects \in [Changes -> Nat] /\ faults \in [{"crash", "store", "answer"} -> Nat] /\ effects[a] \in Nat
  BY DEF TypeOK
<1> DEFINE n == effects[a] + 1
           m == faults.answer + 1
<1>2. n \in Nat /\ n > 0 /\ m \in Nat
  BY <1>1
<1>3. \/ ok /\ effects' = [effects EXCEPT ![a] = n] /\ faults' = faults
      \/ ~ok /\ effects' = effects /\ faults' = faults
      \/ ~ok /\ effects' = [effects EXCEPT ![a] = n] /\ faults' = [faults EXCEPT !.answer = m]
  BY DEF Request
<1> HIDE DEF n, m
<1>4. effects' \in [Changes -> Nat] /\ \A b \in Changes \ {a} : effects'[b] = effects[b]
  BY <1>1, <1>2, <1>3
<1>5. /\ faults' \in [{"crash", "store", "answer"} -> Nat]
      /\ faults'.crash = faults.crash /\ faults'.store = faults.store
  BY <1>1, <1>2, <1>3
<1>6. \/ ok /\ effects'[a] = n /\ faults'.answer = faults.answer
      \/ ~ok /\ effects'[a] = effects[a] /\ faults'.answer = faults.answer
      \/ ~ok /\ effects'[a] = n /\ faults'.answer = m
  <2>1. CASE ok /\ effects' = [effects EXCEPT ![a] = n] /\ faults' = faults
    BY <1>1, <2>1
  <2>2. CASE ~ok /\ effects' = effects /\ faults' = faults
    BY <2>2
  <2>3. CASE ~ok /\ effects' = [effects EXCEPT ![a] = n] /\ faults' = [faults EXCEPT !.answer = m]
    BY <1>1, <2>3
  <2> QED BY <1>3, <2>1, <2>2, <2>3
<1>7. \A b \in Sent : b \in Sent'
  <2> SUFFICES ASSUME NEW b \in Changes, effects[b] > 0 PROVE effects'[b] > 0
    BY DEF Sent
  <2>1. CASE b = a
    BY <2>1, <1>2, <1>6
  <2>2. CASE b # a
    BY <2>2, <1>4
  <2> QED BY <2>1, <2>2
<1> QED BY <1>4, <1>5, <1>6, <1>7 DEF n, m

LEMMA OnceFacts ==
  /\ \A b : Once(b) \in Nat /\ Once(b) <= 1
  /\ Once(TRUE) = 1 /\ Once(FALSE) = 0
BY DEF Once

LEMMA DeliverInlineKeeps ==
  ASSUME OutInv, NEW a \in Changes, DeliverInline(a)
  PROVE  OutInv'
<1>1. /\ pc[a] = "deliver" /\ a \in Procs /\ TypeOK /\ Locked /\ HandlerKnows(a) /\ Counted
      /\ UNCHANGED queue /\ UNCHANGED dead /\ UNCHANGED snap /\ UNCHANGED keep /\ UNCHANGED letters
      /\ UNCHANGED tomb /\ UNCHANGED accepted /\ UNCHANGED evicted /\ UNCHANGED dropped
  BY PcFacts DEF DeliverInline, OutInv, Handlers, stored, history
<1>2. PICK ok, at :
        /\ Request(a, ok) /\ Goes(a, at) /\ Locked' /\ lock' \in Seq(Procs) /\ Fits(a, at)
        /\ (ok /\ at = "rmLoad") \/ (~ok /\ at = "done")
  <2>0. "rmLoad" \in InLock \ Critical /\ pc[a] \notin InLock
    BY <1>1, PcFacts DEF InLock, InRemove, Critical, Buried
  <2>1. CASE Request(a, TRUE) /\ Enter(a, "rmLoad")
    <3>1. Goes(a, "rmLoad") /\ Fits(a, "rmLoad")
      BY <2>1 DEF Enter, Goes, Fits, HandlerAt, InRemove
    <3>2. Locked' /\ lock' \in Seq(Procs)
      BY <1>1, <2>0, <2>1, <3>1, EnterKeeps
    <3> QED BY <2>1, <3>1, <3>2
  <2>2. CASE Request(a, FALSE) /\ pc' = [pc EXCEPT ![a] = "done"] /\ UNCHANGED lock
    <3>1. Goes(a, "done") /\ Fits(a, "done")
      BY <2>2 DEF Goes, Fits, HandlerAt
    <3>2. Locked' /\ lock' \in Seq(Procs)
      BY <1>1, <2>2, <3>1, OutsideKeeps, PcFacts DEF TypeOK
    <3> QED BY <2>2, <3>1, <3>2
  <2> QED BY <2>1, <2>2 DEF DeliverInline
<1>3. /\ pc'[a] = at /\ \A q \in Procs \ {a} : pc'[q] = pc[q]
      /\ pc' \in [Procs -> {"idle", "deliver", "done"} \cup InEnqueue \cup InRemove \cup InDrain]
  BY <1>1, <1>2, GoesFacts
<1>4. /\ effects' \in [Changes -> Nat] /\ faults' \in [{"crash", "store", "answer"} -> Nat]
      /\ faults'.crash = faults.crash /\ faults'.store = faults.store
      /\ \A b \in Changes \ {a} : effects'[b] = effects[b]
      /\ \A b \in Sent : b \in Sent'
  BY <1>1, <1>2, RequestFacts
<1>5. \/ ok /\ effects'[a] = effects[a] + 1 /\ faults'.answer = faults.answer
      \/ ~ok /\ effects'[a] = effects[a] /\ faults'.answer = faults.answer
      \/ ~ok /\ effects'[a] = effects[a] + 1 /\ faults'.answer = faults.answer + 1
  BY <1>1, <1>2, RequestFacts
<1>6. effects[a] \in Nat /\ a \in Elems(accepted)
  BY <1>1 DEF TypeOK, HandlerKnows
<1>7. TypeOK'
  BY <1>1, <1>2, <1>3, <1>4 DEF TypeOK
<1>8. QueueOK'
  BY <1>1 DEF OutInv, QueueOK
<1>9. Handlers'
  <2>1. ASSUME NEW b \in Changes, b # a PROVE HandlerKnows(b)'
    <3>1. HandlerKnows(b) /\ effects \in [Changes -> Nat] /\ b \in Procs
      BY PcFacts DEF OutInv, Handlers, TypeOK
    <3> QED BY <1>1, <1>3, <1>4, <2>1, <3>1, OtherHandler
  <2>2. ok => a \in Sent'
    BY <1>5, <1>6 DEF Sent
  <2>3. HandlerKnows(a)'
    BY <1>1, <1>2, <1>3, <1>6, <2>2 DEF HandlerKnows, InEnqueue, InRemove
  <2> QED BY <2>1, <2>3 DEF Handlers
<1>10. Drainers'
  <2> SUFFICES ASSUME NEW d \in Drains PROVE DrainKnows(d)'
    BY DEF Drainers
  <2>1. DrainKnows(d) /\ d \in Procs /\ d # a
    BY PcFacts DEF OutInv, Drainers
  <2> QED BY <1>1, <1>3, <1>4, <2>1, OtherDrain
<1>11. Counted'
  <2> SUFFICES ASSUME faults'.crash = 0, faults'.store = 0, NEW b \in Changes
               PROVE  effects'[b] <= faults'.answer + Once(pc'[b] \in InRemove \cup {"done"}) + Once(Left(b)')
    BY DEF Counted, Once
  <2>1. effects[b] <= faults.answer + Once(pc[b] \in InRemove \cup {"done"}) + Once(Left(b))
    BY <1>1, <1>4 DEF Counted
  <2>2. Left(b)' <=> Left(b)
    BY <1>1, <1>3, PcFacts DEF Left
  <2>3. Once(Left(b)') = Once(Left(b))
    BY <2>2 DEF Once
  <2>4. /\ effects[b] \in Nat /\ faults.answer \in Nat /\ faults'.answer \in Nat /\ faults'.answer >= faults.answer
        /\ Once(pc[b] \in InRemove \cup {"done"}) \in Nat /\ Once(Left(b)) \in Nat
    BY <1>1, <1>4, <1>5, OnceFacts DEF TypeOK
  <2>5. CASE b # a
    <3>1. effects'[b] = effects[b] /\ pc'[b] = pc[b]
      BY <1>3, <1>4, <2>5, PcFacts
    <3> QED BY <2>1, <2>3, <2>4, <3>1
  <2>6. CASE b = a
    <3>1. Once(pc[b] \in InRemove \cup {"done"}) = 0 /\ Once(pc'[b] \in InRemove \cup {"done"}) = 1
      BY <1>1, <1>2, <1>3, <2>6 DEF Once, InRemove
    <3>2. effects'[b] <= effects[b] + 1 /\ effects'[b] \in Nat
      BY <1>5, <1>6, <2>6
    <3> QED BY <2>1, <2>3, <2>4, <3>1, <3>2
  <2> QED BY <2>5, <2>6
<1> QED BY <1>2, <1>7, <1>8, <1>9, <1>10, <1>11 DEF OutInv

-----------------------------------------------------------------------------
(* The steps of a drain.                                                    *)

\* A step that changes only where a drain is, what it has and the lock.
LEMMA DrainMoves ==
  ASSUME OutInv, NEW d \in Drains, NEW at, Fits(d, at), Goes(d, at), Locked', lock' \in Seq(Procs), Holds(d),
         snap' \in [Procs -> Seq(MirrorAction)], \A p \in Procs \ {d} : snap'[p] = snap[p],
         keep' \in [Drains -> Seq(MirrorAction)], \A e \in Drains \ {d} : keep'[e] = keep[e],
         letters' \in [Drains -> Seq(Changes)], \A e \in Drains \ {d} : letters'[e] = letters[e],
         tomb' \in [Drains -> Seq(Changes)], \A e \in Drains \ {d} : tomb'[e] = tomb[e],
         queue' \in Seq(MirrorAction), dead' \in Seq(Changes), QueueOK', UNCHANGED accepted,
         evicted' \in SUBSET Changes, dropped' \in SUBSET Changes,
         effects' \in [Changes -> Nat], faults' \in [{"crash", "store", "answer"} -> Nat],
         \A a \in Changes : effects'[a] = effects[a] \/ (a \in Elems(accepted) /\ effects'[a] = effects[a] + 1),
         DrainKnows(d)', Counted'
  PROVE  OutInv'
<1>1. TypeOK /\ Locked /\ d \in Procs
  BY PcFacts DEF OutInv
<1>2. /\ pc'[d] = at /\ \A q \in Procs \ {d} : pc'[q] = pc[q]
      /\ pc' \in [Procs -> {"idle", "deliver", "done"} \cup InEnqueue \cup InRemove \cup InDrain]
  BY <1>1, GoesFacts
<1>3. TypeOK'
  BY <1>1, <1>2 DEF TypeOK
<1>4. Handlers'
  <2> SUFFICES ASSUME NEW a \in Changes PROVE HandlerKnows(a)'
    BY DEF Handlers
  <2>1. HandlerKnows(a) /\ effects \in [Changes -> Nat] /\ a \in Procs /\ a # d
    BY PcFacts DEF OutInv, Handlers, TypeOK
  <2>2. pc[a] \notin Critical
    BY <1>1, <2>1, OnlyHolder
  <2> QED BY <1>2, <2>1, <2>2, OtherHandler
<1>5. Drainers'
  <2> SUFFICES ASSUME NEW e \in Drains, e # d PROVE DrainKnows(e)'
    BY DEF Drainers
  <2>1. DrainKnows(e) /\ e \in Procs
    BY PcFacts DEF OutInv, Drainers
  <2>2. pc[e] \notin Critical
    BY <1>1, <2>1, OnlyHolder
  <2>3. \A a \in Sent : a \in Sent'
    <3> SUFFICES ASSUME NEW a \in Changes, effects[a] > 0 PROVE effects'[a] > 0
      BY DEF Sent
    <3>1. effects[a] \in Nat
      BY <1>1 DEF TypeOK
    <3>2. effects'[a] = effects[a] \/ effects'[a] = effects[a] + 1
      OBVIOUS
    <3> QED BY <3>1, <3>2
  <2> QED BY <1>2, <2>1, <2>2, <2>3, OtherDrain
<1> QED BY <1>3, <1>4, <1>5 DEF OutInv

LEMMA StartDrainKeeps ==
  ASSUME OutInv, NEW d \in Drains, StartDrain(d)
  PROVE  OutInv'
<1>1. /\ pc[d] = "idle" /\ d \in Procs /\ TypeOK /\ Locked /\ Enter(d, "load")
      /\ UNCHANGED queue /\ UNCHANGED dead /\ UNCHANGED snap /\ UNCHANGED keep /\ UNCHANGED letters
      /\ UNCHANGED tomb /\ UNCHANGED effects /\ UNCHANGED accepted /\ UNCHANGED evicted /\ UNCHANGED dropped
      /\ UNCHANGED faults
  BY PcFacts DEF StartDrain, OutInv, stored, history
<1>2. Goes(d, "load") /\ Fits(d, "load") /\ "load" \in InLock \ Critical /\ pc[d] \notin InLock
  BY <1>1, PcFacts DEF Enter, Goes, Fits, DrainAt, InDrain, InLock, Critical, Buried
<1>3. Locked' /\ lock' \in Seq(Procs)
  BY <1>1, <1>2, EnterKeeps
<1>4. /\ pc'[d] = "load" /\ \A q \in Procs \ {d} : pc'[q] = pc[q]
      /\ pc' \in [Procs -> {"idle", "deliver", "done"} \cup InEnqueue \cup InRemove \cup InDrain]
  BY <1>1, <1>2, GoesFacts
<1>5. TypeOK'
  BY <1>1, <1>3, <1>4 DEF TypeOK
<1>6. QueueOK'
  BY <1>1 DEF OutInv, QueueOK
<1>7. Handlers'
  <2> SUFFICES ASSUME NEW a \in Changes PROVE HandlerKnows(a)'
    BY DEF Handlers
  <2>1. HandlerKnows(a) /\ effects \in [Changes -> Nat] /\ a \in Procs /\ a # d
    BY PcFacts DEF OutInv, Handlers, TypeOK
  <2> QED BY <1>1, <1>4, <2>1, OtherHandler
<1>8. Drainers'
  <2> SUFFICES ASSUME NEW e \in Drains PROVE DrainKnows(e)'
    BY DEF Drainers
  <2>1. DrainKnows(e) /\ e \in Procs /\ DrainKnows(d)
    BY PcFacts DEF OutInv, Drainers
  <2>2. Sent' = Sent
    BY <1>1 DEF Sent
  <2>3. CASE e # d
    BY <1>1, <1>4, <2>1, <2>2, <2>3, OtherDrain
  <2>4. CASE e = d
    BY <1>1, <1>4, <2>1, <2>4 DEF DrainKnows, Buried
  <2> QED BY <2>3, <2>4
<1>9. \A a \in Changes : Left(a) => Left(a)'
  <2>1. \A e \in Drains : pc[e] = "loop" => pc'[e] = "loop"
    BY <1>1, <1>4, PcFacts
  <2> QED BY <1>1, <2>1 DEF Left
<1>10. Counted'
  <2>1. \A a \in Changes : pc'[a] = pc[a]
    BY <1>4, PcFacts
  <2> QED BY <1>1, <1>9, <2>1, CountKeeps DEF OutInv
<1> QED BY <1>3, <1>5, <1>6, <1>7, <1>8, <1>10 DEF OutInv

\* Nothing is sent, and the drain has lost nothing.
LEMMA DrainCounts ==
  ASSUME OutInv, NEW d \in Drains, NEW at, Fits(d, at), Goes(d, at),
         UNCHANGED effects,
         faults'.answer = faults.answer, faults'.crash = 0 => faults.crash = 0, faults'.store = 0 => faults.store = 0,
         faults'.store = 0 => \A a \in Changes : Left(a) => Left(a)'
  PROVE  Counted'
<1>1. TypeOK /\ Locked /\ Counted /\ d \in Procs
  BY PcFacts DEF OutInv
<1>2. \A a \in Changes : pc'[a] = pc[a]
  BY <1>1, GoesFacts, PcFacts
<1> QED BY <1>1, <1>2, CountKeeps

LEMMA LoadForDrainKeeps ==
  ASSUME OutInv, NEW d \in Drains, LoadForDrain(d)
  PROVE  OutInv'
<1>1. /\ pc[d] = "load" /\ Holds(d) /\ d \in Procs /\ TypeOK /\ Locked /\ DrainKnows(d) /\ QueueOK
      /\ snap' = [snap EXCEPT ![d] = queue] /\ Goes(d, "loop")
      /\ UNCHANGED queue /\ UNCHANGED dead /\ UNCHANGED lock /\ UNCHANGED keep /\ UNCHANGED letters
      /\ UNCHANGED tomb /\ UNCHANGED effects /\ UNCHANGED accepted /\ UNCHANGED evicted /\ UNCHANGED dropped
      /\ UNCHANGED faults
  BY PcFacts DEF LoadForDrain, OutInv, Drainers, stored, history, Goes
<1>2. Fits(d, "loop") /\ "loop" \in InLock /\ pc[d] \in InLock
  BY <1>1 DEF Fits, DrainAt, InDrain, InLock
<1>3. Locked'
  BY <1>1, <1>2, HoldKeeps
<1>4. /\ snap' \in [Procs -> Seq(MirrorAction)] /\ snap'[d] = queue
      /\ \A p \in Procs \ {d} : snap'[p] = snap[p]
  BY <1>1 DEF TypeOK
<1>5. pc'[d] = "loop" /\ \A q \in Procs \ {d} : pc'[q] = pc[q]
  BY <1>1, <1>2, GoesFacts
<1>6. QueueOK'
  BY <1>1 DEF QueueOK
<1>7. Draining(d)'
  <2>1. keep[d] = <<>> /\ letters[d] = <<>> /\ Len(<<>>) = 0 /\ DOMAIN <<>> = {} /\ Len(queue) \in Nat
    BY <1>1 DEF DrainKnows, TypeOK
  <2>2. InOrder(accepted, <<>>) /\ Ids(<<>>) = {} /\ Elems(<<>>) = {}
    BY IdsFacts, ElemsFacts DEF InOrder
  <2> QED BY <1>1, <1>4, <2>1, <2>2 DEF Draining, QueueOK
<1>8. DrainKnows(d)'
  BY <1>5, <1>7 DEF DrainKnows, Buried
<1>9. \A a \in Changes : Left(a) => Left(a)'
  <2> SUFFICES ASSUME NEW a \in Changes, NEW e \in Drains, pc[e] = "loop", a \notin Ids(keep[e]) \cup Ids(snap[e])
               PROVE  Left(a)'
    BY <1>1 DEF Left
  <2>1. e # d /\ e \in Procs
    BY <1>1, PcFacts
  <2> QED BY <1>1, <1>4, <1>5, <2>1 DEF Left
<1>10. Counted'
  BY <1>1, <1>2, <1>9, DrainCounts
<1> QED BY <1>1, <1>2, <1>3, <1>4, <1>6, <1>8, <1>10, DrainMoves DEF TypeOK

\* The item at the head of what a drain has yet to look at.
LEMMA HeadItem ==
  ASSUME OutInv, NEW d \in Drains, pc[d] = "loop", snap[d] # <<>>
  PROVE  LET item == Head(snap[d])
             rest == Tail(snap[d])
         IN  /\ item \in MirrorAction /\ rest \in Seq(MirrorAction)
             /\ item.id \in Elems(accepted) /\ item.id \in Ids(queue)
             /\ item.id \notin Ids(rest) /\ item.id \notin Ids(keep[d]) /\ item.id \notin Elems(letters[d])
             /\ Ids(snap[d]) = Ids(rest) \cup {item.id}
             /\ InOrder(accepted, rest) /\ InOrder(accepted, keep[d])
             /\ \A i \in DOMAIN keep[d] : Before(accepted, keep[d][i].id, item.id)
             /\ \A j \in DOMAIN rest : Before(accepted, item.id, rest[j].id)
             /\ \A i \in DOMAIN keep[d], j \in DOMAIN rest : Before(accepted, keep[d][i].id, rest[j].id)
             /\ Len(keep[d]) + Len(rest) + 1 <= Len(queue)
<1> DEFINE item == Head(snap[d])
           rest == Tail(snap[d])
<1>1. /\ Draining(d) /\ d \in Procs /\ snap[d] \in Seq(MirrorAction) /\ keep[d] \in Seq(MirrorAction)
      /\ accepted \in Seq(Changes) /\ Distinct(accepted) /\ queue \in Seq(MirrorAction)
  BY PcFacts DEF OutInv, Drainers, DrainKnows, TypeOK, QueueOK
<1>2. /\ item \in MirrorAction /\ rest \in Seq(MirrorAction) /\ item = snap[d][1] /\ 1 \in DOMAIN snap[d]
      /\ Len(rest) = Len(snap[d]) - 1 /\ Len(snap[d]) \in Nat
      /\ \A i \in DOMAIN rest : i + 1 \in DOMAIN snap[d] /\ rest[i] = snap[d][i + 1]
  BY <1>1, HeadTail
<1>3. /\ InOrder(accepted, rest) /\ Ids(snap[d]) = Ids(rest) \cup {item.id} /\ item.id \notin Ids(rest)
      /\ \A j \in DOMAIN rest : Before(accepted, item.id, rest[j].id)
  BY <1>1, TailInOrder DEF Draining
<1> HIDE DEF item, rest
<1>4. item.id \in Elems(accepted) /\ item.id \in Ids(queue) /\ item.id \notin Elems(letters[d])
  BY <1>1, <1>3 DEF Draining, InOrder
<1>5. /\ \A i \in DOMAIN keep[d] : Before(accepted, keep[d][i].id, item.id)
      /\ \A i \in DOMAIN keep[d], j \in DOMAIN rest : Before(accepted, keep[d][i].id, rest[j].id)
  BY <1>1, <1>2 DEF Draining
<1>6. item.id \notin Ids(keep[d])
  BY <1>1, <1>5, BeforeFacts DEF Ids
<1>7. Len(keep[d]) + Len(rest) + 1 <= Len(queue) /\ InOrder(accepted, keep[d])
  <2>1. Len(keep[d]) \in Nat /\ Len(rest) \in Nat /\ Len(queue) \in Nat
    BY <1>1, <1>2
  <2>2. Len(keep[d]) + Len(snap[d]) <= Len(queue) /\ InOrder(accepted, keep[d])
    BY <1>1 DEF Draining
  <2> DEFINE k == Len(keep[d])
             r == Len(rest)
             s == Len(snap[d])
             q == Len(queue)
  <2>3. k \in Nat /\ r \in Nat /\ s \in Nat /\ q \in Nat /\ r = s - 1 /\ k + s <= q
    BY <1>2, <2>1, <2>2
  <2> HIDE DEF k, r, s, q
  <2>4. k + r + 1 <= q
    BY <2>3
  <2> QED BY <2>2, <2>4 DEF k, r, s, q
<1> QED BY <1>2, <1>3, <1>4, <1>5, <1>6, <1>7 DEF item, rest

LEMMA KeptFacts ==
  ASSUME OutInv, NEW d \in Drains, pc[d] = "loop", snap[d] # <<>>,
         NEW kept \in MirrorAction, kept.id = Head(snap[d]).id
  PROVE  LET all == Append(keep[d], kept)
             rest == Tail(snap[d])
         IN  /\ all \in Seq(MirrorAction) /\ Ids(all) = Ids(keep[d]) \cup {kept.id}
             /\ Len(all) = Len(keep[d]) + 1 /\ InOrder(accepted, all)
             /\ \A i \in DOMAIN all, j \in DOMAIN rest : Before(accepted, all[i].id, rest[j].id)
<1> DEFINE all == Append(keep[d], kept)
           rest == Tail(snap[d])
           n == Len(keep[d])
<1>1. keep[d] \in Seq(MirrorAction)
  BY DEF OutInv, TypeOK
<1>2. /\ kept.id \in Elems(accepted) /\ InOrder(accepted, keep[d])
      /\ \A i \in DOMAIN keep[d] : Before(accepted, keep[d][i].id, kept.id)
      /\ \A j \in DOMAIN rest : Before(accepted, kept.id, rest[j].id)
      /\ \A i \in DOMAIN keep[d], j \in DOMAIN rest : Before(accepted, keep[d][i].id, rest[j].id)
  BY HeadItem
<1>3. InOrder(accepted, all) /\ Ids(all) = Ids(keep[d]) \cup {kept.id}
  BY <1>1, <1>2, AppendInOrder, IdsFacts
<1>4. /\ all \in Seq(MirrorAction) /\ n \in Nat /\ Len(all) = n + 1
      /\ DOMAIN all = 1..(n + 1) /\ DOMAIN keep[d] = 1..n /\ all[n + 1] = kept
      /\ \A i \in 1..n : all[i] = keep[d][i]
  BY <1>1
<1> HIDE DEF all, rest
<1>5. \A i \in 1..(n + 1) : i \in 1..n \/ i = n + 1
  BY <1>4
<1>6. \A i \in DOMAIN all, j \in DOMAIN rest : Before(accepted, all[i].id, rest[j].id)
  BY <1>2, <1>4, <1>5
<1> QED BY <1>3, <1>4, <1>6 DEF all, rest

\* One more item is looked at: kept, with or without another attempt counted.
LEMMA KeptDraining ==
  ASSUME OutInv, NEW d \in Drains, pc[d] = "loop", snap[d] # <<>>,
         NEW kept \in MirrorAction, kept.id = Head(snap[d]).id,
         keep' = [keep EXCEPT ![d] = Append(@, kept)], snap' = [snap EXCEPT ![d] = Tail(@)],
         UNCHANGED <<letters, queue, accepted>>, \A a \in Sent : a \in Sent'
  PROVE  /\ keep' \in [Drains -> Seq(MirrorAction)] /\ \A e \in Drains \ {d} : keep'[e] = keep[e]
         /\ snap' \in [Procs -> Seq(MirrorAction)] /\ \A p \in Procs \ {d} : snap'[p] = snap[p]
         /\ Draining(d)'
         /\ Ids(keep'[d]) \cup Ids(snap'[d]) = Ids(keep[d]) \cup Ids(snap[d])
<1> DEFINE all == Append(keep[d], kept)
           rest == Tail(snap[d])
<1>1. /\ all \in Seq(MirrorAction) /\ Ids(all) = Ids(keep[d]) \cup {kept.id}
      /\ Len(all) = Len(keep[d]) + 1 /\ InOrder(accepted, all)
      /\ \A i \in DOMAIN all, j \in DOMAIN rest : Before(accepted, all[i].id, rest[j].id)
  BY KeptFacts
<1>2. /\ rest \in Seq(MirrorAction) /\ Ids(snap[d]) = Ids(rest) \cup {kept.id}
      /\ InOrder(accepted, rest) /\ Len(keep[d]) + Len(rest) + 1 <= Len(queue)
  BY HeadItem
<1>3. keep' = [keep EXCEPT ![d] = all] /\ snap' = [snap EXCEPT ![d] = rest]
  OBVIOUS
<1>4. /\ keep \in [Drains -> Seq(MirrorAction)] /\ snap \in [Procs -> Seq(MirrorAction)] /\ d \in Procs
      /\ Draining(d) /\ queue \in Seq(MirrorAction)
      /\ UNCHANGED letters /\ UNCHANGED queue /\ UNCHANGED accepted
  BY PcFacts DEF OutInv, TypeOK, Drainers, DrainKnows
<1> HIDE DEF all, rest
<1>5. /\ keep' \in [Drains -> Seq(MirrorAction)] /\ \A e \in Drains \ {d} : keep'[e] = keep[e]
      /\ snap' \in [Procs -> Seq(MirrorAction)] /\ \A p \in Procs \ {d} : snap'[p] = snap[p]
      /\ keep'[d] = all /\ snap'[d] = rest
  BY <1>1, <1>2, <1>3, <1>4
<1>6. Ids(all) \cup Ids(rest) = Ids(keep[d]) \cup Ids(snap[d])
  BY <1>1, <1>2
<1>7. Len(all) + Len(rest) <= Len(queue)
  <2>1. Len(keep[d]) \in Nat /\ Len(rest) \in Nat /\ Len(queue) \in Nat
    BY <1>2, <1>4
  <2> QED BY <1>1, <1>2, <2>1
<1>8. Draining(d)'
  <2>1. /\ Ids(all) \cup Ids(rest) \cup Elems(letters[d]) \subseteq Ids(queue)
        /\ Elems(letters[d]) \cap (Ids(all) \cup Ids(rest)) = {}
        /\ Ids(queue) \subseteq Ids(all) \cup Ids(rest) \cup Elems(letters[d]) \cup Sent
    BY <1>4, <1>6 DEF Draining
  <2>2. Ids(queue) \subseteq Ids(all) \cup Ids(rest) \cup Elems(letters[d]) \cup Sent'
    BY <2>1
  <2>3. InOrder(accepted', keep'[d]) /\ InOrder(accepted', snap'[d])
    BY <1>1, <1>2, <1>4, <1>5
  <2>4. \A i \in DOMAIN keep'[d], j \in DOMAIN snap'[d] : Before(accepted', keep'[d][i].id, snap'[d][j].id)
    BY <1>1, <1>4, <1>5
  <2>5. Len(keep'[d]) + Len(snap'[d]) <= Len(queue')
    BY <1>4, <1>5, <1>7
  <2>6. /\ Ids(keep'[d]) \cup Ids(snap'[d]) \cup Elems(letters'[d]) \subseteq Ids(queue')
        /\ Elems(letters'[d]) \cap (Ids(keep'[d]) \cup Ids(snap'[d])) = {}
        /\ Ids(queue') \subseteq Ids(keep'[d]) \cup Ids(snap'[d]) \cup Elems(letters'[d]) \cup Sent'
    BY <1>4, <1>5, <2>1, <2>2
  <2> QED BY <2>3, <2>4, <2>5, <2>6 DEF Draining
<1> QED BY <1>5, <1>6, <1>8

LEMMA KeepItemKeeps ==
  ASSUME OutInv, NEW d \in Drains, KeepItem(d)
  PROVE  OutInv'
<1>1. /\ pc[d] = "loop" /\ snap[d] # <<>> /\ d \in Procs /\ TypeOK /\ Locked /\ QueueOK
      /\ keep' = [keep EXCEPT ![d] = Append(@, Head(snap[d]))] /\ snap' = [snap EXCEPT ![d] = Tail(@)]
      /\ UNCHANGED queue /\ UNCHANGED dead /\ UNCHANGED lock /\ UNCHANGED pc /\ UNCHANGED letters
      /\ UNCHANGED tomb /\ UNCHANGED effects /\ UNCHANGED accepted /\ UNCHANGED evicted /\ UNCHANGED dropped
      /\ UNCHANGED faults
  BY PcFacts DEF KeepItem, OutInv, stored, history
<1>2. Holds(d) /\ Fits(d, "loop") /\ "loop" \in InLock
  BY <1>1 DEF Locked, Critical, Fits, DrainAt, InDrain, InLock
<1>3. Goes(d, "loop") /\ Locked'
  BY <1>1 DEF Goes, Locked, Holds, TypeOK
<1>4. Sent' = Sent
  BY <1>1 DEF Sent
<1>5. Head(snap[d]) \in MirrorAction
  BY <1>1, HeadItem
<1>6. /\ keep' \in [Drains -> Seq(MirrorAction)] /\ \A e \in Drains \ {d} : keep'[e] = keep[e]
      /\ snap' \in [Procs -> Seq(MirrorAction)] /\ \A p \in Procs \ {d} : snap'[p] = snap[p]
      /\ Draining(d)'
      /\ Ids(keep'[d]) \cup Ids(snap'[d]) = Ids(keep[d]) \cup Ids(snap[d])
  BY <1>1, <1>4, <1>5, KeptDraining
<1>7. QueueOK'
  BY <1>1 DEF QueueOK
<1>8. DrainKnows(d)'
  BY <1>1, <1>6 DEF DrainKnows, Buried
<1>9. \A a \in Changes : Left(a) => Left(a)'
  <2> SUFFICES ASSUME NEW a \in Changes, NEW e \in Drains, pc[e] = "loop", a \notin Ids(keep[e]) \cup Ids(snap[e])
               PROVE  Left(a)'
    BY <1>1 DEF Left
  <2>1. a \notin Ids(keep'[e]) \cup Ids(snap'[e]) /\ pc'[e] = "loop"
    <3>1. CASE e = d
      BY <1>1, <1>6, <3>1
    <3>2. CASE e # d
      BY <1>1, <1>6, <3>2, PcFacts
    <3> QED BY <3>1, <3>2
  <2> QED BY <2>1 DEF Left
<1>10. Counted'
  BY <1>1, <1>2, <1>3, <1>9, DrainCounts
<1> QED BY <1>1, <1>2, <1>3, <1>6, <1>7, <1>8, <1>10, DrainMoves DEF TypeOK

\* One more item is looked at: sent, or given up.
LEMMA TakenDraining ==
  ASSUME OutInv, NEW d \in Drains, pc[d] = "loop", snap[d] # <<>>,
         snap' = [snap EXCEPT ![d] = Tail(@)], UNCHANGED <<keep, queue, accepted>>,
         \A a \in Sent : a \in Sent',
         \/ letters' = letters /\ Head(snap[d]).id \in Sent'
         \/ letters' = [letters EXCEPT ![d] = Append(@, Head(snap[d]).id)]
  PROVE  /\ letters' \in [Drains -> Seq(Changes)] /\ \A e \in Drains \ {d} : letters'[e] = letters[e]
         /\ snap' \in [Procs -> Seq(MirrorAction)] /\ \A p \in Procs \ {d} : snap'[p] = snap[p]
         /\ Draining(d)'
         /\ Ids(snap'[d]) \subseteq Ids(snap[d]) /\ Head(snap[d]).id \notin Ids(keep'[d]) \cup Ids(snap'[d])
<1> DEFINE item == Head(snap[d])
           rest == Tail(snap[d])
           more == Append(letters[d], item.id)
<1>1. /\ item \in MirrorAction /\ rest \in Seq(MirrorAction) /\ Ids(snap[d]) = Ids(rest) \cup {item.id}
      /\ item.id \in Ids(queue)
      /\ item.id \notin Ids(rest) /\ item.id \notin Ids(keep[d])
      /\ InOrder(accepted, rest) /\ Len(keep[d]) + Len(rest) + 1 <= Len(queue)
      /\ \A i \in DOMAIN keep[d], j \in DOMAIN rest : Before(accepted, keep[d][i].id, rest[j].id)
  BY HeadItem
<1>2. /\ letters \in [Drains -> Seq(Changes)] /\ snap \in [Procs -> Seq(MirrorAction)] /\ d \in Procs
      /\ Draining(d) /\ queue \in Seq(MirrorAction) /\ keep[d] \in Seq(MirrorAction)
      /\ UNCHANGED keep /\ UNCHANGED queue /\ UNCHANGED accepted
  BY PcFacts DEF OutInv, TypeOK, Drainers, DrainKnows
<1>3. more \in Seq(Changes) /\ Elems(more) = Elems(letters[d]) \cup {item.id}
  BY <1>1, <1>2, ItemFacts, ElemsFacts
<1>4. /\ snap' = [snap EXCEPT ![d] = rest]
      /\ (letters' = letters /\ item.id \in Sent') \/ letters' = [letters EXCEPT ![d] = more]
  OBVIOUS
<1> HIDE DEF item, rest, more
<1>5. /\ letters' \in [Drains -> Seq(Changes)] /\ \A e \in Drains \ {d} : letters'[e] = letters[e]
      /\ snap' \in [Procs -> Seq(MirrorAction)] /\ \A p \in Procs \ {d} : snap'[p] = snap[p]
      /\ snap'[d] = rest /\ keep'[d] = keep[d]
      /\ (letters'[d] = letters[d] /\ item.id \in Sent') \/ letters'[d] = more
  BY <1>1, <1>2, <1>3, <1>4
<1>6. Len(keep[d]) + Len(rest) <= Len(queue)
  <2>1. Len(keep[d]) \in Nat /\ Len(rest) \in Nat /\ Len(queue) \in Nat
    BY <1>1, <1>2
  <2> QED BY <1>1, <2>1
<1>7. Draining(d)'
  <2>1. /\ InOrder(accepted, keep[d])
        /\ Ids(keep[d]) \cup Ids(snap[d]) \cup Elems(letters[d]) \subseteq Ids(queue)
        /\ Elems(letters[d]) \cap (Ids(keep[d]) \cup Ids(snap[d])) = {}
        /\ Ids(queue) \subseteq Ids(keep[d]) \cup Ids(snap[d]) \cup Elems(letters[d]) \cup Sent
    BY <1>2 DEF Draining
  <2>2. /\ Ids(keep[d]) \cup Ids(rest) \cup Elems(letters'[d]) \subseteq Ids(queue)
        /\ Elems(letters'[d]) \cap (Ids(keep[d]) \cup Ids(rest)) = {}
        /\ Ids(queue) \subseteq Ids(keep[d]) \cup Ids(rest) \cup Elems(letters'[d]) \cup Sent'
    BY <1>1, <1>3, <1>5, <2>1
  <2>3. InOrder(accepted', keep'[d]) /\ InOrder(accepted', snap'[d])
    BY <1>1, <1>2, <1>5, <2>1
  <2>4. \A i \in DOMAIN keep'[d], j \in DOMAIN snap'[d] : Before(accepted', keep'[d][i].id, snap'[d][j].id)
    BY <1>1, <1>2, <1>5
  <2>5. Len(keep'[d]) + Len(snap'[d]) <= Len(queue')
    BY <1>2, <1>5, <1>6
  <2>6. /\ Ids(keep'[d]) \cup Ids(snap'[d]) \cup Elems(letters'[d]) \subseteq Ids(queue')
        /\ Elems(letters'[d]) \cap (Ids(keep'[d]) \cup Ids(snap'[d])) = {}
        /\ Ids(queue') \subseteq Ids(keep'[d]) \cup Ids(snap'[d]) \cup Elems(letters'[d]) \cup Sent'
    BY <1>2, <1>5, <2>2
  <2> QED BY <2>3, <2>4, <2>5, <2>6 DEF Draining
<1> QED BY <1>1, <1>5, <1>7 DEF item

LEMMA AttemptItemKeeps ==
  ASSUME OutInv, NEW d \in Drains, AttemptItem(d)
  PROVE  OutInv'
<1> DEFINE item == Head(snap[d])
<1>1. /\ pc[d] = "loop" /\ snap[d] # <<>> /\ d \in Procs /\ TypeOK /\ Locked /\ QueueOK /\ Counted
      /\ snap' = [snap EXCEPT ![d] = Tail(@)]
      /\ UNCHANGED queue /\ UNCHANGED dead /\ UNCHANGED lock /\ UNCHANGED pc
      /\ UNCHANGED tomb /\ UNCHANGED accepted /\ UNCHANGED evicted /\ UNCHANGED dropped
  BY PcFacts DEF AttemptItem, OutInv, stored, history
<1>2. Holds(d) /\ Fits(d, "loop") /\ "loop" \in InLock
  BY <1>1 DEF Locked, Critical, Fits, DrainAt, InDrain, InLock
<1>3. Goes(d, "loop") /\ Locked'
  BY <1>1 DEF Goes, Locked, Holds, TypeOK
<1>4. /\ item \in MirrorAction /\ item.id \in Changes /\ item.id \in Elems(accepted)
      /\ item.id \in Ids(queue) /\ item.id \in Ids(snap[d])
      /\ ~Exhausted(item) => Retried(item) \in MirrorAction
      /\ Retried(item).id = item.id
  BY <1>1, HeadItem, ItemFacts
<1> HIDE DEF item
<1>5. PICK ok :
        /\ Request(item.id, ok)
        /\ \/ ok /\ UNCHANGED <<keep, letters>>
           \/ ~ok /\ ~Exhausted(item) /\ keep' = [keep EXCEPT ![d] = Append(@, Retried(item))] /\ UNCHANGED letters
           \/ ~ok /\ letters' = [letters EXCEPT ![d] = Append(@, item.id)] /\ UNCHANGED keep
  BY DEF AttemptItem, item
<1>6. /\ effects' \in [Changes -> Nat] /\ faults' \in [{"crash", "store", "answer"} -> Nat]
      /\ faults'.crash = faults.crash /\ faults'.store = faults.store
      /\ \A b \in Changes \ {item.id} : effects'[b] = effects[b]
      /\ \A b \in Sent : b \in Sent'
  BY <1>1, <1>4, <1>5, RequestFacts
<1>7. \/ ok /\ effects'[item.id] = effects[item.id] + 1 /\ faults'.answer = faults.answer
      \/ ~ok /\ effects'[item.id] = effects[item.id] /\ faults'.answer = faults.answer
      \/ ~ok /\ effects'[item.id] = effects[item.id] + 1 /\ faults'.answer = faults.answer + 1
  BY <1>1, <1>4, <1>5, RequestFacts
<1>8. ok => item.id \in Sent'
  BY <1>1, <1>4, <1>7 DEF Sent, TypeOK
<1>9. /\ keep' \in [Drains -> Seq(MirrorAction)] /\ \A e \in Drains \ {d} : keep'[e] = keep[e]
      /\ letters' \in [Drains -> Seq(Changes)] /\ \A e \in Drains \ {d} : letters'[e] = letters[e]
      /\ snap' \in [Procs -> Seq(MirrorAction)] /\ \A p \in Procs \ {d} : snap'[p] = snap[p]
      /\ Draining(d)'
      /\ Ids(keep'[d]) \cup Ids(snap'[d]) \subseteq Ids(keep[d]) \cup Ids(snap[d])
      /\ ok => item.id \notin Ids(keep'[d]) \cup Ids(snap'[d])
  <2>1. CASE ok /\ UNCHANGED <<keep, letters>>
    <3>1. UNCHANGED keep /\ letters' = letters /\ item.id \in Sent'
      BY <1>8, <2>1
    <3>2. /\ letters' \in [Drains -> Seq(Changes)] /\ \A e \in Drains \ {d} : letters'[e] = letters[e]
          /\ snap' \in [Procs -> Seq(MirrorAction)] /\ \A p \in Procs \ {d} : snap'[p] = snap[p]
          /\ Draining(d)' /\ Ids(snap'[d]) \subseteq Ids(snap[d])
          /\ item.id \notin Ids(keep'[d]) \cup Ids(snap'[d])
      BY <1>1, <1>6, <3>1, TakenDraining DEF item
    <3> QED BY <1>1, <3>1, <3>2 DEF TypeOK
  <2>2. CASE ~ok /\ ~Exhausted(item) /\ keep' = [keep EXCEPT ![d] = Append(@, Retried(item))] /\ UNCHANGED letters
    <3>1. /\ keep' \in [Drains -> Seq(MirrorAction)] /\ \A e \in Drains \ {d} : keep'[e] = keep[e]
          /\ snap' \in [Procs -> Seq(MirrorAction)] /\ \A p \in Procs \ {d} : snap'[p] = snap[p]
          /\ Draining(d)'
          /\ Ids(keep'[d]) \cup Ids(snap'[d]) = Ids(keep[d]) \cup Ids(snap[d])
      BY <1>1, <1>4, <1>6, <2>2, KeptDraining DEF item
    <3> QED BY <1>1, <2>2, <3>1 DEF TypeOK
  <2>3. CASE ~ok /\ letters' = [letters EXCEPT ![d] = Append(@, item.id)] /\ UNCHANGED keep
    <3>1. /\ letters' \in [Drains -> Seq(Changes)] /\ \A e \in Drains \ {d} : letters'[e] = letters[e]
          /\ snap' \in [Procs -> Seq(MirrorAction)] /\ \A p \in Procs \ {d} : snap'[p] = snap[p]
          /\ Draining(d)' /\ Ids(snap'[d]) \subseteq Ids(snap[d])
      BY <1>1, <1>6, <2>3, TakenDraining DEF item
    <3> QED BY <1>1, <2>3, <3>1 DEF TypeOK
  <2> QED BY <1>5, <2>1, <2>2, <2>3
<1>10. QueueOK'
  BY <1>1 DEF QueueOK
<1>11. DrainKnows(d)'
  BY <1>1, <1>9 DEF DrainKnows, Buried
<1>12. \A b \in Changes : Left(b) => Left(b)'
  <2> SUFFICES ASSUME NEW b \in Changes, NEW e \in Drains, pc[e] = "loop", b \notin Ids(keep[e]) \cup Ids(snap[e])
               PROVE  Left(b)'
    BY <1>1 DEF Left
  <2>1. b \notin Ids(keep'[e]) \cup Ids(snap'[e]) /\ pc'[e] = "loop"
    <3>1. CASE e = d
      BY <1>1, <1>9, <3>1
    <3>2. CASE e # d
      BY <1>1, <1>9, <3>2, PcFacts
    <3> QED BY <3>1, <3>2
  <2> QED BY <2>1 DEF Left
<1>13. \A b \in Changes : b = item.id => ~Left(b) /\ (ok => Left(b)')
  <2> SUFFICES ASSUME NEW b \in Changes, b = item.id
               PROVE  ~Left(b) /\ (ok => Left(b)')
    OBVIOUS
  <2>1. ok => Left(b)'
    BY <1>1, <1>9 DEF Left
  <2>2. \A e \in Drains : pc[e] = "loop" => e = d
    BY <1>1, <1>2, OnlyHolder, PcFacts DEF Critical
  <2> QED BY <1>4, <2>1, <2>2 DEF Left
<1>14. Counted'
  <2> SUFFICES ASSUME faults'.crash = 0, faults'.store = 0, NEW b \in Changes
               PROVE  effects'[b] <= faults'.answer + Once(pc'[b] \in InRemove \cup {"done"}) + Once(Left(b)')
    BY DEF Counted, Once
  <2>1. effects[b] <= faults.answer + Once(pc[b] \in InRemove \cup {"done"}) + Once(Left(b))
    BY <1>1, <1>6 DEF Counted
  <2>2. /\ effects[b] \in Nat /\ faults.answer \in Nat /\ faults'.answer \in Nat
        /\ Once(pc[b] \in InRemove \cup {"done"}) \in Nat /\ Once(Left(b)) \in Nat /\ Once(Left(b)') \in Nat
        /\ pc'[b] = pc[b] /\ Once(Left(b)) <= Once(Left(b)')
    <3>1. Once(Left(b)) <= Once(Left(b)')
      BY <1>12 DEF Once
    <3> QED BY <1>1, <1>6, <3>1, OnceFacts DEF TypeOK
  <2>3. faults'.answer >= faults.answer
    BY <1>7, <2>2
  <2>4. CASE b # item.id
    <3>1. effects'[b] = effects[b]
      BY <1>6, <2>4
    <3> QED BY <2>1, <2>2, <2>3, <3>1
  <2>5. CASE b = item.id
    <3>1. CASE ok /\ effects'[b] = effects[b] + 1 /\ faults'.answer = faults.answer
      <4>1. Once(Left(b)) = 0 /\ Once(Left(b)') = 1
        BY <1>13, <2>5, <3>1 DEF Once
      <4> QED BY <2>1, <2>2, <3>1, <4>1
    <3>2. CASE effects'[b] = effects[b] /\ faults'.answer = faults.answer
      BY <2>1, <2>2, <3>2
    <3>3. CASE effects'[b] = effects[b] + 1 /\ faults'.answer = faults.answer + 1
      BY <2>1, <2>2, <3>3
    <3> QED BY <1>7, <2>5, <3>1, <3>2, <3>3
  <2> QED BY <2>4, <2>5
<1>15. \A b \in Changes : effects'[b] = effects[b] \/ (b \in Elems(accepted) /\ effects'[b] = effects[b] + 1)
  BY <1>4, <1>6, <1>7
<1> QED BY <1>1, <1>2, <1>3, <1>6, <1>9, <1>10, <1>11, <1>14, <1>15, DrainMoves DEF TypeOK

\* What a drain that ends leaves behind.
LEMMA ForgetFacts ==
  ASSUME TypeOK, NEW d \in Drains, ForgetDrain(d)
  PROVE  /\ snap' \in [Procs -> Seq(MirrorAction)] /\ \A p \in Procs \ {d} : snap'[p] = snap[p]
         /\ keep' \in [Drains -> Seq(MirrorAction)] /\ \A e \in Drains \ {d} : keep'[e] = keep[e]
         /\ letters' \in [Drains -> Seq(Changes)] /\ \A e \in Drains \ {d} : letters'[e] = letters[e]
         /\ tomb' \in [Drains -> Seq(Changes)] /\ \A e \in Drains \ {d} : tomb'[e] = tomb[e]
         /\ keep'[d] = <<>> /\ letters'[d] = <<>>
<1>1. <<>> \in Seq(MirrorAction) /\ <<>> \in Seq(Changes) /\ d \in Procs
  BY PcFacts
<1>2. snap' \in [Procs -> Seq(MirrorAction)] /\ \A p \in Procs \ {d} : snap'[p] = snap[p]
  BY <1>1 DEF TypeOK, ForgetDrain, Forget
<1>3. /\ keep' \in [Drains -> Seq(MirrorAction)] /\ \A e \in Drains \ {d} : keep'[e] = keep[e]
      /\ keep'[d] = <<>>
  BY <1>1 DEF TypeOK, ForgetDrain
<1>4. /\ letters' \in [Drains -> Seq(Changes)] /\ \A e \in Drains \ {d} : letters'[e] = letters[e]
      /\ letters'[d] = <<>>
  BY <1>1 DEF TypeOK, ForgetDrain
<1>5. tomb' \in [Drains -> Seq(Changes)] /\ \A e \in Drains \ {d} : tomb'[e] = tomb[e]
  BY <1>1 DEF TypeOK, ForgetDrain
<1> QED BY <1>2, <1>3, <1>4, <1>5

\* While a drain holds the lock, no other one is past its first await.
LEMMA OnlyDrain ==
  ASSUME OutInv, NEW d \in Drains, pc[d] \in Critical
  PROVE  /\ Holds(d) /\ d \in Procs
         /\ \A e \in Drains : pc[e] \in Critical => e = d
<1>1. Holds(d) /\ d \in Procs
  BY PcFacts DEF OutInv, Locked
<1> QED BY <1>1, OnlyHolder, PcFacts DEF OutInv

\* The queue that a drain saves: what it has kept, all of it.
LEMMA SaveKeptFacts ==
  ASSUME OutInv, NEW d \in Drains, SaveKept(d)
  PROVE  /\ queue' = keep[d] /\ queue' \in Seq(MirrorAction) /\ Ids(queue') \subseteq Ids(queue)
         /\ Ids(queue) \subseteq Ids(queue') \cup Elems(letters[d]) \cup Sent
         /\ Elems(letters[d]) \subseteq Ids(queue) /\ Elems(letters[d]) \cap Ids(queue') = {}
         /\ QueueOK'
<1>1. /\ Draining(d) /\ snap[d] = <<>> /\ QueueOK /\ keep[d] \in Seq(MirrorAction) /\ queue \in Seq(MirrorAction)
      /\ queue' = Newest(keep[d], Capacity) /\ dead' = dead /\ accepted' = accepted
  BY DEF OutInv, TypeOK, Drainers, DrainKnows, SaveKept, history
<1>2. Len(keep[d]) <= Capacity
  <2> DEFINE k == Len(keep[d])
             s == Len(snap[d])
             q == Len(queue)
  <2>1. k \in Nat /\ s = 0 /\ q \in Nat /\ k + s <= q /\ q <= Capacity /\ Capacity \in Nat
    BY <1>1, ItemFacts DEF Draining, QueueOK
  <2> HIDE DEF k, s, q
  <2>2. k <= Capacity
    BY <2>1
  <2> QED BY <2>2 DEF k
<1>3. queue' = keep[d]
  BY <1>1, <1>2, ItemFacts, NewestFacts
<1>4. Ids(snap[d]) = {}
  BY <1>1, IdsFacts
<1>5. /\ Ids(queue') \subseteq Ids(queue)
      /\ Ids(queue) \subseteq Ids(queue') \cup Elems(letters[d]) \cup Sent
      /\ Elems(letters[d]) \subseteq Ids(queue) /\ Elems(letters[d]) \cap Ids(queue') = {}
  BY <1>1, <1>3, <1>4 DEF Draining
<1>6. InOrder(accepted, keep[d])
  BY <1>1 DEF Draining
<1>7. QueueOK'
  BY <1>1, <1>2, <1>3, <1>5, <1>6 DEF QueueOK
<1> QED BY <1>1, <1>3, <1>5, <1>7

LEMMA SaveKeptKeeps ==
  ASSUME OutInv, NEW d \in Drains, SaveKept(d)
  PROVE  OutInv'
<1>1. /\ pc[d] = "loop" /\ d \in Procs /\ TypeOK /\ Locked /\ QueueOK
      /\ keep' = [keep EXCEPT ![d] = <<>>]
      /\ UNCHANGED dead /\ UNCHANGED snap /\ UNCHANGED letters /\ UNCHANGED tomb /\ UNCHANGED effects
      /\ UNCHANGED accepted /\ UNCHANGED evicted /\ UNCHANGED dropped /\ UNCHANGED faults
  BY PcFacts DEF SaveKept, OutInv, history
<1>2. /\ queue' = keep[d] /\ queue' \in Seq(MirrorAction) /\ Ids(queue') \subseteq Ids(queue)
      /\ Elems(letters[d]) \subseteq Ids(queue) /\ Elems(letters[d]) \cap Ids(queue') = {}
      /\ QueueOK'
  BY SaveKeptFacts
<1>3. Holds(d) /\ \A e \in Drains : pc[e] \in Critical => e = d
  BY <1>1, OnlyDrain DEF Critical
<1>4. /\ keep' \in [Drains -> Seq(MirrorAction)] /\ \A e \in Drains \ {d} : keep'[e] = keep[e]
      /\ keep'[d] = <<>>
  <2>1. <<>> \in Seq(MirrorAction)
    OBVIOUS
  <2> QED BY <1>1, <2>1 DEF TypeOK
<1>5. PICK at \in {"idle", "deadLoad"} :
        /\ Goes(d, at) /\ Fits(d, at) /\ Locked' /\ lock' \in Seq(Procs)
        /\ at = "idle" => letters[d] = <<>>
  <2>1. CASE letters[d] = <<>>
    <3>1. Leave(d, "idle") /\ Goes(d, "idle") /\ Fits(d, "idle") /\ "idle" \notin InLock
      BY <2>1, PcFacts DEF SaveKept, Leave, Goes, Fits, DrainAt
    <3>2. Locked' /\ lock' \in Seq(Procs)
      BY <1>1, <1>3, <3>1, LeaveKeeps
    <3> QED BY <2>1, <3>1, <3>2
  <2>2. CASE letters[d] # <<>>
    <3>1. Goes(d, "deadLoad") /\ Fits(d, "deadLoad") /\ lock' = lock
      BY <2>2 DEF SaveKept, Goes, Fits, DrainAt, InDrain
    <3>2. pc[d] \in InLock /\ "deadLoad" \in InLock
      BY <1>1 DEF InLock, InDrain
    <3>3. Locked' /\ lock' \in Seq(Procs)
      BY <1>1, <1>3, <3>1, <3>2, HoldKeeps DEF TypeOK
    <3>4. "deadLoad" # "idle"
      OBVIOUS
    <3> QED BY <3>1, <3>3, <3>4
  <2> QED BY <2>1, <2>2
<1>6. pc'[d] = at
  BY <1>1, <1>5, GoesFacts
<1>7. Elems(letters[d]) \subseteq Elems(accepted) /\ Elems(letters[d]) \cap Elems(dead) = {}
  BY <1>1, <1>2 DEF QueueOK, InOrder
<1>8. DrainKnows(d)'
  BY <1>1, <1>2, <1>4, <1>5, <1>6, <1>7 DEF DrainKnows, Buried
<1>9. \A a \in Changes : Left(a) => Left(a)'
  <2> SUFFICES ASSUME NEW a \in Changes, Left(a) PROVE a \notin Ids(queue')
    BY DEF Left
  <2>1. CASE a \notin Ids(queue)
    BY <1>2, <2>1
  <2>2. CASE \E e \in Drains : pc[e] = "loop" /\ a \notin Ids(keep[e]) \cup Ids(snap[e])
    <3>1. a \notin Ids(keep[d])
      BY <1>3, <2>2 DEF Critical
    <3> QED BY <1>2, <3>1
  <2> QED BY <2>1, <2>2 DEF Left
<1>10. Counted'
  BY <1>1, <1>5, <1>9, DrainCounts
<1> QED BY <1>1, <1>2, <1>3, <1>4, <1>5, <1>8, <1>10, DrainMoves DEF TypeOK

\* A drain that is not at work on the queue changes nothing that has left it.
LEMMA LeftStays ==
  ASSUME OutInv, NEW d \in Drains, pc[d] \in Critical, pc[d] # "loop", UNCHANGED queue
  PROVE  \A a \in Changes : Left(a) => Left(a)'
<1>1. \A e \in Drains : pc[e] # "loop"
  BY OnlyDrain DEF Critical
<1> QED BY <1>1 DEF Left

LEMMA LoadDeadLettersKeeps ==
  ASSUME OutInv, NEW d \in Drains, LoadDeadLetters(d)
  PROVE  OutInv'
<1>1. /\ pc[d] = "deadLoad" /\ d \in Procs /\ TypeOK /\ Locked /\ QueueOK /\ DrainKnows(d)
      /\ tomb' = [tomb EXCEPT ![d] = dead] /\ Goes(d, "deadSave")
      /\ UNCHANGED queue /\ UNCHANGED dead /\ UNCHANGED lock /\ UNCHANGED snap /\ UNCHANGED keep
      /\ UNCHANGED letters /\ UNCHANGED effects /\ UNCHANGED accepted /\ UNCHANGED evicted /\ UNCHANGED dropped
      /\ UNCHANGED faults
  BY PcFacts DEF LoadDeadLetters, OutInv, Drainers, stored, history, Goes
<1>2. Holds(d) /\ pc[d] \in Critical /\ pc[d] # "loop"
  BY <1>1, OnlyDrain DEF Critical, Buried
<1>3. Fits(d, "deadSave") /\ pc[d] \in InLock /\ "deadSave" \in InLock
  BY <1>1 DEF Fits, DrainAt, InDrain, InLock
<1>4. Locked'
  BY <1>1, <1>2, <1>3, HoldKeeps
<1>5. pc'[d] = "deadSave"
  BY <1>1, <1>3, GoesFacts
<1>6. /\ tomb' \in [Drains -> Seq(Changes)] /\ \A e \in Drains \ {d} : tomb'[e] = tomb[e]
      /\ tomb'[d] = dead
  BY <1>1 DEF TypeOK
<1>7. QueueOK'
  BY <1>1 DEF QueueOK
<1>8. DrainKnows(d)'
  BY <1>1, <1>5, <1>6 DEF DrainKnows, Buried
<1>9. \A a \in Changes : Left(a) => Left(a)'
  BY <1>1, <1>2, LeftStays
<1>10. Counted'
  BY <1>1, <1>3, <1>9, DrainCounts
<1> QED BY <1>1, <1>2, <1>3, <1>4, <1>6, <1>7, <1>8, <1>10, DrainMoves DEF TypeOK

\* The dead letters that are saved: the old ones and the drain's, but for the oldest.
LEMMA SaveDeadFacts ==
  ASSUME OutInv, NEW d \in Drains, SaveDeadLetters(d)
  PROVE  LET all == Elems(dead) \cup Elems(letters[d])
         IN  /\ dead' \in Seq(Changes) /\ Elems(dead') \subseteq all
             /\ evicted' = evicted \cup (all \ Elems(dead')) /\ evicted' \in SUBSET Changes
             /\ QueueOK'
<1> DEFINE both == dead \o letters[d]
<1>1. /\ pc[d] = "deadSave" /\ DrainKnows(d) /\ QueueOK /\ TypeOK /\ queue' = queue /\ accepted' = accepted
      /\ dead \in Seq(Changes) /\ letters[d] \in Seq(Changes)
  BY DEF SaveDeadLetters, OutInv, Drainers, TypeOK
<1>2. /\ dead' = Newest(both, DeadCapacity) /\ evicted' = evicted \cup (Elems(both) \ Elems(dead'))
  BY <1>1 DEF SaveDeadLetters, DrainKnows
<1>3. both \in Seq(Changes) /\ Elems(both) = Elems(dead) \cup Elems(letters[d])
  BY <1>1, ElemsFacts, ConcatProperties
<1> HIDE DEF both
<1>4. dead' \in Seq(Changes) /\ Elems(dead') \subseteq Elems(both)
  BY <1>2, <1>3, ItemFacts, NewestElems
<1>5. Elems(both) \subseteq Changes
  BY <1>3, ElemsFacts
<1>6. evicted' \in SUBSET Changes
  BY <1>1, <1>2, <1>5 DEF TypeOK
<1>7. Elems(letters[d]) \subseteq Elems(accepted) /\ Elems(letters[d]) \cap Ids(queue) = {}
  BY <1>1 DEF DrainKnows, Buried
<1>8. Elems(dead') \subseteq Elems(accepted) /\ Elems(dead') \cap Ids(queue) = {}
  BY <1>1, <1>3, <1>4, <1>7 DEF QueueOK
<1>9. QueueOK'
  BY <1>1, <1>8 DEF QueueOK
<1> QED BY <1>2, <1>3, <1>4, <1>6, <1>9

LEMMA SaveDeadLettersKeeps ==
  ASSUME OutInv, NEW d \in Drains, SaveDeadLetters(d)
  PROVE  OutInv'
<1>1. /\ pc[d] = "deadSave" /\ d \in Procs /\ TypeOK /\ Locked
      /\ Leave(d, "idle") /\ ForgetDrain(d)
      /\ UNCHANGED queue /\ UNCHANGED effects /\ UNCHANGED accepted /\ UNCHANGED dropped /\ UNCHANGED faults
  BY PcFacts DEF SaveDeadLetters, OutInv
<1>2. Holds(d) /\ pc[d] \in Critical /\ pc[d] # "loop"
  BY <1>1, OnlyDrain DEF Critical, Buried
<1>3. dead' \in Seq(Changes) /\ evicted' \in SUBSET Changes /\ QueueOK'
  BY SaveDeadFacts
<1>4. Fits(d, "idle") /\ Goes(d, "idle") /\ "idle" \notin InLock
  BY <1>1, PcFacts DEF Fits, DrainAt, Leave, Goes
<1>5. Locked' /\ lock' \in Seq(Procs)
  BY <1>1, <1>2, <1>4, LeaveKeeps
<1>6. pc'[d] = "idle"
  BY <1>1, <1>4, GoesFacts
<1>7. DrainKnows(d)'
  BY <1>1, <1>6, ForgetFacts DEF DrainKnows, Buried
<1>8. \A a \in Changes : Left(a) => Left(a)'
  BY <1>1, <1>2, LeftStays
<1>9. Counted'
  BY <1>1, <1>4, <1>8, DrainCounts
<1> QED BY <1>1, <1>2, <1>3, <1>4, <1>5, <1>7, <1>9, ForgetFacts, DrainMoves DEF TypeOK

LEMMA DrainRejectsKeeps ==
  ASSUME OutInv, NEW d \in Drains, DrainRejects(d)
  PROVE  OutInv'
<1>1. /\ d \in Procs /\ TypeOK /\ Locked /\ QueueOK /\ Leave(d, "idle") /\ ForgetDrain(d)
      /\ faults' = [faults EXCEPT !.store = @ + 1]
      /\ UNCHANGED queue /\ UNCHANGED dead /\ UNCHANGED effects /\ UNCHANGED accepted /\ UNCHANGED evicted
  BY PcFacts DEF DrainRejects, OutInv, stored
<1>2. Holds(d)
  BY OnlyDrain DEF DrainRejects, Critical
<1>3. /\ faults' \in [{"crash", "store", "answer"} -> Nat] /\ faults'.store # 0
  BY <1>1, StoreFault
<1>4. dropped' \in SUBSET Changes
  <2>1. Elems(letters[d]) \subseteq Changes /\ dropped \subseteq Changes
    BY <1>1, ElemsFacts DEF TypeOK
  <2> QED BY <2>1 DEF DrainRejects
<1>5. Fits(d, "idle") /\ Goes(d, "idle") /\ "idle" \notin InLock
  BY <1>1, PcFacts DEF Fits, DrainAt, Leave, Goes
<1>6. Locked' /\ lock' \in Seq(Procs)
  BY <1>1, <1>2, <1>5, LeaveKeeps
<1>7. pc'[d] = "idle"
  BY <1>1, <1>5, GoesFacts
<1>8. DrainKnows(d)'
  BY <1>1, <1>7, ForgetFacts DEF DrainKnows, Buried
<1>9. QueueOK'
  BY <1>1 DEF QueueOK
<1>10. Counted'
  BY <1>3 DEF Counted
<1> QED BY <1>1, <1>2, <1>3, <1>4, <1>5, <1>6, <1>8, <1>9, <1>10, ForgetFacts, DrainMoves DEF TypeOK

-----------------------------------------------------------------------------
(* A crash, and the invariant.                                              *)

LEMMA CrashKeeps ==
  ASSUME OutInv, Crash
  PROVE  OutInv'
<1>1. /\ TypeOK /\ Locked /\ QueueOK
      /\ UNCHANGED queue /\ UNCHANGED dead /\ UNCHANGED effects /\ UNCHANGED accepted /\ UNCHANGED evicted
      /\ lock' = <<>> /\ pc' = [p \in Procs |-> IF p \in Drains \/ pc[p] = "idle" THEN "idle" ELSE "done"]
      /\ snap' = [p \in Procs |-> <<>>] /\ keep' = [d \in Drains |-> <<>>]
      /\ letters' = [d \in Drains |-> <<>>] /\ tomb' = [d \in Drains |-> <<>>]
  BY DEF Crash, OutInv, stored
<1>2. /\ \A a \in Changes : pc'[a] \in {"idle", "done"} /\ (pc'[a] = "idle" => pc[a] = "idle")
      /\ \A d \in Drains : pc'[d] = "idle" /\ keep'[d] = <<>> /\ letters'[d] = <<>>
  BY <1>1, PcFacts
<1>3. faults' \in [{"crash", "store", "answer"} -> Nat] /\ faults'.crash # 0
  <2> DEFINE n == faults.crash + 1
  <2>1. faults \in [{"crash", "store", "answer"} -> Nat] /\ faults.crash \in Nat
    BY <1>1 DEF TypeOK
  <2>2. faults' = [faults EXCEPT !.crash = n] /\ n \in Nat /\ n # 0
    BY <2>1 DEF Crash
  <2> HIDE DEF n
  <2> QED BY <2>1, <2>2
<1>4. dropped' \in SUBSET Changes
  <2>1. \A d \in Drains : Elems(letters[d]) \subseteq Changes
    BY <1>1, ElemsFacts DEF TypeOK
  <2> QED BY <1>1, <2>1 DEF Crash, TypeOK
<1>5. TypeOK'
  <2>1. <<>> \in Seq(MirrorAction) /\ <<>> \in Seq(Changes) /\ <<>> \in Seq(Procs)
    OBVIOUS
  <2>2. /\ pc' \in [Procs -> {"idle", "deliver", "done"} \cup InEnqueue \cup InRemove \cup InDrain]
        /\ snap' \in [Procs -> Seq(MirrorAction)] /\ keep' \in [Drains -> Seq(MirrorAction)]
        /\ letters' \in [Drains -> Seq(Changes)] /\ tomb' \in [Drains -> Seq(Changes)]
    BY <1>1, <2>1
  <2> QED BY <1>1, <1>3, <1>4, <2>1, <2>2 DEF TypeOK
<1>6. Locked'
  <2>1. \A p \in Procs : pc'[p] \in {"idle", "done"}
    BY <1>2, PcFacts
  <2>2. \A p \in Procs : pc'[p] \notin InLock
    BY <2>1, PcFacts
  <2>3. DOMAIN lock' = {}
    BY <1>1
  <2>4. \A a \in Changes : pc'[a] \in HandlerAt
    BY <1>2 DEF HandlerAt
  <2>5. \A d \in Drains : pc'[d] \in DrainAt
    BY <1>2 DEF DrainAt
  <2> QED BY <2>2, <2>3, <2>4, <2>5, PcFacts DEF Locked
<1>7. QueueOK'
  BY <1>1 DEF QueueOK
<1>8. Handlers'
  BY <1>1, <1>2 DEF OutInv, Handlers, HandlerKnows, InEnqueue, InRemove
<1>9. Drainers'
  BY <1>2 DEF Drainers, DrainKnows, Buried
<1>10. Counted'
  BY <1>3 DEF Counted
<1> QED BY <1>5, <1>6, <1>7, <1>8, <1>9, <1>10 DEF OutInv

LEMMA OutStart ==
  ASSUME Init
  PROVE  OutInv
<1>1. <<>> \in Seq(MirrorAction) /\ <<>> \in Seq(Changes) /\ <<>> \in Seq(Procs) /\ DOMAIN <<>> = {} /\ Len(<<>>) = 0
  OBVIOUS
<1>2. TypeOK
  BY <1>1 DEF Init, TypeOK
<1>3. \A p \in Procs : pc[p] = "idle"
  BY DEF Init
<1>4. Locked
  BY <1>1, <1>3, PcFacts DEF Init, Locked, HandlerAt, DrainAt
<1>5. QueueOK
  BY <1>1, ItemFacts, IdsFacts, ElemsFacts DEF Init, QueueOK, Distinct, InOrder
<1>6. Handlers
  BY <1>3, PcFacts, ElemsFacts DEF Init, Handlers, HandlerKnows, InEnqueue, InRemove
<1>7. Drainers
  BY <1>3, PcFacts DEF Init, Drainers, DrainKnows, Buried
<1>8. Counted
  <2> SUFFICES ASSUME NEW a \in Changes
               PROVE  effects[a] <= faults.answer + Once(pc[a] \in InRemove \cup {"done"}) + Once(Left(a))
    BY DEF Counted
  <2>1. effects[a] = 0 /\ faults.answer = 0
    BY DEF Init
  <2>2. Once(pc[a] \in InRemove \cup {"done"}) \in Nat /\ Once(Left(a)) \in Nat
    BY OnceFacts
  <2> QED BY <2>1, <2>2
<1> QED BY <1>2, <1>4, <1>5, <1>6, <1>7, <1>8 DEF OutInv

LEMMA OutNext ==
  ASSUME OutInv, [Next]_vars
  PROVE  OutInv'
<1>1. ASSUME NEW a \in Changes, Handle(a) \/ HandleStep(a) \/ HandleRejects(a) PROVE OutInv'
  BY <1>1, HandleKeeps, LoadQueueKeeps, SaveEnqueuedKeeps, DeliverInlineKeeps, SaveRemovedKeeps,
     HandleRejectsKeeps DEF HandleStep
<1>2. ASSUME NEW d \in Drains, DrainStep(d) \/ DrainRejects(d) PROVE OutInv'
  BY <1>2, StartDrainKeeps, LoadForDrainKeeps, KeepItemKeeps, AttemptItemKeeps, SaveKeptKeeps,
     LoadDeadLettersKeeps, SaveDeadLettersKeeps, DrainRejectsKeeps DEF DrainStep
<1>3. CASE UNCHANGED vars
  BY <1>3 DEF vars, stored, locals, history, OutInv, TypeOK, Locked, Holds, QueueOK, Handlers, HandlerKnows,
     Drainers, DrainKnows, Draining, Sent, Counted, Left
<1> QED BY <1>1, <1>2, <1>3, CrashKeeps DEF Next

-----------------------------------------------------------------------------
(* The outbox that the queue, the dead letters and the drains implement.    *)

Letters == {a \in Changes : Burying(a)}

LEMMA LettersFacts ==
  ASSUME OutInv
  PROVE  /\ \A p \in Procs : Holds(p) /\ p \notin Drains => Letters = {}
         /\ \A d \in Drains : pc[d] = "loop" \/ (pc[d] = "load" /\ Holds(d)) => Letters = {}
         /\ \A d \in Drains : pc[d] \in Buried => Letters = Elems(letters[d])
         /\ Letters \cap (Ids(queue) \cup Elems(dead)) = {}
         /\ Letters = UNION {Elems(letters[d]) : d \in {x \in Drains : pc[x] \in Buried}}
<1>1. \A d \in Drains : d \in Procs /\ Elems(letters[d]) \subseteq Changes /\ (pc[d] \in Buried => pc[d] \in Critical)
  BY PcFacts, ElemsFacts DEF OutInv, TypeOK, Critical
<1>2. \A d \in Drains : pc[d] \in Buried => Elems(letters[d]) \cap (Ids(queue) \cup Elems(dead)) = {}
  BY DEF OutInv, Drainers, DrainKnows
<1>3. \A p \in Procs : Holds(p) => \A d \in Drains : pc[d] \in Buried => d = p
  BY <1>1, OnlyHolder DEF OutInv
<1>4. \A p \in Procs : Holds(p) /\ p \notin Drains => Letters = {}
  BY <1>3 DEF Letters, Burying
<1>5. \A d \in Drains : pc[d] = "loop" \/ (pc[d] = "load" /\ Holds(d)) => Letters = {}
  <2> SUFFICES ASSUME NEW d \in Drains, pc[d] = "loop" \/ (pc[d] = "load" /\ Holds(d)), NEW e \in Drains
               PROVE  pc[e] \notin Buried
    BY DEF Letters, Burying
  <2>1. Holds(d) /\ pc[d] \notin Buried
    BY OnlyDrain DEF Critical, Buried
  <2> QED BY <1>1, <1>3, <2>1
<1>6. \A d \in Drains : pc[d] \in Buried => Letters = Elems(letters[d])
  <2> SUFFICES ASSUME NEW d \in Drains, pc[d] \in Buried PROVE Letters = Elems(letters[d])
    OBVIOUS
  <2>1. \A e \in Drains : pc[e] \in Buried => e = d
    BY <1>1, OnlyDrain
  <2> QED BY <1>1, <2>1 DEF Letters, Burying
<1>7. Letters \cap (Ids(queue) \cup Elems(dead)) = {}
  BY <1>2 DEF Letters, Burying
<1>8. Letters = UNION {Elems(letters[d]) : d \in {x \in Drains : pc[x] \in Buried}}
  BY <1>1 DEF Letters, Burying
<1> QED BY <1>4, <1>5, <1>6, <1>7, <1>8

\* Nothing that the outbox shows has changed.
LEMMA OutboxStays ==
  ASSUME UNCHANGED <<queue, dead, effects, accepted, evicted, dropped>>,
         \A d \in Drains : pc'[d] \in Buried <=> pc[d] \in Buried,
         \A d \in Drains : pc[d] \in Buried => letters'[d] = letters[d]
  PROVE  UNCHANGED Promise!vars
<1>1. \A a : Burying(a)' <=> Burying(a)
  BY DEF Burying
<1>2. Pending' = Pending
  BY <1>1 DEF Pending
<1> QED BY <1>2 DEF Promise!vars

\* Where only p goes, and no drain starts or stops burying.
LEMMA NoBurial ==
  ASSUME TypeOK, Locked, NEW p \in Procs, NEW at, Fits(p, at), Goes(p, at),
         pc[p] \notin Buried, at \notin Buried
  PROVE  \A d \in Drains : (pc'[d] \in Buried <=> pc[d] \in Buried) /\ (pc[d] \in Buried => d # p)
<1>1. pc'[p] = at /\ \A q \in Procs \ {p} : pc'[q] = pc[q]
  BY GoesFacts
<1> QED BY <1>1, PcFacts

\* A request is carried out, or nothing is to be seen.
LEMMA OutboxSends ==
  ASSUME TypeOK, NEW a \in Changes, NEW ok, Request(a, ok), a \in Elems(accepted),
         UNCHANGED <<queue, dead, accepted, evicted, dropped>>,
         \A d \in Drains : pc'[d] \in Buried <=> pc[d] \in Buried,
         \A d \in Drains : pc[d] \in Buried => letters'[d] = letters[d]
  PROVE  [Promise!Next]_(Promise!vars)
<1>1. CASE UNCHANGED effects
  BY <1>1, OutboxStays
<1>2. CASE effects' = [effects EXCEPT ![a] = @ + 1]
  <2>1. \A b : Burying(b)' <=> Burying(b)
    BY DEF Burying
  <2>2. Pending' = Pending
    BY <2>1 DEF Pending
  <2>3. Sent' = Sent \cup {a}
    <3> DEFINE n == effects[a] + 1
    <3>1. effects' = [effects EXCEPT ![a] = n] /\ n > 0 /\ effects \in [Changes -> Nat]
      BY <1>2 DEF TypeOK
    <3> HIDE DEF n
    <3>2. effects'[a] > 0 /\ \A b \in Changes \ {a} : effects'[b] = effects[b]
      BY <3>1
    <3> QED BY <3>2 DEF Sent
  <2>4. Promise!Send(a)
    BY <2>2, <2>3 DEF Promise!Send, Sent
  <2> QED BY <2>4 DEF Promise!Next
<1> QED BY <1>1, <1>2 DEF Request

\* A drain that ends while it holds the lock leaves nobody burying.
LEMMA NoLetters ==
  ASSUME OutInv, NEW d \in Drains, pc[d] \in Buried, Leave(d, "idle")
  PROVE  Letters' = {}
<1>1. pc'[d] = "idle" /\ \A e \in Drains : e # d => pc'[e] = pc[e]
  <2>1. TypeOK /\ Locked /\ d \in Procs /\ Fits(d, "idle") /\ Goes(d, "idle")
    BY PcFacts DEF OutInv, Fits, DrainAt, Leave, Goes
  <2> QED BY <2>1, GoesFacts, PcFacts
<1>2. \A e \in Drains : pc[e] \in Buried => e = d
  BY OnlyDrain DEF Critical
<1>3. \A e \in Drains : pc'[e] \notin Buried
  BY <1>1, <1>2 DEF Buried
<1> QED BY <1>3 DEF Letters, Burying

LEMMA OutboxHandler ==
  ASSUME OutInv, NEW a \in Changes, Handle(a) \/ HandleStep(a) \/ HandleRejects(a)
  PROVE  [Promise!Next]_(Promise!vars)
<1>1. /\ a \in Procs /\ a \notin Drains /\ TypeOK /\ Locked /\ HandlerKnows(a) /\ pc[a] \in HandlerAt
      /\ "idle" \notin Buried /\ pc[a] \notin Buried
  BY PcFacts DEF OutInv, Handlers, Locked, Buried, HandlerAt, InEnqueue, InRemove
<1>2. \A at \in HandlerAt : Goes(a, at) =>
        \A d \in Drains : pc'[d] \in Buried <=> pc[d] \in Buried
  <2>1. \A at \in HandlerAt : Fits(a, at) /\ at \notin Buried
    BY DEF Fits, HandlerAt, InEnqueue, InRemove, Buried
  <2> QED BY <1>1, <2>1, NoBurial
<1>3. CASE Handle(a) \/ LoadQueue(a) \/ HandleRejects(a)
  <2>1. PICK at \in HandlerAt : Goes(a, at)
    BY <1>3 DEF Handle, LoadQueue, HandleRejects, Enter, Leave, Goes, HandlerAt, InEnqueue, InRemove
  <2>2. UNCHANGED <<queue, dead, effects, accepted, evicted, dropped>> /\ UNCHANGED letters
    BY <1>3 DEF Handle, LoadQueue, HandleRejects, stored, history
  <2> QED BY <1>2, <2>1, <2>2, OutboxStays
<1>4. CASE SaveEnqueued(a)
  <2> DEFINE gone == (Ids(queue) \cup {a}) \ Ids(queue')
  <2>1. /\ a \notin Elems(accepted) /\ a \in Ids(queue') /\ Ids(queue') \subseteq Ids(queue) \cup {a}
        /\ evicted' = evicted \cup gone /\ accepted' = Append(accepted, a)
    BY <1>4, EnqueuedFacts
  <2>2. Elems(accepted') = Elems(accepted) \cup {a}
    BY <1>1, <2>1, ElemsFacts DEF TypeOK
  <2>3. Holds(a) /\ Goes(a, "deliver") /\ "deliver" \in HandlerAt
    BY <1>1, <1>4 DEF SaveEnqueued, Locked, Critical, Leave, Goes, HandlerAt
  <2>4. Letters = {} /\ Letters' = {}
    <3>1. Letters = {}
      BY <1>1, <2>3, LettersFacts
    <3>2. letters' = letters
      BY <1>4 DEF SaveEnqueued
    <3> QED BY <1>2, <2>3, <3>1, <3>2 DEF Letters, Burying
  <2>5. Pending = Ids(queue) /\ Pending' = Ids(queue')
    BY <2>4 DEF Pending, Letters
  <2>6. UNCHANGED dead /\ UNCHANGED effects /\ UNCHANGED dropped
    BY <1>4 DEF SaveEnqueued
  <2>7. gone \in SUBSET Pending /\ Pending' = (Pending \cup {a}) \ gone
    BY <2>1, <2>5
  <2>8. Promise!Accept(a, gone)
    BY <2>1, <2>2, <2>6, <2>7 DEF Promise!Accept
  <2> QED BY <2>7, <2>8 DEF Promise!Next
<1>5. CASE DeliverInline(a)
  <2>1. PICK ok, at : Request(a, ok) /\ at \in HandlerAt /\ Goes(a, at)
    <3>1. CASE Request(a, TRUE) /\ Enter(a, "rmLoad")
      <4>1. Goes(a, "rmLoad") /\ "rmLoad" \in HandlerAt
        BY <3>1 DEF Enter, Goes, HandlerAt, InRemove
      <4> QED BY <3>1, <4>1
    <3>2. CASE Request(a, FALSE) /\ pc' = [pc EXCEPT ![a] = "done"]
      <4>1. Goes(a, "done") /\ "done" \in HandlerAt
        BY <3>2 DEF Goes, HandlerAt
      <4> QED BY <3>2, <4>1
    <3> QED BY <1>5, <3>1, <3>2 DEF DeliverInline
  <2>2. UNCHANGED <<queue, dead, accepted, evicted, dropped>> /\ UNCHANGED letters
    BY <1>5 DEF DeliverInline, stored, history
  <2>3. a \in Elems(accepted)
    BY <1>1, <1>5 DEF HandlerKnows, DeliverInline
  <2> QED BY <1>1, <1>2, <2>1, <2>2, <2>3, OutboxSends
<1>6. CASE SaveRemoved(a)
  <2> DEFINE gone == {a} \cap Ids(queue)
  <2>1. Ids(queue') = Ids(queue) \ {a} /\ a \in Sent
    BY <1>6, RemovedFacts
  <2>2. Holds(a) /\ Goes(a, "done") /\ "done" \in HandlerAt
    BY <1>1, <1>6 DEF SaveRemoved, Locked, Critical, Leave, Goes, HandlerAt
  <2>3. Letters = {} /\ Letters' = {}
    <3>1. Letters = {}
      BY <1>1, <2>2, LettersFacts
    <3>2. letters' = letters
      BY <1>6 DEF SaveRemoved
    <3> QED BY <1>2, <2>2, <3>1, <3>2 DEF Letters, Burying
  <2>4. Pending = Ids(queue) /\ Pending' = Ids(queue')
    BY <2>3 DEF Pending, Letters
  <2>5. UNCHANGED dead /\ UNCHANGED effects /\ UNCHANGED accepted /\ UNCHANGED evicted /\ UNCHANGED dropped
    BY <1>6 DEF SaveRemoved, history
  <2>6. gone \in SUBSET Pending /\ gone \subseteq Sent /\ Pending' = Pending \ gone
    BY <2>1, <2>4
  <2>7. Promise!Settle(gone, {}, {})
    BY <2>5, <2>6 DEF Promise!Settle, Sent
  <2> QED BY <2>6, <2>7 DEF Promise!Next
<1> QED BY <1>3, <1>4, <1>5, <1>6 DEF HandleStep

LEMMA OutboxDrain ==
  ASSUME OutInv, NEW d \in Drains, DrainStep(d) \/ DrainRejects(d)
  PROVE  [Promise!Next]_(Promise!vars)
<1>1. d \in Procs /\ TypeOK /\ Locked
  BY PcFacts DEF OutInv
<1>2. \A at \in DrainAt : Goes(d, at) => pc'[d] = at /\ \A e \in Drains : e # d => pc'[e] = pc[e]
  BY <1>1, GoesFacts, PcFacts DEF Fits
<1>3. CASE StartDrain(d) \/ LoadForDrain(d) \/ LoadDeadLetters(d)
  <2>1. PICK at \in DrainAt : Goes(d, at) /\ (at \in Buried <=> pc[d] \in Buried)
    BY <1>3 DEF StartDrain, LoadForDrain, LoadDeadLetters, Enter, Goes, DrainAt, InDrain, Buried
  <2>2. UNCHANGED <<queue, dead, effects, accepted, evicted, dropped>> /\ UNCHANGED letters
    BY <1>3 DEF StartDrain, LoadForDrain, LoadDeadLetters, stored, history
  <2>3. \A e \in Drains : pc'[e] \in Buried <=> pc[e] \in Buried
    BY <1>2, <2>1
  <2> QED BY <2>2, <2>3, OutboxStays
<1>4. CASE KeepItem(d)
  <2>1. UNCHANGED <<queue, dead, effects, accepted, evicted, dropped>> /\ UNCHANGED letters /\ UNCHANGED pc
    BY <1>4 DEF KeepItem, stored, history
  <2> QED BY <2>1, OutboxStays
<1>5. CASE AttemptItem(d)
  <2> DEFINE a == Head(snap[d]).id
  <2>1. pc[d] = "loop" /\ a \in Changes /\ a \in Elems(accepted)
    BY <1>5, HeadItem, ItemFacts DEF AttemptItem
  <2>2. PICK ok : Request(a, ok)
    BY <1>5 DEF AttemptItem
  <2>3. UNCHANGED <<queue, dead, accepted, evicted, dropped>> /\ UNCHANGED pc
    BY <1>5 DEF AttemptItem, stored, history
  <2>4. \A e \in Drains : pc[e] \in Buried => letters'[e] = letters[e]
    <3>1. \A e \in Drains : pc[e] \in Buried => e # d
      BY <2>1 DEF Buried
    <3>2. \A e \in Drains : e # d => letters'[e] = letters[e]
      BY <1>1, <1>5 DEF AttemptItem, TypeOK
    <3> QED BY <3>1, <3>2
  <2> HIDE DEF a
  <2> QED BY <1>1, <2>1, <2>2, <2>3, <2>4, OutboxSends
<1>6. CASE SaveKept(d)
  <2> DEFINE L == Elems(letters[d])
             gone == Ids(queue) \ (Ids(queue') \cup L)
  <2>1. /\ Ids(queue') \subseteq Ids(queue) /\ L \subseteq Ids(queue)
        /\ Ids(queue) \subseteq Ids(queue') \cup L \cup Sent
    BY <1>6, SaveKeptFacts
  <2>2. Letters = {} /\ L \subseteq Changes
    BY <1>1, <1>6, LettersFacts, ElemsFacts DEF SaveKept, TypeOK
  <2>3. Letters' = L
    <3>1. letters' = letters
      BY <1>6 DEF SaveKept
    <3>2. \A e \in Drains : pc[e] \in Buried => Elems(letters[e]) = {}
      BY <1>1, <2>2, ElemsFacts DEF Letters, Burying, TypeOK
    <3>3. CASE letters[d] = <<>>
      <4>1. pc'[d] = "idle" /\ \A e \in Drains : e # d => pc'[e] = pc[e]
        BY <1>2, <1>6, <3>3 DEF SaveKept, Leave, Goes, DrainAt
      <4>2. L = {}
        BY <3>3, ElemsFacts
      <4>3. \A e \in Drains : pc'[e] \in Buried => Elems(letters'[e]) = {}
        BY <3>1, <3>2, <4>1 DEF Buried
      <4> QED BY <4>2, <4>3 DEF Letters, Burying
    <3>4. CASE letters[d] # <<>>
      <4>1. pc'[d] = "deadLoad" /\ \A e \in Drains : e # d => pc'[e] = pc[e]
        BY <1>2, <1>6, <3>4 DEF SaveKept, Goes, DrainAt, InDrain
      <4>2. \A e \in Drains : pc'[e] \in Buried /\ e # d => Elems(letters'[e]) = {}
        BY <3>1, <3>2, <4>1
      <4>3. pc'[d] \in Buried /\ Elems(letters'[d]) = L
        BY <3>1, <4>1 DEF Buried
      <4>4. Letters' \subseteq L
        BY <4>2, <4>3 DEF Letters, Burying
      <4>5. L \subseteq Letters'
        BY <2>2, <4>3 DEF Letters, Burying
      <4> QED BY <4>4, <4>5
    <3> QED BY <3>3, <3>4
  <2>4. Pending = Ids(queue) /\ Pending' = Ids(queue') \cup L
    BY <2>2, <2>3 DEF Pending, Letters
  <2>5. UNCHANGED dead /\ UNCHANGED effects /\ UNCHANGED accepted /\ UNCHANGED evicted /\ UNCHANGED dropped
    BY <1>6 DEF SaveKept, history
  <2>6. gone \in SUBSET Pending /\ gone \subseteq Sent /\ Pending' = Pending \ gone
    BY <2>1, <2>4
  <2>7. Promise!Settle(gone, {}, {})
    BY <2>5, <2>6 DEF Promise!Settle, Sent
  <2> QED BY <2>6, <2>7 DEF Promise!Next
<1>7. CASE SaveDeadLetters(d)
  <2> DEFINE L == Elems(letters[d])
             gone == (Elems(dead) \cup L) \ Elems(dead')
  <2>1. Elems(dead') \subseteq Elems(dead) \cup L /\ evicted' = evicted \cup gone
    BY <1>7, SaveDeadFacts
  <2>2. Letters = L /\ L \cap Ids(queue) = {} /\ Elems(dead) \cap Ids(queue) = {} /\ L \subseteq Changes
    BY <1>1, <1>7, LettersFacts, ElemsFacts DEF SaveDeadLetters, Buried, OutInv, QueueOK, TypeOK
  <2>3. Letters' = {}
    BY <1>7, NoLetters DEF SaveDeadLetters, Buried
  <2>4. /\ UNCHANGED queue /\ UNCHANGED effects /\ UNCHANGED accepted /\ UNCHANGED dropped
    BY <1>7 DEF SaveDeadLetters
  <2>5. Pending = Ids(queue) \cup L /\ Pending' = Ids(queue)
    BY <2>2, <2>3, <2>4 DEF Pending, Letters
  <2>6. /\ L \in SUBSET Pending /\ gone \in SUBSET (Pending \cup Elems(dead))
        /\ Pending' = Pending \ (L \cup gone) /\ Elems(dead') = (Elems(dead) \cup L) \ gone
    BY <2>1, <2>2, <2>5
  <2>7. Promise!Settle({}, L, gone)
    BY <2>1, <2>4, <2>6 DEF Promise!Settle
  <2> QED BY <2>6, <2>7 DEF Promise!Next
<1>8. CASE DrainRejects(d)
  <2>1. /\ UNCHANGED queue /\ UNCHANGED dead /\ UNCHANGED effects /\ UNCHANGED accepted /\ UNCHANGED evicted
        /\ Leave(d, "idle") /\ ForgetDrain(d)
    BY <1>8 DEF DrainRejects, stored
  <2>2. CASE pc[d] \in Buried
    <3> DEFINE L == Elems(letters[d])
    <3>1. Letters = L /\ L \cap (Ids(queue) \cup Elems(dead)) = {}
      BY <2>2, LettersFacts
    <3>2. Letters' = {} /\ dropped' = dropped \cup L
      BY <1>8, <2>1, <2>2, NoLetters DEF DrainRejects
    <3>3. Pending = Ids(queue) \cup L /\ Pending' = Ids(queue)
      BY <2>1, <3>1, <3>2 DEF Pending, Letters
    <3>4. L \in SUBSET Pending /\ Pending' = Pending \ L /\ Elems(dead) = Elems(dead) \ L
      BY <3>1, <3>3
    <3>5. Promise!Settle({}, {}, L)
      BY <2>1, <3>2, <3>4 DEF Promise!Settle
    <3> QED BY <3>4, <3>5 DEF Promise!Next
  <2>3. CASE pc[d] \notin Buried
    <3>1. UNCHANGED dropped
      BY <1>8, <2>3 DEF DrainRejects
    <3>2. pc'[d] = "idle" /\ \A e \in Drains : e # d => pc'[e] = pc[e]
      BY <1>2, <2>1 DEF Leave, Goes, DrainAt
    <3>3. \A e \in Drains : pc'[e] \in Buried <=> pc[e] \in Buried
      BY <2>3, <3>2 DEF Buried
    <3>4. \A e \in Drains : pc[e] \in Buried => letters'[e] = letters[e]
      BY <1>1, <2>1, <2>3, ForgetFacts
    <3> QED BY <2>1, <3>1, <3>3, <3>4, OutboxStays
  <2> QED BY <2>2, <2>3
<1> QED BY <1>3, <1>4, <1>5, <1>6, <1>7, <1>8 DEF DrainStep

LEMMA OutboxCrash ==
  ASSUME OutInv, Crash
  PROVE  [Promise!Next]_(Promise!vars)
<1>1. /\ UNCHANGED queue /\ UNCHANGED dead /\ UNCHANGED effects /\ UNCHANGED accepted /\ UNCHANGED evicted
      /\ dropped' = dropped \cup Letters
  BY LettersFacts DEF Crash, stored
<1>2. Letters \cap (Ids(queue) \cup Elems(dead)) = {}
  BY LettersFacts
<1>3. Letters' = {}
  <2>1. \A d \in Drains : pc'[d] = "idle"
    BY PcFacts DEF Crash
  <2> QED BY <2>1 DEF Letters, Burying, Buried
<1>4. Pending = Ids(queue) \cup Letters /\ Pending' = Ids(queue)
  BY <1>1, <1>3 DEF Pending, Letters
<1>5. Letters \in SUBSET Pending /\ Pending' = Pending \ Letters /\ Elems(dead) = Elems(dead) \ Letters
  BY <1>2, <1>4
<1>6. Promise!Settle({}, {}, Letters)
  BY <1>1, <1>5 DEF Promise!Settle
<1> QED BY <1>5, <1>6 DEF Promise!Next

LEMMA OutboxNext ==
  ASSUME OutInv, [Next]_vars
  PROVE  [Promise!Next]_(Promise!vars)
<1>1. CASE UNCHANGED vars
  <2>1. UNCHANGED <<queue, dead, effects, accepted, evicted, dropped>> /\ UNCHANGED pc /\ UNCHANGED letters
    BY <1>1 DEF vars, stored, locals, history
  <2> QED BY <2>1, OutboxStays
<1> QED BY <1>1, OutboxHandler, OutboxDrain, OutboxCrash DEF Next

LEMMA OutboxStart ==
  ASSUME Init
  PROVE  Promise!Init
<1>1. Letters = {}
  <2>1. \A d \in Drains : pc[d] = "idle"
    BY PcFacts DEF Init
  <2> QED BY <2>1 DEF Letters, Burying, Buried
<1>2. Elems(accepted) = {} /\ Elems(dead) = {} /\ Ids(queue) = {} /\ evicted \cup dropped = {}
  BY IdsFacts, ElemsFacts DEF Init
<1>3. {a \in Changes : effects[a] > 0} = {}
  BY DEF Init
<1>4. Pending = {}
  BY <1>1, <1>2 DEF Pending, Letters
<1> QED BY <1>2, <1>3, <1>4 DEF Promise!Init

\* An outbox keeps what it has accepted.
Conserved == Elems(accepted) \subseteq Pending \cup Sent \cup Elems(dead) \cup (evicted \cup dropped)

LEMMA ConservedStart ==
  ASSUME Promise!Init
  PROVE  Conserved
BY DEF Promise!Init, Conserved

LEMMA ConservedNext ==
  ASSUME Conserved, [Promise!Next]_(Promise!vars)
  PROVE  Conserved'
<1>1. ASSUME NEW a \in Changes, Promise!Send(a) PROVE Conserved'
  BY <1>1 DEF Promise!Send, Conserved, Sent
<1>2. ASSUME NEW a \in Changes, NEW gone \in SUBSET Pending, Promise!Accept(a, gone) PROVE Conserved'
  BY <1>2 DEF Promise!Accept, Conserved, Sent
<1>3. ASSUME NEW done \in SUBSET Pending, NEW buried \in SUBSET Pending,
             NEW gone \in SUBSET (Pending \cup Elems(dead)), Promise!Settle(done, buried, gone)
      PROVE  Conserved'
  BY <1>3 DEF Promise!Settle, Conserved, Sent
<1>4. CASE UNCHANGED Promise!vars
  BY <1>4 DEF Promise!vars, Conserved, Sent
<1> QED BY <1>1, <1>2, <1>3, <1>4 DEF Promise!Next

-----------------------------------------------------------------------------
(* The theorems.                                                            *)

\* The invariant of the proofs: the lock's discipline (runLocked), the queue in the
\* order of acceptance, what each handler and drain knows of the store while it
\* works, and the count of the executions (enqueue, remove, drain, handle).
THEOREM OutAlways == Spec => []OutInv
<1>1. Init => OutInv
  BY OutStart
<1>2. OutInv /\ [Next]_vars => OutInv'
  BY OutNext
<1> QED BY <1>1, <1>2, PTL DEF Spec

\* The queue, the dead letters, the lock and what the calls hold are of their types
\* whatever overlaps, crashes or rejects (the mirror's state and the state store).
THEOREM TypeCorrect == Spec => []TypeOK
<1>1. OutInv => TypeOK
  BY DEF OutInv
<1> QED BY <1>1, OutAlways, PTL

\* With the store healthy and no crash, no action is carried out more than twice,
\* plus once for each lost answer, however many drains overlap the handlers (drain
\* under the lock, handle outside of it).
THEOREM NeverThrice == Spec => []AtMostTwice
<1>1. OutInv => AtMostTwice
  <2> SUFFICES ASSUME OutInv, NEW a \in Changes, faults.crash = 0, faults.store = 0
               PROVE  effects[a] <= 2 + faults.answer
    BY DEF AtMostTwice
  <2> DEFINE m == Once(pc[a] \in InRemove \cup {"done"})
             n == Once(Left(a))
  <2>1. effects[a] <= faults.answer + m + n
    BY DEF OutInv, Counted
  <2>2. m \in Nat /\ m <= 1 /\ n \in Nat /\ n <= 1 /\ effects[a] \in Nat /\ faults.answer \in Nat
    BY OnceFacts DEF OutInv, TypeOK
  <2> HIDE DEF m, n
  <2> QED BY <2>1, <2>2
<1> QED BY <1>1, OutAlways, PTL

\* Handlers, drains, their lock and the store implement the outbox: every save is
\* an acceptance or a settlement, every execution is a sending, and every other
\* step changes nothing that the outbox shows (handle, enqueue, remove, drain).
THEOREM OutboxImplemented == Spec => ImplementsOutbox
<1>1. Init => Promise!Init
  BY OutboxStart
<1>2. OutInv /\ [Next]_vars => [Promise!Next]_(Promise!vars)
  BY OutboxNext
<1> QED BY <1>1, <1>2, OutAlways, PTL DEF Spec, ImplementsOutbox, Promise!Spec

\* The queue loses nothing it has accepted but by its capacity, a fault or a crash
\* between a drain's two saves, and holds each action once in the order of
\* acceptance (the queue's lock; save, remove, appendDeadLetters).
THEOREM QueueAlwaysSound == Spec => []QueueSound
<1>1. Init => Conserved
  BY OutboxStart, ConservedStart
<1>2. OutInv /\ Conserved /\ [Next]_vars => Conserved'
  BY OutboxNext, ConservedNext
<1>3. OutInv /\ Conserved => QueueSound
  <2> SUFFICES ASSUME OutInv, Conserved PROVE QueueSound
    OBVIOUS
  <2>1. NothingLost
    BY DEF Conserved, NothingLost, Kept, Pending, Sent
  <2>2. QueueInOrder
    <3> DEFINE at == [i \in DOMAIN queue |-> CHOOSE n \in DOMAIN accepted : accepted[n] = queue[i].id]
    <3>1. Distinct(accepted) /\ InOrder(accepted, queue)
      BY DEF OutInv, QueueOK
    <3>2. \A i \in DOMAIN queue : \E n \in DOMAIN accepted : accepted[n] = queue[i].id
      BY <3>1, IdsFacts, ElemsFacts DEF InOrder
    <3>3. at \in [DOMAIN queue -> DOMAIN accepted] /\ \A i \in DOMAIN queue : accepted[at[i]] = queue[i].id
      BY <3>2
    <3> HIDE DEF at
    <3>4. \A i, j \in DOMAIN queue : i < j => at[i] < at[j]
      BY <3>1, <3>3 DEF InOrder, Before, Distinct
    <3> QED BY <3>3, <3>4 DEF QueueInOrder
  <2> QED BY <2>1, <2>2 DEF QueueSound
<1> QED BY <1>1, <1>2, <1>3, OutAlways, PTL DEF Spec
=============================================================================
