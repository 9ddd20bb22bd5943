--------------------------- MODULE EscalationProofs ---------------------------
(***************************************************************************)
(* Proofs about Escalation, for any number of escalations, clicks and      *)
(* sweeps and any number of failures.                                      *)
(***************************************************************************)
EXTENDS Escalation, SequenceTheorems, FiniteSetTheorems, TLAPS

USE ConstantsAssumption

\* Types, roles and locks carry each other: Leave() takes the tail of a chain
\* only because the caller is at its head.
Base == TypeOK /\ Roles /\ Locked

LEMMA InitBase == Init => Base
  BY DEF Init, Base, TypeOK, Roles, Locked, Entry, NoEntry, Terminal, Procs, Calling,
         StoreSteps, Results, Call, NoCall

LEMMA AppendKeepsHead ==
  ASSUME NEW S, NEW s \in Seq(S), NEW x \in S
  PROVE  /\ Append(s, x) \in Seq(S)
         /\ Append(s, x) # <<>>
         /\ s # <<>> => Head(Append(s, x)) = Head(s)
  BY AppendProperties, HeadTailAppend

LEMMA TailType ==
  ASSUME NEW S, NEW s \in Seq(S), s # <<>>
  PROVE  Tail(s) \in Seq(S)
  BY HeadTailProperties

\* A process joins the chain of an id: what holds at the heads of chains still does.
LEMMA EnterBase ==
  ASSUME Base, NEW p \in Procs, NEW c \in Call, Enter(p, c),
         pc[p] \notin StoreSteps,
         p \in Escalations => c.op = "create" /\ c.id = p,
         p \in Clicks => /\ c.op \in {"close", "reopen"}
                         /\ c.to \in {"resolved", "dismissed"}
                         /\ c.blank \/ c.op = "reopen" => c.to = "resolved",
         p \in Sweeps => c.op \in {"close", "defer"} /\ c.to = "timed_out",
         UNCHANGED <<stored, indexChain, snap>>
  PROVE  /\ idChain' \in [Escalations -> Seq(Procs)]
         /\ pc' \in [Procs -> {"idle", "posted", "render", "reopen", "scan", "act", "done"}
                        \cup StoreSteps \cup Results]
         /\ call' \in [Procs -> Call \cup {NoCall}]
         /\ Roles' /\ Locked'
  <1> USE DEF Base, Enter, stored
  <1>1. c.id \in Escalations
    BY DEF Call
  <1>2. idChain' \in [Escalations -> Seq(Procs)]
    BY <1>1 DEF TypeOK
  <1>3. pc' \in [Procs -> {"idle", "posted", "render", "reopen", "scan", "act", "done"}
                        \cup StoreSteps \cup Results]
    BY DEF TypeOK, StoreSteps
  <1>4. call' \in [Procs -> Call \cup {NoCall}]
    BY DEF TypeOK
  <1>5. Roles'
    BY DEF TypeOK, Roles, Calling, StoreSteps, Results, Procs, Id
  <1>6. Locked'
    <2> SUFFICES ASSUME NEW q \in Procs, (pc[q] \in {"write", "index", "indexWrite"})'
                 PROVE  HoldsId(q)' /\ (pc'[q] = "indexWrite" => HoldsIndex(q)' /\ snap'[q] = index')
      BY DEF Locked
    <2>1. q # p /\ pc[q] \in {"write", "index", "indexWrite"}
      BY DEF TypeOK
    <2>2. call'[q] = call[q] /\ HoldsId(q)
      BY <2>1 DEF TypeOK, Locked
    <2>3. Id(q) \in Escalations
      BY <2>1 DEF Roles, Calling, StoreSteps, Id, Call
    <2>4. HoldsId(q)'
      <3>1. CASE Id(q) = c.id
        <4>1. idChain'[c.id] = Append(idChain[c.id], p)
          BY <1>1 DEF TypeOK
        <4>2. idChain[Id(q)] \in Seq(Procs) /\ idChain[Id(q)] # <<>> /\ Head(idChain[Id(q)]) = q
          BY <2>2, <2>3 DEF TypeOK, HoldsId
        <4>3. Append(idChain[Id(q)], p) # <<>> /\ Head(Append(idChain[Id(q)], p)) = q
          BY <4>2, AppendKeepsHead
        <4>4. Id(q)' = Id(q)
          BY <2>2 DEF Id
        <4> QED BY <3>1, <4>1, <4>3, <4>4 DEF HoldsId
      <3>2. CASE Id(q) # c.id
        BY <2>2, <2>3, <3>2 DEF TypeOK, HoldsId, Id
      <3> QED BY <3>1, <3>2
    <2> QED BY <2>1, <2>4 DEF Locked, HoldsIndex, TypeOK
  <1> QED BY <1>2, <1>3, <1>4, <1>5, <1>6

\* A process leaves the chain of its id: nobody else was inside, so nobody inside
\* is disturbed.
LEMMA LeaveBase ==
  ASSUME Base, NEW p \in Procs, pc[p] \in StoreSteps, HoldsId(p),
         NEW r \in Results, Leave(p, r), UNCHANGED call,
         \A q \in Procs \ {p} : pc[q] = "indexWrite" => HoldsIndex(q)' /\ snap'[q] = index'
  PROVE  /\ idChain' \in [Escalations -> Seq(Procs)]
         /\ pc' \in [Procs -> {"idle", "posted", "render", "reopen", "scan", "act", "done"}
                        \cup StoreSteps \cup Results]
         /\ Roles' /\ Locked'
  <1> USE DEF Base, Leave
  <1>1. Id(p) \in Escalations
    BY DEF Roles, Calling, Id, Call
  <1>2. idChain' \in [Escalations -> Seq(Procs)]
    <2>1. Tail(idChain[Id(p)]) \in Seq(Procs)
      BY <1>1, TailType DEF TypeOK, HoldsId
    <2> QED BY <1>1, <2>1 DEF TypeOK
  <1>3. pc' \in [Procs -> {"idle", "posted", "render", "reopen", "scan", "act", "done"}
                        \cup StoreSteps \cup Results]
    BY DEF TypeOK, Results
  <1>4. Roles'
    <2> SUFFICES ASSUME NEW q \in Procs, pc'[q] \in Calling
                 PROVE  pc[q] \in Calling /\ (pc'[q] \in {"render", "reopen"} => pc'[q] = pc[q])
      BY DEF Roles, Id
    <2> QED BY DEF TypeOK, Calling, StoreSteps, Results
  <1>5. Locked'
    <2> SUFFICES ASSUME NEW q \in Procs, pc'[q] \in {"write", "index", "indexWrite"}
                 PROVE  HoldsId(q)' /\ (pc'[q] = "indexWrite" => HoldsIndex(q)' /\ snap'[q] = index')
      BY DEF Locked
    <2>1. q # p /\ pc[q] = pc'[q]
      BY DEF TypeOK, Results
    <2>2. HoldsId(q) /\ Id(q)' = Id(q)
      BY <2>1 DEF Locked, Id
    <2>3. Id(q) # Id(p)
      BY <2>1, <2>2 DEF HoldsId
    <2>4. Id(q) \in Escalations
      BY <2>1 DEF Roles, Calling, StoreSteps, Id, Call
    <2>5. idChain'[Id(q)] = idChain[Id(q)]
      BY <1>1, <2>3, <2>4 DEF TypeOK
    <2>6. HoldsId(q)'
      BY <2>2, <2>5 DEF HoldsId
    <2> QED BY <2>1, <2>6
  <1> QED BY <1>2, <1>3, <1>4, <1>5

\* Only the process at the head of the index chain is between its index read and
\* its index write.
LEMMA IndexAlone ==
  ASSUME Base, NEW p \in Procs, HoldsIndex(p), NEW q \in Procs, pc[q] = "indexWrite"
  PROVE  q = p
  BY DEF Base, Locked, HoldsIndex

\* The same for the chain of an id, from the entry's write on.
LEMMA IdAlone ==
  ASSUME Base, NEW p \in Procs, HoldsId(p),
         NEW q \in Procs, pc[q] \in {"write", "index", "indexWrite"}, Id(q) = Id(p)
  PROVE  q = p
  BY DEF Base, Locked, HoldsId

LEMMA StoreBase ==
  ASSUME Base, NEW p \in Procs, StoreStep(p) \/ StoreRejects(p)
  PROVE  Base'
  <1> USE DEF Base
  <1>0. TypeOK /\ (pc[p] \in Calling => Id(p) \in Escalations /\ call[p] \in Call)
    BY DEF Roles, Call, Id
  <1>1. CASE ReadEntry(p)
    <2>1. CASE Proceeds(p)
      <3>1. TypeOK'
        BY <1>1, <2>1 DEF ReadEntry, TypeOK, stored, teams, history, StoreSteps
      <3>2. Roles'
        BY <1>1, <2>1 DEF ReadEntry, TypeOK, Roles, Calling, StoreSteps, Id
      <3>3. Locked'
        BY <1>1, <2>1 DEF ReadEntry, TypeOK, Locked, HoldsId, HoldsIndex, Id, stored
      <3> QED BY <3>1, <3>2, <3>3
    <2>2. CASE ~Proceeds(p)
      <3>1. \A q \in Procs \ {p} : pc[q] = "indexWrite" => HoldsIndex(q)' /\ snap'[q] = index'
        BY <1>1 DEF ReadEntry, Locked, HoldsIndex, stored
      <3>2. Leave(p, "none") /\ pc[p] \in StoreSteps /\ HoldsId(p) /\ UNCHANGED call
        BY <1>1, <2>2 DEF ReadEntry, StoreSteps
      <3>3. Roles' /\ Locked' /\ idChain' \in [Escalations -> Seq(Procs)]
            /\ pc' \in [Procs -> {"idle", "posted", "render", "reopen", "scan", "act", "done"}
                                  \cup StoreSteps \cup Results]
        BY <3>1, <3>2, LeaveBase DEF Results
      <3>4. TypeOK'
        BY <1>1, <3>3 DEF ReadEntry, TypeOK, stored, teams, history
      <3> QED BY <3>3, <3>4
    <2> QED BY <2>1, <2>2
  <1>2. CASE WriteEntry(p)
    <2>1. HoldsId(p) /\ Id(p) \in Escalations /\ call[p] \in Call
      BY <1>0, <1>2 DEF WriteEntry, Locked, Calling, StoreSteps
    <2>2. entry' \in [Escalations -> Entry]
      <3>1. Written(call[p], entry[Id(p)]) \in Entry
        <4>1. entry[Id(p)] \in Entry
          BY <2>1 DEF TypeOK
        <4>2. CASE call[p].op = "create"
          BY <4>2 DEF Written, Entry
        <4>3. CASE call[p].op = "close"
          BY <2>1, <4>1, <4>3 DEF Written, Entry, Call
        <4>4. CASE call[p].op = "reopen"
          BY <4>1, <4>4 DEF Written, Entry
        <4>5. CASE call[p].op = "defer"
          BY <4>1, <4>5 DEF Written, Entry
        <4> QED BY <2>1, <4>2, <4>3, <4>4, <4>5 DEF Call
      <3> QED BY <1>2, <2>1, <3>1 DEF WriteEntry, TypeOK
    <2>3. CASE call[p].op = "defer"
      <3>1. \A q \in Procs \ {p} : pc[q] = "indexWrite" => HoldsIndex(q)' /\ snap'[q] = index'
        BY <1>2, <2>3 DEF WriteEntry, Locked, HoldsIndex
      <3>2. Leave(p, "ok") /\ pc[p] \in StoreSteps /\ UNCHANGED call
        BY <1>2, <2>3 DEF WriteEntry, StoreSteps
      <3>3. Roles' /\ Locked' /\ idChain' \in [Escalations -> Seq(Procs)]
            /\ pc' \in [Procs -> {"idle", "posted", "render", "reopen", "scan", "act", "done"}
                                  \cup StoreSteps \cup Results]
        BY <2>1, <3>1, <3>2, LeaveBase DEF Results
      <3>4. TypeOK'
        BY <1>2, <2>2, <2>3, <3>3 DEF WriteEntry, TypeOK, teams, history
      <3> QED BY <3>3, <3>4
    <2>4. CASE call[p].op # "defer"
      <3>1. /\ indexChain' = Append(indexChain, p) /\ pc' = [pc EXCEPT ![p] = "index"]
            /\ UNCHANGED <<idChain, call, snap, index>>
        BY <1>2, <2>4 DEF WriteEntry
      <3>2. indexChain' \in Seq(Procs)
        BY <3>1, AppendKeepsHead DEF TypeOK
      <3>3. TypeOK'
        BY <1>2, <2>2, <3>1, <3>2 DEF WriteEntry, TypeOK, teams, history, StoreSteps
      <3>4. Roles'
        BY <1>2, <3>1 DEF WriteEntry, TypeOK, Roles, Calling, StoreSteps, Id
      <3>5. ASSUME NEW q \in Procs, pc'[q] = "indexWrite"
            PROVE  HoldsIndex(q)'
        <4>1. q # p /\ HoldsIndex(q)
          BY <3>1, <3>5 DEF TypeOK, Locked
        <4> QED BY <3>1, <4>1, AppendKeepsHead DEF HoldsIndex, TypeOK
      <3>6. Locked'
        BY <1>2, <3>1, <3>5 DEF WriteEntry, TypeOK, Locked, HoldsId, Id
      <3> QED BY <3>3, <3>4, <3>6
    <2> QED BY <2>3, <2>4
  <1>3. CASE ReadIndex(p)
    <2>1. TypeOK'
      BY <1>3 DEF ReadIndex, TypeOK, stored, chains, teams, history, StoreSteps
    <2>2. Roles'
      BY <1>3 DEF ReadIndex, TypeOK, Roles, Calling, StoreSteps, Id
    <2>3. Locked'
      BY <1>3 DEF ReadIndex, TypeOK, Locked, HoldsId, HoldsIndex, Id, stored, chains
    <2> QED BY <2>1, <2>2, <2>3
  <1>4. CASE WriteIndex(p)
    <2>1. HoldsId(p) /\ HoldsIndex(p) /\ pc[p] \in StoreSteps /\ call[p] \in Call
      BY <1>0, <1>4 DEF WriteIndex, Locked, StoreSteps, Calling
    <2>2. \A q \in Procs \ {p} : pc[q] = "indexWrite" => HoldsIndex(q)' /\ snap'[q] = index'
      BY <2>1, IndexAlone
    <2>3. Roles' /\ Locked' /\ idChain' \in [Escalations -> Seq(Procs)]
            /\ pc' \in [Procs -> {"idle", "posted", "render", "reopen", "scan", "act", "done"}
                                  \cup StoreSteps \cup Results]
      BY <1>4, <2>1, <2>2, LeaveBase DEF WriteIndex, Results
    <2>4. index' \in SUBSET Escalations
      BY <1>4, <2>1 DEF WriteIndex, Transformed, TypeOK, Call
    <2>5. indexChain' \in Seq(Procs)
      BY <1>4, <2>1, TailType DEF WriteIndex, HoldsIndex, TypeOK
    <2>6. TypeOK'
      BY <1>4, <2>3, <2>4, <2>5 DEF WriteIndex, TypeOK, teams, history
    <2> QED BY <2>3, <2>6
  <1>5. CASE StoreRejects(p)
    <2>1. HoldsId(p) /\ pc[p] \in StoreSteps /\ Leave(p, "failed") /\ UNCHANGED <<call, snap, index>>
      BY <1>5 DEF StoreRejects, Locked, StoreSteps, stored
    <2>2. \/ UNCHANGED indexChain
          \/ HoldsIndex(p) /\ indexChain' = Tail(indexChain)
      BY <1>5 DEF StoreRejects, Locked
    <2>3. \A q \in Procs \ {p} : pc[q] = "indexWrite" => HoldsIndex(q)' /\ snap'[q] = index'
      BY <2>1, <2>2, IndexAlone DEF Locked, HoldsIndex
    <2>4. Roles' /\ Locked' /\ idChain' \in [Escalations -> Seq(Procs)]
            /\ pc' \in [Procs -> {"idle", "posted", "render", "reopen", "scan", "act", "done"}
                                  \cup StoreSteps \cup Results]
      BY <2>1, <2>3, LeaveBase DEF Results
    <2>5. indexChain' \in Seq(Procs)
      <3>1. CASE UNCHANGED indexChain
        BY <3>1 DEF TypeOK
      <3>2. CASE HoldsIndex(p) /\ indexChain' = Tail(indexChain)
        BY <3>2, TailType DEF HoldsIndex, TypeOK
      <3> QED BY <2>2, <3>1, <3>2
    <2>6. damaged' \in SUBSET Escalations
      BY <1>0, <1>5 DEF StoreRejects, TypeOK, Calling, StoreSteps
    <2>7. /\ faults' \in [{"crash", "store", "invoke"} -> Nat]
          /\ faults'.crash <= MaxCrashes /\ faults'.store <= MaxStoreFaults
          /\ faults'.invoke <= MaxInvokeFaults
      <3>1. faults' = [faults EXCEPT !["store"] = @ + 1] /\ faults["store"] < MaxStoreFaults
        BY <1>5 DEF StoreRejects
      <3>2. faults \in [{"crash", "store", "invoke"} -> Nat] /\ faults["store"] \in Nat
        BY DEF TypeOK
      <3>3. faults["store"] + 1 <= MaxStoreFaults
        BY <3>1, <3>2
      <3> QED BY <3>1, <3>2, <3>3 DEF TypeOK
    <2>8. TypeOK'
      BY <1>5, <2>4, <2>5, <2>6, <2>7 DEF StoreRejects, TypeOK, stored, teams
    <2> QED BY <2>4, <2>8
  <1> QED BY <1>1, <1>2, <1>3, <1>4, <1>5 DEF StoreStep

\* A step that leaves chains, calls and store alone and moves one process
\* between places that are not in a call.
LEMMA QuietBase ==
  ASSUME Base, NEW p \in Procs, NEW to \in {"posted", "render", "reopen", "scan", "act", "idle", "done"},
         pc[p] \notin StoreSteps, pc' = [pc EXCEPT ![p] = to],
         to \in {"render", "reopen"} =>
           pc[p] \in Calling /\ p \in Clicks /\ call[p].op = "close" /\ call[p].to = "resolved",
         UNCHANGED <<chains, index>>,
         \A q \in Procs \ {p} : snap'[q] = snap[q] /\ call'[q] = call[q],
         to \in {"render", "reopen"} => UNCHANGED call
  PROVE  Roles' /\ Locked'
  <1> USE DEF Base, chains
  <1>1. Roles'
    BY DEF TypeOK, Roles, Calling, StoreSteps, Results, Id
  <1>2. Locked'
    BY DEF TypeOK, Locked, HoldsId, HoldsIndex, Id, StoreSteps
  <1> QED BY <1>1, <1>2

LEMMA ToolBase ==
  ASSUME Base, NEW e \in Escalations,
         PostEscalationCard(e) \/ CreateRecord(e) \/ TimePasses(e)
  PROVE  Base'
  <1> USE DEF Base
  <1>0. e \in Procs
    BY DEF Procs
  <1>1. CASE PostEscalationCard(e)
    <2>1. TypeOK'
      BY <1>1 DEF PostEscalationCard, TypeOK, stored, chains, history
    <2>2. pc[e] = "idle" /\ UNCHANGED <<chains, index, snap, call>>
      BY <1>1 DEF PostEscalationCard, stored
    <2>3. pc' = [pc EXCEPT ![e] = "posted"] \/ pc' = [pc EXCEPT ![e] = "done"]
      BY <1>1 DEF PostEscalationCard
    <2>4. Roles' /\ Locked'
      BY <1>0, <2>2, <2>3, QuietBase DEF StoreSteps
    <2> QED BY <2>1, <2>4
  <1>2. CASE CreateRecord(e)
    <2> DEFINE c == [id |-> e, op |-> "create", to |-> "resolved", blank |-> FALSE]
    <2>1. c \in Call
      BY DEF Call, Terminal
    <2>2. pc[e] = "posted" /\ Enter(e, c) /\ UNCHANGED <<stored, indexChain, snap>>
      BY <1>2 DEF CreateRecord
    <2>3. e \notin Clicks /\ e \notin Sweeps
      OBVIOUS
    <2> HIDE DEF c
    <2>4. /\ idChain' \in [Escalations -> Seq(Procs)] /\ Roles' /\ Locked'
          /\ pc' \in [Procs -> {"idle", "posted", "render", "reopen", "scan", "act", "done"}
                                  \cup StoreSteps \cup Results]
          /\ call' \in [Procs -> Call \cup {NoCall}]
      <3>1. c.op = "create" /\ c.id = e
        BY DEF c
      <3> QED BY <1>0, <2>1, <2>2, <2>3, <3>1, EnterBase DEF StoreSteps
    <2>5. TypeOK'
      BY <1>2, <2>4 DEF CreateRecord, TypeOK, stored, teams, history
    <2> QED BY <2>4, <2>5
  <1>3. CASE TimePasses(e)
    <2>1. TypeOK'
      BY <1>3 DEF TimePasses, TypeOK, stored, chains, locals, history
    <2>2. Roles' /\ Locked'
      BY <1>3 DEF TimePasses, Roles, Locked, HoldsId, HoldsIndex, Id, stored, chains, locals
    <2> QED BY <2>1, <2>2
  <1> QED BY <1>1, <1>2, <1>3

LEMMA ClickBase ==
  ASSUME Base, NEW c \in Clicks, Submit(c) \/ ClickStep(c)
  PROVE  Base'
  <1> USE DEF Base
  <1>0. c \in Procs /\ c \notin Escalations /\ c \notin Sweeps
    BY DEF Procs
  <1>1. CASE Submit(c)
    <2>1. PICK e \in Escalations, to \in {"resolved", "dismissed"}, blank \in BOOLEAN :
            /\ to = "dismissed" => ~blank
            /\ Enter(c, [id |-> e, op |-> "close", to |-> to, blank |-> blank])
      BY <1>1 DEF Submit
    <2> DEFINE k == [id |-> e, op |-> "close", to |-> to, blank |-> blank]
    <2>2. k \in Call /\ k.op = "close" /\ k.to \in {"resolved", "dismissed"}
          /\ (k.blank => k.to = "resolved")
      BY <2>1 DEF Call, Terminal
    <2>3. pc[c] = "idle" /\ Enter(c, k) /\ UNCHANGED <<stored, indexChain, snap>>
      BY <1>1, <2>1 DEF Submit
    <2> HIDE DEF k
    <2>4. /\ idChain' \in [Escalations -> Seq(Procs)] /\ Roles' /\ Locked'
          /\ pc' \in [Procs -> {"idle", "posted", "render", "reopen", "scan", "act", "done"}
                                  \cup StoreSteps \cup Results]
          /\ call' \in [Procs -> Call \cup {NoCall}]
      BY <1>0, <2>2, <2>3, EnterBase DEF StoreSteps
    <2>5. TypeOK'
      BY <1>1, <2>4 DEF Submit, TypeOK, stored, teams, history
    <2> QED BY <2>4, <2>5
  <1>2. CASE Invoke(c)
    <2>1. /\ pc[c] = "ok" /\ call[c].op = "close" /\ call[c].to = "resolved"
          /\ UNCHANGED <<chains, index, snap, call>>
      BY <1>2 DEF Invoke, Claimed, stored
    <2>2. Id(c) \in Escalations
      BY <1>0, <2>1 DEF Roles, Calling, Results, Call, Id
    <2>3. pc' = [pc EXCEPT ![c] = "render"] \/ pc' = [pc EXCEPT ![c] = "reopen"]
      BY <1>2 DEF Invoke
    <2>4. Roles' /\ Locked'
      BY <1>0, <2>1, <2>3, QuietBase DEF StoreSteps, Calling, Results
    <2>5. /\ faults' \in [{"crash", "store", "invoke"} -> Nat]
          /\ faults'.crash <= MaxCrashes /\ faults'.store <= MaxStoreFaults
          /\ faults'.invoke <= MaxInvokeFaults
      <3>1. \/ UNCHANGED faults
            \/ faults' = [faults EXCEPT !["invoke"] = @ + 1] /\ faults["invoke"] < MaxInvokeFaults
        BY <1>2 DEF Invoke
      <3>2. faults \in [{"crash", "store", "invoke"} -> Nat] /\ faults["invoke"] \in Nat
        BY DEF TypeOK
      <3>3. faults["invoke"] < MaxInvokeFaults => faults["invoke"] + 1 <= MaxInvokeFaults
        BY <3>2
      <3> QED BY <3>1, <3>2, <3>3 DEF TypeOK
    <2>6. lost' \in [Escalations -> 0..MaxLostAnswers] /\ delivered' \in [Escalations -> Nat]
      <3>1. \/ UNCHANGED lost
            \/ lost' = [lost EXCEPT ![Id(c)] = @ + 1] /\ lost[Id(c)] < MaxLostAnswers
        BY <1>2 DEF Invoke
      <3>2. lost' \in [Escalations -> 0..MaxLostAnswers]
        <4>1. lost \in [Escalations -> 0..MaxLostAnswers] /\ lost[Id(c)] \in 0..MaxLostAnswers
          BY <2>2 DEF TypeOK
        <4>2. lost[Id(c)] < MaxLostAnswers => lost[Id(c)] + 1 \in 0..MaxLostAnswers
          BY <4>1
        <4> QED BY <3>1, <4>1, <4>2
      <3>3. UNCHANGED delivered \/ delivered' = [delivered EXCEPT ![Id(c)] = @ + 1]
        BY <1>2 DEF Invoke
      <3>4. delivered' \in [Escalations -> Nat]
        <4>1. delivered \in [Escalations -> Nat] /\ delivered[Id(c)] + 1 \in Nat
          BY <2>2 DEF TypeOK
        <4> QED BY <2>2, <3>3, <4>1
      <3> QED BY <3>2, <3>4
    <2>7. TypeOK'
      BY <1>2, <2>3, <2>5, <2>6 DEF Invoke, TypeOK, stored, chains, teams
    <2> QED BY <2>4, <2>7
  <1>3. CASE Reopen(c)
    <2> DEFINE k == [call[c] EXCEPT !.op = "reopen"]
    <2>1. pc[c] \in Calling /\ pc[c] \notin StoreSteps /\ call[c] \in Call /\ call[c].to = "resolved"
      BY <1>0, <1>3 DEF Reopen, Claimed, Roles, Calling, Results, StoreSteps
    <2>2. k \in Call /\ k.op = "reopen" /\ k.to = "resolved"
      BY <2>1 DEF Call
    <2>3. Enter(c, k) /\ UNCHANGED <<stored, indexChain, snap>>
      BY <1>3 DEF Reopen
    <2> HIDE DEF k
    <2>4. /\ idChain' \in [Escalations -> Seq(Procs)] /\ Roles' /\ Locked'
          /\ pc' \in [Procs -> {"idle", "posted", "render", "reopen", "scan", "act", "done"}
                                  \cup StoreSteps \cup Results]
          /\ call' \in [Procs -> Call \cup {NoCall}]
      BY <1>0, <2>1, <2>2, <2>3, EnterBase
    <2>5. TypeOK'
      BY <1>3, <2>4 DEF Reopen, TypeOK, stored, teams, history
    <2> QED BY <2>4, <2>5
  <1>4. CASE UpdateCard(c)
    <2>1. /\ pc[c] \in {"render", "ok"} /\ pc' = [pc EXCEPT ![c] = "done"]
          /\ UNCHANGED <<chains, index, snap, call>>
      BY <1>4 DEF UpdateCard, Claimed, stored
    <2>2. Roles' /\ Locked'
      BY <1>0, <2>1, QuietBase DEF StoreSteps
    <2>3. Id(c) \in Escalations /\ call[c].to \in Terminal
      BY <1>0, <2>1 DEF Roles, Calling, Results, Call, Id
    <2>4. TypeOK'
      BY <1>4, <2>1, <2>3 DEF UpdateCard, TypeOK, stored, chains, history
    <2> QED BY <2>2, <2>4
  <1> QED BY <1>1, <1>2, <1>3, <1>4 DEF ClickStep

LEMMA SweepBase ==
  ASSUME Base, NEW s \in Sweeps, SweepStep(s) \/ ScanRejects(s)
  PROVE  Base'
  <1> USE DEF Base
  <1>0. s \in Procs /\ s \notin Escalations /\ s \notin Clicks
    BY DEF Procs
  <1>1. CASE StartSweep(s)
    <2>1. TypeOK'
      BY <1>0, <1>1 DEF StartSweep, TypeOK, stored, chains, teams, history
    <2>2. /\ pc[s] = "idle" /\ pc' = [pc EXCEPT ![s] = "scan"] /\ UNCHANGED <<chains, index, call>>
          /\ \A q \in Procs \ {s} : snap'[q] = snap[q]
      BY <1>1 DEF StartSweep, TypeOK, stored
    <2>3. Roles' /\ Locked'
      BY <1>0, <2>2, QuietBase DEF StoreSteps
    <2> QED BY <2>1, <2>3
  <1>2. CASE ReadOpen(s)
    <2>1. PICK e \in snap[s] : /\ snap' = [snap EXCEPT ![s] = @ \ {e}]
                               /\ due' = [due EXCEPT ![s] = IF Expires(e) THEN @ \cup {e} ELSE @]
      BY <1>2 DEF ReadOpen
    <2>2. TypeOK'
      <3>1. snap' \in [Procs -> SUBSET Escalations]
        BY <1>0, <2>1 DEF TypeOK
      <3>2. due' \in [Sweeps -> SUBSET Escalations]
        <4>1. e \in Escalations
          BY <1>0, <2>1 DEF TypeOK
        <4> QED BY <2>1, <4>1 DEF TypeOK
      <3> QED BY <1>2, <3>1, <3>2 DEF ReadOpen, TypeOK, stored, chains, teams, history
    <2>3. Roles'
      BY <1>2 DEF ReadOpen, Roles, Id
    <2>4. Locked'
      BY <1>0, <1>2, <2>1 DEF ReadOpen, Locked, HoldsId, HoldsIndex, Id, TypeOK, stored, chains
    <2> QED BY <2>2, <2>3, <2>4
  <1>3. CASE FilterExpired(s)
    <2>1. TypeOK'
      BY <1>0, <1>3 DEF FilterExpired, TypeOK, stored, chains, teams, history
    <2>2. /\ pc[s] = "scan" /\ pc' = [pc EXCEPT ![s] = "act"] /\ UNCHANGED <<chains, index, call, snap>>
      BY <1>3 DEF FilterExpired, stored
    <2>3. Roles' /\ Locked'
      BY <1>0, <2>2, QuietBase DEF StoreSteps
    <2> QED BY <2>1, <2>3
  <1>4. CASE ApplyDefault(s)
    <2>1. PICK e \in due[s] :
            /\ due' = [due EXCEPT ![s] = @ \ {e}]
            /\ Enter(s, [id |-> e, op |-> IF action[s] = "dismiss" THEN "close" ELSE "defer",
                         to |-> "timed_out", blank |-> FALSE])
      BY <1>4 DEF ApplyDefault
    <2> DEFINE k == [id |-> e, op |-> IF action[s] = "dismiss" THEN "close" ELSE "defer",
                     to |-> "timed_out", blank |-> FALSE]
    <2>2. k \in Call /\ k.op \in {"close", "defer"} /\ k.to = "timed_out"
      BY DEF Call, Terminal, TypeOK
    <2>3. pc[s] = "act" /\ Enter(s, k) /\ UNCHANGED <<stored, indexChain, snap>>
      BY <1>4, <2>1 DEF ApplyDefault
    <2> HIDE DEF k
    <2>4. /\ idChain' \in [Escalations -> Seq(Procs)] /\ Roles' /\ Locked'
          /\ pc' \in [Procs -> {"idle", "posted", "render", "reopen", "scan", "act", "done"}
                                  \cup StoreSteps \cup Results]
          /\ call' \in [Procs -> Call \cup {NoCall}]
      BY <1>0, <2>2, <2>3, EnterBase DEF StoreSteps
    <2>5. due' \in [Sweeps -> SUBSET Escalations]
      BY <2>1 DEF TypeOK
    <2>6. TypeOK'
      BY <1>4, <2>4, <2>5 DEF ApplyDefault, TypeOK, stored, teams, history
    <2> QED BY <2>4, <2>6
  <1>5. CASE AfterDefault(s)
    <2>1. pc[s] \in {"ok", "none"} /\ pc' = [pc EXCEPT ![s] = "act"] /\ UNCHANGED <<chains, index, call, snap>>
      BY <1>5 DEF AfterDefault, stored
    <2>2. Id(s) \in Escalations
      BY <1>0, <2>1 DEF Roles, Calling, Results, Call, Id
    <2>3. Roles' /\ Locked'
      BY <1>0, <2>1, QuietBase DEF StoreSteps
    <2>4. TypeOK'
      <3>1. card' \in [Escalations -> {"none", "live"} \cup Terminal]
        <4>1. UNCHANGED card \/ card' = [card EXCEPT ![Id(s)] = "timed_out"]
          BY <1>5 DEF AfterDefault
        <4> QED BY <2>2, <4>1 DEF TypeOK, Terminal
      <3>2. timeouts' \in [Escalations -> Nat]
        <4>1. UNCHANGED timeouts \/ timeouts' = [timeouts EXCEPT ![Id(s)] = @ + 1]
          BY <1>5 DEF AfterDefault
        <4>2. timeouts \in [Escalations -> Nat] /\ timeouts[Id(s)] + 1 \in Nat
          BY <2>2 DEF TypeOK
        <4> QED BY <2>2, <4>1, <4>2
      <3> QED BY <1>5, <2>1, <3>1, <3>2 DEF AfterDefault, TypeOK, stored, chains
    <2> QED BY <2>3, <2>4
  <1>6. CASE EndSweep(s)
    <2>1. TypeOK'
      BY <1>0, <1>6 DEF EndSweep, TypeOK, stored, chains, teams, history
    <2>2. /\ pc[s] \in {"act", "failed"} /\ pc' = [pc EXCEPT ![s] = "idle"]
          /\ UNCHANGED <<chains, index, snap>>
          /\ \A q \in Procs \ {s} : call'[q] = call[q]
      BY <1>6 DEF EndSweep, TypeOK, stored
    <2>3. Roles' /\ Locked'
      BY <1>0, <2>2, QuietBase DEF StoreSteps
    <2> QED BY <2>1, <2>3
  <1>7. CASE ScanRejects(s)
    <2>1. /\ pc[s] = "scan" /\ pc' = [pc EXCEPT ![s] = "idle"] /\ UNCHANGED <<chains, index, call>>
          /\ \A q \in Procs \ {s} : snap'[q] = snap[q]
      BY <1>7 DEF ScanRejects, TypeOK, stored
    <2>2. /\ faults' \in [{"crash", "store", "invoke"} -> Nat]
          /\ faults'.crash <= MaxCrashes /\ faults'.store <= MaxStoreFaults
          /\ faults'.invoke <= MaxInvokeFaults
      <3>1. faults' = [faults EXCEPT !["store"] = @ + 1] /\ faults["store"] < MaxStoreFaults
        BY <1>7 DEF ScanRejects
      <3>2. faults \in [{"crash", "store", "invoke"} -> Nat] /\ faults["store"] \in Nat
        BY DEF TypeOK
      <3>3. faults["store"] + 1 <= MaxStoreFaults
        BY <3>1, <3>2
      <3> QED BY <3>1, <3>2, <3>3 DEF TypeOK
    <2>3. TypeOK'
      BY <1>0, <1>7, <2>2 DEF ScanRejects, TypeOK, stored, chains, teams
    <2>4. Roles' /\ Locked'
      BY <1>0, <2>1, QuietBase DEF StoreSteps
    <2> QED BY <2>3, <2>4
  <1> QED BY <1>1, <1>2, <1>3, <1>4, <1>5, <1>6, <1>7 DEF SweepStep

LEMMA CrashBase ==
  ASSUME Base, Crash
  PROVE  Base'
  <1> USE DEF Base
  <1>1. damaged' \in SUBSET Escalations
    <2>1. \A q \in Procs : pc[q] \in {"index", "indexWrite"} => Id(q) \in Escalations
      BY DEF Roles, Calling, StoreSteps, Call, Id
    <2> QED BY <2>1 DEF Crash, TypeOK
  <1>2. /\ faults' \in [{"crash", "store", "invoke"} -> Nat]
        /\ faults'.crash <= MaxCrashes /\ faults'.store <= MaxStoreFaults
        /\ faults'.invoke <= MaxInvokeFaults
    <2>1. faults' = [faults EXCEPT !["crash"] = @ + 1] /\ faults["crash"] < MaxCrashes
      BY DEF Crash
    <2>2. faults \in [{"crash", "store", "invoke"} -> Nat] /\ faults["crash"] \in Nat
      BY DEF TypeOK
    <2>3. faults["crash"] + 1 <= MaxCrashes
      BY <2>1, <2>2
    <2> QED BY <2>1, <2>2, <2>3 DEF TypeOK
  <1>3. /\ idChain' \in [Escalations -> Seq(Procs)] /\ indexChain' \in Seq(Procs)
        /\ call' \in [Procs -> Call \cup {NoCall}]
        /\ snap' \in [Procs -> SUBSET Escalations] /\ due' \in [Sweeps -> SUBSET Escalations]
    BY DEF Crash
  <1>4. \A p \in Procs : pc'[p] \in {"idle", "done"}
    BY DEF Crash
  <1>5. pc' \in [Procs -> {"idle", "posted", "render", "reopen", "scan", "act", "done"}
                            \cup StoreSteps \cup Results]
    BY DEF Crash
  <1>6. TypeOK'
    BY <1>1, <1>2, <1>3, <1>5 DEF Crash, TypeOK, stored, teams
  <1>7. Roles' /\ Locked'
    BY <1>4 DEF Roles, Locked, Calling, StoreSteps, Results
  <1> QED BY <1>6, <1>7

LEMMA NextBase ==
  ASSUME Base, [Next]_vars
  PROVE  Base'
  <1>1. CASE UNCHANGED vars
    BY <1>1 DEF Base, vars, stored, teams, chains, locals, history, TypeOK, Roles, Locked,
                HoldsId, HoldsIndex, Id
  <1> QED BY <1>1, ToolBase, ClickBase, SweepBase, StoreBase, CrashBase DEF Next

\* Every variable keeps its type, every call its role, and the two kinds of lock
\* exclude, whatever the number of callers and failures.
THEOREM TypeCorrect == Spec => [](TypeOK /\ Roles /\ Locked)
  BY InitBase, NextBase, PTL DEF Spec, Base
-----------------------------------------------------------------------------
(* The life of an escalation.                                              *)

\* What ties the entries, the callers' places, the replies and the cards together.
Facts == Fresh /\ SawOpen /\ Wrote /\ Claims /\ Counts /\ Outcomes

LEMMA InitFacts == Init => Facts
  BY DEF Init, Facts, Fresh, SawOpen, Wrote, Claims, Claimant, Counts, Outcomes, NoEntry,
         NoCall, Terminal, Procs

\* Steps that write no entry, reply or final card: a process stays, leaves, joins
\* a chain for a call other than reopen(), or moves on from the entry's write.
LEMMA QuietFacts ==
  ASSUME Base, Facts, UNCHANGED <<entry, delivered, lost>>,
         \A e \in Escalations : card'[e] \in Terminal => card'[e] = card[e],
         \A q \in Procs :
           \/ pc'[q] = pc[q] /\ (pc[q] \in Calling => call'[q] = call[q])
           \/ /\ pc'[q] \in {"idle", "posted", "scan", "act", "done", "none", "failed"}
              /\ q \in Escalations /\ pc'[q] \in {"idle", "posted"} => pc[q] = "idle"
           \/ /\ pc'[q] = "queued" /\ call'[q].op # "reopen"
              /\ q \in Escalations => pc[q] = "posted"
           \/ /\ call'[q] = call[q]
              /\ \/ pc[q] = "index" /\ pc'[q] = "indexWrite"
                 \/ pc[q] = "indexWrite" /\ pc'[q] = "ok"
  PROVE  Facts'
  <1> USE DEF Base, Facts
  <1>1. Fresh'
    BY DEF Fresh, Procs
  <1>2. SawOpen'
    BY DEF SawOpen, Id, Calling, StoreSteps
  <1>3. Wrote'
    BY DEF Wrote, Id, Calling, StoreSteps, Results
  <1>4. \A c \in Clicks : Claimant(c)' => Claimant(c) /\ call'[c] = call[c]
    BY DEF Claimant, Calling, StoreSteps, Results, Procs
  <1>5. Claims'
    BY <1>4 DEF Claims, Id
  <1>6. Counts'
    BY DEF Counts
  <1>7. Outcomes'
    BY DEF Outcomes, Calling, Id, Procs
  <1> QED BY <1>1, <1>2, <1>3, <1>5, <1>6, <1>7

LEMMA ToolFacts ==
  ASSUME Base, Facts, NEW e \in Escalations,
         PostEscalationCard(e) \/ CreateRecord(e) \/ TimePasses(e)
  PROVE  Facts'
  <1>1. UNCHANGED <<entry, delivered, lost>>
    BY DEF PostEscalationCard, CreateRecord, TimePasses, stored, history
  <1>2. \A f \in Escalations : card'[f] \in Terminal => card'[f] = card[f]
    BY DEF PostEscalationCard, CreateRecord, TimePasses, teams, Terminal, Base, TypeOK
  <1>3. ASSUME NEW q \in Procs
        PROVE  \/ pc'[q] = pc[q] /\ (pc[q] \in Calling => call'[q] = call[q])
               \/ /\ pc'[q] \in {"idle", "posted", "scan", "act", "done", "none", "failed"}
                  /\ q \in Escalations /\ pc'[q] \in {"idle", "posted"} => pc[q] = "idle"
               \/ /\ pc'[q] = "queued" /\ call'[q].op # "reopen"
                  /\ q \in Escalations => pc[q] = "posted"
    BY DEF PostEscalationCard, CreateRecord, TimePasses, Enter, Base, TypeOK, locals, Procs
  <1> QED BY <1>1, <1>2, <1>3, QuietFacts

LEMMA SweepFacts ==
  ASSUME Base, Facts, NEW s \in Sweeps, SweepStep(s) \/ ScanRejects(s)
  PROVE  Facts'
  <1>0. s \in Procs /\ s \notin Escalations /\ s \notin Clicks
    BY DEF Procs
  <1>1. UNCHANGED <<entry, delivered, lost>>
    BY DEF SweepStep, StartSweep, ReadOpen, FilterExpired, ApplyDefault, AfterDefault, EndSweep,
           ScanRejects, stored, history
  <1>2. ASSUME NEW q \in Procs
        PROVE  \/ pc'[q] = pc[q] /\ (pc[q] \in Calling => call'[q] = call[q])
               \/ /\ pc'[q] \in {"idle", "posted", "scan", "act", "done", "none", "failed"}
                  /\ q \in Escalations /\ pc'[q] \in {"idle", "posted"} => pc[q] = "idle"
               \/ /\ pc'[q] = "queued" /\ call'[q].op # "reopen"
                  /\ q \in Escalations => pc[q] = "posted"
    BY <1>0 DEF SweepStep, StartSweep, ReadOpen, FilterExpired, ApplyDefault, AfterDefault,
                EndSweep, ScanRejects, Enter, Base, TypeOK
  <1>3. CASE UNCHANGED card
    BY <1>1, <1>2, <1>3, QuietFacts
  <1>4. CASE AfterDefault(s) /\ card' # card
    <2>1. /\ pc[s] = "ok" /\ call[s].op = "close" /\ card' = [card EXCEPT ![Id(s)] = "timed_out"]
      BY <1>4 DEF AfterDefault
    <2>2. call[s].to = "timed_out" /\ Id(s) \in Escalations
      BY <1>0, <2>1 DEF Base, Roles, Calling, Results, Call, Id
    <2>3. entry[Id(s)].status = "timed_out"
      BY <1>0, <2>1, <2>2 DEF Facts, Wrote
    <2>4. pc' = [pc EXCEPT ![s] = "act"] /\ UNCHANGED <<call, entry, delivered, lost>>
      BY <1>4 DEF AfterDefault, stored
    <2>5. \A q \in Procs : Id(q)' = Id(q) /\ (pc'[q] = pc[q] \/ (q = s /\ pc'[q] = "act"))
      BY <2>4 DEF Id, Base, TypeOK
    <2>6. \A e \in Escalations : card'[e] = card[e] \/ (e = Id(s) /\ card'[e] = "timed_out")
      BY <2>1, <2>2 DEF Base, TypeOK
    <2>7. Outcomes'
      BY <1>0, <2>3, <2>4, <2>5, <2>6 DEF Facts, Outcomes, Procs
    <2>8. Fresh' /\ SawOpen' /\ Wrote'
      BY <1>0, <2>4, <2>5 DEF Facts, Fresh, SawOpen, Wrote, Procs
    <2>9. Claims' /\ Counts'
      BY <1>0, <2>4, <2>5 DEF Facts, Claims, Claimant, Counts, Procs
    <2> QED BY <2>7, <2>8, <2>9 DEF Facts
  <1> QED BY <1>3, <1>4 DEF SweepStep, StartSweep, ReadOpen, FilterExpired, ApplyDefault,
                            EndSweep, ScanRejects, teams

LEMMA CrashFacts ==
  ASSUME Base, Facts, Crash
  PROVE  Facts'
  <1>1. UNCHANGED <<entry, delivered, lost, card>>
    BY DEF Crash, stored, teams
  <1>2. \A q \in Procs : /\ pc'[q] \in {"idle", "done"}
                         /\ q \in Escalations /\ pc'[q] = "idle" => pc[q] = "idle"
    BY DEF Crash
  <1> QED BY <1>1, <1>2, QuietFacts

LEMMA ClickFacts ==
  ASSUME Base, Facts, NEW c \in Clicks, Submit(c) \/ ClickStep(c)
  PROVE  Facts'
  <1> USE DEF Base, Facts
  <1>0. c \in Procs /\ c \notin Escalations /\ c \notin Sweeps
    BY DEF Procs
  <1>1. CASE Submit(c)
    <2>1. UNCHANGED <<entry, delivered, lost, card>>
      BY <1>1 DEF Submit, stored, teams, history
    <2>2. \A q \in Procs :
            \/ pc'[q] = pc[q] /\ call'[q] = call[q]
            \/ pc'[q] = "queued" /\ call'[q].op # "reopen" /\ q \notin Escalations
      BY <1>0, <1>1 DEF Submit, Enter, TypeOK
    <2> QED BY <2>1, <2>2, QuietFacts
  <1>2. CASE Invoke(c)
    <2>1. /\ pc[c] = "ok" /\ call[c].op = "close" /\ call[c].to = "resolved"
          /\ UNCHANGED <<entry, call, card>>
          /\ Id(c)' = Id(c)
      BY <1>2 DEF Invoke, Claimed, stored, teams, Id
    <2>2. Id(c) \in Escalations /\ Claimant(c)
      BY <1>0, <2>1 DEF Roles, Calling, Results, Call, Id, Claimant
    <2>3. entry[Id(c)].status = "resolved" /\ delivered[Id(c)] = lost[Id(c)]
      BY <2>2 DEF Claims
    <2>4. \/ /\ delivered' = [delivered EXCEPT ![Id(c)] = @ + 1] /\ UNCHANGED lost
             /\ pc' = [pc EXCEPT ![c] = "render"]
          \/ UNCHANGED <<delivered, lost>> /\ pc' = [pc EXCEPT ![c] = "reopen"]
          \/ /\ delivered' = [delivered EXCEPT ![Id(c)] = @ + 1]
             /\ lost' = [lost EXCEPT ![Id(c)] = @ + 1] /\ pc' = [pc EXCEPT ![c] = "reopen"]
      BY <1>2 DEF Invoke
    <2>5. /\ \A e \in Escalations \ {Id(c)} : delivered'[e] = delivered[e] /\ lost'[e] = lost[e]
          /\ \/ /\ delivered'[Id(c)] = lost'[Id(c)] + 1 /\ pc'[c] = "render"
             \/ /\ delivered'[Id(c)] = lost'[Id(c)] /\ pc'[c] = "reopen"
          /\ \A q \in Procs \ {c} : pc'[q] = pc[q]
          /\ lost'[Id(c)] \in Nat
      BY <1>0, <2>2, <2>3, <2>4 DEF TypeOK
    <2>6. card[Id(c)] # "resolved"
      BY <2>2, <2>3 DEF Outcomes, Terminal
    <2>7. \A d \in Clicks : pc[d] = "render" => Id(d) # Id(c)
      BY <2>3 DEF Outcomes
    <2>8. Fresh' /\ SawOpen' /\ Wrote'
      BY <1>0, <2>1, <2>5 DEF Fresh, SawOpen, Wrote, Id, Procs
    <2>9. \A d \in Clicks : Claimant(d)' => Claimant(d)
      BY <1>0, <2>1, <2>2, <2>5 DEF Claimant, Procs
    <2>10. Claims'
      <3> SUFFICES ASSUME NEW d \in Clicks, Claimant(d)'
                   PROVE  /\ entry'[Id(d)'].status = "resolved" /\ delivered'[Id(d)'] = lost'[Id(d)']
                          /\ \A f \in Clicks : Claimant(f)' /\ Id(f)' = Id(d)' => f = d
        BY DEF Claims
      <3>1. Claimant(d) /\ Id(d)' = Id(d) /\ Id(d) \in Escalations
        BY <2>1, <2>9 DEF Id, Claimant, Roles, Calling, StoreSteps, Results, Call, Procs
      <3>2. delivered'[Id(d)] = lost'[Id(d)]
        <4>1. CASE d = c
          BY <2>5, <4>1 DEF Claimant
        <4>2. CASE d # c
          <5>1. Id(d) # Id(c)
            BY <2>2, <3>1, <4>2 DEF Claims
          <5> QED BY <2>5, <3>1, <5>1 DEF Claims
        <4> QED BY <4>1, <4>2
      <3> QED BY <2>1, <2>9, <3>1, <3>2 DEF Claims, Id
    <2>11. Counts'
      <3> SUFFICES ASSUME NEW e \in Escalations
                   PROVE  /\ delivered'[e] \in {lost'[e], lost'[e] + 1}
                          /\ delivered'[e] # lost'[e] => entry'[e].status = "resolved"
        BY DEF Counts
      <3>1. CASE e = Id(c)
        BY <2>1, <2>3, <2>5, <3>1
      <3>2. CASE e # Id(c)
        BY <2>1, <2>5, <3>2 DEF Counts
      <3> QED BY <3>1, <3>2
    <2>12. Outcomes'
      <3>1. ASSUME NEW e \in Escalations, card'[e] \in Terminal
            PROVE  entry'[e].status = card'[e] /\ (card'[e] = "resolved" => delivered'[e] # lost'[e])
        BY <2>1, <2>5, <2>6, <3>1 DEF Outcomes
      <3>2. ASSUME NEW d \in Clicks, pc'[d] = "render"
            PROVE  delivered'[Id(d)'] # lost'[Id(d)']
        <4>1. CASE d = c
          BY <2>1, <2>5, <3>2, <4>1
        <4>2. CASE d # c
          <5>1. pc[d] = "render" /\ Id(d)' = Id(d) /\ Id(d) # Id(c) /\ Id(d) \in Escalations
            BY <2>1, <2>5, <2>7, <3>2, <4>2 DEF Id, Procs, Roles, Calling, Call
          <5> QED BY <2>5, <5>1 DEF Outcomes
        <4> QED BY <4>1, <4>2
      <3> QED BY <3>1, <3>2 DEF Outcomes
    <2> QED BY <2>8, <2>10, <2>11, <2>12
  <1>3. CASE Reopen(c)
    <2>1. /\ UNCHANGED <<entry, delivered, lost, card>>
          /\ call' = [call EXCEPT ![c] = [call[c] EXCEPT !.op = "reopen"]]
          /\ pc' = [pc EXCEPT ![c] = "queued"]
          /\ pc[c] = "reopen" \/ (pc[c] = "ok" /\ call[c].op = "close" /\ call[c].blank)
      BY <1>3 DEF Reopen, Enter, Claimed, stored, teams, history
    <2>2. call[c] \in Call /\ call[c].op = "close" /\ call[c].to = "resolved"
      BY <1>0, <2>1 DEF Roles, Calling, Results
    <2>3. Claimant(c)
      BY <2>1, <2>2 DEF Claimant
    <2>4. \A q \in Procs \ {c} : pc'[q] = pc[q] /\ call'[q] = call[q]
      BY <2>1 DEF TypeOK
    <2>5. pc'[c] = "queued" /\ call'[c].id = call[c].id /\ call'[c].op = "reopen"
      BY <1>0, <2>1, <2>2 DEF TypeOK, Call
    <2>6. \A d \in Clicks : Id(d)' = Id(d) /\ (Claimant(d)' => Claimant(d))
      BY <2>3, <2>4, <2>5 DEF Claimant, Id, Procs
    <2>7. Claims'
      BY <2>1, <2>6 DEF Claims
    <2>8. Fresh' /\ SawOpen' /\ Wrote'
      BY <1>0, <2>1, <2>4, <2>5 DEF Fresh, SawOpen, Wrote, Id, Procs
    <2>9. Counts' /\ Outcomes'
      BY <1>0, <2>1, <2>4, <2>5, <2>6 DEF Counts, Outcomes, Procs
    <2> QED BY <2>7, <2>8, <2>9
  <1>4. CASE UpdateCard(c)
    <2>1. /\ UNCHANGED <<entry, delivered, lost, call>> /\ pc' = [pc EXCEPT ![c] = "done"]
          /\ pc[c] = "render" \/ (pc[c] = "ok" /\ call[c].op = "close" /\ call[c].to = "dismissed")
      BY <1>4 DEF UpdateCard, Claimed, stored, history
    <2>2. Id(c) \in Escalations /\ Id(c)' = Id(c)
          /\ (pc[c] = "render" => call[c].to = "resolved")
      BY <1>0, <2>1 DEF Roles, Calling, Results, Call, Id
    <2>3. /\ entry[Id(c)].status = call[c].to
          /\ call[c].to = "resolved" => delivered[Id(c)] # lost[Id(c)]
      BY <1>0, <2>1, <2>2 DEF Outcomes, Counts, Wrote
    <2>4. \E shown \in {card[Id(c)], call[c].to} : card' = [card EXCEPT ![Id(c)] = shown]
      BY <1>4 DEF UpdateCard
    <2>5. \A e \in Escalations : card'[e] = card[e] \/ (e = Id(c) /\ card'[e] = call[c].to)
      BY <2>2, <2>4 DEF TypeOK
    <2>6. Outcomes'
      BY <2>1, <2>3, <2>5 DEF Outcomes, Id, TypeOK, Procs
    <2>7. Fresh' /\ SawOpen' /\ Wrote'
      BY <1>0, <2>1 DEF Fresh, SawOpen, Wrote, Id, Procs, TypeOK
    <2>8. Claims' /\ Counts'
      BY <1>0, <2>1 DEF Claims, Claimant, Counts, Id, Procs, TypeOK
    <2> QED BY <2>6, <2>7, <2>8
  <1> QED BY <1>1, <1>2, <1>3, <1>4 DEF ClickStep

\* close(), reopen() and create() write the entry alone in the id's chain.
LEMMA WriteEntryFacts ==
  ASSUME Base, Facts, NEW p \in Procs, WriteEntry(p)
  PROVE  Facts'
  <1> USE DEF Base, Facts
  <1> DEFINE e == Id(p)
  <1>1. pc[p] = "write" /\ HoldsId(p) /\ UNCHANGED <<call, card, delivered, lost>>
    BY DEF WriteEntry, Locked, teams, history
  <1>2. e \in Escalations /\ call[p] \in Call
    BY <1>1 DEF Roles, Calling, StoreSteps, Call, Id
  <1>3. /\ entry'[e] = Written(call[p], entry[e])
        /\ \A f \in Escalations \ {e} : entry'[f] = entry[f]
    BY <1>2 DEF WriteEntry, TypeOK
  <1>4. /\ \A q \in Procs \ {p} : pc'[q] = pc[q]
        /\ pc'[p] = IF call[p].op = "defer" THEN "ok" ELSE "index"
    BY <1>1 DEF WriteEntry, Leave, TypeOK
  <1>5. \A q \in Procs : Id(q)' = Id(q)
    BY <1>1 DEF Id
  <1>6. \A q \in Procs \ {p} : pc[q] \in {"write", "index", "indexWrite"} => Id(q) # e
    BY <1>1, IdAlone
  <1>7. entry[e] \in Entry
    BY <1>2 DEF TypeOK
  <1>8. CASE call[p].op = "defer"
    <2>1. entry'[e].status = entry[e].status
      BY <1>3, <1>7, <1>8 DEF Written, Entry
    <2>2. \A f \in Escalations : entry'[f].status = entry[f].status
      BY <1>3, <2>1
    <2>3. p \in Sweeps /\ p \notin Clicks /\ p \notin Escalations
      BY <1>1, <1>8 DEF Roles, Calling, StoreSteps, Procs
    <2>4. \A q \in Procs : pc'[q] = pc[q] \/ (q = p /\ pc'[q] = "ok" /\ call[q].op = "defer")
      BY <1>4, <1>8
    <2>5. \A q \in Procs : pc[q] \in Calling => Id(q) \in Escalations
      BY DEF Roles, Call, Id
    <2>6. Fresh' /\ SawOpen' /\ Wrote'
      BY <1>1, <1>5, <2>2, <2>3, <2>4, <2>5
         DEF Fresh, SawOpen, Wrote, Procs, Calling, StoreSteps, Results
    <2>7. Claims'
      <3>1. \A d \in Clicks : (Claimant(d)' <=> Claimant(d)) /\ (Claimant(d) => Id(d) \in Escalations)
        BY <1>1, <2>3, <2>4, <2>5 DEF Claimant, Procs, Calling, StoreSteps, Results
      <3> QED BY <1>1, <1>5, <2>2, <3>1 DEF Claims, Procs
    <2>8. Counts' /\ Outcomes'
      BY <1>1, <1>5, <2>2, <2>3, <2>4 DEF Counts, Outcomes, Procs
    <2> QED BY <2>6, <2>7, <2>8
  <1>9. CASE call[p].op # "defer"
    <2>1. pc'[p] = "index"
      BY <1>4, <1>9
    <2>2. \/ call[p].op = "create" /\ entry[e].status = "none" /\ entry'[e].status = "open"
          \/ /\ call[p].op = "close" /\ entry[e].status = "open" /\ entry'[e].status = call[p].to
          \/ /\ call[p].op = "reopen" /\ p \in Clicks /\ call[p].to = "resolved"
             /\ entry[e].status = "resolved" /\ delivered[e] = lost[e]
             /\ entry'[e].status = "open"
      <3>1. CASE call[p].op = "create"
        <4>1. p \in Escalations /\ e = p
          BY <1>1, <3>1 DEF Roles, Calling, StoreSteps, Procs
        <4> QED BY <1>1, <1>3, <3>1, <4>1 DEF Fresh, Written
      <3>2. CASE call[p].op = "close"
        BY <1>1, <1>3, <1>7, <3>2 DEF SawOpen, Written, Entry
      <3>3. CASE call[p].op = "reopen"
        <4>1. p \in Clicks /\ call[p].to = "resolved"
          BY <1>1, <3>3 DEF Roles, Calling, StoreSteps, Procs
        <4>2. Claimant(p)
          BY <1>1, <3>3, <4>1 DEF Claimant
        <4> QED BY <1>3, <1>7, <3>3, <4>1, <4>2 DEF Claims, Written, Entry
      <3> QED BY <1>2, <1>9, <3>1, <3>2, <3>3 DEF Call
    <2>3. delivered[e] = lost[e]
      BY <1>2, <2>2 DEF Counts
    <2>4. card[e] \notin Terminal
      BY <1>2, <2>2, <2>3 DEF Outcomes, Terminal
    <2>5. \A d \in Clicks \ {p} : Claimant(d) => Id(d) # e
      <3>1. CASE call[p].op = "reopen"
        <4>1. Claimant(p) /\ p \in Clicks
          BY <1>1, <2>2, <3>1 DEF Claimant
        <4> QED BY <4>1 DEF Claims
      <3>2. CASE call[p].op # "reopen"
        BY <2>2, <3>2 DEF Claims
      <3> QED BY <3>1, <3>2
    <2>6. Fresh'
      <3> SUFFICES ASSUME NEW f \in Escalations, pc'[f] \in {"idle", "posted", "queued", "write"}
                   PROVE  entry'[f].status = "none"
        BY DEF Fresh
      <3>1. f # p /\ pc'[f] = pc[f]
        BY <1>4, <2>1 DEF Procs
      <3>2. entry[f].status = "none"
        BY <3>1 DEF Fresh
      <3>3. f # e
        BY <1>1, <2>2, <3>1, <3>2 DEF Roles, Calling, StoreSteps, Procs
      <3> QED BY <1>3, <3>2, <3>3
    <2>7. SawOpen'
      <3> SUFFICES ASSUME NEW q \in Procs, pc'[q] = "write", call[q].op \in {"close", "defer"}
                   PROVE  entry'[Id(q)].status = "open"
        BY <1>1, <1>5 DEF SawOpen
      <3>1. q # p /\ pc[q] = "write" /\ Id(q) # e /\ Id(q) \in Escalations
        BY <1>4, <1>6, <2>1 DEF Roles, Calling, StoreSteps, Call, Id
      <3> QED BY <1>3, <3>1 DEF SawOpen
    <2>8. Wrote'
      <3> SUFFICES ASSUME NEW q \in Procs
                   PROVE  /\ pc'[q] \in {"index", "indexWrite"} =>
                               /\ call[q].op # "defer"
                               /\ entry'[Id(q)].status = IF call[q].op = "close" THEN call[q].to ELSE "open"
                          /\ pc'[q] = "ok" /\ call[q].op = "close" /\ call[q].to # "resolved" =>
                               entry'[Id(q)].status = call[q].to
        BY <1>1, <1>5 DEF Wrote
      <3>1. CASE q = p
        BY <1>9, <2>1, <2>2, <3>1
      <3>2. CASE q # p /\ pc[q] \in {"index", "indexWrite"}
        <4>1. Id(q) # e /\ Id(q) \in Escalations
          BY <1>6, <3>2 DEF Roles, Calling, StoreSteps, Call, Id
        <4> QED BY <1>3, <1>4, <3>2, <4>1 DEF Wrote
      <3>3. CASE /\ q # p /\ pc[q] = "ok" /\ call[q].op = "close" /\ call[q].to # "resolved"
        <4>1. Id(q) \in Escalations /\ call[q].to \in Terminal
          BY <3>3 DEF Roles, Calling, Results, Call, Id
        <4>2. entry[Id(q)].status = call[q].to
          BY <3>3 DEF Wrote
        <4>3. Id(q) # e
          BY <2>2, <3>3, <4>1, <4>2 DEF Terminal
        <4> QED BY <1>3, <1>4, <3>3, <4>1, <4>2, <4>3
      <3> QED BY <1>4, <3>1, <3>2, <3>3
    <2>9. Claims'
      <3>1. \A d \in Clicks \ {p} : (Claimant(d)' <=> Claimant(d)) /\ (Claimant(d) => Id(d) \in Escalations)
        BY <1>1, <1>4 DEF Claimant, Roles, Calling, StoreSteps, Results, Call, Id, Procs
      <3>2. ASSUME NEW d \in Clicks, Claimant(d)'
            PROVE  /\ entry'[Id(d)].status = "resolved"
                   /\ delivered[Id(d)] = lost[Id(d)]
                   /\ \A f \in Clicks : Claimant(f)' /\ Id(f) = Id(d) => f = d
        <4>1. CASE d = p
          <5>1. call[p].op = "close" /\ call[p].to = "resolved"
            BY <1>1, <2>1, <3>2, <4>1 DEF Claimant
          <5> QED BY <2>2, <2>3, <2>5, <3>1, <4>1, <5>1
        <4>2. CASE d # p
          <5>1. Claimant(d) /\ Id(d) # e /\ Id(d) \in Escalations
            BY <2>5, <3>1, <3>2, <4>2
          <5> QED BY <1>3, <3>1, <5>1 DEF Claims
        <4> QED BY <4>1, <4>2
      <3> QED BY <1>1, <1>5, <3>2 DEF Claims, Procs
    <2>10. Counts'
      BY <1>1, <1>3, <2>3 DEF Counts
    <2>11. Outcomes'
      BY <1>1, <1>3, <1>4, <1>5, <2>1, <2>4 DEF Outcomes, Procs
    <2> QED BY <2>6, <2>7, <2>8, <2>9, <2>10, <2>11
  <1> QED BY <1>8, <1>9

LEMMA StoreFacts ==
  ASSUME Base, Facts, NEW p \in Procs, StoreStep(p) \/ StoreRejects(p)
  PROVE  Facts'
  <1> USE DEF Base
  <1>1. CASE ReadEntry(p) /\ Proceeds(p)
    <2> USE DEF Facts
    <2>1. /\ pc[p] = "queued" /\ pc' = [pc EXCEPT ![p] = "write"]
          /\ UNCHANGED <<call, entry, card, delivered, lost>>
      BY <1>1 DEF ReadEntry, stored, teams, history
    <2>2. \A q \in Procs : Id(q)' = Id(q) /\ (pc'[q] = pc[q] \/ (q = p /\ pc'[q] = "write"))
      BY <2>1 DEF Id, TypeOK
    <2>3. call[p].op \in {"close", "defer"} => entry[Id(p)].status = "open"
      BY <1>1 DEF Proceeds
    <2>4. SawOpen'
      BY <2>1, <2>2, <2>3 DEF SawOpen
    <2>5. Fresh' /\ Wrote'
      BY <2>1, <2>2 DEF Fresh, Wrote, Procs
    <2>6. \A d \in Clicks : Claimant(d)' <=> Claimant(d)
      BY <2>1, <2>2 DEF Claimant, Procs
    <2>7. Claims'
      BY <2>1, <2>2, <2>6 DEF Claims, Procs
    <2>8. Counts' /\ Outcomes'
      BY <2>1, <2>2 DEF Counts, Outcomes, Procs
    <2> QED BY <2>4, <2>5, <2>7, <2>8
  <1>2. CASE WriteEntry(p)
    BY <1>2, WriteEntryFacts
  <1>3. CASE (ReadEntry(p) /\ ~Proceeds(p)) \/ ReadIndex(p) \/ WriteIndex(p) \/ StoreRejects(p)
    <2>1. UNCHANGED <<entry, card, delivered, lost, call>>
      BY <1>3 DEF ReadEntry, ReadIndex, WriteIndex, StoreRejects, stored, teams, history
    <2>2. \A q \in Procs :
            \/ pc'[q] = pc[q]
            \/ pc'[q] \in {"none", "failed"}
            \/ pc[q] = "index" /\ pc'[q] = "indexWrite"
            \/ pc[q] = "indexWrite" /\ pc'[q] = "ok"
      BY <1>3 DEF ReadEntry, ReadIndex, WriteIndex, StoreRejects, Leave, TypeOK
    <2> QED BY <2>1, <2>2, QuietFacts
  <1> QED BY <1>1, <1>2, <1>3 DEF StoreStep

LEMMA NextFacts ==
  ASSUME Base, Facts, [Next]_vars
  PROVE  Facts'
  <1>1. CASE UNCHANGED vars
    <2>1. UNCHANGED <<entry, card, delivered, lost, call, pc>>
      BY <1>1 DEF vars, stored, teams, locals, history
    <2> QED BY <2>1, QuietFacts
  <1> QED BY <1>1, ToolFacts, ClickFacts, SweepFacts, StoreFacts, CrashFacts DEF Next

LEMMA FactsHold == Spec => [](Base /\ Facts)
  <1>1. Init => Base /\ Facts
    BY InitBase, InitFacts
  <1>2. Base /\ Facts /\ [Next]_vars => Base' /\ Facts'
    BY NextBase, NextFacts
  <1> QED BY <1>1, <1>2, PTL DEF Spec

\* The reply-back fires at most once for every answer the agent host gives: each
\* further one is owed to an invoke that took effect and then rejected.
THEOREM ReplyAtMostOnce == Spec => []ReplyOnce
  <1>1. Base /\ Facts => ReplyOnce
    <2> SUFFICES ASSUME Base, Facts, NEW e \in Escalations
                 PROVE  delivered[e] <= 1 + lost[e]
      BY DEF ReplyOnce
    <2>1. lost[e] \in Nat /\ delivered[e] \in {lost[e], lost[e] + 1}
      BY DEF Base, TypeOK, Facts, Counts
    <2> QED BY <2>1
  <1> QED BY <1>1, FactsHold, PTL

\* No card contradicts the store, now or later.
THEOREM CardsAreTrue == Spec => []CardTruth
  <1>1. Base /\ Facts => CardTruth
    BY DEF Base, Facts, Outcomes, CardTruth
  <1> QED BY <1>1, FactsHold, PTL
-----------------------------------------------------------------------------
(* The open index.                                                         *)

\* Steps that change neither the index nor a status: a process that stops between
\* the entry's write and the index's is on record in `damaged`.
LEMMA QuietIndex ==
  ASSUME IndexExact, UNCHANGED <<index, entry>>, damaged \subseteq damaged',
         \A q \in Procs : pc[q] \in {"index", "indexWrite"} =>
           \/ pc'[q] \in {"index", "indexWrite"} /\ call'[q] = call[q]
           \/ Id(q) \in damaged'
  PROVE  IndexExact'
  BY DEF IndexExact, UpdatingIndex, Id

LEMMA NextIndex ==
  ASSUME Base, Facts, IndexExact, [Next]_vars
  PROVE  IndexExact'
  <1> USE DEF Base
  <1>1. CASE UNCHANGED vars
    BY <1>1, QuietIndex DEF vars, stored, locals, history
  <1>2. ASSUME NEW e \in Escalations, PostEscalationCard(e) \/ CreateRecord(e) \/ TimePasses(e)
        PROVE  IndexExact'
    <2>1. UNCHANGED <<index, entry, damaged>>
      BY <1>2 DEF PostEscalationCard, CreateRecord, TimePasses, stored, history
    <2>2. \A q \in Procs : pc[q] \in {"index", "indexWrite"} => pc'[q] = pc[q] /\ call'[q] = call[q]
      BY <1>2 DEF PostEscalationCard, CreateRecord, TimePasses, Enter, TypeOK, locals
    <2> QED BY <2>1, <2>2, QuietIndex
  <1>3. ASSUME NEW c \in Clicks, Submit(c) \/ ClickStep(c)
        PROVE  IndexExact'
    <2>1. UNCHANGED <<index, entry, damaged>>
      BY <1>3 DEF Submit, ClickStep, Invoke, Reopen, UpdateCard, stored, history
    <2>2. \A q \in Procs : pc[q] \in {"index", "indexWrite"} => pc'[q] = pc[q] /\ call'[q] = call[q]
      BY <1>3 DEF Submit, ClickStep, Invoke, Reopen, UpdateCard, Claimed, Enter, TypeOK
    <2> QED BY <2>1, <2>2, QuietIndex
  <1>4. ASSUME NEW s \in Sweeps, SweepStep(s) \/ ScanRejects(s)
        PROVE  IndexExact'
    <2>1. UNCHANGED <<index, entry, damaged>>
      BY <1>4 DEF SweepStep, StartSweep, ReadOpen, FilterExpired, ApplyDefault, AfterDefault,
                  EndSweep, ScanRejects, stored, history
    <2>2. \A q \in Procs : pc[q] \in {"index", "indexWrite"} => pc'[q] = pc[q] /\ call'[q] = call[q]
      BY <1>4 DEF SweepStep, StartSweep, ReadOpen, FilterExpired, ApplyDefault, AfterDefault,
                  EndSweep, ScanRejects, Enter, TypeOK
    <2> QED BY <2>1, <2>2, QuietIndex
  <1>5. CASE Crash
    BY <1>5, QuietIndex DEF Crash, stored
  <1>6. ASSUME NEW p \in Procs, ReadEntry(p) \/ ReadIndex(p) \/ StoreRejects(p)
        PROVE  IndexExact'
    <2>1. UNCHANGED <<index, entry, call>> /\ damaged \subseteq damaged'
      BY <1>6 DEF ReadEntry, ReadIndex, StoreRejects, stored, history
    <2>2. \A q \in Procs : pc[q] \in {"index", "indexWrite"} =>
            pc'[q] \in {"index", "indexWrite"} \/ Id(q) \in damaged'
      BY <1>6 DEF ReadEntry, ReadIndex, StoreRejects, Leave, TypeOK
    <2> QED BY <2>1, <2>2, QuietIndex
  <1>7. ASSUME NEW p \in Procs, WriteEntry(p)
        PROVE  IndexExact'
    <2>1. /\ pc[p] = "write" /\ UNCHANGED <<index, damaged, call>>
          /\ Id(p) \in Escalations
      BY <1>7 DEF WriteEntry, history, Roles, Calling, StoreSteps, Call, Id
    <2>2. /\ entry'[Id(p)] = Written(call[p], entry[Id(p)])
          /\ \A f \in Escalations \ {Id(p)} : entry'[f] = entry[f]
          /\ entry[Id(p)] \in Entry
      BY <1>7, <2>1 DEF WriteEntry, TypeOK
    <2>3. \A q \in Procs : Id(q)' = Id(q) /\ (q # p => pc'[q] = pc[q])
      BY <1>7, <2>1 DEF WriteEntry, Leave, Id, TypeOK
    <2>4. \A f \in Escalations : UpdatingIndex(f) => UpdatingIndex(f)'
      BY <2>1, <2>3 DEF UpdatingIndex
    <2>5. ASSUME NEW f \in Escalations, f = Id(p)
          PROVE  UpdatingIndex(f)' \/ entry'[f].status = entry[f].status
      <3>1. CASE call[p].op = "defer"
        BY <2>2, <2>5, <3>1 DEF Written, Entry
      <3>2. CASE call[p].op # "defer"
        <4>1. pc'[p] = "index"
          BY <1>7, <3>2 DEF WriteEntry, TypeOK
        <4> QED BY <2>3, <2>5, <4>1 DEF UpdatingIndex
      <3> QED BY <3>1, <3>2
    <2>6. ASSUME NEW f \in Escalations, f \notin damaged', ~UpdatingIndex(f)'
          PROVE  f \in index' <=> entry'[f].status = "open"
      <3>1. f \in index <=> entry[f].status = "open"
        BY <2>1, <2>4, <2>6 DEF IndexExact
      <3>2. entry'[f].status = entry[f].status
        <4>1. CASE f = Id(p)
          BY <2>5, <2>6, <4>1
        <4>2. CASE f # Id(p)
          BY <2>2, <4>2
        <4> QED BY <4>1, <4>2
      <3> QED BY <2>1, <3>1, <3>2
    <2> QED BY <2>6 DEF IndexExact
  <1>8. ASSUME NEW p \in Procs, WriteIndex(p)
        PROVE  IndexExact'
    <2>1. /\ pc[p] = "indexWrite" /\ HoldsId(p) /\ snap[p] = index
          /\ UNCHANGED <<entry, damaged, call>> /\ Id(p) \in Escalations
      BY <1>8 DEF WriteIndex, history, Locked, Roles, Calling, StoreSteps, Call, Id
    <2>2. index' = IF call[p].op = "close" THEN index \ {Id(p)} ELSE index \cup {Id(p)}
      BY <1>8, <2>1 DEF WriteIndex, Transformed, Id
    <2>3. entry[Id(p)].status = "open" <=> call[p].op # "close"
      <3>1. entry[Id(p)].status = IF call[p].op = "close" THEN call[p].to ELSE "open"
        BY <2>1 DEF Facts, Wrote
      <3>2. call[p].to # "open"
        BY <2>1 DEF Roles, Calling, StoreSteps, Call, Terminal
      <3> QED BY <3>1, <3>2
    <2>4. \A q \in Procs : Id(q)' = Id(q) /\ (q # p => pc'[q] = pc[q])
      BY <1>8, <2>1 DEF WriteIndex, Leave, Id, TypeOK
    <2>5. \A f \in Escalations \ {Id(p)} : UpdatingIndex(f) => UpdatingIndex(f)'
      BY <2>1, <2>4 DEF UpdatingIndex
    <2> QED BY <2>1, <2>2, <2>3, <2>5 DEF IndexExact
  <1> QED BY <1>1, <1>2, <1>3, <1>4, <1>5, <1>6, <1>7, <1>8 DEF Next, StoreStep

LEMMA IndexHolds == Spec => [](Base /\ Facts /\ IndexExact)
  <1>1. Init => IndexExact
    BY DEF Init, IndexExact, NoEntry
  <1>2. Init => Base /\ Facts
    BY InitBase, InitFacts
  <1>3. Base /\ Facts /\ IndexExact /\ [Next]_vars => Base' /\ Facts' /\ IndexExact'
    BY NextBase, NextFacts, NextIndex
  <1> QED BY <1>1, <1>2, <1>3, PTL DEF Spec

\* The two locks lose no index update: the index is exact for every escalation no
\* fault or crash has cut off, whenever it is not being updated.
THEOREM IndexIsExact == Spec => []IndexExact
  BY IndexHolds, PTL

\* The whole inductive invariant.
THEOREM Inductive == Spec => []IInv
  <1>1. Base /\ Facts /\ IndexExact => IInv
    BY DEF Base, Facts, IInv
  <1> QED BY <1>1, IndexHolds, PTL

-----------------------------------------------------------------------------
(* A reply is not lost.                                                     *)

\* A click that still owes e its reply, or whose turn broke off.
Owes(c, e) == Id(c) = e /\ (Claimant(c) \/ pc[c] = "failed")

\* What is resolved without a delivered reply has a click that owes it.
Owed == faults.crash = 0 => \A e \in Escalations :
  entry[e].status = "resolved" => delivered[e] # 0 \/ \E c \in Clicks : Owes(c, e)

\* Steps that resolve nothing keep the debts of the clicks they do not concern.
LEMMA QuietOwed ==
  ASSUME Owed, faults'.crash = 0 => faults.crash = 0,
         \A e \in Escalations : /\ entry'[e].status = "resolved" => entry[e].status = "resolved"
                                /\ delivered[e] # 0 => delivered'[e] # 0
                                /\ \A c \in Clicks : Owes(c, e) => Owes(c, e)' \/ delivered'[e] # 0
  PROVE  Owed'
  BY DEF Owed

\* The same, for a step that leaves every click where it is.
LEMMA IdleOwed ==
  ASSUME Owed, UNCHANGED <<entry, delivered>>, faults'.crash = faults.crash,
         \A c \in Clicks : pc'[c] = pc[c] /\ call'[c] = call[c]
  PROVE  Owed'
  BY QuietOwed DEF Owes, Claimant, Id

LEMMA ClickOwed ==
  ASSUME Base, Facts, Owed, NEW c \in Clicks, Submit(c) \/ ClickStep(c)
  PROVE  Owed'
  <1> USE DEF Base
  <1>0. c \in Procs
    BY DEF Procs
  <1>1. CASE Submit(c) \/ UpdateCard(c)
    <2>1. UNCHANGED <<entry, delivered, faults>> /\ ~Claimant(c) /\ pc[c] # "failed"
      BY <1>1, <1>0 DEF Submit, UpdateCard, Claimed, Claimant, stored, history
    <2>2. \A d \in Clicks \ {c} : pc'[d] = pc[d] /\ call'[d] = call[d]
      BY <1>1 DEF Submit, UpdateCard, Enter, TypeOK, Procs
    <2> QED BY <2>1, <2>2, QuietOwed DEF Owes, Claimant, Id
  <1>2. CASE Invoke(c)
    <2>1. /\ pc[c] = "ok" /\ call[c].op = "close" /\ UNCHANGED <<entry, call>> /\ Id(c) \in Escalations
          /\ pc' = [pc EXCEPT ![c] = pc'[c]] /\ pc'[c] \in {"render", "reopen"}
      BY <1>2, <1>0 DEF Invoke, Claimed, stored, Roles, Calling, Results, Call, Id, TypeOK
    <2>2. \/ delivered' = [delivered EXCEPT ![Id(c)] = @ + 1]
          \/ delivered' = delivered /\ pc'[c] = "reopen"
      BY <1>2, <2>1 DEF Invoke, TypeOK
    <2>5. /\ \A e \in Escalations : delivered[e] # 0 => delivered'[e] # 0
          /\ pc'[c] = "render" => delivered'[Id(c)] # 0
      <3>1. delivered \in [Escalations -> Nat]
        BY DEF TypeOK
      <3> QED BY <2>1, <2>2, <3>1
    <2>3. faults'.crash = faults.crash
      BY <1>2 DEF Invoke, TypeOK
    <2>4. ASSUME NEW d \in Clicks, NEW e \in Escalations, Owes(d, e)
          PROVE  Owes(d, e)' \/ delivered'[e] # 0
      <3>1. CASE d = c
        BY <2>1, <2>4, <2>5, <3>1 DEF Owes, Claimant, Id
      <3>2. CASE d # c
        BY <2>1, <2>4, <3>2 DEF Owes, Claimant, Id, TypeOK, Procs
      <3> QED BY <3>1, <3>2
    <2> QED BY <2>1, <2>3, <2>4, <2>5, QuietOwed
  <1>3. CASE Reopen(c)
    <2>1. /\ UNCHANGED <<entry, delivered, faults>> /\ pc[c] # "failed" /\ call[c] \in Call
          /\ pc'[c] = "queued" /\ call'[c] = [call[c] EXCEPT !.op = "reopen"]
      BY <1>3, <1>0 DEF Reopen, Claimed, Enter, stored, history, Roles, Calling, Results, TypeOK
    <2>2. call'[c].op = "reopen" /\ call'[c].to = call[c].to /\ call'[c].id = call[c].id
      BY <2>1 DEF Call
    <2>3. \A d \in Clicks \ {c} : pc'[d] = pc[d] /\ call'[d] = call[d]
      BY <1>3 DEF Reopen, Enter, TypeOK, Procs
    <2> QED BY <2>1, <2>2, <2>3, QuietOwed DEF Owes, Claimant, Id
  <1> QED BY <1>1, <1>2, <1>3 DEF ClickStep

LEMMA StoreOwed ==
  ASSUME Base, Facts, Owed, NEW p \in Procs, StoreStep(p) \/ StoreRejects(p)
  PROVE  Owed'
  <1> USE DEF Base
  <1>1. /\ UNCHANGED call /\ UNCHANGED delivered /\ faults'.crash = faults.crash
        /\ \A q \in Procs \ {p} : pc'[q] = pc[q]
    <2>1. CASE StoreRejects(p)
      BY <2>1 DEF StoreRejects, Leave, TypeOK
    <2>2. CASE StoreStep(p)
      BY <2>2 DEF StoreStep, ReadEntry, WriteEntry, ReadIndex, WriteIndex, Leave, TypeOK, history
    <2> QED BY <2>1, <2>2
  <1>2. \A c \in Clicks, e \in Escalations : c # p /\ Owes(c, e) => Owes(c, e)'
    BY <1>1 DEF Owes, Claimant, Id, Procs
  <1>3. CASE ~WriteEntry(p)
    <2>1. UNCHANGED entry
      BY <1>3 DEF StoreStep, StoreRejects, ReadEntry, ReadIndex, WriteIndex, stored
    <2>2. p \in Clicks /\ Claimant(p) => Claimant(p)' \/ pc'[p] = "failed"
      <3>1. CASE StoreRejects(p)
        BY <3>1 DEF StoreRejects, Leave, TypeOK
      <3>2. CASE ReadEntry(p)
        <4>1. SUFFICES ASSUME p \in Clicks, Claimant(p)
                       PROVE  Claimant(p)'
          OBVIOUS
        <4>2. pc[p] = "queued" /\ call[p].op = "reopen" /\ entry[Id(p)].status = "resolved"
          BY <3>2, <4>1 DEF ReadEntry, Claimant, Facts, Claims
        <4>3. Proceeds(p)
          BY <4>2 DEF Proceeds, Terminal
        <4>4. pc'[p] = "write"
          BY <3>2, <4>3 DEF ReadEntry, TypeOK
        <4> QED BY <1>1, <4>1, <4>2, <4>4 DEF Claimant
      <3>3. CASE ReadIndex(p) \/ WriteIndex(p)
        BY <1>1, <3>3 DEF ReadIndex, WriteIndex, Leave, Claimant, TypeOK
      <3> QED BY <1>3, <3>1, <3>2, <3>3 DEF StoreStep
    <2>3. pc[p] # "failed"
      BY <1>3 DEF StoreStep, StoreRejects, ReadEntry, ReadIndex, WriteIndex
    <2> QED BY <1>1, <1>2, <2>1, <2>2, <2>3, QuietOwed DEF Owes, Id
  <1>4. CASE WriteEntry(p)
    <2>1. pc[p] = "write" /\ call[p] \in Call /\ Id(p) \in Escalations
      BY <1>4 DEF WriteEntry, Roles, Calling, StoreSteps, Call, Id
    <2>2. /\ entry'[Id(p)] = Written(call[p], entry[Id(p)]) /\ entry[Id(p)] \in Entry
          /\ \A f \in Escalations \ {Id(p)} : entry'[f] = entry[f]
      BY <1>4, <2>1 DEF WriteEntry, TypeOK
    <2>3. CASE call[p].op = "close"
      <3>1. pc'[p] = "index" /\ entry'[Id(p)].status = call[p].to
        BY <1>4, <2>1, <2>2, <2>3 DEF WriteEntry, Written, Entry, TypeOK
      <3>2. call[p].to = "resolved" => p \in Clicks
        BY <2>1, <2>3 DEF Roles, Calling, StoreSteps, Procs
      <3>3. call[p].to = "resolved" => Claimant(p)' /\ Id(p)' = Id(p)
        BY <1>1, <2>3, <3>1 DEF Claimant, Id
      <3>4. ~Claimant(p)
        BY <2>1, <2>3 DEF Claimant
      <3>5. \A c \in Clicks, e \in Escalations : Owes(c, e) => Owes(c, e)'
        BY <1>2, <2>1, <3>4 DEF Owes
      <3>6. ASSUME NEW e \in Escalations, faults'.crash = 0, entry'[e].status = "resolved"
            PROVE  delivered'[e] # 0 \/ \E c \in Clicks : Owes(c, e)'
        <4>1. CASE e = Id(p)
          BY <3>1, <3>2, <3>3, <3>6, <4>1 DEF Owes
        <4>2. CASE e # Id(p)
          BY <1>1, <2>2, <3>5, <3>6, <4>2 DEF Owed
        <4> QED BY <4>1, <4>2
      <3> QED BY <3>6 DEF Owed
    <2>4. CASE call[p].op \in {"create", "reopen"}
      <3>1. entry'[Id(p)].status # "resolved"
        BY <2>2, <2>4 DEF Written, Entry
      <3>2. \A c \in Clicks, e \in Escalations : e # Id(p) /\ Owes(c, e) => Owes(c, e)'
        BY <1>2 DEF Owes
      <3> QED BY <1>1, <2>2, <3>1, <3>2 DEF Owed
    <2>5. CASE call[p].op = "defer"
      <3>1. entry'[Id(p)].status = entry[Id(p)].status /\ p \notin Clicks
        BY <2>1, <2>2, <2>5 DEF Written, Entry, Roles, Calling, StoreSteps
      <3> QED BY <1>1, <1>2, <2>2, <3>1, QuietOwed
    <2> QED BY <2>1, <2>3, <2>4, <2>5 DEF Call
  <1> QED BY <1>3, <1>4

LEMMA NextOwed ==
  ASSUME Base, Facts, Owed, [Next]_vars
  PROVE  Owed'
  <1> USE DEF Base
  <1>1. CASE UNCHANGED vars
    BY <1>1, IdleOwed DEF vars, stored, locals, history
  <1>2. ASSUME NEW e \in Escalations, PostEscalationCard(e) \/ CreateRecord(e) \/ TimePasses(e)
        PROVE  Owed'
    <2>1. UNCHANGED <<entry, delivered, faults>>
      BY <1>2 DEF PostEscalationCard, CreateRecord, TimePasses, stored, history
    <2>2. \A c \in Clicks : pc'[c] = pc[c] /\ call'[c] = call[c]
      BY <1>2 DEF PostEscalationCard, CreateRecord, TimePasses, Enter, locals, TypeOK, Procs
    <2> QED BY <2>1, <2>2, IdleOwed
  <1>3. ASSUME NEW s \in Sweeps, SweepStep(s) \/ ScanRejects(s)
        PROVE  Owed'
    <2>1. UNCHANGED <<entry, delivered>> /\ faults'.crash = faults.crash
      BY <1>3 DEF SweepStep, StartSweep, ReadOpen, FilterExpired, ApplyDefault, AfterDefault,
                  EndSweep, ScanRejects, stored, history, TypeOK
    <2>2. \A c \in Clicks : pc'[c] = pc[c] /\ call'[c] = call[c]
      BY <1>3 DEF SweepStep, StartSweep, ReadOpen, FilterExpired, ApplyDefault, AfterDefault,
                  EndSweep, ScanRejects, Enter, TypeOK, Procs
    <2> QED BY <2>1, <2>2, IdleOwed
  <1>4. CASE Crash
    <2>1. faults'.crash # 0
      BY <1>4 DEF Crash, TypeOK
    <2> QED BY <2>1 DEF Owed
  <1> QED BY <1>1, <1>2, <1>3, <1>4, ClickOwed, StoreOwed DEF Next

\* An escalation that stays resolved has had its reply delivered, whoever raced
\* whom for it, unless the worker died or its own store call rejected.
THEOREM NoReplyLost == Spec => []ReplyNotLost
  <1>1. Init => Base /\ Facts /\ Owed
    BY InitBase, InitFacts DEF Init, Owed, NoEntry
  <1>2. Base /\ Facts /\ Owed /\ [Next]_vars => Base' /\ Facts' /\ Owed'
    BY NextBase, NextFacts, NextOwed
  <1>3. Base /\ Facts /\ Owed => ReplyNotLost
    <2>1. SUFFICES ASSUME Base, Owed, NEW e \in Escalations, faults.crash = 0,
                          entry[e].status = "resolved", ~Answering(e), ~Threw(e)
                   PROVE  delivered[e] >= 1
      BY DEF ReplyNotLost
    <2>2. ASSUME NEW c \in Clicks, Owes(c, e)
          PROVE  FALSE
      <3>1. pc[c] # "failed" /\ Claimant(c) /\ Id(c) = e /\ call[c] # NoCall
        BY <2>1, <2>2 DEF Owes, Threw, Claimant, NoCall
      <3>2. pc[c] \in StoreSteps \cup {"render", "reopen"} \/ Claimed(c)
        BY <3>1 DEF Claimant, Claimed, StoreSteps
      <3> QED BY <2>1, <3>1, <3>2 DEF Answering
    <2>3. delivered[e] # 0 /\ delivered[e] \in Nat
      BY <2>1, <2>2 DEF Owed, Base, TypeOK
    <2> QED BY <2>3
  <1> QED BY <1>1, <1>2, <1>3, PTL DEF Spec

-----------------------------------------------------------------------------
(* The default action is applied once.                                      *)

\* A sweep has closed e, or deferred it: for good.
Spent(e) == entry[e].status = "timed_out" \/ entry[e].deferred

\* A sweep that may still log the default action of e.
Pending(s, e) == e \in due[s] \/ (Id(s) = e /\ pc[s] \in StoreSteps \cup {"ok"})

Pendings(e) == {s \in Sweeps : Pending(s, e)}

\* What is logged is spent, and what a sweep has in hand is no longer on its list.
Defaults ==
  /\ \A e \in Escalations : /\ entry[e].status = "none" => ~entry[e].deferred
                            /\ timeouts[e] # 0 => Spent(e)
                            /\ timeouts[e] + Cardinality(Pendings(e)) <= Cardinality(Sweeps)
  /\ \A s \in Sweeps : /\ pc[s] = "ok" /\ call[s].op = "defer" => entry[Id(s)].deferred
                       /\ pc[s] \in StoreSteps \cup Results => Id(s) \notin due[s]

LEMMA PendingCount ==
  ASSUME NEW e
  PROVE  /\ IsFiniteSet(Pendings(e)) /\ Cardinality(Pendings(e)) \in Nat
         /\ Cardinality(Pendings(e)) <= Cardinality(Sweeps) /\ Cardinality(Sweeps) \in Nat
         /\ \A S \in SUBSET Pendings(e) : Cardinality(S) \in Nat /\ Cardinality(S) <= Cardinality(Pendings(e))
         /\ \A s \in Pendings(e) : Cardinality(Pendings(e) \ {s}) = Cardinality(Pendings(e)) - 1
  <1>1. Pendings(e) \in SUBSET Sweeps
    BY DEF Pendings
  <1>2. /\ IsFiniteSet(Pendings(e)) /\ Cardinality(Pendings(e)) <= Cardinality(Sweeps)
        /\ Cardinality(Sweeps) \in Nat /\ Cardinality(Pendings(e)) \in Nat
    BY <1>1, SweepsAssumption, FS_Subset, FS_CardinalityType
  <1>3. \A S \in SUBSET Pendings(e) : Cardinality(S) \in Nat /\ Cardinality(S) <= Cardinality(Pendings(e))
    BY <1>2, FS_Subset, FS_CardinalityType
  <1>4. \A s \in Pendings(e) : Cardinality(Pendings(e) \ {s}) = Cardinality(Pendings(e)) - 1
    BY <1>2, FS_RemoveElement
  <1> QED BY <1>2, <1>3, <1>4

\* What is spent stays so, and what has no record is not deferred.
LEMMA SpentStays ==
  ASSUME Base, Facts, Defaults, [Next]_vars, NEW e \in Escalations
  PROVE  /\ Spent(e) => Spent(e)'
         /\ entry[e].deferred => entry'[e].deferred
         /\ entry'[e].status = "none" => ~entry'[e].deferred
  <1> USE DEF Base
  <1>1. CASE UNCHANGED entry
    BY <1>1 DEF Spent, Defaults
  <1>2. ASSUME NEW p \in Procs, WriteEntry(p)
        PROVE  /\ Spent(e) => Spent(e)'
               /\ entry[e].deferred => entry'[e].deferred
               /\ entry'[e].status = "none" => ~entry'[e].deferred
    <2>1. pc[p] = "write" /\ call[p] \in Call /\ Id(p) \in Escalations
      BY <1>2 DEF WriteEntry, Roles, Calling, StoreSteps, Call, Id
    <2>2. /\ entry'[Id(p)] = Written(call[p], entry[Id(p)]) /\ entry[Id(p)] \in Entry
          /\ \A f \in Escalations \ {Id(p)} : entry'[f] = entry[f]
      BY <1>2, <2>1 DEF WriteEntry, TypeOK
    <2>3. entry[e].status = "none" => ~entry[e].deferred
      BY DEF Defaults
    <2>4. CASE e # Id(p)
      BY <2>2, <2>3, <2>4 DEF Spent
    <2>5. CASE e = Id(p) /\ call[p].op = "create"
      <3>1. p \in Escalations /\ Id(p) = p
        BY <2>1, <2>5 DEF Roles, Calling, StoreSteps, Procs
      <3>2. entry[e].status = "none"
        BY <2>1, <2>5, <3>1 DEF Facts, Fresh
      <3>3. entry'[e].status = "open"
        BY <2>2, <2>5 DEF Written
      <3> QED BY <2>3, <3>2, <3>3 DEF Spent
    <2>6. CASE e = Id(p) /\ call[p].op = "close"
      <3>1. entry[e].status = "open"
        BY <2>1, <2>6 DEF Facts, SawOpen
      <3>2. entry'[e].status # "none" /\ entry'[e].deferred = entry[e].deferred
        BY <2>1, <2>2, <2>6 DEF Written, Entry, Call, Terminal
      <3> QED BY <3>1, <3>2 DEF Spent
    <2>7. CASE e = Id(p) /\ call[p].op = "reopen"
      <3>1. p \in Clicks /\ Claimant(p)
        BY <2>1, <2>7 DEF Roles, Calling, StoreSteps, Procs, Claimant
      <3>2. entry[e].status = "resolved"
        BY <2>7, <3>1 DEF Facts, Claims
      <3>3. entry'[e].status = "open" /\ entry'[e].deferred = entry[e].deferred
        BY <2>2, <2>7 DEF Written, Entry
      <3> QED BY <3>2, <3>3 DEF Spent
    <2>8. CASE e = Id(p) /\ call[p].op = "defer"
      <3>1. entry[e].status = "open"
        BY <2>1, <2>8 DEF Facts, SawOpen
      <3>2. entry'[e].status = "open" /\ entry'[e].deferred
        BY <2>2, <2>8, <3>1 DEF Written, Entry
      <3> QED BY <3>2 DEF Spent
    <2> QED BY <2>1, <2>4, <2>5, <2>6, <2>7, <2>8 DEF Call
  <1> QED
    BY <1>1, <1>2 DEF Next, vars, PostEscalationCard, CreateRecord, TimePasses, Submit, ClickStep, Invoke,
       Reopen, UpdateCard, SweepStep, StartSweep, ReadOpen, FilterExpired, ApplyDefault, AfterDefault,
       EndSweep, ScanRejects, StoreStep, StoreRejects, ReadEntry, ReadIndex, WriteIndex, Crash, stored

\* Steps that add to no sweep's list and log nothing.
LEMMA QuietDefaults ==
  ASSUME Base, Facts, Defaults, [Next]_vars, UNCHANGED timeouts,
         \A s \in Sweeps, e \in Escalations : Pending(s, e)' => Pending(s, e),
         \A s \in Sweeps : pc'[s] = "ok" /\ call'[s].op = "defer" => entry'[Id(s)'].deferred,
         \A s \in Sweeps : pc'[s] \in StoreSteps \cup Results => Id(s)' \notin due'[s]
  PROVE  Defaults'
  <1>1. ASSUME NEW e \in Escalations
        PROVE  timeouts'[e] + Cardinality(Pendings(e)') <= Cardinality(Sweeps)
    <2>1. Pendings(e)' \in SUBSET Pendings(e)
      BY DEF Pendings
    <2>2. timeouts[e] + Cardinality(Pendings(e)) <= Cardinality(Sweeps) /\ timeouts[e] \in Nat
      BY DEF Defaults, Base, TypeOK
    <2>3. Cardinality(Pendings(e)') \in Nat /\ Cardinality(Pendings(e)') <= Cardinality(Pendings(e))
      BY <2>1, PendingCount
    <2>4. Cardinality(Pendings(e)) \in Nat /\ Cardinality(Sweeps) \in Nat
      BY PendingCount
    <2> QED BY <2>2, <2>3, <2>4
  <1>2. \A e \in Escalations : timeouts'[e] # 0 => Spent(e)'
    BY SpentStays DEF Defaults
  <1>3. \A e \in Escalations : entry'[e].status = "none" => ~entry'[e].deferred
    BY SpentStays
  <1> QED BY <1>1, <1>2, <1>3 DEF Defaults

\* The same, for a step that leaves every sweep where it is.
LEMMA IdleDefaults ==
  ASSUME Base, Facts, Defaults, [Next]_vars, UNCHANGED timeouts, UNCHANGED due,
         \A s \in Sweeps : pc'[s] = pc[s] /\ call'[s] = call[s]
  PROVE  Defaults'
  <1>1. \A s \in Sweeps : Id(s)' = Id(s)
    BY DEF Id
  <1>2. \A s \in Sweeps, e \in Escalations : Pending(s, e)' => Pending(s, e)
    BY <1>1 DEF Pending
  <1>3. ASSUME NEW s \in Sweeps, pc'[s] = "ok", call'[s].op = "defer"
        PROVE  entry'[Id(s)'].deferred
    <2>1. entry[Id(s)].deferred /\ Id(s) \in Escalations
      BY <1>3 DEF Defaults, Base, Roles, Calling, Results, Call, Id, Procs
    <2> QED BY <1>1, <2>1, SpentStays
  <1>4. \A s \in Sweeps : pc'[s] \in StoreSteps \cup Results => Id(s)' \notin due'[s]
    BY <1>1 DEF Defaults
  <1> QED BY <1>2, <1>3, <1>4, QuietDefaults

LEMMA ToolDefaults ==
  ASSUME Base, Facts, Defaults, NEW e \in Escalations, [Next]_vars,
         PostEscalationCard(e) \/ CreateRecord(e) \/ TimePasses(e)
  PROVE  Defaults'
  <1>1. UNCHANGED timeouts /\ UNCHANGED due
    BY DEF PostEscalationCard, CreateRecord, TimePasses, history, locals
  <1>2. \A s \in Sweeps : pc'[s] = pc[s] /\ call'[s] = call[s]
    BY DEF PostEscalationCard, CreateRecord, TimePasses, Enter, locals, Base, TypeOK, Procs
  <1> QED BY <1>1, <1>2, IdleDefaults

LEMMA ClickDefaults ==
  ASSUME Base, Facts, Defaults, NEW c \in Clicks, [Next]_vars, Submit(c) \/ ClickStep(c)
  PROVE  Defaults'
  <1>1. UNCHANGED timeouts /\ UNCHANGED due
    BY DEF Submit, ClickStep, Invoke, Reopen, UpdateCard, history
  <1>2. \A s \in Sweeps : pc'[s] = pc[s] /\ call'[s] = call[s]
    BY DEF Submit, ClickStep, Invoke, Reopen, UpdateCard, Enter, Base, TypeOK, Procs
  <1> QED BY <1>1, <1>2, IdleDefaults

\* What a sweep does outside the store, and outside the audit log.
LEMMA SweepFrame ==
  ASSUME Base, NEW s \in Sweeps, SweepStep(s) \/ ScanRejects(s)
  PROVE  /\ s \in Procs /\ UNCHANGED entry
         /\ \A t \in Sweeps \ {s} : pc'[t] = pc[t] /\ call'[t] = call[t] /\ due'[t] = due[t] /\ Id(t)' = Id(t)
  <1>1. s \in Procs /\ UNCHANGED entry
    BY DEF SweepStep, StartSweep, ReadOpen, FilterExpired, ApplyDefault, AfterDefault, EndSweep,
           ScanRejects, stored, Procs
  <1>2. ASSUME NEW t \in Sweeps \ {s}
        PROVE  pc'[t] = pc[t] /\ call'[t] = call[t] /\ due'[t] = due[t]
    BY DEF SweepStep, StartSweep, ReadOpen, FilterExpired, ApplyDefault, AfterDefault, EndSweep,
           ScanRejects, Enter, Base, TypeOK, Procs
  <1> QED BY <1>1, <1>2 DEF Id

LEMMA SweepDefaults ==
  ASSUME Base, Facts, Defaults, NEW s \in Sweeps, [Next]_vars, SweepStep(s) \/ ScanRejects(s)
  PROVE  Defaults'
  <1> USE DEF Base
  <1>1. /\ s \in Procs /\ UNCHANGED entry
        /\ \A t \in Sweeps \ {s} : pc'[t] = pc[t] /\ call'[t] = call[t] /\ due'[t] = due[t] /\ Id(t)' = Id(t)
    BY SweepFrame
  <1>2. \A t \in Sweeps \ {s}, e \in Escalations : Pending(t, e)' => Pending(t, e)
    BY <1>1 DEF Pending
  <1>3. \A t \in Sweeps \ {s} :
          /\ pc'[t] = "ok" /\ call'[t].op = "defer" => entry'[Id(t)'].deferred
          /\ pc'[t] \in StoreSteps \cup Results => Id(t)' \notin due'[t]
    BY <1>1 DEF Defaults
  <1>4. CASE StartSweep(s) \/ FilterExpired(s) \/ EndSweep(s) \/ ScanRejects(s)
    <2>1. pc'[s] \in {"scan", "act", "idle"} /\ due'[s] \subseteq due[s] /\ UNCHANGED timeouts
      BY <1>1, <1>4 DEF StartSweep, FilterExpired, EndSweep, ScanRejects, TypeOK, history
    <2>2. \A e \in Escalations : Pending(s, e)' => Pending(s, e)
      BY <2>1 DEF Pending, StoreSteps
    <2> QED BY <1>2, <1>3, <2>1, <2>2, QuietDefaults DEF StoreSteps, Results
  <1>5. CASE ApplyDefault(s)
    <2>1. PICK f \in due[s] :
            /\ due' = [due EXCEPT ![s] = @ \ {f}]
            /\ Enter(s, [id |-> f, op |-> IF action[s] = "dismiss" THEN "close" ELSE "defer",
                         to |-> "timed_out", blank |-> FALSE])
      BY <1>5 DEF ApplyDefault
    <2>2. due'[s] = due[s] \ {f} /\ pc'[s] = "queued" /\ Id(s)' = f /\ UNCHANGED timeouts
      BY <1>1, <1>5, <2>1 DEF ApplyDefault, Enter, Id, TypeOK, history
    <2>3. \A e \in Escalations : Pending(s, e)' => Pending(s, e)
      BY <2>1, <2>2 DEF Pending
    <2> QED BY <1>2, <1>3, <2>2, <2>3, QuietDefaults
  <1>6. CASE AfterDefault(s) /\ pc[s] = "none"
    <2>1. pc'[s] = "act" /\ UNCHANGED due /\ UNCHANGED timeouts
      BY <1>1, <1>6 DEF AfterDefault, TypeOK
    <2>2. \A e \in Escalations : Pending(s, e)' => Pending(s, e)
      BY <2>1 DEF Pending, StoreSteps
    <2> QED BY <1>2, <1>3, <2>1, <2>2, QuietDefaults DEF StoreSteps, Results
  <1>7. CASE AfterDefault(s) /\ pc[s] = "ok"
    <2>0. Id(s) \in Escalations
      BY <1>1, <1>7 DEF Roles, Calling, Results, Call, Id
    <2> PICK f \in Escalations : f = Id(s)
      BY <2>0
    <2>1. /\ pc'[s] = "act" /\ UNCHANGED due /\ UNCHANGED call
          /\ timeouts' = [timeouts EXCEPT ![f] = @ + 1] /\ f \notin due[s]
          /\ call[s].op \in {"close", "defer"} /\ call[s].to = "timed_out"
      BY <1>1, <1>7 DEF AfterDefault, TypeOK, Roles, Calling, Results, Call, Id, Defaults
    <2>2. Spent(f)
      BY <1>1, <1>7, <2>1 DEF Facts, Wrote, Defaults, Spent
    <2>3. ASSUME NEW e \in Escalations
          PROVE  /\ timeouts'[e] # 0 => Spent(e)'
                 /\ timeouts'[e] + Cardinality(Pendings(e)') <= Cardinality(Sweeps)
      <3>1. /\ timeouts[e] \in Nat /\ timeouts[e] + Cardinality(Pendings(e)) <= Cardinality(Sweeps)
            /\ timeouts'[e] = IF e = f THEN timeouts[e] + 1 ELSE timeouts[e]
        BY <2>1 DEF Defaults, TypeOK
      <3>2. Spent(e)' = Spent(e) /\ (timeouts[e] # 0 => Spent(e))
        BY <1>1 DEF Spent, Defaults
      <3>3. Pendings(e)' \in SUBSET Pendings(e) /\ ~Pending(s, f)' /\ Pending(s, f)
        <4>1. ~Pending(s, f)' /\ Pending(s, f)
          BY <1>7, <2>1 DEF Pending, StoreSteps
        <4>2. Pending(s, e)' => Pending(s, e)
          BY <2>1 DEF Pending, StoreSteps
        <4> QED BY <1>2, <4>1, <4>2 DEF Pendings
      <3>4. CASE e # f
        <4>1. Cardinality(Pendings(e)') <= Cardinality(Pendings(e)) /\ Cardinality(Pendings(e)') \in Nat
          BY <3>3, PendingCount
        <4> QED BY <3>1, <3>2, <3>4, <4>1, PendingCount
      <3>5. CASE e = f
        <4>1. Pendings(e)' \in SUBSET (Pendings(e) \ {s}) /\ s \in Pendings(e)
          BY <3>3, <3>5 DEF Pendings
        <4>2. /\ Cardinality(Pendings(e) \ {s}) = Cardinality(Pendings(e)) - 1
              /\ IsFiniteSet(Pendings(e) \ {s}) /\ Cardinality(Pendings(e)) \in Nat
              /\ Cardinality(Sweeps) \in Nat
          BY <4>1, PendingCount, FS_Subset
        <4>3. Cardinality(Pendings(e)') <= Cardinality(Pendings(e)) - 1 /\ Cardinality(Pendings(e)') \in Nat
          BY <4>1, <4>2, FS_Subset, FS_CardinalityType
        <4> QED BY <2>2, <3>1, <3>2, <3>5, <4>2, <4>3
      <3> QED BY <3>4, <3>5
    <2>4. \A e \in Escalations : entry'[e].status = "none" => ~entry'[e].deferred
      BY SpentStays
    <2>5. ~(pc'[s] = "ok") /\ ~(pc'[s] \in StoreSteps \cup Results)
      BY <2>1 DEF StoreSteps, Results
    <2> QED BY <1>3, <2>3, <2>4, <2>5 DEF Defaults
  <1>8. CASE ReadOpen(s)
    <2>1. PICK f \in snap[s] : due' = [due EXCEPT ![s] = IF Expires(f) THEN @ \cup {f} ELSE @]
      BY <1>8 DEF ReadOpen
    <2>2. /\ pc[s] = "scan" /\ UNCHANGED pc /\ UNCHANGED call /\ UNCHANGED timeouts
          /\ due'[s] = IF Expires(f) THEN due[s] \cup {f} ELSE due[s]
      BY <1>8, <2>1 DEF ReadOpen, TypeOK, history
    <2>3. ASSUME NEW e \in Escalations
          PROVE  timeouts'[e] + Cardinality(Pendings(e)') <= Cardinality(Sweeps)
      <3>1. /\ timeouts'[e] = timeouts[e] /\ timeouts[e] \in Nat
            /\ timeouts[e] + Cardinality(Pendings(e)) <= Cardinality(Sweeps)
        BY <2>2 DEF Defaults, TypeOK
      <3>2. CASE Expires(e)
        <4>1. timeouts[e] = 0
          BY <3>2 DEF Defaults, Expires, Spent
        <4>2. Pendings(e)' \in SUBSET Sweeps
          BY DEF Pendings
        <4>3. /\ Cardinality(Pendings(e)') <= Cardinality(Sweeps) /\ Cardinality(Sweeps) \in Nat
              /\ Cardinality(Pendings(e)') \in Nat
          BY <4>2, SweepsAssumption, FS_Subset, FS_CardinalityType
        <4> QED BY <3>1, <4>1, <4>3
      <3>3. CASE ~Expires(e)
        <4>1. Pending(s, e)' => Pending(s, e)
          BY <2>2, <3>3 DEF Pending, Id
        <4>2. Pendings(e)' \in SUBSET Pendings(e)
          BY <1>2, <4>1 DEF Pendings
        <4>3. Cardinality(Pendings(e)') <= Cardinality(Pendings(e)) /\ Cardinality(Pendings(e)') \in Nat
          BY <4>2, PendingCount
        <4> QED BY <3>1, <4>3, PendingCount
      <3> QED BY <3>2, <3>3
    <2>4. \A e \in Escalations : timeouts'[e] # 0 => Spent(e)'
      BY <1>1, <2>2 DEF Defaults, Spent
    <2>5. \A e \in Escalations : entry'[e].status = "none" => ~entry'[e].deferred
      BY SpentStays
    <2>6. ~(pc'[s] = "ok") /\ ~(pc'[s] \in StoreSteps \cup Results)
      BY <2>2 DEF StoreSteps, Results
    <2> QED BY <1>3, <2>3, <2>4, <2>5, <2>6 DEF Defaults
  <1> QED BY <1>4, <1>5, <1>6, <1>7, <1>8 DEF SweepStep, AfterDefault

LEMMA StoreDefaults ==
  ASSUME Base, Facts, Defaults, NEW p \in Procs, [Next]_vars, StoreStep(p) \/ StoreRejects(p)
  PROVE  Defaults'
  <1> USE DEF Base
  <1>1. /\ UNCHANGED call /\ UNCHANGED due /\ UNCHANGED timeouts
        /\ \A q \in Procs \ {p} : pc'[q] = pc[q]
    BY DEF StoreStep, StoreRejects, ReadEntry, WriteEntry, ReadIndex, WriteIndex, Leave, TypeOK, history
  <1>2. pc[p] \in StoreSteps /\ pc'[p] \in StoreSteps \cup Results
    BY DEF StoreStep, StoreRejects, ReadEntry, WriteEntry, ReadIndex, WriteIndex, Leave, TypeOK,
           StoreSteps, Results
  <1>3. \A q \in Procs : Id(q)' = Id(q)
    BY <1>1 DEF Id
  <1>4. \A s \in Sweeps, e \in Escalations : Pending(s, e)' => Pending(s, e)
    BY <1>1, <1>2, <1>3 DEF Pending, Procs
  <1>5. \A s \in Sweeps : pc'[s] \in StoreSteps \cup Results => Id(s)' \notin due'[s]
    BY <1>1, <1>2, <1>3 DEF Defaults, Procs
  <1>6. ASSUME NEW s \in Sweeps, pc'[s] = "ok", call'[s].op = "defer"
        PROVE  entry'[Id(s)'].deferred
    <2>1. CASE s # p
      <3>1. pc[s] = "ok" /\ call[s].op = "defer" /\ s \in Procs
        BY <1>1, <1>6, <2>1 DEF Procs
      <3>2. entry[Id(s)].deferred /\ Id(s) \in Escalations
        BY <3>1 DEF Defaults, Roles, Calling, Results, Call, Id
      <3> QED BY <1>3, <3>1, <3>2, SpentStays
    <2>2. CASE s = p
      <3>1. WriteEntry(p)
        <4>1. pc'[p] = "ok" => WriteEntry(p) \/ WriteIndex(p)
          BY DEF StoreStep, StoreRejects, ReadEntry, ReadIndex, Leave, TypeOK
        <4>2. WriteIndex(p) => call[p].op # "defer"
          BY DEF WriteIndex, Facts, Wrote
        <4> QED BY <1>1, <1>6, <2>2, <4>1, <4>2
      <3>2. Id(p) \in Escalations /\ call[p].op = "defer"
        BY <1>1, <1>2, <1>6, <2>2 DEF Roles, Calling, Call, Id
      <3>3. entry'[Id(p)] = Written(call[p], entry[Id(p)]) /\ entry[Id(p)] \in Entry
        BY <3>1, <3>2 DEF WriteEntry, TypeOK
      <3> QED BY <1>3, <2>2, <3>2, <3>3 DEF Written, Entry
    <2> QED BY <2>1, <2>2
  <1> QED BY <1>1, <1>4, <1>5, <1>6, QuietDefaults

LEMMA CrashDefaults ==
  ASSUME Base, Facts, Defaults, [Next]_vars, Crash
  PROVE  Defaults'
  <1>1. /\ UNCHANGED timeouts
        /\ \A s \in Sweeps : due'[s] = {} /\ pc'[s] = "idle"
    BY DEF Crash, Procs
  <1>2. \A s \in Sweeps, e \in Escalations : ~Pending(s, e)'
    BY <1>1 DEF Pending, StoreSteps
  <1> QED BY <1>1, <1>2, QuietDefaults DEF StoreSteps, Results

\* Each sweep that may run at the same time logs the default action of an
\* escalation at most once, whatever crashes and failures come between.
THEOREM DefaultAtMostOnce == Spec => []DefaultOnce
  <1>1. Init => Defaults
    <2> SUFFICES ASSUME Init PROVE Defaults
      OBVIOUS
    <2>1. \A s \in Sweeps : due[s] = {} /\ pc[s] = "idle"
      BY DEF Init, Procs
    <2>2. \A e \in Escalations : timeouts[e] = 0 /\ entry[e] = NoEntry
      BY DEF Init
    <2>3. ASSUME NEW e \in Escalations
          PROVE  Cardinality(Pendings(e)) \in Nat /\ Cardinality(Pendings(e)) <= Cardinality(Sweeps)
      BY PendingCount
    <2> QED BY <2>1, <2>2, <2>3, PendingCount DEF Defaults, NoEntry, StoreSteps, Results
  <1>2. Init => Base /\ Facts
    BY InitBase, InitFacts
  <1>3. ASSUME Base, Facts, Defaults, [Next]_vars
        PROVE  Defaults'
    <2>1. CASE UNCHANGED vars
      BY <1>3, <2>1, IdleDefaults DEF vars, locals, history
    <2> QED
      BY <1>3, <2>1, ToolDefaults, ClickDefaults, SweepDefaults, StoreDefaults, CrashDefaults DEF Next
  <1>4. Base /\ Facts /\ [Next]_vars => Base' /\ Facts'
    BY NextBase, NextFacts
  <1>5. Base /\ Defaults => DefaultOnce
    <2> SUFFICES ASSUME Base, Defaults, NEW e \in Escalations
                 PROVE  timeouts[e] <= Cardinality(Sweeps)
      BY DEF DefaultOnce
    <2>1. timeouts[e] \in Nat /\ timeouts[e] + Cardinality(Pendings(e)) <= Cardinality(Sweeps)
      BY DEF Base, TypeOK, Defaults
    <2> QED BY <2>1, PendingCount
  <1> QED BY <1>1, <1>2, <1>3, <1>4, <1>5, PTL DEF Spec

-----------------------------------------------------------------------------
(* The ledger.                                                             *)

LEMMA LedgerStutters ==
  ASSUME \A e \in Escalations : Life(e)' = Life(e)
  PROVE  UNCHANGED [e \in Escalations |-> Life(e)]
  OBVIOUS

LEMMA LedgerMoves ==
  ASSUME NEW e \in Escalations, NEW from, NEW to,
         Life(e) = from, Life(e)' = to,
         \A f \in Escalations \ {e} : Life(f)' = Life(f)
  PROVE  Ledger!Move(e, from, to)
  BY DEF Ledger!Move

LEMMA LedgerWriteAt ==
  ASSUME Base, Facts, NEW p \in Procs, WriteEntry(p),
         NEW e \in Escalations, e = Id(p)
  PROVE  Ledger!Next \/ UNCHANGED [f \in Escalations |-> Life(f)]
  <1> USE DEF Base, Facts
  <1>1. pc[p] = "write" /\ UNCHANGED <<delivered, lost>>
    BY DEF WriteEntry, history
  <1>2. e = call[p].id /\ call[p] \in Call
    BY <1>1 DEF Roles, Calling, StoreSteps, Id
  <1>3. /\ entry'[e] = Written(call[p], entry[e])
        /\ \A f \in Escalations \ {e} : entry'[f] = entry[f]
        /\ entry[e] \in Entry
    BY <1>2 DEF WriteEntry, TypeOK, Id
  <1>4. \A f \in Escalations \ {e} : Life(f)' = Life(f)
    BY <1>1, <1>3 DEF Life
  <1>5. CASE call[p].op = "create"
    <2>1. entry[e].status = "none" /\ entry'[e].status = "open"
      BY <1>1, <1>2, <1>3, <1>5 DEF Roles, Calling, StoreSteps, Procs, Fresh, Written, Id
    <2>2. Life(e) = "none" /\ Life(e)' = "open"
      BY <2>1 DEF Life
    <2>3. Ledger!Move(e, "none", "open")
      BY <1>2, <1>4, <2>2, LedgerMoves
    <2> QED BY <1>2, <2>3 DEF Ledger!Next, Ledger!Raise
  <1>6. CASE call[p].op = "close"
    <2>1. entry[e].status = "open" /\ entry'[e].status = call[p].to /\ delivered[e] = lost[e]
      BY <1>1, <1>2, <1>3, <1>6 DEF SawOpen, Written, Entry, Counts, Id
    <2>2. Life(e) = "open"
      BY <2>1 DEF Life
    <2>3. CASE call[p].to = "resolved"
      <3>1. Life(e)' = "claimed"
        BY <1>1, <2>1, <2>3 DEF Life
      <3>2. Ledger!Move(e, "open", "claimed")
        BY <1>2, <1>4, <2>2, <3>1, LedgerMoves
      <3> QED BY <1>2, <3>2 DEF Ledger!Next, Ledger!Claim
    <2>4. CASE call[p].to = "dismissed"
      <3>1. Life(e)' = "dismissed"
        BY <2>1, <2>4 DEF Life
      <3>2. Ledger!Move(e, "open", "dismissed")
        BY <1>2, <1>4, <2>2, <3>1, LedgerMoves
      <3> QED BY <1>2, <3>2 DEF Ledger!Next, Ledger!Dismiss
    <2>5. CASE call[p].to = "timed_out"
      <3>1. Life(e)' = "timed_out"
        BY <2>1, <2>5 DEF Life
      <3>2. Ledger!Move(e, "open", "timed_out")
        BY <1>2, <1>4, <2>2, <3>1, LedgerMoves
      <3> QED BY <1>2, <3>2 DEF Ledger!Next, Ledger!TimeOut
    <2> QED BY <1>2, <2>3, <2>4, <2>5 DEF Call, Terminal
  <1>7. CASE call[p].op = "reopen"
    <2>1. Claimant(p) /\ p \in Clicks
      BY <1>1, <1>7 DEF Roles, Calling, StoreSteps, Procs, Claimant
    <2>2. entry[e].status = "resolved" /\ delivered[e] = lost[e] /\ entry'[e].status = "open"
      BY <1>2, <1>3, <1>7, <2>1 DEF Claims, Written, Entry, Id
    <2>3. Life(e) = "claimed" /\ Life(e)' = "open"
      BY <2>2 DEF Life
    <2>4. Ledger!Move(e, "claimed", "open")
      BY <1>2, <1>4, <2>3, LedgerMoves
    <2> QED BY <1>2, <2>4 DEF Ledger!Next, Ledger!Withdraw
  <1>8. CASE call[p].op = "defer"
    <2>1. entry'[e].status = entry[e].status
      BY <1>3, <1>8 DEF Written, Entry
    <2>2. Life(e)' = Life(e)
      BY <1>1, <2>1 DEF Life
    <2> QED BY <1>4, <2>2, LedgerStutters
  <1> QED BY <1>2, <1>5, <1>6, <1>7, <1>8 DEF Call

LEMMA LedgerWrite ==
  ASSUME Base, Facts, NEW p \in Procs, WriteEntry(p)
  PROVE  Ledger!Next \/ UNCHANGED [e \in Escalations |-> Life(e)]
  <1>1. Id(p) \in Escalations
    BY DEF Base, WriteEntry, Roles, Calling, StoreSteps, Call, Id
  <1> QED BY <1>1, LedgerWriteAt

LEMMA LedgerReply ==
  ASSUME Base, Facts, NEW c \in Clicks, Invoke(c)
  PROVE  Ledger!Next \/ UNCHANGED [e \in Escalations |-> Life(e)]
  <1> USE DEF Base, Facts
  <1>1. Claimant(c) /\ Id(c) \in Escalations /\ UNCHANGED entry
    BY DEF Invoke, Claimed, Claimant, Roles, Calling, Results, Call, Id, stored, Procs
  <1>2. entry[Id(c)].status = "resolved" /\ delivered[Id(c)] = lost[Id(c)] /\ lost[Id(c)] \in Nat
    BY <1>1 DEF Claims, TypeOK
  <1>3. \/ delivered' = [delivered EXCEPT ![Id(c)] = @ + 1] /\ UNCHANGED lost
        \/ UNCHANGED <<delivered, lost>>
        \/ /\ delivered' = [delivered EXCEPT ![Id(c)] = @ + 1]
           /\ lost' = [lost EXCEPT ![Id(c)] = @ + 1]
    BY DEF Invoke
  <1>4. /\ \A f \in Escalations \ {Id(c)} : delivered'[f] = delivered[f] /\ lost'[f] = lost[f]
        /\ delivered'[Id(c)] = lost'[Id(c)] \/ delivered'[Id(c)] # lost'[Id(c)]
    BY <1>1, <1>3 DEF TypeOK
  <1>5. \A f \in Escalations \ {Id(c)} : Life(f)' = Life(f)
    BY <1>1, <1>4 DEF Life
  <1>6. Life(Id(c)) = "claimed"
    BY <1>2 DEF Life
  <1>7. ASSUME NEW e \in Escalations, e = Id(c)
        PROVE  Ledger!Next \/ UNCHANGED [f \in Escalations |-> Life(f)]
    <2>1. entry'[e] = entry[e] /\ Life(e) = "claimed" /\ entry[e].status = "resolved"
      BY <1>1, <1>2, <1>6, <1>7
    <2>2. CASE delivered'[e] = lost'[e]
      <3>1. Life(e)' = Life(e)
        BY <2>1, <2>2 DEF Life
      <3> QED BY <1>5, <1>7, <3>1, LedgerStutters
    <2>3. CASE delivered'[e] # lost'[e]
      <3>1. Life(e)' = "replied"
        BY <2>1, <2>3 DEF Life
      <3>2. Ledger!Move(e, "claimed", "replied")
        BY <1>5, <1>7, <2>1, <3>1, LedgerMoves
      <3> QED BY <3>2 DEF Ledger!Next, Ledger!Reply
    <2> QED BY <2>2, <2>3
  <1> QED BY <1>1, <1>7

LEMMA LedgerOther ==
  ASSUME Base, [Next]_vars,
         ~\E p \in Procs : WriteEntry(p), ~\E c \in Clicks : Invoke(c)
  PROVE  UNCHANGED [e \in Escalations |-> Life(e)]
  <1>1. UNCHANGED <<entry, delivered, lost>>
    <2>1. CASE UNCHANGED vars
      BY <2>1 DEF vars, stored, history
    <2>2. ASSUME NEW e \in Escalations, PostEscalationCard(e) \/ CreateRecord(e) \/ TimePasses(e)
          PROVE  UNCHANGED <<entry, delivered, lost>>
      BY <2>2 DEF PostEscalationCard, CreateRecord, TimePasses, stored, history
    <2>3. ASSUME NEW c \in Clicks, Submit(c) \/ ClickStep(c)
          PROVE  UNCHANGED <<entry, delivered, lost>>
      BY <2>3 DEF Submit, ClickStep, Reopen, UpdateCard, stored, history
    <2>4. ASSUME NEW s \in Sweeps, SweepStep(s) \/ ScanRejects(s)
          PROVE  UNCHANGED <<entry, delivered, lost>>
      BY <2>4 DEF SweepStep, StartSweep, ReadOpen, FilterExpired, ApplyDefault, AfterDefault,
                  EndSweep, ScanRejects, stored, history
    <2>5. ASSUME NEW p \in Procs, StoreStep(p) \/ StoreRejects(p)
          PROVE  UNCHANGED <<entry, delivered, lost>>
      BY <2>5 DEF StoreStep, ReadEntry, ReadIndex, WriteIndex, StoreRejects, stored, history
    <2>6. CASE Crash
      BY <2>6 DEF Crash, stored
    <2> QED BY <2>1, <2>2, <2>3, <2>4, <2>5, <2>6 DEF Next
  <1> QED BY <1>1 DEF Life

\* With all their locks, awaits and failures, the tool, the clicks and the sweep
\* implement the ledger: every step is one of its moves or none.
THEOREM Refinement == Spec => ImplementsLedger
  <1>1. Init => Ledger!Init
    BY DEF Init, Ledger!Init, Life, NoEntry
  <1>2. Base /\ Facts /\ [Next]_vars => [Ledger!Next]_([e \in Escalations |-> Life(e)])
    BY LedgerWrite, LedgerReply, LedgerOther
  <1> QED BY <1>1, <1>2, FactsHold, PTL DEF Spec, Ledger!Spec, ImplementsLedger
=============================================================================
