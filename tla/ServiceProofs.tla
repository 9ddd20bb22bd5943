---------------------------- MODULE ServiceProofs ----------------------------
(***************************************************************************)
(* Proofs about the Teams plugin's services: the reads of Microsoft Graph, *)
(* the delivery of notifications and the daily digest; and about all of    *)
(* the plugin's components together.                                       *)
(***************************************************************************)
EXTENDS MCTeams, BotProofs, AgentProofs, FiniteSetTheorems, SequenceTheorems

-----------------------------------------------------------------------------
(* Reads of Microsoft Graph.                                                *)

\* No step of a call takes longer than MaxFetch, and what it is about to store was
\* read when its last step ended.
Timely == \A l \in Lookups :
  /\ lookup[l].at \in {"token", "mint", "read", "store"} =>
       lookup[l].since <= time /\ time <= lookup[l].since + MaxFetch
  /\ lookup[l].at = "store" => lookup[l].read = lookup[l].since

\* An entry is stamped at most one step after it was read, on a clock that is never ahead.
Stamped == \A k \in Keys : cache[k] # Nothing => cache[k].stamp <= cache[k].read + MaxFetch

\* A call that was refused once finds no token or one that is younger than its
\* refusal, and so reads with one that is two steps old at the most.
SecondToken == \A l \in Lookups :
  /\ lookup[l].at = "idle" => ~lookup[l].retried
  /\ lookup[l].retried /\ lookup[l].at = "token" => token = Nothing \/ token.minted >= lookup[l].since
  /\ lookup[l].retried /\ lookup[l].at = "read" => lookup[l].since <= lookup[l].minted + MaxFetch

GraphInv == GraphTypeOK /\ Timely /\ Stamped /\ SecondToken /\ ExpiryRecovered

LEMMA GraphConstants ==
  /\ UserTtl \in Nat /\ TokenSkew \in Nat /\ MaxTime \in Nat /\ MaxBack \in Nat
  /\ RosterTtl \in Nat \ {0} /\ TokenLife \in Nat \ {0} /\ MaxFetch \in Nat \ {0}
  /\ TokenLife > 2 * MaxFetch /\ Channels \subseteq Keys /\ Keys # {} /\ Time \subseteq Nat
BY GraphAssumption DEF Keys, Time

Ats == {"idle", "token", "mint", "read", "store", "done", "refused"}
Going == {"token", "mint", "read", "store"}

\* A call goes on, and the others stay.
LEMMA StepFacts ==
  ASSUME GraphTypeOK, NEW l \in Lookups, NEW at \in Ats, NEW r \in Lookup, Step(l, at, r)
  PROVE  /\ lookup' \in [Lookups -> Lookup]
         /\ \A m \in Lookups \ {l} : lookup'[m] = lookup[m]
         /\ lookup'[l].at = at /\ lookup'[l].key = r.key /\ lookup'[l].read = r.read
         /\ lookup'[l].retried = r.retried
         /\ at \in Going => lookup'[l].since = time /\ lookup'[l].minted = r.minted
<1> DEFINE x == [r EXCEPT !.at = at, !.start = 0, !.minted = 0]
           y == [r EXCEPT !.at = at, !.since = time]
           z == IF at \in {"done", "refused"} THEN x ELSE y
<1>1. time \in Time /\ 0 \in Time /\ lookup \in [Lookups -> Lookup]
  BY GraphConstants DEF GraphTypeOK, Time
<1>2. /\ x \in Lookup /\ x.at = at /\ x.key = r.key /\ x.read = r.read /\ x.retried = r.retried
      /\ y \in Lookup /\ y.at = at /\ y.key = r.key /\ y.read = r.read /\ y.retried = r.retried
      /\ y.since = time /\ y.minted = r.minted
  <2> USE DEF Lookup, Ats
  <2>1. x \in Lookup
    <3> DEFINE q == [r EXCEPT !.at = at]
    <3>1. q \in Lookup
      OBVIOUS
    <3> HIDE DEF q
    <3> DEFINE p == [q EXCEPT !.start = 0]
    <3>2. p \in Lookup
      BY <3>1
    <3>3. [p EXCEPT !.minted = 0] \in Lookup
      <4> HIDE DEF p
      <4> QED BY <1>1, <3>2
    <3>4. x = [p EXCEPT !.minted = 0]
      BY DEF q
    <3> QED BY <3>3, <3>4
  <2>2. x.at = at /\ x.key = r.key /\ x.read = r.read /\ x.retried = r.retried
    BY <1>1
  <2>3. y \in Lookup
    BY <1>1
  <2>4. y.at = at /\ y.key = r.key /\ y.read = r.read /\ y.retried = r.retried
    BY <1>1
  <2>5. y.since = time /\ y.minted = r.minted
    BY <1>1
  <2> QED BY <2>1, <2>2, <2>3, <2>4, <2>5
<1>3. lookup' = [lookup EXCEPT ![l] = z]
  BY DEF Step
<1>4. at \in Going => z = y
  BY DEF Going
<1> HIDE DEF x, y
<1>5. z \in Lookup /\ z.at = at /\ z.key = r.key /\ z.read = r.read /\ z.retried = r.retried
  BY <1>2
<1> HIDE DEF z
<1>6. lookup'[l] = z /\ lookup' \in [Lookups -> Lookup] /\ \A m \in Lookups \ {l} : lookup'[m] = lookup[m]
  BY <1>1, <1>3, <1>5
<1> QED BY <1>2, <1>4, <1>5, <1>6

LEMMA LookupFacts ==
  ASSUME NEW r \in Lookup
  PROVE  /\ r.since \in Time /\ r.minted \in Time /\ r.read \in Time /\ r.start \in Int /\ r.key \in Keys
         /\ r.at \in Ats /\ r.retried \in BOOLEAN
BY DEF Lookup, Ats

\* What a call may learn before its next step.
LEMMA Asked ==
  ASSUME NEW r \in Lookup, NEW k \in Keys, NEW t \in Time
  PROVE  LET q == [[r EXCEPT !.key = k] EXCEPT !.read = t]
         IN  q \in Lookup /\ q.read = t /\ q.key = k
BY DEF Lookup

LEMMA AskedAny ==
  ASSUME NEW r \in Lookup, NEW k \in Keys
  PROVE  LET q == [r EXCEPT !.key = k]
         IN  q \in Lookup /\ q.retried = r.retried
BY DEF Lookup

LEMMA Granted ==
  ASSUME NEW r \in Lookup, NEW t \in Time
  PROVE  LET q == [r EXCEPT !.minted = t]
         IN  q \in Lookup /\ q.retried = r.retried /\ q.minted = t
BY DEF Lookup

LEMMA ReadNow ==
  ASSUME NEW r \in Lookup, NEW t \in Time
  PROVE  LET q == [r EXCEPT !.read = t]
         IN  q \in Lookup /\ q.retried = r.retried /\ q.read = t /\ q.key = r.key
BY DEF Lookup

LEMMA Begun ==
  ASSUME NEW r \in Lookup, NEW i \in Int
  PROVE  LET q == [r EXCEPT !.start = i]
         IN  q \in Lookup /\ q.retried = r.retried
BY DEF Lookup

LEMMA Again ==
  ASSUME NEW r \in Lookup
  PROVE  [r EXCEPT !.retried = TRUE] \in Lookup
BY DEF Lookup

\* What the other calls know stays so, as long as tokens are dropped or new.
LEMMA OtherLookups ==
  ASSUME GraphInv, NEW l \in Lookups, \A m \in Lookups \ {l} : lookup'[m] = lookup[m],
         UNCHANGED time, token' = token \/ token' = Nothing \/ token'.minted = time,
         lookup'[l].at \in Going => lookup'[l].since = time,
         lookup'[l].at = "store" => lookup'[l].read = time,
         lookup'[l].at = "idle" => ~lookup'[l].retried,
         lookup'[l].at = "token" /\ lookup'[l].retried => token' = Nothing,
         lookup'[l].at = "read" /\ lookup'[l].retried => time <= lookup'[l].minted + MaxFetch,
         lookup'[l].at # "refused"
  PROVE  Timely' /\ SecondToken' /\ ExpiryRecovered'
<1>1. time \in Nat /\ MaxFetch \in Nat /\ \A m \in Lookups : lookup[m].since \in Nat
  BY GraphConstants, LookupFacts DEF GraphInv, GraphTypeOK
<1>2. ASSUME NEW m \in Lookups
      PROVE  /\ lookup'[m].at \in {"token", "mint", "read", "store"} =>
                  lookup'[m].since <= time /\ time <= lookup'[m].since + MaxFetch
             /\ lookup'[m].at = "store" => lookup'[m].read = lookup'[m].since
  <2>1. CASE m = l
    BY <1>1, <2>1 DEF Going
  <2>2. CASE m # l
    BY <2>2 DEF GraphInv, Timely
  <2> QED BY <2>1, <2>2
<1>3. ASSUME NEW m \in Lookups
      PROVE  /\ lookup'[m].at = "idle" => ~lookup'[m].retried
             /\ lookup'[m].retried /\ lookup'[m].at = "token" => token' = Nothing \/ token'.minted >= lookup'[m].since
             /\ lookup'[m].retried /\ lookup'[m].at = "read" => lookup'[m].since <= lookup'[m].minted + MaxFetch
             /\ lookup'[m].at # "refused"
  <2>1. CASE m = l
    BY <2>1 DEF Going
  <2>2. CASE m # l
    <3>1. lookup'[m] = lookup[m] /\ lookup[m].at # "refused"
      BY <2>2 DEF GraphInv, ExpiryRecovered
    <3>2. lookup[m].at = "token" => lookup[m].since <= time
      BY DEF GraphInv, Timely
    <3>3. lookup[m].retried /\ lookup[m].at = "token" => token' = Nothing \/ token'.minted >= lookup[m].since
      BY <1>1, <3>2 DEF GraphInv, SecondToken
    <3> QED BY <3>1, <3>3 DEF GraphInv, SecondToken
  <2> QED BY <2>1, <2>2
<1>4. Timely'
  BY <1>2 DEF Timely
<1>5. SecondToken' /\ ExpiryRecovered'
  BY <1>3 DEF SecondToken, ExpiryRecovered
<1> QED BY <1>4, <1>5

LEMMA StartLookupKeeps ==
  ASSUME GraphInv, NEW l \in Lookups, StartLookup(l)
  PROVE  GraphInv'
<1>1. /\ GraphTypeOK /\ lookup[l] \in Lookup /\ lookup[l].at = "idle" /\ ~lookup[l].retried
      /\ UNCHANGED time /\ UNCHANGED back /\ UNCHANGED token /\ UNCHANGED cache /\ UNCHANGED graphFaults
  BY DEF StartLookup, GraphInv, GraphTypeOK, SecondToken
<1>2. PICK at \in {"done", "token"}, r \in Lookup : Step(l, at, r) /\ (at = "token" => ~r.retried)
  <2>1. PICK k \in Keys : IF Fresh(k) THEN Step(l, "done", [[lookup[l] EXCEPT !.key = k] EXCEPT !.read = cache[k].read])
                                      ELSE Step(l, "token", [lookup[l] EXCEPT !.key = k])
    BY DEF StartLookup
  <2>2. CASE Fresh(k)
    <3>1. cache[k].read \in Time
      BY <1>1, <2>2 DEF Fresh, GraphTypeOK
    <3>2. [[lookup[l] EXCEPT !.key = k] EXCEPT !.read = cache[k].read] \in Lookup
      BY <1>1, <3>1, Asked
    <3>3. "done" # "token"
      OBVIOUS
    <3> QED BY <2>1, <2>2, <3>2, <3>3
  <2>3. CASE ~Fresh(k)
    <3>1. [lookup[l] EXCEPT !.key = k] \in Lookup /\ ~[lookup[l] EXCEPT !.key = k].retried
      BY <1>1, AskedAny
    <3> QED BY <2>1, <2>3, <3>1
  <2> QED BY <2>2, <2>3
<1>3. /\ lookup' \in [Lookups -> Lookup] /\ \A m \in Lookups \ {l} : lookup'[m] = lookup[m]
      /\ lookup'[l].at = at /\ lookup'[l].retried = r.retried /\ (at \in Going => lookup'[l].since = time)
  BY <1>1, <1>2, StepFacts DEF Ats
<1>4. Timely' /\ SecondToken' /\ ExpiryRecovered'
  <2>1. at \in Going => at = "token"
    BY DEF Going
  <2> QED BY <1>1, <1>2, <1>3, <2>1, OtherLookups
<1> QED BY <1>1, <1>3, <1>4 DEF GraphInv, GraphTypeOK, Stamped

LEMMA StoreResultKeeps ==
  ASSUME GraphInv, NEW l \in Lookups, StoreResult(l)
  PROVE  GraphInv'
<1> DEFINE k == lookup[l].key
           entry == [stamp |-> Now, read |-> lookup[l].read]
           kept == IF k \in Channels \ Rosters /\ Cardinality(Rosters) >= MaxEntries
                     THEN [c \in Keys |-> IF c \in Channels THEN Nothing ELSE cache[c]]
                     ELSE cache
<1>1. /\ GraphTypeOK /\ lookup[l] \in Lookup /\ lookup[l].at = "store" /\ Step(l, "done", lookup[l])
      /\ cache' = [kept EXCEPT ![k] = entry]
      /\ UNCHANGED time /\ UNCHANGED back /\ UNCHANGED token /\ UNCHANGED graphFaults
  BY DEF StoreResult, GraphInv, GraphTypeOK
<1>2. k \in Keys /\ lookup[l].read \in Time /\ lookup[l].read \in Nat /\ time \in Nat /\ back \in Nat /\ MaxFetch \in Nat
  <2>1. k \in Keys /\ lookup[l].read \in Time
    BY <1>1, LookupFacts
  <2>2. lookup[l].read \in Nat /\ MaxFetch \in Nat
    BY <2>1, GraphConstants
  <2>3. time \in Nat /\ back \in Nat
    BY <1>1, GraphConstants DEF GraphTypeOK
  <2> QED BY <2>1, <2>2, <2>3
<1>3. Now \in Int /\ Now <= lookup[l].read + MaxFetch
  <2>1. time <= lookup[l].read + MaxFetch
    BY <1>1 DEF GraphInv, Timely
  <2> QED BY <1>2, <2>1 DEF Now
<1>4. kept \in [Keys -> {Nothing} \cup [stamp: Int, read: Time]] /\ \A c \in Keys : kept[c] = Nothing \/ kept[c] = cache[c]
  BY <1>1 DEF GraphTypeOK
<1>5. entry \in [stamp: Int, read: Time] /\ entry.stamp <= entry.read + MaxFetch
  BY <1>2, <1>3
<1> HIDE DEF kept, entry, k
<1>6. /\ cache' \in [Keys -> {Nothing} \cup [stamp: Int, read: Time]] /\ cache'[k] = entry
      /\ \A c \in Keys : c # k => cache'[c] = Nothing \/ cache'[c] = cache[c]
  BY <1>1, <1>2, <1>4, <1>5
<1>7. Stamped'
  BY <1>5, <1>6 DEF GraphInv, Stamped
<1>8. /\ lookup' \in [Lookups -> Lookup] /\ \A m \in Lookups \ {l} : lookup'[m] = lookup[m]
      /\ lookup'[l].at = "done"
  BY <1>1, StepFacts DEF Ats
<1>9. Timely' /\ SecondToken' /\ ExpiryRecovered'
  BY <1>1, <1>8, OtherLookups DEF Going
<1> QED BY <1>1, <1>6, <1>7, <1>8, <1>9 DEF GraphInv, GraphTypeOK

LEMMA GetTokenKeeps ==
  ASSUME GraphInv, NEW l \in Lookups, GetToken(l)
  PROVE  GraphInv'
<1>1. /\ GraphTypeOK /\ lookup[l] \in Lookup /\ lookup[l].at = "token"
      /\ UNCHANGED time /\ UNCHANGED back /\ UNCHANGED cache /\ UNCHANGED graphFaults
  BY DEF GetToken, GraphInv, GraphTypeOK
<1>2. PICK at \in {"read", "mint"}, r \in Lookup :
        /\ Step(l, at, r) /\ r.retried = lookup[l].retried
        /\ (at = "read" /\ token # Nothing /\ token' = token /\ r.minted = token.minted) \/ (at = "mint" /\ token' = Nothing)
  <2>1. CASE token # Nothing /\ Now < token.expires
    <3>1. token.minted \in Time
      BY <1>1, <2>1 DEF GraphTypeOK
    <3>2. /\ [lookup[l] EXCEPT !.minted = token.minted] \in Lookup
          /\ [lookup[l] EXCEPT !.minted = token.minted].retried = lookup[l].retried
          /\ [lookup[l] EXCEPT !.minted = token.minted].minted = token.minted
      BY <1>1, <3>1, Granted
    <3> QED BY <2>1, <3>2 DEF GetToken
  <2>2. CASE ~(token # Nothing /\ Now < token.expires)
    <3>1. Now \in Int
      BY <1>1, GraphConstants DEF GraphTypeOK, Now
    <3>2. /\ [lookup[l] EXCEPT !.start = Now] \in Lookup
          /\ [lookup[l] EXCEPT !.start = Now].retried = lookup[l].retried
      BY <1>1, <3>1, Begun
    <3> QED BY <2>2, <3>2 DEF GetToken
  <2> QED BY <2>1, <2>2
<1>3. /\ lookup' \in [Lookups -> Lookup] /\ \A m \in Lookups \ {l} : lookup'[m] = lookup[m]
      /\ lookup'[l].at = at /\ lookup'[l].retried = r.retried /\ lookup'[l].since = time /\ lookup'[l].minted = r.minted
  BY <1>1, <1>2, StepFacts DEF Ats, Going
<1>4. at = "read" /\ lookup'[l].retried => time <= lookup'[l].minted + MaxFetch
  <2>1. time <= lookup[l].since + MaxFetch /\ (lookup[l].retried => token = Nothing \/ token.minted >= lookup[l].since)
    BY <1>1 DEF GraphInv, Timely, SecondToken
  <2>2. time \in Nat /\ MaxFetch \in Nat /\ lookup[l].since \in Nat /\ r.minted \in Nat
    BY <1>1, <1>2, LookupFacts, GraphConstants DEF GraphTypeOK
  <2> QED BY <1>2, <1>3, <2>1, <2>2
<1>5. Timely' /\ SecondToken' /\ ExpiryRecovered'
  <2>1. at # "store" /\ at # "idle" /\ at # "token" /\ at # "refused"
    OBVIOUS
  <2> QED BY <1>1, <1>2, <1>3, <1>4, <2>1, OtherLookups
<1> QED BY <1>1, <1>2, <1>3, <1>5 DEF GraphInv, GraphTypeOK, Stamped

LEMMA MintKeeps ==
  ASSUME GraphInv, NEW l \in Lookups, Mint(l)
  PROVE  GraphInv'
<1> DEFINE r == [lookup[l] EXCEPT !.minted = time]
           life == IF TokenLife > TokenSkew THEN TokenLife - TokenSkew ELSE 0
<1>1. /\ GraphTypeOK /\ lookup[l] \in Lookup /\ Step(l, "read", r) /\ time \in Time
      /\ token' = [minted |-> time, expires |-> lookup[l].start + life]
      /\ UNCHANGED time /\ UNCHANGED back /\ UNCHANGED cache /\ UNCHANGED graphFaults
  BY DEF Mint, GraphInv, GraphTypeOK
<1>2. /\ r \in Lookup /\ r.minted = time /\ time \in Nat /\ MaxFetch \in Nat
      /\ lookup[l].start \in Int /\ life \in Int
  <2>1. r \in Lookup /\ r.minted = time
    BY <1>1, Granted
  <2>2. lookup[l].start \in Int
    BY <1>1, LookupFacts
  <2>3. life \in Int /\ time \in Nat /\ MaxFetch \in Nat
    BY <1>1, GraphConstants
  <2> QED BY <2>1, <2>2, <2>3
<1> HIDE DEF r, life
<1>3. token' \in [minted: Time, expires: Int] /\ token'.minted = time
  BY <1>1, <1>2
<1>4. /\ lookup' \in [Lookups -> Lookup] /\ \A m \in Lookups \ {l} : lookup'[m] = lookup[m]
      /\ lookup'[l].at = "read" /\ lookup'[l].since = time /\ lookup'[l].minted = time
  BY <1>1, <1>2, StepFacts DEF Ats, Going
<1>5. Timely' /\ SecondToken' /\ ExpiryRecovered'
  <2>1. time <= time + MaxFetch
    BY <1>2
  <2> QED BY <1>1, <1>3, <1>4, <2>1, OtherLookups
<1> QED BY <1>1, <1>3, <1>4, <1>5 DEF GraphInv, GraphTypeOK, Stamped

\* A call has read, or its read has failed for another reason than its token.
LEMMA AnsweredKeeps ==
  ASSUME GraphInv, NEW l \in Lookups, NEW at \in {"store", "done"}, Step(l, at, [lookup[l] EXCEPT !.read = time]),
         UNCHANGED <<time, back, token, cache>>, graphFaults' \in Nat
  PROVE  GraphInv'
<1> DEFINE r == [lookup[l] EXCEPT !.read = time]
<1>1. /\ GraphTypeOK /\ r \in Lookup /\ r.read = time
      /\ UNCHANGED time /\ UNCHANGED back /\ UNCHANGED token /\ UNCHANGED cache
  BY ReadNow DEF GraphInv, GraphTypeOK
<1>2. Step(l, at, r)
  OBVIOUS
<1> HIDE DEF r
<1>3. /\ lookup' \in [Lookups -> Lookup] /\ \A m \in Lookups \ {l} : lookup'[m] = lookup[m]
      /\ lookup'[l].at = at /\ lookup'[l].read = time /\ (at \in Going => lookup'[l].since = time)
  BY <1>1, <1>2, StepFacts DEF Ats
<1>4. Timely' /\ SecondToken' /\ ExpiryRecovered'
  <2>1. at # "idle" /\ at # "token" /\ at # "read" /\ at # "refused"
    OBVIOUS
  <2> QED BY <1>1, <1>3, <2>1, OtherLookups
<1> QED BY <1>1, <1>3, <1>4 DEF GraphInv, GraphTypeOK, Stamped

LEMMA RefusedKeeps ==
  ASSUME GraphInv, NEW l \in Lookups, Refused(l)
  PROVE  GraphInv'
<1> DEFINE r == [lookup[l] EXCEPT !.retried = TRUE]
<1>1. /\ GraphTypeOK /\ lookup[l] \in Lookup /\ r \in Lookup /\ lookup[l].at = "read" /\ ~Valid(l)
      /\ UNCHANGED time /\ UNCHANGED back /\ UNCHANGED cache /\ UNCHANGED graphFaults
  BY Again DEF Refused, GraphInv, GraphTypeOK
<1>2. ~lookup[l].retried
  <2> SUFFICES ASSUME lookup[l].retried PROVE Valid(l)
    BY <1>1
  <2>1. time <= lookup[l].since + MaxFetch /\ lookup[l].since <= lookup[l].minted + MaxFetch
    BY <1>1 DEF GraphInv, Timely, SecondToken
  <2>2. /\ time \in Nat /\ MaxFetch \in Nat /\ lookup[l].since \in Nat /\ lookup[l].minted \in Nat
        /\ TokenLife \in Nat /\ TokenLife > 2 * MaxFetch
    BY <1>1, LookupFacts, GraphConstants DEF GraphTypeOK
  <2> QED BY <2>1, <2>2 DEF Valid
<1>3. Step(l, "token", r) /\ token' = Nothing
  BY <1>2 DEF Refused
<1> HIDE DEF r
<1>4. /\ lookup' \in [Lookups -> Lookup] /\ \A m \in Lookups \ {l} : lookup'[m] = lookup[m]
      /\ lookup'[l].at = "token" /\ lookup'[l].since = time
  BY <1>1, <1>3, StepFacts DEF Ats, Going
<1>5. Timely' /\ SecondToken' /\ ExpiryRecovered'
  BY <1>1, <1>3, <1>4, OtherLookups
<1> QED BY <1>1, <1>3, <1>4, <1>5 DEF GraphInv, GraphTypeOK, Stamped

LEMMA ClockKeeps ==
  ASSUME GraphInv, Tick \/ SetBack
  PROVE  GraphInv'
<1>1. /\ GraphTypeOK /\ UNCHANGED token /\ UNCHANGED cache /\ UNCHANGED lookup /\ UNCHANGED graphFaults
      /\ time \in Nat /\ MaxTime \in Nat /\ MaxFetch \in Nat /\ back \in 0..MaxBack
      /\ \A l \in Lookups : lookup[l].since \in Nat
  BY GraphConstants, LookupFacts DEF GraphInv, GraphTypeOK, Tick, SetBack
<1>2. time' \in Time /\ back' \in 0..MaxBack /\ Timely'
  <2>1. CASE Tick
    <3>1. time' \in Time /\ time' = time + 1 /\ back' = back
      BY <1>1, <2>1 DEF Tick, Time
    <3>2. ASSUME NEW l \in Lookups, lookup[l].at \in {"token", "mint", "read", "store"}
          PROVE  lookup[l].since <= time' /\ time' <= lookup[l].since + MaxFetch
      <4>1. time < lookup[l].since + MaxFetch /\ lookup[l].since <= time
        BY <2>1, <3>2 DEF Tick, Done, GraphInv, Timely
      <4> QED BY <1>1, <3>1, <4>1
    <3>3. Timely'
      BY <1>1, <3>2 DEF GraphInv, Timely
    <3> QED BY <1>1, <3>1, <3>3
  <2>2. CASE SetBack
    <3>1. time' = time /\ back' \in 1..MaxBack /\ MaxBack \in Nat
      BY <2>2, GraphConstants DEF SetBack
    <3> QED BY <1>1, <3>1 DEF GraphInv, GraphTypeOK, Timely
  <2> QED BY <2>1, <2>2
<1> QED BY <1>1, <1>2 DEF GraphInv, GraphTypeOK, Stamped, SecondToken, ExpiryRecovered

LEMMA GraphStart ==
  ASSUME GraphInit
  PROVE  GraphInv
<1> DEFINE key == CHOOSE k \in Keys : TRUE
           new == [at |-> "idle", key |-> key, since |-> 0, start |-> 0, minted |-> 0, read |-> 0, retried |-> FALSE]
<1>1. key \in Keys
  BY GraphConstants
<1> HIDE DEF key
<1>2. 0 \in Time /\ 0 \in 0..MaxBack
  BY GraphConstants DEF Time
<1>3. new \in Lookup /\ new.at = "idle" /\ ~new.retried
  BY <1>1, <1>2 DEF Lookup
<1>4. lookup = [l \in Lookups |-> new]
  BY DEF GraphInit, key
<1> HIDE DEF new
<1>5. lookup \in [Lookups -> Lookup] /\ \A l \in Lookups : lookup[l].at = "idle" /\ ~lookup[l].retried
  BY <1>3, <1>4
<1>6. GraphTypeOK
  BY <1>2, <1>5 DEF GraphInit, GraphTypeOK
<1>7. Timely /\ SecondToken /\ ExpiryRecovered
  BY <1>5 DEF Timely, SecondToken, ExpiryRecovered
<1> QED BY <1>6, <1>7 DEF GraphInv, GraphInit, Stamped

LEMMA GraphStep ==
  ASSUME GraphInv, [GraphNext]_graphVars
  PROVE  GraphInv'
<1>1. ASSUME NEW l \in Lookups, Read(l) PROVE GraphInv'
  BY <1>1, AnsweredKeeps DEF Read, GraphInv, GraphTypeOK
<1>2. ASSUME NEW l \in Lookups, Fails(l) PROVE GraphInv'
  BY <1>2, AnsweredKeeps DEF Fails, Failed, GraphInv, GraphTypeOK
<1>3. CASE UNCHANGED graphVars
  BY <1>3 DEF graphVars, GraphInv, GraphTypeOK, Timely, Stamped, SecondToken, ExpiryRecovered
<1> QED BY <1>1, <1>2, <1>3, StartLookupKeeps, StoreResultKeeps, GetTokenKeeps, MintKeeps, RefusedKeeps,
           ClockKeeps DEF GraphNext

\* The reads of Graph are typed, timely, and sure of a valid token the second time,
\* for any caches, token lives, failures and numbers of calls (roster-cache.ts,
\* graph.ts).
THEOREM GraphInductive == GraphSpec => []GraphInv
BY GraphStart, GraphStep, PTL DEF GraphSpec

\* No read fails for an expired token twice in a row, as long as a token lives
\* longer than two steps of a call (getAppToken, the retry after a 401).
THEOREM ExpiryAlwaysRecovered == GraphSpec => []ExpiryRecovered
<1>1. GraphInv => ExpiryRecovered
  BY DEF GraphInv
<1> QED BY <1>1, GraphInductive, PTL

\* A call that goes on does so in a step, and what it is served from a roster is
\* recent enough.
Recent(r) == time - r.read < MaxFetch + RosterTtl + back

LEMMA SomeStep ==
  ASSUME GraphInv, NEW l \in Lookups,
         StartLookup(l) \/ StoreResult(l) \/ GetToken(l) \/ Mint(l) \/ Read(l) \/ Refused(l) \/ Fails(l)
  PROVE  \E at \in Ats, r \in Lookup :
           Step(l, at, r) /\ (at = "done" /\ r.key \in Channels => Recent(r))
<1>1. /\ GraphTypeOK /\ lookup[l] \in Lookup /\ time \in Time /\ time \in Nat /\ back \in Nat
      /\ MaxFetch \in Nat \ {0} /\ RosterTtl \in Nat \ {0} /\ Channels \subseteq Keys
  BY GraphConstants DEF GraphInv, GraphTypeOK
<1>2. CASE StartLookup(l)
  <2>1. PICK k \in Keys : IF Fresh(k) THEN Step(l, "done", [[lookup[l] EXCEPT !.key = k] EXCEPT !.read = cache[k].read])
                                      ELSE Step(l, "token", [lookup[l] EXCEPT !.key = k])
    BY <1>2 DEF StartLookup
  <2>2. CASE Fresh(k)
    <3> DEFINE r == [[lookup[l] EXCEPT !.key = k] EXCEPT !.read = cache[k].read]
    <3>1. cache[k].read \in Time /\ cache[k].read \in Nat /\ cache[k].stamp \in Int
      BY <1>1, <2>2, GraphConstants DEF Fresh, GraphTypeOK
    <3>2. r \in Lookup /\ r.read = cache[k].read /\ r.key = k
      <4>1. lookup[l] \in Lookup
        BY <1>1
      <4>2. r \in Lookup
        BY <3>1, <4>1, Asked
      <4>3. r.read = cache[k].read /\ r.key = k
        BY <4>1 DEF Lookup
      <4> QED BY <4>2, <4>3
    <3>3. ASSUME k \in Channels PROVE Recent(r)
      <4>1. Now - cache[k].stamp \in 0..(RosterTtl - 1) /\ cache[k].stamp <= cache[k].read + MaxFetch
        BY <2>2, <3>3 DEF Fresh, FreshRoster, GraphInv, Stamped
      <4> QED BY <1>1, <3>1, <3>2, <4>1 DEF Now, Recent
    <3>4. Step(l, "done", r)
      BY <2>1, <2>2
    <3> HIDE DEF r
    <3> QED BY <3>2, <3>3, <3>4 DEF Ats
  <2>3. CASE ~Fresh(k)
    <3>1. [lookup[l] EXCEPT !.key = k] \in Lookup
      BY <1>1, AskedAny
    <3> QED BY <2>1, <2>3, <3>1 DEF Ats
  <2> QED BY <2>2, <2>3
<1>3. CASE StoreResult(l)
  <2>1. time <= lookup[l].since + MaxFetch /\ lookup[l].read = lookup[l].since
    BY <1>3 DEF StoreResult, GraphInv, Timely
  <2>2. lookup[l].since \in Nat
    BY <1>1, LookupFacts, GraphConstants
  <2>3. Recent(lookup[l])
    BY <1>1, <2>1, <2>2 DEF Recent
  <2>4. Step(l, "done", lookup[l])
    BY <1>3 DEF StoreResult
  <2> QED BY <1>1, <2>3, <2>4 DEF Ats
<1>4. CASE GetToken(l)
  <2>1. CASE token # Nothing /\ Now < token.expires
    <3>1. token.minted \in Time
      BY <1>1, <2>1 DEF GraphTypeOK
    <3>2. [lookup[l] EXCEPT !.minted = token.minted] \in Lookup
      BY <1>1, <3>1, Granted
    <3> QED BY <1>4, <2>1, <3>2 DEF GetToken, Ats
  <2>2. CASE ~(token # Nothing /\ Now < token.expires)
    <3>1. Now \in Int
      BY <1>1 DEF Now
    <3>2. [lookup[l] EXCEPT !.start = Now] \in Lookup
      BY <1>1, <3>1, Begun
    <3> QED BY <1>4, <2>2, <3>2 DEF GetToken, Ats
  <2> QED BY <2>1, <2>2
<1>5. CASE Mint(l)
  <2>1. [lookup[l] EXCEPT !.minted = time] \in Lookup
    BY <1>1, Granted
  <2> QED BY <1>5, <2>1 DEF Mint, Ats
<1>6. CASE Read(l) \/ Fails(l)
  <2> DEFINE r == [lookup[l] EXCEPT !.read = time]
  <2>1. r \in Lookup /\ r.read = time
    BY <1>1, ReadNow
  <2>2. Recent(r)
    BY <1>1, <2>1 DEF Recent
  <2>3. Step(l, "store", r) \/ Step(l, "done", r)
    BY <1>6 DEF Read, Fails, Failed
  <2> HIDE DEF r
  <2> QED BY <2>1, <2>2, <2>3 DEF Ats
<1>7. CASE Refused(l)
  <2>1. [lookup[l] EXCEPT !.retried = TRUE] \in Lookup
    BY <1>1, Again
  <2> QED BY <1>1, <1>7, <2>1 DEF Refused, Ats
<1> QED BY <1>2, <1>3, <1>4, <1>5, <1>6, <1>7

\* What is served from a channel's roster was read at most one step, the lifetime
\* of an entry and the setting back of the clock ago (RosterCache.get).
THEOREM RosterAlwaysBounded == GraphSpec => RosterBounded
<1>1. ASSUME GraphInv, GraphInv', [GraphNext]_graphVars
      PROVE  [\A l \in Lookups : Served(l) => time - lookup'[l].read < MaxFetch + RosterTtl + back]_graphVars
  <2> SUFFICES ASSUME GraphNext, NEW l \in Lookups, Served(l)
               PROVE  time - lookup'[l].read < MaxFetch + RosterTtl + back
    BY <1>1
  <2>0. /\ GraphTypeOK /\ lookup[l] \in Lookup /\ lookup'[l].at = "done" /\ lookup[l].at # "done" /\ lookup'[l].key \in Channels
        /\ time \in Nat /\ back \in Nat /\ MaxFetch \in Nat /\ RosterTtl \in Nat \ {0}
    BY <1>1, GraphConstants DEF Served, Done, GraphInv, GraphTypeOK
  <2>1. PICK m \in Lookups : \/ StartLookup(m) \/ StoreResult(m) \/ GetToken(m) \/ Mint(m)
                             \/ Read(m) \/ Refused(m) \/ Fails(m)
    BY <2>0 DEF GraphNext, Tick, SetBack
  <2>2. PICK at \in Ats, r \in Lookup : Step(m, at, r) /\ (at = "done" /\ r.key \in Channels => Recent(r))
    BY <1>1, <2>1, SomeStep
  <2>3. m = l /\ at = "done" /\ lookup'[l].read = r.read /\ lookup'[l].key = r.key
    BY <2>0, <2>2, StepFacts
  <2> QED BY <2>0, <2>2, <2>3 DEF Recent
<1> QED BY <1>1, GraphInductive, PTL DEF GraphSpec, RosterBounded
-----------------------------------------------------------------------------
(* Notifications and their delivery.                                        *)

\* A delivery that is attempted, or will be, has time left; none has a result
\* before it was attempted, and only a delivered one is marked.
Sane(r) ==
  /\ r.elapsed < Deadline + Larger(Timeout, MaxLate + 1)
  /\ r.at \in {"idle", "check", "resolve", "done"} => r.elapsed = 0 /\ r.attempt = 0 /\ r.outcome = "none"
  /\ r.at \in {"attempt", "backoff"} =>
       r.elapsed < Deadline /\ r.attempt <= MaxRetries /\ r.outcome \in {"none", "transient"}
  /\ r.at = "backoff" => r.attempt >= 1
  /\ r.at = "mark" => r.outcome = "ok" /\ r.about \in Budgets

Deciding(r) ==
  r.about \in Budgets /\ r.at \in {"resolve", "attempt", "backoff", "health", "record", "mark"}

\* From the check of a budget's mark on its delivery has the lock, and the budget
\* is not marked; what is read of the health is current under its lock.
Locked == \A d \in Deliveries :
  /\ Deciding(delivery[d]) => dedupeLock = d /\ delivery[d].about \notin marked
  /\ delivery[d].at = "record" => healthLock = d /\ delivery[d].read = health

\* This delivery is the one that told Teams about the budget.
Tells(r, b) == r.about = b /\ r.outcome = "ok"

\* Of a budget's cards one belongs to its mark, or to a delivery that will mark it.
Announced == \A b \in Budgets :
  /\ posted[b] <= 1 + unmarked[b]
  /\ posted[b] > unmarked[b] => b \in marked \/ \E d \in Deliveries : Tells(delivery[d], b)
  /\ b \in marked \/ (\E d \in Deliveries : Tells(delivery[d], b)) => posted[b] > 0

\* The last success in the log is where the failures in a row begin.
LogTold ==
  LET m == Len(outcomeLog) - health.consecutive
  IN  /\ health.failures + health.successes = Len(outcomeLog)
      /\ m \in 0..Len(outcomeLog)
      /\ m # 0 => outcomeLog[m]
      /\ \A i \in 1..Len(outcomeLog) : i > m => ~outcomeLog[i]
      /\ health.degraded <=> health.consecutive >= Threshold

DeliverySane == \A d \in Deliveries : Sane(delivery[d])

DeliveryInv == DeliveryTypeOK /\ DeliverySane /\ Locked /\ Announced /\ LogTold

LEMMA DeliveryConstants ==
  /\ MaxRetries \in Nat /\ MaxLate \in Nat /\ MaxDelay \in Nat \ {0} /\ BaseDelay \in Nat \ {0}
  /\ Deadline \in Nat \ {0} /\ Timeout \in Nat \ {0} /\ Threshold \in Nat \ {0}
  /\ Plain \notin Budgets /\ NoDelivery \notin Deliveries
BY DeliveryAssumption

LEMMA Spared ==
  /\ Larger(Timeout, MaxLate + 1) \in Nat /\ Larger(Timeout, MaxLate + 1) >= Timeout
  /\ Larger(Timeout, MaxLate + 1) > MaxLate
BY DeliveryConstants DEF Larger

DeliverySteps == {"idle", "check", "resolve", "attempt", "backoff", "health", "record", "mark", "done"}

LEMMA DeliveryFields ==
  ASSUME NEW r \in DeliveryState
  PROVE  /\ r.at \in DeliverySteps /\ r.about \in Budgets \cup {Plain} /\ r.attempt \in 0..(MaxRetries + 1)
         /\ r.elapsed \in Nat /\ r.outcome \in Outcomes /\ r.read \in Health
BY DEF DeliveryState, DeliverySteps

\* One delivery moves; what it holds and what the others hold stays apart.
LEMMA DeliveryMoves ==
  ASSUME DeliveryInv, NEW d \in Deliveries, NEW x \in DeliveryState, Sane(x),
         delivery' = [delivery EXCEPT ![d] = x],
         \/ UNCHANGED dedupeLock
         \/ dedupeLock = NoDelivery /\ dedupeLock' = d
         \/ dedupeLock = d /\ dedupeLock' = NoDelivery,
         marked' = marked \/ (Deciding(delivery[d]) /\ marked' = marked \cup {delivery[d].about}),
         Deciding(x) => dedupeLock' = d /\ x.about \notin marked',
         \/ UNCHANGED <<healthLock, health>>
         \/ healthLock = NoDelivery /\ healthLock' = d /\ UNCHANGED health
         \/ delivery[d].at = "record" /\ healthLock' = NoDelivery,
         x.at = "record" => healthLock' = d /\ x.read = health'
  PROVE  DeliverySane' /\ Locked' /\ delivery' \in [Deliveries -> DeliveryState]
         /\ dedupeLock' \in Deliveries \cup {NoDelivery} /\ marked' \subseteq Budgets
         /\ healthLock' \in Deliveries \cup {NoDelivery}
<1>1. /\ DeliveryTypeOK /\ delivery' \in [Deliveries -> DeliveryState] /\ delivery'[d] = x
      /\ \A e \in Deliveries : e # d => delivery'[e] = delivery[e]
  BY DEF DeliveryInv, DeliveryTypeOK
<1>2. DeliverySane'
  BY <1>1 DEF DeliverySane, DeliveryInv
<1>3. ASSUME NEW e \in Deliveries
      PROVE  /\ Deciding(delivery'[e]) => dedupeLock' = e /\ delivery'[e].about \notin marked'
             /\ delivery'[e].at = "record" => healthLock' = e /\ delivery'[e].read = health'
  <2>1. CASE e = d
    BY <1>1, <2>1
  <2>2. CASE e # d
    <3>1. delivery'[e] = delivery[e]
      BY <1>1, <2>2
    <3>2. ASSUME Deciding(delivery[e]) PROVE dedupeLock' = e /\ delivery[e].about \notin marked'
      <4>1. dedupeLock = e /\ delivery[e].about \notin marked
        BY <3>2 DEF DeliveryInv, Locked
      <4>2. dedupeLock' = e
        BY <2>2, <4>1, DeliveryConstants
      <4>3. ~Deciding(delivery[d])
        BY <2>2, <4>1 DEF DeliveryInv, Locked
      <4> QED BY <4>1, <4>2, <4>3
    <3>3. ASSUME delivery[e].at = "record" PROVE healthLock' = e /\ delivery[e].read = health'
      <4>1. healthLock = e /\ delivery[e].read = health
        BY <3>3 DEF DeliveryInv, Locked
      <4>2. healthLock # NoDelivery /\ delivery[d].at # "record"
        BY <2>2, <4>1, DeliveryConstants DEF DeliveryInv, Locked
      <4> QED BY <4>1, <4>2
    <3> QED BY <3>1, <3>2, <3>3
  <2> QED BY <2>1, <2>2
<1>4. Locked'
  BY <1>3 DEF Locked
<1>5. dedupeLock' \in Deliveries \cup {NoDelivery} /\ healthLock' \in Deliveries \cup {NoDelivery}
  BY <1>1 DEF DeliveryTypeOK
<1>6. marked' \subseteq Budgets
  BY <1>1 DEF DeliveryTypeOK, Deciding
<1> QED BY <1>1, <1>2, <1>4, <1>5, <1>6

\* A delivery that tells Teams nothing new, and forgets nothing it told.
LEMMA AnnouncedKept ==
  ASSUME DeliveryInv, NEW d \in Deliveries, NEW x, delivery' = [delivery EXCEPT ![d] = x],
         UNCHANGED <<posted, marked, unmarked>>,
         \A b \in Budgets : Tells(x, b) <=> Tells(delivery[d], b)
  PROVE  Announced'
<1>1. \A e \in Deliveries, b \in Budgets : Tells(delivery'[e], b) <=> Tells(delivery[e], b)
  BY DEF DeliveryInv, DeliveryTypeOK
<1>2. UNCHANGED posted /\ UNCHANGED marked /\ UNCHANGED unmarked
  OBVIOUS
<1> QED BY <1>1, <1>2 DEF DeliveryInv, Announced

\* What keeps the log and the health keeps what it tells.
LEMMA LogKept ==
  ASSUME DeliveryInv, UNCHANGED <<health, outcomeLog>>
  PROVE  LogTold' /\ health' \in Health /\ outcomeLog' \in Seq(BOOLEAN)
BY DEF DeliveryInv, DeliveryTypeOK, LogTold

LEMMA CountsTyped ==
  ASSUME DeliveryInv, UNCHANGED deliveryCounts \/ DeliveryFault
  PROVE  {deliveryFaults, deliveryCrashes}' \subseteq Nat
BY DEF DeliveryInv, DeliveryTypeOK, deliveryCounts, DeliveryFault

Ended == [NewDelivery EXCEPT !.at = "done"]

LEMMA EndedFacts ==
  /\ NewDelivery \in DeliveryState /\ Ended \in DeliveryState /\ Sane(NewDelivery) /\ Sane(Ended)
  /\ ~Deciding(NewDelivery) /\ ~Deciding(Ended) /\ Ended.at = "done"
  /\ \A b \in Budgets : ~Tells(NewDelivery, b) /\ ~Tells(Ended, b)
<1>1. Healthy \in Health /\ 0 \in 0..(MaxRetries + 1)
  BY DeliveryConstants DEF Healthy, Health
<1>2. NewDelivery \in DeliveryState /\ Ended \in DeliveryState
  BY <1>1 DEF NewDelivery, Ended, DeliveryState, Outcomes
<1>3. 0 < Deadline + Larger(Timeout, MaxLate + 1)
  BY Spared, DeliveryConstants
<1> QED BY <1>2, <1>3 DEF NewDelivery, Ended, Sane, Deciding, Tells

\* A delivery that told Teams nothing ends.
LEMMA EndKeeps ==
  ASSUME DeliveryInv, NEW d \in Deliveries, End(d), \A b \in Budgets : ~Tells(delivery[d], b),
         UNCHANGED <<posted, marked, unmarked, health, outcomeLog>>,
         UNCHANGED healthLock \/ (delivery[d].at = "record" /\ healthLock' = NoDelivery),
         UNCHANGED deliveryCounts \/ DeliveryFault
  PROVE  DeliveryInv'
<1>1. /\ UNCHANGED posted /\ UNCHANGED marked /\ UNCHANGED unmarked /\ UNCHANGED health /\ UNCHANGED outcomeLog
      /\ delivery' = [delivery EXCEPT ![d] = Ended]
      /\ UNCHANGED dedupeLock \/ (dedupeLock = d /\ dedupeLock' = NoDelivery)
  BY DEF End, Ended
<1>2. /\ DeliverySane' /\ Locked' /\ delivery' \in [Deliveries -> DeliveryState]
      /\ dedupeLock' \in Deliveries \cup {NoDelivery} /\ marked' \subseteq Budgets
      /\ healthLock' \in Deliveries \cup {NoDelivery}
  BY <1>1, EndedFacts, DeliveryMoves
<1>3. Announced'
  BY <1>1, EndedFacts, AnnouncedKept
<1>4. LogTold'
  BY <1>1, LogKept
<1>5. {deliveryFaults, deliveryCrashes}' \subseteq Nat
  BY CountsTyped
<1> QED BY <1>1, <1>2, <1>3, <1>4, <1>5 DEF DeliveryInv, DeliveryTypeOK

\* A delivery goes on, and nothing else changes but its locks.
LEMMA GoesOnKeeps ==
  ASSUME DeliveryInv, NEW d \in Deliveries, NEW x \in DeliveryState, Sane(x),
         delivery' = [delivery EXCEPT ![d] = x],
         \A b \in Budgets : Tells(x, b) <=> Tells(delivery[d], b),
         UNCHANGED <<posted, marked, unmarked, health, outcomeLog, deliveryCounts>>,
         UNCHANGED dedupeLock \/ (dedupeLock = NoDelivery /\ dedupeLock' = d),
         Deciding(x) => dedupeLock' = d /\ x.about \notin marked,
         UNCHANGED healthLock \/ (healthLock = NoDelivery /\ healthLock' = d),
         x.at = "record" => healthLock' = d /\ x.read = health
  PROVE  DeliveryInv'
<1>1. /\ UNCHANGED posted /\ UNCHANGED marked /\ UNCHANGED unmarked /\ UNCHANGED health /\ UNCHANGED outcomeLog
      /\ UNCHANGED deliveryCounts
  OBVIOUS
<1>2. /\ DeliverySane' /\ Locked' /\ delivery' \in [Deliveries -> DeliveryState]
      /\ dedupeLock' \in Deliveries \cup {NoDelivery} /\ marked' \subseteq Budgets
      /\ healthLock' \in Deliveries \cup {NoDelivery}
  <2>1. Deciding(x) => dedupeLock' = d /\ x.about \notin marked'
    BY <1>1
  <2>2. x.at = "record" => healthLock' = d /\ x.read = health'
    BY <1>1
  <2> QED BY <1>1, <2>1, <2>2, DeliveryMoves
<1>3. Announced'
  BY <1>1, AnnouncedKept
<1>4. LogTold'
  BY <1>1, LogKept
<1>5. {deliveryFaults, deliveryCrashes}' \subseteq Nat
  BY <1>1, CountsTyped
<1> QED BY <1>1, <1>2, <1>3, <1>4, <1>5 DEF DeliveryInv, DeliveryTypeOK

LEMMA DeliveryStart ==
  ASSUME DeliveryInit
  PROVE  DeliveryInv
<1>1. \A d \in Deliveries : delivery[d] = NewDelivery
  BY DEF DeliveryInit
<1>2. DeliveryTypeOK
  <2>1. Healthy \in Health
    BY DEF Healthy, Health
  <2>2. delivery \in [Deliveries -> DeliveryState]
    BY EndedFacts DEF DeliveryInit
  <2> QED BY <2>1, <2>2 DEF DeliveryInit, DeliveryTypeOK
<1>3. DeliverySane
  BY <1>1, EndedFacts DEF DeliverySane
<1>4. Locked
  BY <1>1, EndedFacts DEF Locked, NewDelivery
<1>5. Announced
  BY <1>1, EndedFacts DEF Announced, DeliveryInit
<1>6. LogTold
  BY DeliveryConstants DEF LogTold, DeliveryInit, Healthy
<1> QED BY <1>2, <1>3, <1>4, <1>5, <1>6 DEF DeliveryInv

LEMMA OnEventKeeps ==
  ASSUME DeliveryInv, NEW d \in Deliveries, OnEvent(d)
  PROVE  DeliveryInv'
<1> DEFINE r == delivery[d]
<1>1. /\ r \in DeliveryState /\ r.at = "idle" /\ Sane(r) /\ delivery \in [Deliveries -> DeliveryState]
      /\ UNCHANGED posted /\ UNCHANGED marked /\ UNCHANGED unmarked /\ UNCHANGED health /\ UNCHANGED outcomeLog
      /\ UNCHANGED healthLock /\ UNCHANGED deliveryCounts
  BY DEF OnEvent, At, DeliveryInv, DeliveryTypeOK, DeliverySane
<1>2. r.outcome = "none" /\ r.elapsed = 0 /\ r.attempt = 0 /\ \A b \in Budgets : ~Tells(r, b)
  BY <1>1 DEF Sane, Tells
<1>3. CASE End(d)
  BY <1>1, <1>2, <1>3, EndKeeps
<1>4. CASE ~End(d)
  <2>1. PICK b \in Budgets \cup {Plain} :
          /\ delivery' = [delivery EXCEPT ![d].about = b, ![d].at = IF b = Plain THEN "resolve" ELSE "check"]
          /\ UNCHANGED dedupeLock
    BY <1>4 DEF OnEvent
  <2> DEFINE x == [r EXCEPT !.about = b, !.at = IF b = Plain THEN "resolve" ELSE "check"]
  <2>2. delivery' = [delivery EXCEPT ![d] = x]
    BY <1>1, <2>1
  <2>3. /\ x \in DeliveryState /\ x.outcome = "none" /\ x.elapsed = 0 /\ x.attempt = 0 /\ x.about = b
        /\ x.at = (IF b = Plain THEN "resolve" ELSE "check")
    BY <1>1, <1>2 DEF DeliveryState
  <2> HIDE DEF x
  <2>4. Sane(x) /\ ~Deciding(x) /\ \A c \in Budgets : ~Tells(x, c)
    <3>1. 0 < Deadline + Larger(Timeout, MaxLate + 1)
      BY Spared, DeliveryConstants
    <3> QED BY <2>3, <3>1, DeliveryConstants DEF Sane, Deciding, Tells
  <2>5. x.at # "record"
    BY <2>3
  <2> QED BY <1>1, <1>2, <2>1, <2>2, <2>3, <2>4, <2>5, GoesOnKeeps
<1> QED BY <1>3, <1>4

\* Only where it is changes.
LEMMA At_ ==
  ASSUME NEW r \in DeliveryState, NEW at \in DeliverySteps
  PROVE  LET x == [r EXCEPT !.at = at]
         IN  /\ x \in DeliveryState /\ x.at = at /\ x.about = r.about /\ x.attempt = r.attempt
             /\ x.elapsed = r.elapsed /\ x.outcome = r.outcome /\ x.read = r.read
BY DEF DeliveryState, DeliverySteps

LEMMA CheckMarkKeeps ==
  ASSUME DeliveryInv, NEW d \in Deliveries, CheckMark(d)
  PROVE  DeliveryInv'
<1> DEFINE r == delivery[d]
           x == [r EXCEPT !.at = "resolve"]
<1>1. /\ r \in DeliveryState /\ r.at = "check" /\ Sane(r) /\ delivery \in [Deliveries -> DeliveryState]
      /\ UNCHANGED posted /\ UNCHANGED marked /\ UNCHANGED unmarked /\ UNCHANGED health /\ UNCHANGED outcomeLog
      /\ UNCHANGED healthLock /\ UNCHANGED deliveryCounts /\ dedupeLock = NoDelivery
  BY DEF CheckMark, At, DeliveryInv, DeliveryTypeOK, DeliverySane
<1>2. r.outcome = "none" /\ \A b \in Budgets : ~Tells(r, b)
  BY <1>1 DEF Sane, Tells
<1>3. CASE BudgetOf(d) \in marked
  BY <1>1, <1>2, <1>3, EndKeeps DEF CheckMark
<1>4. CASE BudgetOf(d) \notin marked
  <2>1. delivery' = [delivery EXCEPT ![d] = x] /\ dedupeLock' = d
    BY <1>1, <1>4 DEF CheckMark
  <2>2. /\ x \in DeliveryState /\ x.at = "resolve" /\ x.about = r.about /\ x.attempt = r.attempt
        /\ x.elapsed = r.elapsed /\ x.outcome = r.outcome
    BY <1>1, At_ DEF DeliverySteps
  <2> HIDE DEF x
  <2>3. Sane(x) /\ x.at # "record" /\ \A b \in Budgets : Tells(x, b) <=> Tells(r, b)
    BY <1>1, <2>2 DEF Sane, Tells
  <2>4. x.about \notin marked
    BY <1>4, <2>2 DEF BudgetOf
  <2> QED BY <1>1, <2>1, <2>2, <2>3, <2>4, GoesOnKeeps
<1> QED BY <1>3, <1>4

LEMMA ResolveUrlKeeps ==
  ASSUME DeliveryInv, NEW d \in Deliveries, ResolveUrl(d)
  PROVE  DeliveryInv'
<1> DEFINE r == delivery[d]
           x == [r EXCEPT !.at = "attempt"]
<1>1. /\ r \in DeliveryState /\ r.at = "resolve" /\ Sane(r) /\ delivery \in [Deliveries -> DeliveryState]
      /\ UNCHANGED posted /\ UNCHANGED marked /\ UNCHANGED unmarked /\ UNCHANGED health /\ UNCHANGED outcomeLog
      /\ UNCHANGED healthLock /\ UNCHANGED deliveryCounts
  BY DEF ResolveUrl, At, DeliveryInv, DeliveryTypeOK, DeliverySane
<1>2. r.outcome = "none" /\ \A b \in Budgets : ~Tells(r, b)
  BY <1>1 DEF Sane, Tells
<1>3. CASE End(d)
  BY <1>1, <1>2, <1>3, EndKeeps
<1>4. CASE Move(d, "attempt")
  <2>1. delivery' = [delivery EXCEPT ![d] = x] /\ UNCHANGED dedupeLock
    BY <1>1, <1>4 DEF Move
  <2>2. /\ x \in DeliveryState /\ x.at = "attempt" /\ x.about = r.about /\ x.attempt = r.attempt
        /\ x.elapsed = r.elapsed /\ x.outcome = r.outcome
    BY <1>1, At_ DEF DeliverySteps
  <2> HIDE DEF x
  <2>3. Sane(x) /\ x.at # "record" /\ \A b \in Budgets : Tells(x, b) <=> Tells(r, b)
    BY <1>1, <2>2, DeliveryConstants DEF Sane, Tells
  <2>4. Deciding(x) => dedupeLock = d /\ x.about \notin marked
    BY <1>1, <2>2 DEF Deciding, DeliveryInv, Locked
  <2> QED BY <1>1, <2>1, <2>2, <2>3, <2>4, GoesOnKeeps
<1> QED BY <1>3, <1>4 DEF ResolveUrl

LEMMA PowersOfTwo ==
  ASSUME NEW n \in Nat
  PROVE  2^n \in Nat
<1>1. IsFiniteSet(1..n) /\ Cardinality(1..n) = n
  BY FS_Interval
<1>2. IsFiniteSet(SUBSET (1..n)) /\ Cardinality(SUBSET (1..n)) = 2^n
  BY <1>1, FS_SUBSET
<1> QED BY <1>2, FS_CardinalityType

LEMMA BackoffKeeps ==
  ASSUME DeliveryInv, NEW d \in Deliveries, Backoff(d)
  PROVE  DeliveryInv'
<1> DEFINE r == delivery[d]
<1>1. /\ r \in DeliveryState /\ r.at = "backoff" /\ Sane(r) /\ delivery \in [Deliveries -> DeliveryState]
      /\ UNCHANGED posted /\ UNCHANGED marked /\ UNCHANGED unmarked /\ UNCHANGED health /\ UNCHANGED outcomeLog
      /\ UNCHANGED healthLock /\ UNCHANGED deliveryCounts /\ UNCHANGED dedupeLock
  BY DEF Backoff, At, DeliveryInv, DeliveryTypeOK, DeliverySane
<1>2. PICK delay \in Delays(r), late \in 0..MaxLate :
        LET s == [r EXCEPT !.elapsed = @ + delay + late]
        IN  delivery' = [delivery EXCEPT ![d] = [s EXCEPT !.at = IF GoesOn(s) THEN "attempt" ELSE "health"]]
  BY DEF Backoff
<1> DEFINE t == r.elapsed + delay + late
           s == [r EXCEPT !.elapsed = t]
           at == IF GoesOn(s) THEN "attempt" ELSE "health"
           x == [s EXCEPT !.at = at]
<1>3. /\ r.elapsed \in Nat /\ r.elapsed < Deadline /\ r.attempt <= MaxRetries /\ r.attempt \in Nat
      /\ r.outcome \in {"none", "transient"} /\ r.attempt >= 1
  BY <1>1, DeliveryFields, DeliveryConstants DEF Sane
<1>4. delay \in Nat /\ delay <= Deadline - r.elapsed
  <2>1. Ceiling(r.attempt) \in Nat
    <3>1. 2^(r.attempt - 1) \in Nat
      BY <1>3, PowersOfTwo
    <3> QED BY <3>1, DeliveryConstants DEF Ceiling, Smaller
  <2>2. Larger(1, (Ceiling(r.attempt) + 1) \div 2) \in Nat
    BY <2>1 DEF Larger
  <2>3. PICK j \in Larger(1, (Ceiling(r.attempt) + 1) \div 2)..Ceiling(r.attempt) :
          delay = Larger(1, Smaller(j, Deadline - r.elapsed))
    BY DEF Delays
  <2>4. j \in Int
    BY <2>1, <2>2
  <2> QED BY <1>3, <2>3, <2>4, DeliveryConstants DEF Larger, Smaller
<1>5. t \in Nat /\ t < Deadline + Larger(Timeout, MaxLate + 1)
  BY <1>3, <1>4, Spared, DeliveryConstants
<1> HIDE DEF t
<1>6. s \in DeliveryState /\ s.elapsed = t /\ s.about = r.about /\ s.attempt = r.attempt /\ s.outcome = r.outcome
  BY <1>1, <1>5 DEF DeliveryState
<1> HIDE DEF s
<1>7. at \in {"attempt", "health"} /\ (at = "attempt" => t < Deadline)
  BY <1>6 DEF GoesOn
<1> HIDE DEF at
<1>8. /\ x \in DeliveryState /\ x.at = at /\ x.about = r.about /\ x.attempt = r.attempt
      /\ x.elapsed = t /\ x.outcome = r.outcome
  <2>1. at \in DeliverySteps
    BY <1>7 DEF DeliverySteps
  <2>2. /\ x \in DeliveryState /\ x.at = at /\ x.about = s.about /\ x.attempt = s.attempt
        /\ x.elapsed = s.elapsed /\ x.outcome = s.outcome
    BY <1>6, <2>1, At_
  <2> QED BY <1>6, <2>2
<1>9. delivery' = [delivery EXCEPT ![d] = x]
  BY <1>2 DEF at, s, t
<1> HIDE DEF x
<1>10. Sane(x) /\ x.at # "record" /\ \A b \in Budgets : Tells(x, b) <=> Tells(r, b)
  BY <1>3, <1>5, <1>7, <1>8 DEF Sane, Tells
<1>11. Deciding(x) => dedupeLock = d /\ x.about \notin marked
  BY <1>1, <1>7, <1>8 DEF Deciding, DeliveryInv, Locked
<1> QED BY <1>1, <1>8, <1>9, <1>10, <1>11, GoesOnKeeps

LEMMA ReadHealthKeeps ==
  ASSUME DeliveryInv, NEW d \in Deliveries, ReadHealth(d)
  PROVE  DeliveryInv'
<1> DEFINE r == delivery[d]
           x == [[r EXCEPT !.read = health] EXCEPT !.at = "record"]
<1>1. /\ r \in DeliveryState /\ r.at = "health" /\ Sane(r) /\ delivery \in [Deliveries -> DeliveryState]
      /\ UNCHANGED posted /\ UNCHANGED marked /\ UNCHANGED unmarked /\ UNCHANGED health /\ UNCHANGED outcomeLog
      /\ UNCHANGED deliveryCounts /\ UNCHANGED dedupeLock /\ health \in Health
      /\ healthLock = NoDelivery /\ healthLock' = d
  BY DEF ReadHealth, At, DeliveryInv, DeliveryTypeOK, DeliverySane
<1>2. delivery' = [delivery EXCEPT ![d] = x]
  BY <1>1 DEF ReadHealth
<1>3. /\ x \in DeliveryState /\ x.at = "record" /\ x.about = r.about /\ x.attempt = r.attempt
      /\ x.elapsed = r.elapsed /\ x.outcome = r.outcome /\ x.read = health
  BY <1>1 DEF DeliveryState
<1> HIDE DEF x
<1>4. Sane(x) /\ \A b \in Budgets : Tells(x, b) <=> Tells(r, b)
  BY <1>1, <1>3 DEF Sane, Tells
<1>5. Deciding(x) => dedupeLock = d /\ x.about \notin marked
  BY <1>1, <1>3 DEF Deciding, DeliveryInv, Locked
<1> QED BY <1>1, <1>2, <1>3, <1>4, <1>5, GoesOnKeeps

LEMMA AttemptKeeps ==
  ASSUME DeliveryInv, NEW d \in Deliveries, Attempt(d)
  PROVE  DeliveryInv'
<1> DEFINE r == delivery[d]
<1>1. /\ r \in DeliveryState /\ Sane(r) /\ delivery \in [Deliveries -> DeliveryState]
      /\ posted \in [Budgets -> Nat] /\ unmarked \in [Budgets -> Nat]
  BY DEF DeliveryInv, DeliveryTypeOK, DeliverySane
<1>2. PICK outcome \in Outcomes \ {"none"}, arrived \in BOOLEAN, took \in 0..Timeout :
        LET s == [r EXCEPT !.attempt = @ + 1, !.elapsed = @ + took, !.outcome = outcome]
        IN  /\ At(d) = "attempt"
            /\ outcome = "ok" => arrived
            /\ outcome = "permanent" => ~arrived
            /\ delivery' = [delivery EXCEPT ![d] = [s EXCEPT !.at = IF MayRetry(s) THEN "backoff" ELSE "health"]]
            /\ IF arrived /\ outcome = "transient" THEN DeliveryFault ELSE UNCHANGED deliveryCounts
            /\ IF arrived /\ BudgetOf(d) \in Budgets
                 THEN /\ posted' = [posted EXCEPT ![BudgetOf(d)] = @ + 1]
                      /\ unmarked' = IF outcome = "ok" THEN unmarked
                                     ELSE [unmarked EXCEPT ![BudgetOf(d)] = @ + 1]
                 ELSE UNCHANGED <<posted, unmarked>>
            /\ UNCHANGED <<marked, dedupeLock, health, healthLock, outcomeLog>>
  BY DEF Attempt
<1> DEFINE n == r.attempt + 1
           t == r.elapsed + took
           s == [r EXCEPT !.attempt = n, !.elapsed = t, !.outcome = outcome]
           at == IF MayRetry(s) THEN "backoff" ELSE "health"
           x == [s EXCEPT !.at = at]
<1>3. /\ r.at = "attempt" /\ UNCHANGED marked /\ UNCHANGED dedupeLock /\ UNCHANGED health
      /\ UNCHANGED healthLock /\ UNCHANGED outcomeLog /\ (DeliveryFault \/ UNCHANGED deliveryCounts)
  BY <1>2 DEF At
<1>4. delivery' = [delivery EXCEPT ![d] = x]
  BY <1>2
<1>5. /\ r.elapsed \in Nat /\ r.elapsed < Deadline /\ r.attempt <= MaxRetries /\ r.attempt \in Nat
      /\ r.outcome \in {"none", "transient"}
  BY <1>1, <1>3, DeliveryFields, DeliveryConstants DEF Sane
<1>6. /\ t \in Nat /\ t < Deadline + Larger(Timeout, MaxLate + 1)
      /\ n \in 0..(MaxRetries + 1) /\ n \in Nat /\ n >= 1
  BY <1>5, Spared, DeliveryConstants
<1> HIDE DEF t, n
<1>7. s \in DeliveryState /\ s.elapsed = t /\ s.about = r.about /\ s.attempt = n /\ s.outcome = outcome
  BY <1>1, <1>6 DEF DeliveryState
<1> HIDE DEF s
<1>8. at \in {"backoff", "health"} /\ (at = "backoff" => t < Deadline /\ n <= MaxRetries /\ outcome = "transient")
  BY <1>7 DEF MayRetry
<1> HIDE DEF at
<1>9. /\ x \in DeliveryState /\ x.at = at /\ x.about = r.about /\ x.attempt = n
      /\ x.elapsed = t /\ x.outcome = outcome
  <2>1. at \in DeliverySteps
    BY <1>8 DEF DeliverySteps
  <2>2. /\ x \in DeliveryState /\ x.at = at /\ x.about = s.about /\ x.attempt = s.attempt
        /\ x.elapsed = s.elapsed /\ x.outcome = s.outcome
    BY <1>7, <2>1, At_
  <2> QED BY <1>7, <2>2
<1> HIDE DEF x
<1>10. Sane(x) /\ x.at # "record"
  BY <1>6, <1>8, <1>9 DEF Sane
<1>11. Deciding(x) => dedupeLock' = d /\ x.about \notin marked'
  BY <1>1, <1>3, <1>8, <1>9 DEF Deciding, DeliveryInv, Locked
<1>12. /\ DeliverySane' /\ Locked' /\ delivery' \in [Deliveries -> DeliveryState]
       /\ dedupeLock' \in Deliveries \cup {NoDelivery} /\ marked' \subseteq Budgets
       /\ healthLock' \in Deliveries \cup {NoDelivery}
  BY <1>3, <1>4, <1>9, <1>10, <1>11, DeliveryMoves
<1>13. /\ delivery'[d] = x /\ \A e \in Deliveries : e # d => delivery'[e] = delivery[e]
  BY <1>1, <1>4
<1>14. ASSUME NEW b \in Budgets
       PROVE  /\ posted'[b] \in Nat /\ unmarked'[b] \in Nat
              /\ posted'[b] <= 1 + unmarked'[b]
              /\ posted'[b] > unmarked'[b] => b \in marked' \/ \E e \in Deliveries : Tells(delivery'[e], b)
              /\ b \in marked' \/ (\E e \in Deliveries : Tells(delivery'[e], b)) => posted'[b] > 0
  <2>0. /\ posted[b] \in Nat /\ unmarked[b] \in Nat
        /\ posted[b] <= 1 + unmarked[b]
        /\ posted[b] > unmarked[b] => b \in marked \/ \E e \in Deliveries : Tells(delivery[e], b)
        /\ b \in marked \/ (\E e \in Deliveries : Tells(delivery[e], b)) => posted[b] > 0
    BY <1>1 DEF DeliveryInv, Announced
  <2>1. ~Tells(r, b)
    BY <1>5 DEF Tells
  <2>2. CASE r.about # b \/ ~arrived
    <3>1. posted'[b] = posted[b] /\ unmarked'[b] = unmarked[b]
      BY <1>1, <1>2, <2>2 DEF BudgetOf
    <3>2. ~Tells(x, b)
      BY <1>2, <1>9, <2>2 DEF Tells
    <3>3. (\E e \in Deliveries : Tells(delivery'[e], b)) <=> (\E e \in Deliveries : Tells(delivery[e], b))
      BY <1>13, <2>1, <3>2
    <3> QED BY <1>3, <2>0, <3>1, <3>3
  <2>3. CASE r.about = b /\ arrived
    <3>1. Deciding(r)
      BY <1>3, <2>3 DEF Deciding
    <3>2. dedupeLock = d /\ b \notin marked
      BY <2>3, <3>1 DEF DeliveryInv, Locked
    <3>3. ASSUME NEW e \in Deliveries, Tells(delivery[e], b) PROVE FALSE
      <4>1. delivery[e] \in DeliveryState /\ Sane(delivery[e])
        BY DEF DeliveryInv, DeliveryTypeOK, DeliverySane
      <4>2. delivery[e].at \in DeliverySteps /\ delivery[e].outcome = "ok" /\ delivery[e].about = b
        BY <3>3, <4>1, DeliveryFields DEF Tells
      <4>3. delivery[e].at \in {"health", "record", "mark"}
        BY <4>1, <4>2 DEF Sane, DeliverySteps
      <4>4. Deciding(delivery[e])
        BY <4>2, <4>3 DEF Deciding
      <4>5. e = d
        BY <3>2, <4>4 DEF DeliveryInv, Locked
      <4> QED BY <2>1, <3>3, <4>5
    <3>4. posted[b] <= unmarked[b] /\ posted'[b] = posted[b] + 1
      BY <1>1, <1>2, <2>0, <2>3, <3>2, <3>3 DEF BudgetOf
    <3>5. CASE outcome = "ok"
      <4>1. unmarked'[b] = unmarked[b] /\ Tells(x, b)
        BY <1>2, <1>9, <2>3, <3>5 DEF BudgetOf, Tells
      <4> QED BY <1>13, <2>0, <3>4, <4>1
    <3>6. CASE outcome # "ok"
      <4>1. unmarked'[b] = unmarked[b] + 1
        BY <1>1, <1>2, <2>3, <3>6 DEF BudgetOf
      <4> QED BY <2>0, <3>4, <4>1
    <3> QED BY <3>5, <3>6
  <2> QED BY <2>2, <2>3
<1>15. Announced'
  BY <1>14 DEF Announced
<1>16. posted' \in [Budgets -> Nat] /\ unmarked' \in [Budgets -> Nat]
  <2>1. CASE arrived /\ r.about \in Budgets
    <3>1. posted' = [posted EXCEPT ![r.about] = posted[r.about] + 1]
      BY <1>2, <2>1 DEF BudgetOf
    <3>2. unmarked' = unmarked \/ unmarked' = [unmarked EXCEPT ![r.about] = unmarked[r.about] + 1]
      BY <1>2, <2>1 DEF BudgetOf
    <3> QED BY <1>1, <2>1, <3>1, <3>2
  <2>2. CASE ~(arrived /\ r.about \in Budgets)
    BY <1>1, <1>2, <2>2 DEF BudgetOf
  <2> QED BY <2>1, <2>2
<1>17. LogTold' /\ health' \in Health /\ outcomeLog' \in Seq(BOOLEAN)
  BY <1>3, LogKept
<1>18. {deliveryFaults, deliveryCrashes}' \subseteq Nat
  BY <1>3, CountsTyped
<1> QED BY <1>12, <1>15, <1>16, <1>17, <1>18 DEF DeliveryInv, DeliveryTypeOK

LEMMA RecordedFacts ==
  ASSUME NEW h \in Health, NEW ok \in BOOLEAN
  PROVE  /\ Recorded(h, ok) \in Health
         /\ ok => /\ Recorded(h, ok).failures = h.failures /\ Recorded(h, ok).successes = h.successes + 1
                  /\ Recorded(h, ok).consecutive = 0 /\ ~Recorded(h, ok).degraded
         /\ ~ok => /\ Recorded(h, ok).failures = h.failures + 1 /\ Recorded(h, ok).successes = h.successes
                   /\ Recorded(h, ok).consecutive = h.consecutive + 1
                   /\ Recorded(h, ok).degraded <=> h.degraded \/ h.consecutive + 1 >= Threshold
<1>1. CASE ok
  <2> DEFINE g == [h EXCEPT !.successes = @ + 1, !.consecutive = 0, !.degraded = FALSE]
  <2>0. g \in Health
    <3> DEFINE u == h.successes + 1
               p == [h EXCEPT !.successes = u]
    <3>1. u \in Nat
      BY DEF Health
    <3> HIDE DEF u
    <3>2. p \in Health
      BY <3>1 DEF Health
    <3>3. g = [p EXCEPT !.consecutive = 0, !.degraded = FALSE]
      BY DEF u
    <3> HIDE DEF p, g
    <3>4. [p EXCEPT !.consecutive = 0] \in Health
      BY <3>2 DEF Health
    <3> QED BY <3>2, <3>3, <3>4 DEF Health
  <2>1. g \in Health /\ g.failures = h.failures /\ g.successes = h.successes + 1
    <3>1. g.failures = h.failures
      BY DEF Health
    <3>2. g.successes = h.successes + 1
      BY DEF Health
    <3> QED BY <2>0, <3>1, <3>2
  <2>2. g.consecutive = 0 /\ ~g.degraded
    BY DEF Health
  <2> HIDE DEF g
  <2>3. Recorded(h, ok) = g
    BY <1>1 DEF Recorded, g
  <2> QED BY <1>1, <2>1, <2>2, <2>3
<1>2. CASE ~ok
  <2> DEFINE bad == h.degraded \/ h.consecutive + 1 >= Threshold
             g == [h EXCEPT !.failures = @ + 1, !.consecutive = @ + 1, !.degraded = bad]
  <2>0. bad \in BOOLEAN /\ Recorded(h, ok) = g
    BY <1>2 DEF Recorded
  <2> HIDE DEF bad
  <2>1. g \in Health /\ g.failures = h.failures + 1 /\ g.successes = h.successes
    <3>1. g \in Health
      <4> DEFINE u == h.failures + 1
                 v == h.consecutive + 1
                 p == [h EXCEPT !.failures = u]
                 q == [p EXCEPT !.consecutive = v]
      <4>1. u \in Nat /\ v \in Nat
        BY DEF Health
      <4>2. g = [q EXCEPT !.degraded = bad]
        BY DEF Health
      <4> HIDE DEF u, v
      <4>3. p \in Health
        BY <4>1 DEF Health
      <4> HIDE DEF p
      <4>4. q \in Health
        BY <4>1, <4>3 DEF Health
      <4> HIDE DEF q, g
      <4> QED BY <2>0, <4>2, <4>4 DEF Health
    <3>2. g.failures = h.failures + 1
      BY DEF Health
    <3>3. g.successes = h.successes
      BY DEF Health
    <3> QED BY <3>1, <3>2, <3>3
  <2>2. g.consecutive = h.consecutive + 1 /\ g.degraded = bad
    BY DEF Health
  <2> HIDE DEF g
  <2> QED BY <1>2, <2>0, <2>1, <2>2 DEF bad
<1> QED BY <1>1, <1>2

\* An outcome is recorded in what was read under the lock.
LEMMA Logged ==
  ASSUME DeliveryInv, NEW ok \in BOOLEAN, health' = Recorded(health, ok), outcomeLog' = Append(outcomeLog, ok)
  PROVE  LogTold' /\ health' \in Health /\ outcomeLog' \in Seq(BOOLEAN)
<1> DEFINE n == Len(outcomeLog)
           c == health.consecutive
<1>1. /\ outcomeLog \in Seq(BOOLEAN) /\ n \in Nat /\ c \in Nat /\ health.failures \in Nat /\ health.successes \in Nat
      /\ health.degraded \in BOOLEAN /\ health \in Health
  BY DEF DeliveryInv, DeliveryTypeOK, Health
<1>2. /\ outcomeLog' \in Seq(BOOLEAN) /\ Len(outcomeLog') = n + 1 /\ outcomeLog'[n + 1] = ok
      /\ \A i \in 1..n : outcomeLog'[i] = outcomeLog[i]
  BY <1>1
<1>3. /\ health.failures + health.successes = n /\ n - c \in 0..n /\ (n - c # 0 => outcomeLog[n - c])
      /\ (\A i \in 1..n : i > n - c => ~outcomeLog[i]) /\ (health.degraded <=> c >= Threshold)
  BY DEF DeliveryInv, LogTold
<1>4. CASE ok
  <2>1. /\ health' \in Health /\ health'.failures = health.failures /\ health'.successes = health.successes + 1
        /\ health'.consecutive = 0 /\ ~health'.degraded
    BY <1>1, <1>4, RecordedFacts
  <2> HIDE DEF n, c
  <2>2. /\ health'.failures + health'.successes = n + 1 /\ (n + 1) - 0 \in 0..(n + 1)
        /\ \A i \in 1..(n + 1) : ~(i > (n + 1) - 0)
    <3>1. health'.failures + health'.successes = n + 1
      <4>1. health.failures + (health.successes + 1) = n + 1
        BY <1>1, <1>3
      <4> QED BY <2>1, <4>1
    <3>2. (n + 1) - 0 \in 0..(n + 1) /\ \A i \in 1..(n + 1) : ~(i > (n + 1) - 0)
      BY <1>1
    <3> QED BY <3>1, <3>2
  <2>3. ~(0 >= Threshold) /\ (n + 1) - 0 = n + 1
    BY <1>1, DeliveryConstants
  <2> QED BY <1>2, <1>4, <2>1, <2>2, <2>3 DEF LogTold
<1>5. CASE ~ok
  <2>1. /\ health' \in Health /\ health'.failures = health.failures + 1 /\ health'.successes = health.successes
        /\ health'.consecutive = c + 1 /\ (health'.degraded <=> health.degraded \/ c + 1 >= Threshold)
    BY <1>1, <1>5, RecordedFacts
  <2> HIDE DEF n, c
  <2>2. /\ health'.failures + health'.successes = n + 1 /\ (n + 1) - (c + 1) = n - c /\ n - c \in 0..(n + 1)
        /\ (health'.degraded <=> c + 1 >= Threshold)
    <3>1. health'.failures + health'.successes = n + 1
      BY <1>1, <1>3, <2>1
    <3>2. (n + 1) - (c + 1) = n - c /\ n - c \in 0..(n + 1)
      BY <1>1, <1>3
    <3>3. c >= Threshold => c + 1 >= Threshold
      BY <1>1, DeliveryConstants
    <3>4. health'.degraded <=> c + 1 >= Threshold
      BY <1>3, <2>1, <3>3
    <3> QED BY <3>1, <3>2, <3>4
  <2>3. n - c # 0 => outcomeLog'[n - c]
    BY <1>1, <1>2, <1>3
  <2>4. ASSUME NEW i \in 1..(n + 1), i > n - c PROVE ~outcomeLog'[i]
    <3>1. i = n + 1 \/ i \in 1..n
      BY <1>1
    <3> QED BY <1>2, <1>3, <1>5, <2>4, <3>1
  <2> QED BY <1>2, <2>1, <2>2, <2>3, <2>4 DEF LogTold
<1> QED BY <1>4, <1>5

LEMMA RecordHealthKeeps ==
  ASSUME DeliveryInv, NEW d \in Deliveries, RecordHealth(d)
  PROVE  DeliveryInv'
<1> DEFINE r == delivery[d]
           ok == r.outcome = "ok"
           x == [r EXCEPT !.at = "mark"]
<1>1. /\ r \in DeliveryState /\ Sane(r) /\ delivery \in [Deliveries -> DeliveryState] /\ r.at = "record"
      /\ UNCHANGED posted /\ UNCHANGED marked /\ UNCHANGED unmarked /\ healthLock' = NoDelivery
      /\ posted \in [Budgets -> Nat] /\ unmarked \in [Budgets -> Nat]
  BY DEF RecordHealth, At, DeliveryInv, DeliveryTypeOK, DeliverySane
<1>2. r.read = health
  BY <1>1 DEF DeliveryInv, Locked
<1>3. /\ LogTold' /\ health' \in Health /\ outcomeLog' \in Seq(BOOLEAN)
      /\ {deliveryFaults, deliveryCrashes}' \subseteq Nat
  <2>1. CASE health' = Recorded(r.read, ok) /\ outcomeLog' = Append(outcomeLog, ok) /\ UNCHANGED deliveryCounts
    <3>1. ok \in BOOLEAN
      OBVIOUS
    <3> HIDE DEF ok
    <3>2. LogTold' /\ health' \in Health /\ outcomeLog' \in Seq(BOOLEAN)
      BY <1>2, <2>1, <3>1, Logged
    <3>3. {deliveryFaults, deliveryCrashes}' \subseteq Nat
      BY <2>1, CountsTyped
    <3> QED BY <3>2, <3>3
  <2>2. CASE DeliveryFault /\ UNCHANGED <<health, outcomeLog>>
    <3>1. LogTold' /\ health' \in Health /\ outcomeLog' \in Seq(BOOLEAN)
      BY <2>2, LogKept
    <3>2. {deliveryFaults, deliveryCrashes}' \subseteq Nat
      BY <2>2, CountsTyped
    <3> QED BY <3>1, <3>2
  <2> QED BY <2>1, <2>2 DEF RecordHealth
<1>4. \E y \in DeliveryState :
        /\ delivery' = [delivery EXCEPT ![d] = y] /\ Sane(y) /\ y.at # "record"
        /\ UNCHANGED dedupeLock \/ (dedupeLock = d /\ dedupeLock' = NoDelivery)
        /\ Deciding(y) => dedupeLock' = d /\ y.about \notin marked'
        /\ \A b \in Budgets : Tells(y, b) <=> Tells(r, b)
  <2>1. CASE ok /\ r.about \in Budgets
    <3>1. delivery' = [delivery EXCEPT ![d] = x] /\ UNCHANGED dedupeLock
      BY <1>1, <2>1 DEF RecordHealth, BudgetOf, Move
    <3>2. /\ x \in DeliveryState /\ x.at = "mark" /\ x.about = r.about /\ x.attempt = r.attempt
          /\ x.elapsed = r.elapsed /\ x.outcome = r.outcome
      BY <1>1, At_ DEF DeliverySteps
    <3> HIDE DEF x
    <3>3. Sane(x) /\ x.at # "record" /\ \A b \in Budgets : Tells(x, b) <=> Tells(r, b)
      BY <1>1, <2>1, <3>2 DEF Sane, Tells
    <3>4. Deciding(r) /\ r.about \notin marked /\ dedupeLock = d
      BY <1>1, <2>1 DEF Deciding, DeliveryInv, Locked
    <3> QED BY <1>1, <3>1, <3>2, <3>3, <3>4
  <2>2. CASE ~(ok /\ r.about \in Budgets)
    <3>1. /\ delivery' = [delivery EXCEPT ![d] = Ended]
          /\ UNCHANGED dedupeLock \/ (dedupeLock = d /\ dedupeLock' = NoDelivery)
      BY <2>2 DEF RecordHealth, BudgetOf, End, Ended
    <3>2. \A b \in Budgets : ~Tells(r, b)
      BY <2>2 DEF Tells
    <3> QED BY <3>1, <3>2, EndedFacts
  <2> QED BY <2>1, <2>2
<1>5. PICK y \in DeliveryState :
        /\ delivery' = [delivery EXCEPT ![d] = y] /\ Sane(y) /\ y.at # "record"
        /\ UNCHANGED dedupeLock \/ (dedupeLock = d /\ dedupeLock' = NoDelivery)
        /\ Deciding(y) => dedupeLock' = d /\ y.about \notin marked'
        /\ \A b \in Budgets : Tells(y, b) <=> Tells(r, b)
  BY <1>4
<1>6. /\ DeliverySane' /\ Locked' /\ delivery' \in [Deliveries -> DeliveryState]
      /\ dedupeLock' \in Deliveries \cup {NoDelivery} /\ marked' \subseteq Budgets
      /\ healthLock' \in Deliveries \cup {NoDelivery}
  BY <1>1, <1>5, DeliveryMoves
<1>7. Announced'
  BY <1>1, <1>5, AnnouncedKept
<1> QED BY <1>1, <1>3, <1>6, <1>7 DEF DeliveryInv, DeliveryTypeOK

LEMMA MarkKeeps ==
  ASSUME DeliveryInv, NEW d \in Deliveries, Mark(d)
  PROVE  DeliveryInv'
<1> DEFINE r == delivery[d]
           b == r.about
<1>1. /\ r \in DeliveryState /\ Sane(r) /\ delivery \in [Deliveries -> DeliveryState] /\ r.at = "mark"
      /\ UNCHANGED posted /\ UNCHANGED health /\ UNCHANGED healthLock /\ UNCHANGED outcomeLog
      /\ posted \in [Budgets -> Nat] /\ unmarked \in [Budgets -> Nat]
      /\ delivery' = [delivery EXCEPT ![d] = Ended]
      /\ UNCHANGED dedupeLock \/ (dedupeLock = d /\ dedupeLock' = NoDelivery)
  BY DEF Mark, At, End, Ended, DeliveryInv, DeliveryTypeOK, DeliverySane
<1>2. b \in Budgets /\ Tells(r, b) /\ Deciding(r)
  BY <1>1 DEF Sane, Tells, Deciding
<1>3. \/ marked' = marked \cup {b} /\ UNCHANGED unmarked /\ UNCHANGED deliveryCounts
      \/ DeliveryFault /\ unmarked' = [unmarked EXCEPT ![b] = @ + 1] /\ UNCHANGED marked
  BY DEF Mark, BudgetOf
<1> HIDE DEF b
<1>4. marked' = marked \/ (Deciding(r) /\ marked' = marked \cup {r.about})
  BY <1>2, <1>3 DEF b
<1>5. /\ DeliverySane' /\ Locked' /\ delivery' \in [Deliveries -> DeliveryState]
      /\ dedupeLock' \in Deliveries \cup {NoDelivery} /\ marked' \subseteq Budgets
      /\ healthLock' \in Deliveries \cup {NoDelivery}
  <2>1. Ended.at # "record"
    BY EndedFacts
  <2> QED BY <1>1, <1>4, <2>1, EndedFacts, DeliveryMoves
<1>6. delivery'[d] = Ended /\ \A e \in Deliveries : e # d => delivery'[e] = delivery[e]
  BY <1>1
<1>7. posted[b] > 0 /\ posted[b] <= 1 + unmarked[b]
  BY <1>2 DEF DeliveryInv, Announced
<1>8. ASSUME NEW c \in Budgets
      PROVE  /\ posted'[c] <= 1 + unmarked'[c]
             /\ posted'[c] > unmarked'[c] => c \in marked' \/ \E e \in Deliveries : Tells(delivery'[e], c)
             /\ c \in marked' \/ (\E e \in Deliveries : Tells(delivery'[e], c)) => posted'[c] > 0
  <2>0. /\ posted[c] \in Nat /\ unmarked[c] \in Nat
        /\ posted[c] <= 1 + unmarked[c]
        /\ posted[c] > unmarked[c] => c \in marked \/ \E e \in Deliveries : Tells(delivery[e], c)
        /\ c \in marked \/ (\E e \in Deliveries : Tells(delivery[e], c)) => posted[c] > 0
    BY <1>1 DEF DeliveryInv, Announced
  <2>1. CASE c # b
    <3>1. unmarked'[c] = unmarked[c] /\ (c \in marked' <=> c \in marked)
      BY <1>1, <1>3, <2>1
    <3>2. (\E e \in Deliveries : Tells(delivery'[e], c)) <=> (\E e \in Deliveries : Tells(delivery[e], c))
      <4>1. ~Tells(r, c)
        BY <2>1 DEF Tells, b
      <4> QED BY <1>6, <4>1, EndedFacts
    <3> QED BY <1>1, <2>0, <3>1, <3>2
  <2>2. CASE c = b
    <3>1. CASE marked' = marked \cup {b} /\ UNCHANGED unmarked
      BY <1>1, <1>7, <2>0, <2>2, <3>1
    <3>2. CASE unmarked' = [unmarked EXCEPT ![b] = @ + 1] /\ UNCHANGED marked
      <4>1. unmarked'[c] = unmarked[c] + 1 /\ posted'[c] = posted[c]
        BY <1>1, <1>2, <2>2, <3>2
      <4> QED BY <1>7, <2>0, <2>2, <4>1
    <3> QED BY <1>3, <3>1, <3>2
  <2> QED BY <2>1, <2>2
<1>9. Announced'
  BY <1>8 DEF Announced
<1>10. unmarked' \in [Budgets -> Nat]
  BY <1>1, <1>2, <1>3
<1>11. LogTold' /\ health' \in Health /\ outcomeLog' \in Seq(BOOLEAN)
  BY <1>1, LogKept
<1>12. {deliveryFaults, deliveryCrashes}' \subseteq Nat
  BY <1>3, CountsTyped
<1> QED BY <1>1, <1>5, <1>9, <1>10, <1>11, <1>12 DEF DeliveryInv, DeliveryTypeOK

LEMMA DeliveryCrashKeeps ==
  ASSUME DeliveryInv, DeliveryCrash
  PROVE  DeliveryInv'
<1> DEFINE Told(b) == {d \in Deliveries : BudgetOf(d) = b /\ delivery[d].outcome = "ok"}
<1>1. /\ UNCHANGED posted /\ UNCHANGED health /\ UNCHANGED marked /\ UNCHANGED outcomeLog /\ DeliveryTypeOK
      /\ posted \in [Budgets -> Nat] /\ unmarked \in [Budgets -> Nat]
      /\ delivery' = [d \in Deliveries |-> IF At(d) = "idle" THEN NewDelivery ELSE Ended]
      /\ dedupeLock' = NoDelivery /\ healthLock' = NoDelivery
      /\ unmarked' = [b \in Budgets |-> unmarked[b] + Cardinality(Told(b))]
      /\ deliveryCrashes' = deliveryCrashes + 1 /\ UNCHANGED deliveryFaults
  BY DEF DeliveryCrash, Ended, DeliveryInv, DeliveryTypeOK
<1>2. ASSUME NEW b \in Budgets
      PROVE  Cardinality(Told(b)) \in Nat /\ (Told(b) # {} => Cardinality(Told(b)) = 1)
  <2>1. ASSUME NEW d \in Told(b) PROVE d = dedupeLock
    <3>1. delivery[d] \in DeliveryState /\ Sane(delivery[d]) /\ delivery[d].about = b /\ delivery[d].outcome = "ok"
      BY <2>1, <1>1 DEF BudgetOf, DeliveryInv, DeliveryTypeOK, DeliverySane
    <3>2. delivery[d].at \in {"health", "record", "mark"}
      BY <3>1, DeliveryFields DEF Sane, DeliverySteps
    <3>3. Deciding(delivery[d])
      BY <3>1, <3>2 DEF Deciding
    <3> QED BY <2>1, <3>3 DEF DeliveryInv, Locked
  <2>2. CASE Told(b) = {}
    BY <2>2, FS_EmptySet
  <2>3. CASE Told(b) # {}
    <3>1. Told(b) = {dedupeLock}
      BY <2>1, <2>3
    <3>2. Cardinality({dedupeLock}) = 1
      BY FS_Singleton
    <3> HIDE DEF Told
    <3>3. Cardinality(Told(b)) = 1
      BY <3>1, <3>2
    <3> QED BY <3>3
  <2> QED BY <2>2, <2>3
<1>3. delivery' \in [Deliveries -> DeliveryState] /\ DeliverySane' /\ Locked'
  <2>1. \A d \in Deliveries : delivery'[d] = NewDelivery \/ delivery'[d] = Ended
    BY <1>1
  <2>2. delivery' \in [Deliveries -> DeliveryState]
    BY <1>1, EndedFacts
  <2>3. DeliverySane'
    BY <2>1, EndedFacts DEF DeliverySane
  <2>4. NewDelivery.at # "record" /\ Ended.at # "record"
    BY EndedFacts DEF NewDelivery
  <2>5. Locked'
    BY <2>1, <2>4, EndedFacts DEF Locked
  <2> QED BY <2>2, <2>3, <2>5
<1>4. \A d \in Deliveries, b \in Budgets : ~Tells(delivery'[d], b)
  BY <1>1, EndedFacts
<1>5. ASSUME NEW b \in Budgets
      PROVE  /\ posted[b] \in Nat /\ unmarked'[b] \in Nat
             /\ posted[b] <= 1 + unmarked'[b]
             /\ posted[b] > unmarked'[b] => b \in marked
             /\ b \in marked => posted[b] > 0
  <2>0. /\ posted[b] \in Nat /\ unmarked[b] \in Nat
        /\ posted[b] <= 1 + unmarked[b]
        /\ posted[b] > unmarked[b] => b \in marked \/ \E e \in Deliveries : Tells(delivery[e], b)
        /\ b \in marked => posted[b] > 0
    BY <1>1 DEF DeliveryInv, Announced
  <2>1. unmarked'[b] = unmarked[b] + Cardinality(Told(b)) /\ Cardinality(Told(b)) \in Nat
    BY <1>1, <1>2
  <2>2. (\E e \in Deliveries : Tells(delivery[e], b)) => Told(b) # {}
    BY DEF Tells, BudgetOf
  <2>3. Told(b) # {} => Cardinality(Told(b)) = 1
    BY <1>2
  <2> HIDE DEF Told
  <2> QED BY <2>0, <2>1, <2>2, <2>3
<1>6. Announced'
  BY <1>1, <1>4, <1>5 DEF Announced
<1>7. unmarked' \in [Budgets -> Nat]
  BY <1>1, <1>5
<1>8. LogTold' /\ health' \in Health /\ outcomeLog' \in Seq(BOOLEAN)
  BY <1>1, LogKept
<1>9. {deliveryFaults, deliveryCrashes}' \subseteq Nat
  BY <1>1 DEF DeliveryTypeOK
<1> QED BY <1>1, <1>3, <1>6, <1>7, <1>8, <1>9 DEF DeliveryInv, DeliveryTypeOK

LEMMA DeliveryStep ==
  ASSUME DeliveryInv, [DeliveryNext]_deliveryVars
  PROVE  DeliveryInv'
<1>1. CASE UNCHANGED deliveryVars
  <2>1. /\ UNCHANGED posted /\ UNCHANGED marked /\ UNCHANGED dedupeLock /\ UNCHANGED health /\ UNCHANGED healthLock
        /\ UNCHANGED delivery /\ UNCHANGED outcomeLog /\ UNCHANGED unmarked
        /\ UNCHANGED deliveryFaults /\ UNCHANGED deliveryCrashes
    BY <1>1 DEF deliveryVars, deliveryCounts
  <2> QED BY <2>1 DEF DeliveryInv, DeliveryTypeOK, DeliverySane, Locked, Announced, LogTold
<1> QED BY <1>1, OnEventKeeps, CheckMarkKeeps, ResolveUrlKeeps, AttemptKeeps, BackoffKeeps, ReadHealthKeeps,
           RecordHealthKeeps, MarkKeeps, DeliveryCrashKeeps DEF DeliveryNext

\* Deliveries are typed, in time, and told apart by the two locks, for any budgets,
\* deliveries, retries, deadlines, faults and crashes (notify.ts, delivery.ts).
THEOREM DeliveryInductive == DeliverySpec => []DeliveryInv
BY DeliveryStart, DeliveryStep, PTL DEF DeliverySpec

\* A marked threshold was announced, and no threshold is announced twice but for
\* the faults and crashes that prevented its mark (postOnce).
THEOREM AlwaysAnnouncedOnce == DeliverySpec => []AnnouncedOnce
<1>1. DeliveryInv => AnnouncedOnce
  BY DEF DeliveryInv, Announced, AnnouncedOnce
<1> QED BY <1>1, DeliveryInductive, PTL

\* No delivery goes on longer than its deadline and the last attempt or sleep
\* (deliverWithRetry).
THEOREM AlwaysBusyBounded == DeliverySpec => []BusyBounded
<1>1. DeliveryInv => BusyBounded
  BY DEF DeliveryInv, DeliverySane, Sane, BusyBounded
<1> QED BY <1>1, DeliveryInductive, PTL

\* The health of the URL is what the recorded outcomes say, whichever deliveries
\* recorded them at once (deliverTracked, DeliveryTracker.record).
THEOREM HealthAlwaysTrue == DeliverySpec => []HealthTrue
<1>1. ASSUME DeliveryInv PROVE HealthTrue
  <2> DEFINE n == Len(outcomeLog)
             m == n - health.consecutive
             S == {0} \cup {i \in 1..n : outcomeLog[i]}
  <2>1. n \in Nat /\ health.consecutive \in Nat
    BY <1>1 DEF DeliveryInv, DeliveryTypeOK, Health
  <2>2. m \in S /\ \A i \in S : m >= i
    <3>1. m \in 0..n /\ (m # 0 => outcomeLog[m]) /\ \A i \in 1..n : i > m => ~outcomeLog[i]
      BY <1>1 DEF DeliveryInv, LogTold
    <3> HIDE DEF m
    <3>2. m \in S
      BY <2>1, <3>1
    <3>3. ASSUME NEW i \in S PROVE m >= i
      BY <2>1, <3>1
    <3> QED BY <3>2, <3>3
  <2>3. \A k \in S : (\A i \in S : k >= i) => k = m
    <3>1. S \subseteq Int /\ m \in Int
      BY <2>1, <2>2
    <3> HIDE DEF m, S
    <3> QED BY <2>2, <3>1
  <2>4. Max(S) = m
    <3> HIDE DEF m, S
    <3> QED BY <2>2, <2>3 DEF Max
  <2>5. FailedInARow = n - m
    BY <2>4 DEF FailedInARow
  <2>6. n - m = health.consecutive
    BY <2>1
  <2> HIDE DEF n, m
  <2> QED BY <1>1, <2>5, <2>6 DEF HealthTrue, DeliveryInv, LogTold, n
<1> QED BY <1>1, DeliveryInductive, PTL

-----------------------------------------------------------------------------
(* The daily digest.                                                        *)

HandlerAt == {"idle", "queued", "save", "done"}
JobAt == {"idle", "check", "queued", "reset", "post", "mark", "merge", "mergeSave"}
OnLock == {"queued", "save", "reset", "merge", "mergeSave"}
Saving == {"save", "reset", "mergeSave"}

\* The calls in `lock` are those between their call and their end, each once, and
\* only the first of them is past its load.
LockTrue ==
  /\ \A e \in Events : pc[e] \in HandlerAt
  /\ pc["job"] \in JobAt
  /\ \A i, j \in DOMAIN lock : lock[i] = lock[j] => i = j
  /\ \A p \in DigestProcs : pc[p] \in OnLock <=> \E i \in DOMAIN lock : lock[i] = p
  /\ \A p \in DigestProcs : pc[p] \in Saving => HoldsLock(p)

\* The job holds what it read from its reset of the rollup until it has marked the
\* day or merged it back.
HeldTrue ==
  /\ pc["job"] \in {"idle", "check", "queued", "reset"} => held = NoRollup
  /\ pc["job"] \in {"post", "mark", "merge", "mergeSave"} => held \in Rollup

One(x, e) == IF x = e THEN 1 ELSE 0

\* What a call is about to save is the stored rollup and its own change, or an
\* empty window and its own change.
EventSnap(e) == pc[e] = "save" =>
  /\ snap[e] \in Rollup
  /\ \/ \A x \in Events : snap[e].count[x] = rollup.count[x] + One(x, e)
     \/ /\ rollup.windowStart < snap[e].windowStart
        /\ \A x \in Events : snap[e].count[x] = One(x, e)

JobSnap ==
  /\ pc["job"] = "reset" =>
       snap["job"] \in Rollup /\ \A x \in Events : snap["job"].count[x] = rollup.count[x]
  /\ pc["job"] = "mergeSave" =>
       snap["job"] \in Rollup /\ \A x \in Events : snap["job"].count[x] = rollup.count[x] + held.count[x]

SnapTrue == (\A e \in Events : EventSnap(e)) /\ JobSnap

Was(e) == IF counted[e] >= 0 THEN 1 ELSE 0

\* An event is counted by its own handler, once; then it waits in one of the two
\* rollups or has been posted.
CountOf(e) ==
  /\ pc[e] # "done" => counted[e] = -1
  /\ rollup.count[e] + held.count[e] <= Was(e)
  /\ Unposted(e) + reported[e] <= Was(e) + lost
  /\ e \notin discarded \cup dropped /\ counted[e] >= 0 => Unposted(e) + reported[e] >= 1

CountsTrue == \A e \in Events : CountOf(e)

\* A day's digest is posted only before its date is saved, and dates only grow.
DayTrue(d) == postedOn[d] <= lost + faults +
                (IF d <= lastRun \/ (pc["job"] = "mark" /\ d = today) THEN 1 ELSE 0)

DatesTrue ==
  /\ today <= now \div Day /\ lastRun <= now \div Day
  /\ pc["job"] # "idle" => lastRun <= today
  /\ pc["job"] \in {"queued", "reset", "post", "mark"} => lastRun < today
  /\ \A d \in 0..(Horizon \div Day) : DayTrue(d)

DigestInv == DigestTypeOK /\ LockTrue /\ HeldTrue /\ SnapTrue /\ CountsTrue /\ DatesTrue

LEMMA DigestConstants ==
  /\ "job" \notin Events /\ Day \in Nat \ {0} /\ DigestHour \in Nat /\ Horizon \in Nat
  /\ DigestProcs = Events \cup {"job"}
BY ConstantsAssumption DEF DigestProcs

-----------------------------------------------------------------------------
(* Days.                                                                    *)

LEMMA DayOf ==
  ASSUME NEW a \in Nat
  PROVE  a \div Day \in Nat /\ (a \div Day) * Day <= a /\ a < (a \div Day) * Day + Day
BY DigestConstants

\* The date only grows with the clock.
LEMMA DaysGrow ==
  ASSUME NEW a \in Nat, NEW b \in Nat, a <= b
  PROVE  a \div Day <= b \div Day
<1> DEFINE p == a \div Day
           q == b \div Day
<1>1. p \in Nat /\ q \in Nat /\ p * Day <= a /\ b < q * Day + Day
  BY DayOf
<1> HIDE DEF p, q
<1>2. ASSUME p > q PROVE FALSE
  <2>1. PICK k \in Nat : p = q + 1 + k
    <3>1. p - (q + 1) \in Nat /\ p = q + 1 + (p - (q + 1))
      BY <1>1, <1>2
    <3> QED BY <3>1
  <2>2. p * Day = q * Day + Day + k * Day
    BY <1>1, <2>1, DigestConstants
  <2>3. k * Day >= 0 /\ q * Day \in Int /\ k * Day \in Int
    BY <1>1, <2>1, DigestConstants
  <2> QED BY <1>1, <2>2, <2>3, DigestConstants
<1> QED BY <1>1, <1>2 DEF p, q

-----------------------------------------------------------------------------
(* The lock.                                                                *)

LEMMA Queue ==
  ASSUME NEW S, NEW s \in Seq(S), s # <<>>
  PROVE  /\ Head(s) = s[1] /\ 1 \in DOMAIN s /\ Tail(s) \in Seq(S) /\ DOMAIN s \subseteq Nat
         /\ DOMAIN Tail(s) \subseteq Nat \ {0}
         /\ \A i \in DOMAIN Tail(s) : i + 1 \in DOMAIN s /\ Tail(s)[i] = s[i + 1]
         /\ \A i \in DOMAIN s : i = 1 \/ (i - 1 \in DOMAIN Tail(s) /\ Tail(s)[i - 1] = s[i])
<1>1. Len(s) \in Nat /\ Len(s) > 0 /\ DOMAIN s = 1..Len(s)
  BY EmptySeq
<1>2. Head(s) = s[1]
  BY <1>1
<1>3. /\ Tail(s) \in Seq(S) /\ Len(Tail(s)) = Len(s) - 1
      /\ \A i \in 1..Len(Tail(s)) : Tail(s)[i] = s[i + 1]
  BY HeadTailProperties
<1> QED BY <1>1, <1>2, <1>3

Fits(p, at) == (p \in Events /\ at \in HandlerAt) \/ (p = "job" /\ at \in JobAt)

LEMMA GoToFacts ==
  ASSUME DigestTypeOK, LockTrue, NEW p \in DigestProcs, NEW at, Fits(p, at), GoTo(p, at)
  PROVE  /\ pc'[p] = at /\ \A q \in DigestProcs \ {p} : pc'[q] = pc[q]
         /\ pc' \in [DigestProcs -> {"idle", "queued", "save", "done"}
                       \cup {"check", "reset", "post", "mark", "merge", "mergeSave"}]
         /\ \A e \in Events : pc'[e] \in HandlerAt
         /\ pc'["job"] \in JobAt
<1> DEFINE Ats_ == {"idle", "queued", "save", "done"} \cup {"check", "reset", "post", "mark", "merge", "mergeSave"}
<1>1. pc \in [DigestProcs -> Ats_] /\ at \in Ats_ /\ pc' = [pc EXCEPT ![p] = at]
  BY DEF DigestTypeOK, Fits, HandlerAt, JobAt, GoTo
<1>2. pc'[p] = at /\ pc' \in [DigestProcs -> Ats_] /\ \A q \in DigestProcs \ {p} : pc'[q] = pc[q]
  BY <1>1
<1>3. \A e \in Events : pc'[e] \in HandlerAt
  BY <1>2, DigestConstants DEF LockTrue, Fits
<1>4. pc'["job"] \in JobAt
  BY <1>2, DigestConstants DEF LockTrue, Fits
<1> QED BY <1>2, <1>3, <1>4

LEMMA LockWords ==
  /\ Saving \subseteq OnLock /\ "idle" \notin OnLock /\ "done" \notin OnLock /\ "check" \notin OnLock
  /\ "post" \notin OnLock /\ "mark" \notin OnLock /\ {"queued", "merge"} \subseteq OnLock \ Saving
  /\ {"save", "reset", "mergeSave"} \subseteq OnLock
BY DEF Saving, OnLock

\* A call is chained on the lock.
LEMMA EnterKeeps ==
  ASSUME DigestTypeOK, LockTrue, NEW p \in DigestProcs, NEW at, Fits(p, at), Enter(p, at),
         pc[p] \notin OnLock, at \in OnLock \ Saving
  PROVE  LockTrue' /\ lock' \in Seq(DigestProcs)
<1> DEFINE n == Len(lock)
<1>1. GoTo(p, at) /\ lock' = Append(lock, p) /\ lock \in Seq(DigestProcs)
  BY DEF Enter, DigestTypeOK
<1>2. /\ n \in Nat /\ DOMAIN lock = 1..n /\ DOMAIN lock' = 1..(n + 1) /\ lock'[n + 1] = p
      /\ \A i \in 1..n : lock'[i] = lock[i]
      /\ lock' \in Seq(DigestProcs)
  BY <1>1
<1>3. ASSUME NEW q \in DigestProcs, HoldsLock(q) PROVE HoldsLock(q)'
  <2>1. lock # <<>> /\ Head(lock) = q
    BY <1>3 DEF HoldsLock
  <2>2. Append(lock, p) # <<>> /\ Head(Append(lock, p)) = q
    BY <1>1, <2>1, AppendProperties
  <2> QED BY <1>1, <2>2 DEF HoldsLock
<1> HIDE DEF n
<1>4. pc'[p] = at /\ \A q \in DigestProcs \ {p} : pc'[q] = pc[q]
  BY <1>1, GoToFacts
<1>5. \A i \in DOMAIN lock : lock[i] # p
  BY DEF LockTrue
<1>6. (\A i \in 1..(n + 1) : i \in 1..n \/ i = n + 1) /\ (\A i \in 1..n : i \in 1..(n + 1)) /\ n + 1 \in 1..(n + 1)
  BY <1>2
<1>7. \A i, j \in DOMAIN lock' : lock'[i] = lock'[j] => i = j
  BY <1>2, <1>5, <1>6 DEF LockTrue
<1>8. \A q \in DigestProcs : (\E i \in DOMAIN lock' : lock'[i] = q) <=> (q = p \/ \E i \in DOMAIN lock : lock[i] = q)
  BY <1>2, <1>6
<1>9. \A q \in DigestProcs : pc'[q] \in OnLock <=> \E i \in DOMAIN lock' : lock'[i] = q
  BY <1>4, <1>8 DEF LockTrue
<1>10. \A q \in DigestProcs : pc'[q] \in Saving => HoldsLock(q)'
  BY <1>3, <1>4 DEF LockTrue
<1>11. (\A e \in Events : pc'[e] \in HandlerAt) /\ pc'["job"] \in JobAt
  BY <1>1, GoToFacts
<1> QED BY <1>2, <1>7, <1>9, <1>10, <1>11 DEF LockTrue

\* The first call goes on, or a call goes on outside the lock.
LEMMA StayKeeps ==
  ASSUME DigestTypeOK, LockTrue, NEW p \in DigestProcs, NEW at, Fits(p, at), GoTo(p, at), UNCHANGED lock,
         \/ HoldsLock(p) /\ pc[p] \in OnLock /\ at \in OnLock
         \/ pc[p] \notin OnLock /\ at \notin OnLock
  PROVE  LockTrue'
<1>1. pc'[p] = at /\ \A q \in DigestProcs \ {p} : pc'[q] = pc[q]
  BY GoToFacts
<1>2. (\A e \in Events : pc'[e] \in HandlerAt) /\ pc'["job"] \in JobAt
  BY GoToFacts
<1>3. \A q \in DigestProcs : pc'[q] \in OnLock <=> \E i \in DOMAIN lock' : lock'[i] = q
  BY <1>1 DEF LockTrue
<1>4. \A q \in DigestProcs : pc'[q] \in Saving => HoldsLock(q)'
  BY <1>1, LockWords DEF LockTrue, HoldsLock
<1> QED BY <1>2, <1>3, <1>4 DEF LockTrue

\* The first call ends.
LEMMA LeaveKeeps ==
  ASSUME DigestTypeOK, LockTrue, NEW p \in DigestProcs, NEW at, Fits(p, at), Leave(p, at),
         HoldsLock(p), at \notin OnLock
  PROVE  LockTrue' /\ lock' \in Seq(DigestProcs)
<1>1. GoTo(p, at) /\ lock' = Tail(lock) /\ lock \in Seq(DigestProcs) /\ lock # <<>> /\ Head(lock) = p
  BY DEF Leave, HoldsLock, DigestTypeOK
<1>2. /\ lock' \in Seq(DigestProcs) /\ lock[1] = p /\ 1 \in DOMAIN lock /\ DOMAIN lock' \subseteq Nat \ {0}
      /\ \A i \in DOMAIN lock' : i + 1 \in DOMAIN lock /\ lock'[i] = lock[i + 1]
      /\ \A i \in DOMAIN lock : i = 1 \/ (i - 1 \in DOMAIN lock' /\ lock'[i - 1] = lock[i])
  BY <1>1, Queue
<1>3. pc'[p] = at /\ \A q \in DigestProcs \ {p} : pc'[q] = pc[q]
  BY <1>1, GoToFacts
<1>4. \A i, j \in DOMAIN lock' : lock'[i] = lock'[j] => i = j
  <2> SUFFICES ASSUME NEW i \in DOMAIN lock', NEW j \in DOMAIN lock', lock'[i] = lock'[j] PROVE i = j
    OBVIOUS
  <2>1. i + 1 = j + 1
    BY <1>2 DEF LockTrue
  <2>2. i \in Nat /\ j \in Nat
    BY <1>2
  <2> QED BY <2>1, <2>2
<1>5. ASSUME NEW q \in DigestProcs
      PROVE  (\E i \in DOMAIN lock' : lock'[i] = q) <=> (q # p /\ \E i \in DOMAIN lock : lock[i] = q)
  <2>1. ASSUME NEW i \in DOMAIN lock', lock'[i] = q PROVE q # p /\ \E j \in DOMAIN lock : lock[j] = q
    <3>1. i + 1 \in DOMAIN lock /\ lock[i + 1] = q /\ i \in Nat /\ i # 0
      BY <1>2, <2>1
    <3>2. i + 1 # 1
      BY <3>1
    <3>3. q # p
      BY <1>2, <3>1, <3>2 DEF LockTrue
    <3> QED BY <3>1, <3>3
  <2>2. ASSUME q # p, NEW i \in DOMAIN lock, lock[i] = q PROVE \E j \in DOMAIN lock' : lock'[j] = q
    <3>1. i # 1
      BY <1>2, <2>2
    <3> QED BY <1>2, <2>2, <3>1
  <2> QED BY <2>1, <2>2
<1>6. \A q \in DigestProcs : pc'[q] \in OnLock <=> \E i \in DOMAIN lock' : lock'[i] = q
  BY <1>3, <1>5 DEF LockTrue
<1>7. \A q \in DigestProcs : pc'[q] \notin Saving
  BY <1>1, <1>3, LockWords DEF LockTrue, HoldsLock
<1>8. (\A e \in Events : pc'[e] \in HandlerAt) /\ pc'["job"] \in JobAt
  BY <1>1, GoToFacts
<1> QED BY <1>2, <1>4, <1>6, <1>7, <1>8 DEF LockTrue

-----------------------------------------------------------------------------
(* Rollups.                                                                 *)

LEMMA Emptied ==
  /\ \A since \in 0..Horizon :
       /\ emptyRollup(since) \in Rollup /\ emptyRollup(since).windowStart = since
       /\ \A x \in Events : emptyRollup(since).count[x] = 0
  /\ NoRollup \notin Rollup /\ NoRollup.windowStart = -1 /\ \A x \in Events : NoRollup.count[x] = 0
<1>1. [e \in Events |-> 0] \in [Events -> Nat] /\ \A x \in Events : [e \in Events |-> 0][x] = 0
  OBVIOUS
<1> DEFINE zero == [e \in Events |-> 0]
<1> HIDE DEF zero
<1>2. \A since \in 0..Horizon : emptyRollup(since) = [windowStart |-> since, count |-> zero]
  BY DEF emptyRollup, zero
<1>3. NoRollup = [windowStart |-> -1, count |-> zero]
  BY DEF NoRollup, zero
<1>4. zero \in [Events -> Nat] /\ \A x \in Events : zero[x] = 0
  BY <1>1 DEF zero
<1>5. NoRollup \notin Rollup
  BY <1>3 DEF Rollup
<1> QED BY <1>2, <1>3, <1>4, <1>5 DEF Rollup

LEMMA RollupFacts ==
  ASSUME NEW r \in Rollup \cup {NoRollup}
  PROVE  /\ r.windowStart \in Int /\ r.windowStart <= Horizon
         /\ \A x \in Events : r.count[x] \in Nat
BY Emptied, DigestConstants DEF Rollup

LEMMA Coerced ==
  ASSUME NEW r \in Rollup \cup {NoRollup}, NEW since \in 0..Horizon
  PROVE  /\ coerceRollup(r, since) \in Rollup
         /\ \A x \in Events : coerceRollup(r, since).count[x] = r.count[x]
         /\ coerceRollup(r, since).windowStart # r.windowStart => coerceRollup(r, since).windowStart = since
<1>1. CASE r = NoRollup
  BY <1>1, Emptied DEF coerceRollup
<1>2. CASE r # NoRollup
  BY <1>2 DEF coerceRollup
<1> QED BY <1>1, <1>2

\* The counts of the two rollups, and what they are compared with.
LEMMA CountTypes ==
  ASSUME DigestTypeOK, NEW e \in Events
  PROVE  /\ rollup.count[e] \in Nat /\ held.count[e] \in Nat /\ reported[e] \in Nat /\ counted[e] \in Int
         /\ counted[e] >= -1 /\ lost \in Nat /\ Was(e) \in Nat /\ Unposted(e) \in Nat
         /\ pc[e] \in HandlerAt \cup JobAt
<1>1. rollup.count[e] \in Nat /\ held.count[e] \in Nat
  BY RollupFacts DEF DigestTypeOK
<1>2. reported[e] \in Nat /\ counted[e] \in Int /\ counted[e] >= -1 /\ lost \in Nat
  BY DigestConstants DEF DigestTypeOK
<1>3. Was(e) \in Nat
  BY DEF Was
<1>4. Unposted(e) \in Nat
  BY <1>1 DEF Unposted
<1>5. pc[e] \in HandlerAt \cup JobAt
  BY DEF DigestTypeOK, DigestProcs, HandlerAt, JobAt
<1> QED BY <1>1, <1>2, <1>3, <1>4, <1>5

-----------------------------------------------------------------------------
(* What a step leaves alone.                                                *)

\* Only the call that has the lock writes the rollup, and so what the others are
\* about to save is still right.
LEMMA OtherSnaps ==
  ASSUME LockTrue, SnapTrue, NEW p \in DigestProcs,
         \A q \in DigestProcs \ {p} : pc'[q] = pc[q] /\ snap'[q] = snap[q],
         UNCHANGED rollup \/ HoldsLock(p), UNCHANGED held \/ p = "job"
  PROVE  (\A e \in Events \ {p} : EventSnap(e)') /\ (p # "job" => JobSnap')
<1>1. \A q \in DigestProcs \ {p} : pc[q] \in Saving => UNCHANGED rollup
  BY DEF LockTrue, HoldsLock
<1>2. ASSUME NEW e \in Events \ {p} PROVE EventSnap(e)'
  <2>1. pc'[e] = pc[e] /\ snap'[e] = snap[e] /\ (pc[e] = "save" => UNCHANGED rollup) /\ EventSnap(e)
    BY <1>1, DigestConstants DEF SnapTrue, Saving
  <2> QED BY <2>1 DEF EventSnap
<1>3. ASSUME p # "job" PROVE JobSnap'
  <2>1. /\ pc'["job"] = pc["job"] /\ snap'["job"] = snap["job"] /\ JobSnap /\ UNCHANGED held
        /\ pc["job"] \in {"reset", "mergeSave"} => UNCHANGED rollup
    BY <1>1, <1>3, DigestConstants DEF SnapTrue, Saving
  <2> QED BY <2>1 DEF JobSnap
<1> QED BY <1>2, <1>3

LEMMA CountsKept ==
  ASSUME CountsTrue, UNCHANGED <<rollup, held, counted, reported, lost, discarded, dropped>>,
         pc'["job"] = "mark" <=> pc["job"] = "mark",
         \A e \in Events : pc'[e] # "done" => pc[e] # "done"
  PROVE  CountsTrue'
<1>1. /\ UNCHANGED rollup /\ UNCHANGED held /\ UNCHANGED counted /\ UNCHANGED reported /\ UNCHANGED lost
      /\ UNCHANGED discarded /\ UNCHANGED dropped
  OBVIOUS
<1>2. ASSUME NEW e \in Events PROVE CountOf(e)'
  <2>1. CountOf(e) /\ (pc'[e] # "done" => pc[e] # "done")
    BY DEF CountsTrue
  <2> QED BY <1>1, <2>1 DEF CountOf, Unposted, Was
<1> QED BY <1>2 DEF CountsTrue

LEMMA DatesKept ==
  ASSUME DigestTypeOK, DatesTrue, UNCHANGED <<today, lastRun, postedOn, lost>>,
         faults' \in Nat, faults' >= faults, now' \in Nat, now' >= now,
         pc'["job"] = pc["job"] \/ (pc'["job"] = "idle" /\ (pc["job"] = "mark" => faults' = faults + 1))
  PROVE  DatesTrue'
<1>1. /\ UNCHANGED today /\ UNCHANGED lastRun /\ UNCHANGED postedOn /\ UNCHANGED lost
      /\ lost \in Nat /\ faults \in Nat /\ now \in Nat /\ postedOn \in [0..(Horizon \div Day) -> Nat]
      /\ today \in Int /\ lastRun \in Int
  BY DayOf, DigestConstants DEF DigestTypeOK
<1>2. now \div Day <= now' \div Day /\ now \div Day \in Nat /\ now' \div Day \in Nat
  BY <1>1, DaysGrow, DayOf
<1>3. today' <= now' \div Day /\ lastRun' <= now' \div Day
  BY <1>1, <1>2 DEF DatesTrue
<1>4. /\ pc'["job"] # "idle" => lastRun' <= today'
      /\ pc'["job"] \in {"queued", "reset", "post", "mark"} => lastRun' < today'
  BY <1>1 DEF DatesTrue
<1>5. ASSUME NEW d \in 0..(Horizon \div Day) PROVE DayTrue(d)'
  <2>1. DayTrue(d) /\ postedOn[d] \in Nat
    BY <1>1 DEF DatesTrue
  <2> QED BY <1>1, <2>1 DEF DayTrue
<1> QED BY <1>3, <1>4, <1>5 DEF DatesTrue

-----------------------------------------------------------------------------
(* The clock and the handlers.                                              *)

LEMMA DigestTickKeeps ==
  ASSUME DigestInv, DigestTick
  PROVE  DigestInv'
<1>1. /\ UNCHANGED rollup /\ UNCHANGED lastRun /\ UNCHANGED lock /\ UNCHANGED pc /\ UNCHANGED snap /\ UNCHANGED held
      /\ UNCHANGED readAt /\ UNCHANGED today /\ UNCHANGED reported /\ UNCHANGED postedOn /\ UNCHANGED lost
      /\ UNCHANGED failedPosts /\ UNCHANGED counted /\ UNCHANGED discarded /\ UNCHANGED young /\ UNCHANGED merged
      /\ UNCHANGED dropped /\ UNCHANGED faults /\ DigestTypeOK /\ now' = now + 1 /\ now < Horizon
  BY DEF DigestTick, stored, locals, teams, digestHistory, DigestInv
<1>2. now \in Nat /\ now' \in 0..Horizon /\ now' \in Nat /\ now' >= now /\ faults \in Nat
  BY <1>1, DigestConstants DEF DigestTypeOK
<1>3. DigestTypeOK'
  BY <1>1, <1>2 DEF DigestTypeOK
<1>4. LockTrue' /\ HeldTrue'
  BY <1>1 DEF DigestInv, LockTrue, HeldTrue, HoldsLock
<1>5. SnapTrue'
  BY <1>1 DEF DigestInv, SnapTrue, EventSnap, JobSnap
<1>6. CountsTrue'
  BY <1>1, CountsKept DEF DigestInv
<1>7. DatesTrue'
  BY <1>1, <1>2, DatesKept DEF DigestInv
<1> QED BY <1>3, <1>4, <1>5, <1>6, <1>7 DEF DigestInv

\* A handler's step that touches neither rollups nor counts.
LEMMA HandlerKeeps ==
  ASSUME DigestInv, NEW e \in Events, NEW at, at \in HandlerAt, GoTo(e, at), LockTrue', lock' \in Seq(DigestProcs),
         pc[e] # "done", snap' \in [DigestProcs -> Rollup \cup {NoRollup}],
         \A q \in DigestProcs \ {e} : snap'[q] = snap[q], EventSnap(e)', faults' \in Nat, faults' >= faults,
         UNCHANGED <<now, stored, held, readAt, today, teams, digestHistory>>
  PROVE  DigestInv'
<1>1. /\ UNCHANGED rollup /\ UNCHANGED lastRun /\ UNCHANGED held /\ UNCHANGED now
      /\ UNCHANGED readAt /\ UNCHANGED today /\ UNCHANGED reported /\ UNCHANGED postedOn /\ UNCHANGED lost
      /\ UNCHANGED failedPosts /\ UNCHANGED counted /\ UNCHANGED discarded /\ UNCHANGED young /\ UNCHANGED merged
      /\ UNCHANGED dropped /\ DigestTypeOK /\ LockTrue
  BY DEF stored, teams, digestHistory, DigestInv
<1>2. e \in DigestProcs /\ e # "job" /\ "job" \in DigestProcs /\ Fits(e, at)
  BY DigestConstants DEF Fits
<1>3. /\ pc'[e] = at /\ \A q \in DigestProcs \ {e} : pc'[q] = pc[q]
      /\ pc' \in [DigestProcs -> {"idle", "queued", "save", "done"}
                    \cup {"check", "reset", "post", "mark", "merge", "mergeSave"}]
  BY <1>1, <1>2, GoToFacts
<1>4. pc'["job"] = pc["job"] /\ now \in Nat
  BY <1>1, <1>2, <1>3, DigestConstants DEF DigestTypeOK
<1>5. DigestTypeOK'
  BY <1>1, <1>3 DEF DigestTypeOK
<1>6. HeldTrue'
  BY <1>1, <1>4 DEF DigestInv, HeldTrue
<1>7. SnapTrue'
  <2>1. (\A x \in Events \ {e} : EventSnap(x)') /\ JobSnap'
    BY <1>1, <1>2, <1>3, OtherSnaps DEF DigestInv
  <2>2. \A x \in Events : EventSnap(x)'
    <3>1. SUFFICES ASSUME NEW x \in Events PROVE EventSnap(x)'
      OBVIOUS
    <3>2. CASE x = e
      BY <3>2
    <3>3. CASE x # e
      BY <2>1, <3>3
    <3> QED BY <3>2, <3>3
  <2> QED BY <2>1, <2>2 DEF SnapTrue
<1>8. CountsTrue'
  <2>1. ASSUME NEW x \in Events, pc'[x] # "done" PROVE pc[x] # "done"
    <3>1. x = e \/ x \in DigestProcs \ {e}
      BY DigestConstants
    <3> QED BY <1>3, <2>1, <3>1
  <2> QED BY <1>1, <1>4, <2>1, CountsKept DEF DigestInv
<1>9. DatesTrue'
  <2>1. now' \in Nat /\ now' >= now
    BY <1>1, <1>4
  <2> QED BY <1>1, <1>4, <2>1, DatesKept DEF DigestInv
<1> QED BY <1>5, <1>6, <1>7, <1>8, <1>9 DEF DigestInv

LEMMA HandleEventKeeps ==
  ASSUME DigestInv, NEW e \in Events, HandleEvent(e)
  PROVE  DigestInv'
<1>1. /\ pc[e] = "idle" /\ UNCHANGED snap /\ UNCHANGED faults /\ DigestTypeOK /\ LockTrue
      /\ UNCHANGED <<now, stored, held, readAt, today, teams, digestHistory>>
      /\ snap \in [DigestProcs -> Rollup \cup {NoRollup}] /\ faults \in Nat /\ lock \in Seq(DigestProcs)
      /\ e \in DigestProcs
  BY DigestConstants DEF HandleEvent, DigestInv, DigestTypeOK
<1>2. CASE Enter(e, "queued")
  <2>1. Fits(e, "queued") /\ "queued" \in HandlerAt /\ GoTo(e, "queued")
    BY <1>2 DEF Fits, HandlerAt, Enter
  <2>2. LockTrue' /\ lock' \in Seq(DigestProcs)
    BY <1>1, <1>2, <2>1, LockWords, EnterKeeps
  <2>3. EventSnap(e)'
    BY <1>1, <2>1, GoToFacts DEF EventSnap, Fits
  <2> QED BY <1>1, <2>1, <2>2, <2>3, HandlerKeeps
<1>3. CASE GoTo(e, "done") /\ UNCHANGED lock
  <2>1. Fits(e, "done") /\ "done" \in HandlerAt /\ GoTo(e, "done") /\ UNCHANGED lock
    BY <1>3 DEF Fits, HandlerAt
  <2>2. LockTrue'
    BY <1>1, <2>1, LockWords, StayKeeps
  <2>3. EventSnap(e)'
    BY <1>1, <2>1, GoToFacts DEF EventSnap, Fits
  <2> QED BY <1>1, <2>1, <2>2, <2>3, HandlerKeeps
<1> QED BY <1>2, <1>3 DEF HandleEvent

LEMMA LoadAndCountKeeps ==
  ASSUME DigestInv, NEW e \in Events, LoadAndCount(e)
  PROVE  DigestInv'
<1> DEFINE old == coerceRollup(rollup, now)
           r == IF Aged(old) THEN emptyRollup(now) ELSE old
           n == r.count[e] + 1
           s == [r EXCEPT !.count[e] = n]
<1>1. /\ pc[e] = "queued" /\ HoldsLock(e) /\ GoTo(e, "save") /\ UNCHANGED lock /\ UNCHANGED faults
      /\ UNCHANGED rollup /\ DigestTypeOK /\ LockTrue
      /\ UNCHANGED <<now, stored, held, readAt, today, teams, digestHistory>>
      /\ snap \in [DigestProcs -> Rollup \cup {NoRollup}] /\ faults \in Nat /\ lock \in Seq(DigestProcs)
      /\ e \in DigestProcs /\ rollup \in Rollup \cup {NoRollup} /\ now \in 0..Horizon
  BY DigestConstants DEF LoadAndCount, DigestInv, DigestTypeOK, stored
<1>2. snap' = [snap EXCEPT ![e] = s]
  BY DEF LoadAndCount
<1>3. /\ r \in Rollup
      /\ \/ \A x \in Events : r.count[x] = rollup.count[x]
         \/ rollup.windowStart < r.windowStart /\ \A x \in Events : r.count[x] = 0
  <2>1. /\ old \in Rollup /\ \A x \in Events : old.count[x] = rollup.count[x]
        /\ old.windowStart # rollup.windowStart => old.windowStart = now
    BY <1>1, Coerced
  <2>2. old.windowStart \in Int /\ now \in Int /\ Day \in Nat \ {0}
    BY <1>1, <2>1, RollupFacts, DigestConstants
  <2> HIDE DEF old
  <2>3. CASE Aged(old)
    <3>1. old.windowStart < now
      BY <2>2, <2>3 DEF Aged
    <3>2. rollup.windowStart < now
      BY <2>1, <2>2, <3>1
    <3> QED BY <1>1, <2>3, <3>2, Emptied
  <2>4. CASE ~Aged(old)
    BY <2>1, <2>4
  <2> QED BY <2>3, <2>4
<1> HIDE DEF r
<1>4. n \in Nat /\ n = r.count[e] + 1 /\ \A x \in Events : r.count[x] \in Nat
  BY <1>3, RollupFacts
<1> HIDE DEF n
<1>5. /\ s \in Rollup /\ s.windowStart = r.windowStart
      /\ \A x \in Events : s.count[x] = IF x = e THEN n ELSE r.count[x]
  BY <1>3, <1>4 DEF Rollup
<1> HIDE DEF s
<1>6. ASSUME NEW x \in Events PROVE s.count[x] = r.count[x] + One(x, e)
  <2>1. CASE x = e
    BY <1>4, <1>5, <2>1 DEF One
  <2>2. CASE x # e
    <3>1. s.count[x] = r.count[x] /\ r.count[x] \in Nat
      BY <1>4, <1>5, <2>2
    <3> QED BY <2>2, <3>1 DEF One
  <2> QED BY <2>1, <2>2
<1>7. Fits(e, "save") /\ "save" \in HandlerAt
  BY DEF Fits, HandlerAt
<1>8. LockTrue'
  BY <1>1, <1>7, LockWords, StayKeeps
<1>9. snap'[e] = s /\ snap' \in [DigestProcs -> Rollup \cup {NoRollup}] /\ \A q \in DigestProcs \ {e} : snap'[q] = snap[q]
  BY <1>1, <1>2, <1>5
<1>10. EventSnap(e)'
  <2>1. \/ \A x \in Events : s.count[x] = rollup.count[x] + One(x, e)
        \/ rollup.windowStart < s.windowStart /\ \A x \in Events : s.count[x] = One(x, e)
    <3>1. CASE \A x \in Events : r.count[x] = rollup.count[x]
      BY <1>6, <3>1
    <3>2. CASE rollup.windowStart < r.windowStart /\ \A x \in Events : r.count[x] = 0
      BY <1>5, <1>6, <3>2 DEF One
    <3> QED BY <1>3, <3>1, <3>2
  <2> QED BY <1>1, <1>5, <1>9, <2>1 DEF EventSnap
<1> QED BY <1>1, <1>7, <1>8, <1>9, <1>10, HandlerKeeps

LEMMA HandlerRejectsKeeps ==
  ASSUME DigestInv, NEW e \in Events, HandlerRejects(e)
  PROVE  DigestInv'
<1>1. /\ pc[e] \in {"save", "queued"} /\ HoldsLock(e) /\ Leave(e, "done") /\ GoTo(e, "done") /\ e \in DigestProcs
      /\ UNCHANGED <<now, stored, held, readAt, today, teams, digestHistory>>
      /\ snap' = [snap EXCEPT ![e] = NoRollup] /\ faults' = faults + 1 /\ faults \in Nat
      /\ snap \in [DigestProcs -> Rollup \cup {NoRollup}] /\ DigestTypeOK /\ LockTrue
  BY DigestConstants, LockWords DEF HandlerRejects, DigestInv, DigestTypeOK, LockTrue, Saving, Leave, Forget
<1>2. Fits(e, "done") /\ "done" \in HandlerAt
  BY DEF Fits, HandlerAt
<1>3. LockTrue' /\ lock' \in Seq(DigestProcs)
  BY <1>1, <1>2, LockWords, LeaveKeeps
<1>4. EventSnap(e)'
  BY <1>1, <1>2, GoToFacts DEF EventSnap
<1>5. faults' \in Nat /\ faults' >= faults /\ pc[e] # "done"
  BY <1>1
<1>6. snap' \in [DigestProcs -> Rollup \cup {NoRollup}] /\ \A q \in DigestProcs \ {e} : snap'[q] = snap[q]
  BY <1>1
<1> QED BY <1>1, <1>2, <1>3, <1>4, <1>5, <1>6, HandlerKeeps

LEMMA SaveCountKeeps ==
  ASSUME DigestInv, NEW e \in Events, SaveCount(e)
  PROVE  DigestInv'
<1> DEFINE gone == IF rollup.windowStart < snap[e].windowStart THEN In(rollup) ELSE {}
<1>1. /\ pc[e] = "save" /\ rollup' = snap[e] /\ counted' = [counted EXCEPT ![e] = now] /\ Leave(e, "done")
      /\ discarded' = discarded \cup gone /\ young' = young \cup {d \in gone : now - counted[d] < Day}
      /\ snap' = [snap EXCEPT ![e] = NoRollup]
      /\ UNCHANGED now /\ UNCHANGED lastRun /\ UNCHANGED held /\ UNCHANGED readAt /\ UNCHANGED today
      /\ UNCHANGED reported /\ UNCHANGED postedOn /\ UNCHANGED lost /\ UNCHANGED failedPosts
      /\ UNCHANGED merged /\ UNCHANGED dropped /\ UNCHANGED faults
      /\ GoTo(e, "done")
  BY DEF SaveCount, Forget, teams, Leave
<1>2. /\ DigestTypeOK /\ LockTrue /\ SnapTrue /\ CountsTrue /\ DatesTrue /\ HeldTrue
      /\ e \in DigestProcs /\ e # "job" /\ "job" \in DigestProcs /\ Fits(e, "done") /\ "done" \notin OnLock
  BY DigestConstants, LockWords DEF DigestInv, Fits, HandlerAt
<1>3. HoldsLock(e) /\ snap[e] \in Rollup /\ now \in 0..Horizon /\ now \in Nat
  BY <1>1, <1>2, DigestConstants DEF LockTrue, Saving, SnapTrue, EventSnap, DigestTypeOK
<1>4. LockTrue' /\ lock' \in Seq(DigestProcs)
  BY <1>1, <1>2, <1>3, LeaveKeeps
<1>5. /\ pc'[e] = "done" /\ \A q \in DigestProcs \ {e} : pc'[q] = pc[q]
      /\ pc' \in [DigestProcs -> {"idle", "queued", "save", "done"}
                    \cup {"check", "reset", "post", "mark", "merge", "mergeSave"}]
  BY <1>1, <1>2, GoToFacts
<1>6. pc'["job"] = pc["job"]
  BY <1>2, <1>5
<1>7. /\ snap' \in [DigestProcs -> Rollup \cup {NoRollup}] /\ \A q \in DigestProcs \ {e} : snap'[q] = snap[q]
  BY <1>1, <1>2 DEF DigestTypeOK
<1>8. DigestTypeOK'
  <2>1. gone \subseteq Events
    BY DEF In
  <2>2. discarded' \subseteq Events /\ young' \subseteq Events
    BY <1>1, <1>2, <2>1 DEF DigestTypeOK
  <2>3. counted' \in [Events -> -1..Horizon]
    BY <1>1, <1>2, <1>3, DigestConstants DEF DigestTypeOK
  <2> QED BY <1>1, <1>2, <1>3, <1>4, <1>5, <1>7, <2>2, <2>3 DEF DigestTypeOK
<1>9. HeldTrue'
  BY <1>1, <1>2, <1>6 DEF HeldTrue
<1>10. SnapTrue'
  <2>1. (\A x \in Events \ {e} : EventSnap(x)') /\ JobSnap'
    BY <1>1, <1>2, <1>3, <1>5, <1>7, OtherSnaps
  <2>2. EventSnap(e)'
    BY <1>5 DEF EventSnap
  <2>3. ASSUME NEW x \in Events PROVE EventSnap(x)'
    BY <2>1, <2>2
  <2> QED BY <2>1, <2>3 DEF SnapTrue
<1>11. ASSUME NEW x \in Events PROVE CountOf(x)'
  <2>0. CountOf(x) /\ CountOf(e)
    BY <1>2 DEF CountsTrue
  <2>1. /\ rollup.count[x] \in Nat /\ held.count[x] \in Nat /\ reported[x] \in Nat /\ counted[x] \in Int
        /\ lost \in Nat /\ snap[e].count[x] \in Nat
    BY <1>2, <1>3, CountTypes, RollupFacts
  <2>2. CASE x = e
    <3>1. counted[x] = -1 /\ counted'[x] = now /\ pc'[x] = "done"
      BY <1>1, <1>2, <1>5, <2>0, <2>2 DEF CountOf, DigestTypeOK
    <3>2. rollup.count[x] = 0 /\ held.count[x] = 0 /\ Unposted(x) + reported[x] <= lost
      BY <2>0, <2>1, <2>2, <3>1 DEF CountOf, Was
    <3>3. Unposted(x) = 0 /\ reported[x] <= lost
      BY <2>1, <3>2 DEF Unposted
    <3>4. snap[e].count[x] = 1
      BY <1>1, <1>2, <2>2, <3>2 DEF SnapTrue, EventSnap, One
    <3>5. rollup'.count[x] = 1 /\ held'.count[x] = 0 /\ reported'[x] = reported[x] /\ lost' = lost
      BY <1>1, <3>2, <3>4
    <3>6. Was(x)' = 1 /\ Unposted(x)' = 1
      BY <1>3, <3>1, <3>5 DEF Was, Unposted
    <3> QED BY <2>1, <3>1, <3>3, <3>5, <3>6 DEF CountOf
  <2>3. CASE x # e
    <3>1. /\ counted'[x] = counted[x] /\ pc'[x] = pc[x] /\ held'.count[x] = held.count[x]
          /\ reported'[x] = reported[x] /\ lost' = lost /\ rollup'.count[x] = snap[e].count[x]
      <4>1. x \in DigestProcs \ {e}
        BY <2>3, DigestConstants
      <4> QED BY <1>1, <1>2, <1>5, <2>3, <4>1 DEF DigestTypeOK
    <3>2. Was(x)' = Was(x)
      BY <3>1 DEF Was
    <3>3. CASE rollup'.count[x] = rollup.count[x]
      <4>1. Unposted(x)' = Unposted(x)
        BY <1>6, <3>1, <3>3 DEF Unposted
      <4>2. x \notin (discarded \cup dropped)' => x \notin discarded \cup dropped
        BY <1>1
      <4> QED BY <2>0, <3>1, <3>2, <3>3, <4>1, <4>2 DEF CountOf
    <3>4. CASE rollup'.count[x] # rollup.count[x]
      <4>1. rollup.windowStart < snap[e].windowStart /\ snap[e].count[x] = 0
        <5>1. One(x, e) = 0
          BY <2>3 DEF One
        <5>2. EventSnap(e)
          BY <1>2 DEF SnapTrue
        <5>3. CASE \A y \in Events : snap[e].count[y] = rollup.count[y] + One(y, e)
          <6>1. snap[e].count[x] = rollup.count[x]
            BY <2>1, <5>1, <5>3
          <6> QED BY <3>1, <3>4, <6>1
        <5>4. CASE rollup.windowStart < snap[e].windowStart /\ \A y \in Events : snap[e].count[y] = One(y, e)
          BY <5>1, <5>4
        <5> QED BY <1>1, <5>2, <5>3, <5>4 DEF EventSnap
      <4>2. rollup.count[x] > 0
        BY <2>1, <3>1, <3>4, <4>1
      <4>3. x \in discarded'
        BY <1>1, <4>1, <4>2 DEF In
      <4>4. rollup'.count[x] = 0 /\ Unposted(x)' <= Unposted(x) /\ Unposted(x)' \in Nat /\ Unposted(x) \in Nat
        BY <1>6, <2>1, <3>1, <4>1 DEF Unposted
      <4>5. Was(x) \in Nat
        BY DEF Was
      <4>6. rollup'.count[x] + held'.count[x] <= Was(x)'
        BY <2>0, <2>1, <3>1, <3>2, <4>2, <4>4, <4>5 DEF CountOf
      <4>7. Unposted(x)' + reported'[x] <= Was(x)' + lost'
        BY <2>0, <2>1, <3>1, <3>2, <4>4, <4>5 DEF CountOf
      <4> QED BY <2>0, <3>1, <4>3, <4>6, <4>7 DEF CountOf
    <3> QED BY <3>3, <3>4
  <2> QED BY <2>2, <2>3
<1>12. CountsTrue'
  BY <1>11 DEF CountsTrue
<1>13. DatesTrue'
  <2>1. faults' \in Nat /\ faults' >= faults /\ now' \in Nat /\ now' >= now
    BY <1>1, <1>2, <1>3 DEF DigestTypeOK
  <2> QED BY <1>1, <1>2, <1>6, <2>1, DatesKept
<1> QED BY <1>4, <1>8, <1>9, <1>10, <1>12, <1>13 DEF DigestInv

-----------------------------------------------------------------------------
(* The job.                                                                 *)

PcType == {"idle", "queued", "save", "done"} \cup {"check", "reset", "post", "mark", "merge", "mergeSave"}

\* The job goes on; the handlers stay where they are.
LEMMA JobFacts ==
  ASSUME DigestTypeOK, LockTrue, SnapTrue, NEW at \in JobAt, GoTo("job", at),
         NEW r \in Rollup \cup {NoRollup}, snap' = [snap EXCEPT !["job"] = r],
         UNCHANGED rollup \/ HoldsLock("job")
  PROVE  /\ pc'["job"] = at /\ (\A e \in Events : pc'[e] = pc[e]) /\ pc' \in [DigestProcs -> PcType]
         /\ snap' \in [DigestProcs -> Rollup \cup {NoRollup}] /\ snap'["job"] = r
         /\ \A e \in Events : EventSnap(e)'
<1>1. "job" \in DigestProcs /\ Fits("job", at) /\ \A e \in Events : e \in DigestProcs \ {"job"}
  BY DigestConstants DEF Fits
<1>2. pc'["job"] = at /\ (\A q \in DigestProcs \ {"job"} : pc'[q] = pc[q]) /\ pc' \in [DigestProcs -> PcType]
  BY <1>1, GoToFacts DEF PcType
<1>3. /\ snap' \in [DigestProcs -> Rollup \cup {NoRollup}] /\ snap'["job"] = r
      /\ \A q \in DigestProcs \ {"job"} : snap'[q] = snap[q]
  BY <1>1 DEF DigestTypeOK
<1>4. \A e \in Events \ {"job"} : EventSnap(e)'
  BY <1>1, <1>2, <1>3, OtherSnaps
<1> QED BY <1>1, <1>2, <1>3, <1>4

LEMMA JobWords ==
  /\ "queued" \in JobAt /\ "reset" \in JobAt /\ "post" \in JobAt /\ "mark" \in JobAt /\ "merge" \in JobAt
  /\ "mergeSave" \in JobAt /\ "idle" \in JobAt /\ "check" \in JobAt
  /\ \A at \in JobAt : Fits("job", at)
BY DEF JobAt, Fits

\* An event's count follows what moves between the rollups and into posts.
LEMMA CountMoves ==
  ASSUME DigestTypeOK, NEW e \in Events, CountOf(e), pc'[e] # "done" => pc[e] # "done", counted'[e] = counted[e],
         lost' \in Nat, rollup'.count[e] \in Nat, held'.count[e] \in Nat, reported'[e] \in Nat, Unposted(e)' \in Nat,
         rollup'.count[e] + held'.count[e] <= rollup.count[e] + held.count[e],
         Unposted(e)' + reported'[e] + lost <= Unposted(e) + reported[e] + lost',
         e \notin discarded' \cup dropped' =>
           /\ e \notin discarded \cup dropped
           /\ Unposted(e)' + reported'[e] >= Unposted(e) + reported[e]
  PROVE  CountOf(e)'
<1> DEFINE u == Unposted(e)
           v == Unposted(e)'
           w == Was(e)
<1>1. /\ rollup.count[e] \in Nat /\ held.count[e] \in Nat /\ reported[e] \in Nat /\ lost \in Nat
      /\ w \in Nat /\ u \in Nat /\ v \in Nat
  BY CountTypes
<1>2. Was(e)' = w
  BY DEF Was
<1>3. /\ pc[e] # "done" => counted[e] = -1
      /\ rollup.count[e] + held.count[e] <= w
      /\ u + reported[e] <= w + lost
      /\ e \notin discarded \cup dropped /\ counted[e] >= 0 => u + reported[e] >= 1
  BY DEF CountOf
<1>4. v + reported'[e] + lost <= u + reported[e] + lost'
  OBVIOUS
<1>5. e \notin discarded' \cup dropped' =>
           /\ e \notin discarded \cup dropped
           /\ v + reported'[e] >= u + reported[e]
  OBVIOUS
<1> HIDE DEF u, v, w
<1>6. rollup'.count[e] + held'.count[e] <= w
  BY <1>1, <1>3
<1>7. v + reported'[e] <= w + lost'
  BY <1>1, <1>3, <1>4
<1>8. e \notin discarded' \cup dropped' /\ counted'[e] >= 0 => v + reported'[e] >= 1
  BY <1>1, <1>3, <1>5
<1> QED BY <1>2, <1>3, <1>6, <1>7, <1>8 DEF CountOf, v

LEMMA StartJobKeeps ==
  ASSUME DigestInv, StartJob
  PROVE  DigestInv'
<1>1. /\ pc["job"] = "idle" /\ today' = now \div Day /\ GoTo("job", "check")
      /\ UNCHANGED now /\ UNCHANGED rollup /\ UNCHANGED lastRun /\ UNCHANGED lock /\ UNCHANGED snap /\ UNCHANGED held
      /\ UNCHANGED readAt /\ UNCHANGED reported /\ UNCHANGED postedOn /\ UNCHANGED lost
      /\ UNCHANGED failedPosts /\ UNCHANGED counted /\ UNCHANGED discarded /\ UNCHANGED young /\ UNCHANGED merged
      /\ UNCHANGED dropped /\ UNCHANGED faults
  BY DEF StartJob, stored, teams, digestHistory
<1>2. /\ DigestTypeOK /\ LockTrue /\ SnapTrue /\ CountsTrue /\ DatesTrue /\ HeldTrue /\ "job" \in DigestProcs
      /\ snap["job"] \in Rollup \cup {NoRollup} /\ snap' = [snap EXCEPT !["job"] = snap["job"]]
      /\ now \in 0..Horizon /\ now \in Nat
  BY <1>1, DigestConstants DEF DigestInv, DigestTypeOK
<1>3. /\ pc'["job"] = "check" /\ (\A e \in Events : pc'[e] = pc[e]) /\ pc' \in [DigestProcs -> PcType]
      /\ \A e \in Events : EventSnap(e)'
  BY <1>1, <1>2, JobWords, JobFacts
<1>4. today' \in 0..(Horizon \div Day)
  BY <1>1, <1>2, DayOf, DaysGrow, DigestConstants
<1>5. DigestTypeOK'
  BY <1>1, <1>2, <1>3, <1>4 DEF DigestTypeOK, PcType
<1>6. LockTrue'
  BY <1>1, <1>2, JobWords, LockWords, StayKeeps
<1>7. HeldTrue' /\ SnapTrue'
  BY <1>1, <1>2, <1>3 DEF HeldTrue, SnapTrue, JobSnap
<1>8. CountsTrue'
  <2>1. pc'["job"] = "mark" <=> pc["job"] = "mark"
    BY <1>1, <1>3
  <2> QED BY <1>1, <1>2, <1>3, <2>1, CountsKept
<1>9. DatesTrue'
  <2>1. now \div Day \in Nat
    BY <1>2, DayOf
  <2>2. today' <= now' \div Day /\ lastRun' <= now' \div Day /\ lastRun' <= today'
    BY <1>1, <1>2, <2>1 DEF DatesTrue
  <2>3. ASSUME NEW d \in 0..(Horizon \div Day) PROVE DayTrue(d)'
    BY <1>1, <1>2, <1>3 DEF DatesTrue, DayTrue
  <2> QED BY <1>3, <2>2, <2>3 DEF DatesTrue
<1> QED BY <1>5, <1>6, <1>7, <1>8, <1>9 DEF DigestInv

LEMMA CheckDateKeeps ==
  ASSUME DigestInv, CheckDate
  PROVE  DigestInv'
<1>1. /\ pc["job"] = "check"
      /\ UNCHANGED now /\ UNCHANGED rollup /\ UNCHANGED lastRun /\ UNCHANGED snap /\ UNCHANGED held
      /\ UNCHANGED today /\ UNCHANGED reported /\ UNCHANGED postedOn /\ UNCHANGED lost
      /\ UNCHANGED failedPosts /\ UNCHANGED counted /\ UNCHANGED discarded /\ UNCHANGED young /\ UNCHANGED merged
      /\ UNCHANGED dropped /\ UNCHANGED faults
      /\ \/ Due /\ Enter("job", "queued") /\ readAt' = now
         \/ GoTo("job", "idle") /\ UNCHANGED lock /\ UNCHANGED readAt
  BY DEF CheckDate, stored, teams, digestHistory
<1>2. /\ DigestTypeOK /\ LockTrue /\ SnapTrue /\ CountsTrue /\ DatesTrue /\ HeldTrue /\ "job" \in DigestProcs
      /\ snap["job"] \in Rollup \cup {NoRollup} /\ snap' = [snap EXCEPT !["job"] = snap["job"]]
      /\ now \in 0..Horizon /\ now \in Nat /\ faults \in Nat /\ lock \in Seq(DigestProcs)
  BY <1>1, DigestConstants DEF DigestInv, DigestTypeOK
<1>3. PICK at \in {"queued", "idle"} : GoTo("job", at) /\ (at = "queued" => Due)
  BY <1>1 DEF Enter
<1>4. /\ pc'["job"] = at /\ (\A e \in Events : pc'[e] = pc[e]) /\ pc' \in [DigestProcs -> PcType]
      /\ \A e \in Events : EventSnap(e)'
  BY <1>1, <1>2, <1>3, JobWords, JobFacts
<1>5. LockTrue' /\ lock' \in Seq(DigestProcs) /\ readAt' \in 0..Horizon
  <2>1. CASE Enter("job", "queued") /\ readAt' = now
    BY <1>1, <1>2, <2>1, JobWords, LockWords, EnterKeeps
  <2>2. CASE GoTo("job", "idle") /\ UNCHANGED lock /\ UNCHANGED readAt
    <3>1. LockTrue'
      BY <1>1, <1>2, <2>2, JobWords, LockWords, StayKeeps
    <3> QED BY <1>2, <2>2, <3>1 DEF DigestTypeOK
  <2> QED BY <1>1, <2>1, <2>2
<1>6. DigestTypeOK'
  BY <1>1, <1>2, <1>4, <1>5 DEF DigestTypeOK, PcType
<1>7. HeldTrue' /\ SnapTrue'
  BY <1>1, <1>2, <1>3, <1>4 DEF HeldTrue, SnapTrue, JobSnap
<1>8. CountsTrue'
  <2>1. pc'["job"] = "mark" <=> pc["job"] = "mark"
    BY <1>1, <1>4
  <2> QED BY <1>1, <1>2, <1>4, <2>1, CountsKept
<1>9. DatesTrue'
  <2>1. lastRun \in Int /\ today \in Int
    BY <1>2, DayOf, DigestConstants DEF DigestTypeOK
  <2>2. lastRun <= today /\ (at = "queued" => lastRun < today)
    BY <1>1, <1>2, <1>3, <2>1 DEF DatesTrue, Due
  <2>3. ASSUME NEW d \in 0..(Horizon \div Day) PROVE DayTrue(d)'
    BY <1>1, <1>2, <1>4 DEF DatesTrue, DayTrue
  <2>4. today' <= now' \div Day /\ lastRun' <= now' \div Day
    BY <1>1, <1>2 DEF DatesTrue
  <2> QED BY <1>1, <1>4, <2>2, <2>3, <2>4 DEF DatesTrue
<1> QED BY <1>5, <1>6, <1>7, <1>8, <1>9 DEF DigestInv

LEMMA LoadForDigestKeeps ==
  ASSUME DigestInv, LoadForDigest
  PROVE  DigestInv'
<1> DEFINE r == coerceRollup(rollup, readAt)
<1>1. /\ pc["job"] = "queued" /\ HoldsLock("job") /\ GoTo("job", "reset") /\ snap' = [snap EXCEPT !["job"] = r]
      /\ UNCHANGED now /\ UNCHANGED rollup /\ UNCHANGED lastRun /\ UNCHANGED held /\ UNCHANGED lock /\ UNCHANGED readAt
      /\ UNCHANGED today /\ UNCHANGED reported /\ UNCHANGED postedOn /\ UNCHANGED lost
      /\ UNCHANGED failedPosts /\ UNCHANGED counted /\ UNCHANGED discarded /\ UNCHANGED young /\ UNCHANGED merged
      /\ UNCHANGED dropped /\ UNCHANGED faults
  BY DEF LoadForDigest, stored, teams, digestHistory
<1>2. /\ DigestTypeOK /\ LockTrue /\ SnapTrue /\ CountsTrue /\ DatesTrue /\ HeldTrue /\ "job" \in DigestProcs
  BY DigestConstants DEF DigestInv
<1>3. r \in Rollup /\ \A x \in Events : r.count[x] = rollup.count[x]
  BY <1>2, Coerced DEF DigestTypeOK
<1> HIDE DEF r
<1>4. /\ pc'["job"] = "reset" /\ (\A e \in Events : pc'[e] = pc[e]) /\ pc' \in [DigestProcs -> PcType]
      /\ snap' \in [DigestProcs -> Rollup \cup {NoRollup}] /\ snap'["job"] = r
      /\ \A e \in Events : EventSnap(e)'
  BY <1>1, <1>2, <1>3, JobWords, JobFacts
<1>5. LockTrue'
  BY <1>1, <1>2, JobWords, LockWords, StayKeeps
<1>6. DigestTypeOK'
  BY <1>1, <1>2, <1>4 DEF DigestTypeOK, PcType
<1>7. HeldTrue' /\ SnapTrue'
  BY <1>1, <1>2, <1>3, <1>4 DEF HeldTrue, SnapTrue, JobSnap
<1>8. CountsTrue'
  <2>1. pc'["job"] = "mark" <=> pc["job"] = "mark"
    BY <1>1, <1>4
  <2> QED BY <1>1, <1>2, <1>4, <2>1, CountsKept
<1>9. DatesTrue'
  <2>1. ASSUME NEW d \in 0..(Horizon \div Day) PROVE DayTrue(d)'
    BY <1>1, <1>2, <1>4 DEF DatesTrue, DayTrue
  <2>2. today' <= now' \div Day /\ lastRun' <= now' \div Day /\ lastRun' <= today' /\ lastRun' < today'
    BY <1>1, <1>2 DEF DatesTrue
  <2> QED BY <2>1, <2>2 DEF DatesTrue
<1> QED BY <1>5, <1>6, <1>7, <1>8, <1>9 DEF DigestInv

LEMMA ResetKeeps ==
  ASSUME DigestInv, Reset
  PROVE  DigestInv'
<1>1. /\ pc["job"] = "reset" /\ rollup' = emptyRollup(readAt) /\ held' = snap["job"] /\ Leave("job", "post")
      /\ GoTo("job", "post") /\ snap' = [snap EXCEPT !["job"] = NoRollup]
      /\ UNCHANGED now /\ UNCHANGED lastRun /\ UNCHANGED readAt
      /\ UNCHANGED today /\ UNCHANGED reported /\ UNCHANGED postedOn /\ UNCHANGED lost
      /\ UNCHANGED failedPosts /\ UNCHANGED counted /\ UNCHANGED discarded /\ UNCHANGED young /\ UNCHANGED merged
      /\ UNCHANGED dropped /\ UNCHANGED faults
  BY DEF Reset, teams, digestHistory, Leave, Forget
<1>2. /\ DigestTypeOK /\ LockTrue /\ SnapTrue /\ CountsTrue /\ DatesTrue /\ HeldTrue /\ "job" \in DigestProcs
      /\ readAt \in 0..Horizon
  BY DigestConstants DEF DigestInv, DigestTypeOK
<1>3. /\ held = NoRollup /\ held' \in Rollup /\ rollup' \in Rollup /\ HoldsLock("job")
      /\ \A x \in Events : held'.count[x] = rollup.count[x] /\ rollup'.count[x] = 0 /\ held.count[x] = 0
  BY <1>1, <1>2, Emptied DEF HeldTrue, SnapTrue, JobSnap, LockTrue, Saving
<1>4. /\ pc'["job"] = "post" /\ (\A e \in Events : pc'[e] = pc[e]) /\ pc' \in [DigestProcs -> PcType]
      /\ snap' \in [DigestProcs -> Rollup \cup {NoRollup}]
      /\ \A e \in Events : EventSnap(e)'
  BY <1>1, <1>2, <1>3, JobWords, JobFacts
<1>5. LockTrue' /\ lock' \in Seq(DigestProcs)
  BY <1>1, <1>2, <1>3, JobWords, LockWords, LeaveKeeps
<1>6. DigestTypeOK'
  BY <1>1, <1>2, <1>3, <1>4, <1>5 DEF DigestTypeOK, PcType
<1>7. HeldTrue' /\ SnapTrue'
  BY <1>3, <1>4 DEF HeldTrue, SnapTrue, JobSnap
<1>8. ASSUME NEW e \in Events PROVE CountOf(e)'
  <2>1. rollup.count[e] \in Nat /\ held.count[e] \in Nat /\ reported[e] \in Nat /\ lost \in Nat
    BY <1>2, CountTypes
  <2>2. Unposted(e)' = rollup.count[e] /\ Unposted(e) = rollup.count[e]
    BY <1>1, <1>3, <1>4, <2>1 DEF Unposted
  <2>3. rollup'.count[e] + held'.count[e] <= rollup.count[e] + held.count[e]
    BY <1>3, <2>1
  <2>4. CountOf(e) /\ (pc'[e] # "done" => pc[e] # "done") /\ counted'[e] = counted[e]
    BY <1>1, <1>2, <1>4 DEF CountsTrue
  <2>5. /\ lost' \in Nat /\ rollup'.count[e] \in Nat /\ held'.count[e] \in Nat /\ reported'[e] \in Nat /\ Unposted(e)' \in Nat
    BY <1>1, <1>3, <2>1, <2>2
  <2>6. Unposted(e)' + reported'[e] + lost <= Unposted(e) + reported[e] + lost'
    BY <1>1, <2>1, <2>2
  <2>7. Unposted(e)' + reported'[e] >= Unposted(e) + reported[e]
    BY <1>1, <2>1, <2>2
  <2> QED BY <1>1, <1>2, <2>3, <2>4, <2>5, <2>6, <2>7, CountMoves
<1>9. DatesTrue'
  <2>1. ASSUME NEW d \in 0..(Horizon \div Day) PROVE DayTrue(d)'
    BY <1>1, <1>2, <1>4 DEF DatesTrue, DayTrue
  <2>2. today' <= now' \div Day /\ lastRun' <= now' \div Day /\ lastRun' <= today' /\ lastRun' < today'
    BY <1>1, <1>2 DEF DatesTrue
  <2> QED BY <2>1, <2>2 DEF DatesTrue
<1> QED BY <1>5, <1>6, <1>7, <1>8, <1>9 DEF DigestInv, CountsTrue

\* A post that shows the card n times, acknowledged or not.
LEMMA ShownKeeps ==
  ASSUME DigestInv, pc["job"] = "post", NEW n \in {0, 1}, Shown(n), NEW at \in {"mark", "merge", "post"}, GoTo("job", at),
         LockTrue', lock' \in Seq(DigestProcs), lost' = lost + n \/ (lost' = lost /\ n = 1 /\ at = "mark"),
         at = "mark" => lost' = lost /\ n = 1, failedPosts' \in Nat,
         UNCHANGED <<now, stored, snap, held, readAt, today, digestHistory, faults>>
  PROVE  DigestInv'
<1>1. /\ UNCHANGED now /\ UNCHANGED rollup /\ UNCHANGED lastRun /\ UNCHANGED snap /\ UNCHANGED held /\ UNCHANGED readAt
      /\ UNCHANGED today /\ UNCHANGED counted /\ UNCHANGED discarded /\ UNCHANGED young /\ UNCHANGED merged
      /\ UNCHANGED dropped /\ UNCHANGED faults
      /\ reported' = [e \in Events |-> reported[e] + n * held.count[e]]
      /\ postedOn' = [postedOn EXCEPT ![today] = @ + n]
  BY DEF stored, digestHistory, Shown
<1>2. /\ DigestTypeOK /\ LockTrue /\ SnapTrue /\ CountsTrue /\ DatesTrue /\ HeldTrue /\ "job" \in DigestProcs
      /\ snap["job"] \in Rollup \cup {NoRollup} /\ snap' = [snap EXCEPT !["job"] = snap["job"]]
      /\ lost \in Nat /\ lost' \in Nat /\ postedOn \in [0..(Horizon \div Day) -> Nat] /\ today \in 0..(Horizon \div Day)
      /\ faults \in Nat
  <2>1. DigestTypeOK /\ LockTrue /\ SnapTrue /\ CountsTrue /\ DatesTrue /\ HeldTrue
    BY DEF DigestInv
  <2>2. "job" \in DigestProcs
    BY DigestConstants
  <2>3. /\ snap \in [DigestProcs -> Rollup \cup {NoRollup}] /\ lost \in Nat
        /\ postedOn \in [0..(Horizon \div Day) -> Nat] /\ faults \in Nat
    BY <2>1 DEF DigestTypeOK
  <2>4. today \in 0..(Horizon \div Day)
    BY <2>1 DEF DigestTypeOK
  <2>5. snap["job"] \in Rollup \cup {NoRollup} /\ snap' = [snap EXCEPT !["job"] = snap["job"]]
    BY <1>1, <2>2, <2>3
  <2>6. lost' \in Nat
    BY <2>3
  <2> QED BY <2>1, <2>2, <2>3, <2>4, <2>5, <2>6
<1>3. /\ pc'["job"] = at /\ (\A e \in Events : pc'[e] = pc[e]) /\ pc' \in [DigestProcs -> PcType]
      /\ \A e \in Events : EventSnap(e)'
  BY <1>1, <1>2, JobWords, JobFacts
<1>4. held \in Rollup
  BY <1>2 DEF HeldTrue
<1>5. ASSUME NEW e \in Events
      PROVE  /\ reported'[e] = reported[e] + IF n = 1 THEN held.count[e] ELSE 0
             /\ reported'[e] \in Nat
  <2>1. reported[e] \in Nat /\ held.count[e] \in Nat
    BY <1>2, CountTypes
  <2>2. reported'[e] = reported[e] + n * held.count[e]
    BY <1>1
  <2>3. n * held.count[e] = IF n = 1 THEN held.count[e] ELSE 0
    BY <2>1
  <2> QED BY <2>1, <2>2, <2>3
<1>6. DigestTypeOK'
  <2>1. reported' \in [Events -> Nat]
    BY <1>1, <1>5
  <2>2. postedOn' \in [0..(Horizon \div Day) -> Nat]
    BY <1>1, <1>2
  <2> QED BY <1>1, <1>2, <1>3, <2>1, <2>2 DEF DigestTypeOK, PcType
<1>7. HeldTrue' /\ SnapTrue'
  BY <1>1, <1>3, <1>4 DEF HeldTrue, SnapTrue, JobSnap
<1>8. ASSUME NEW e \in Events PROVE CountOf(e)'
  <2> DEFINE h == held.count[e]
  <2>1. rollup.count[e] \in Nat /\ h \in Nat /\ reported[e] \in Nat /\ lost \in Nat /\ Was(e) \in Nat
    BY <1>2, CountTypes
  <2>2. CountOf(e) /\ (pc'[e] # "done" => pc[e] # "done") /\ counted'[e] = counted[e]
    BY <1>1, <1>2, <1>3 DEF CountsTrue
  <2>3. h <= 1
    BY <2>1, <2>2 DEF CountOf, Was
  <2>4. Unposted(e) = rollup.count[e] + h
    BY DEF Unposted
  <2>5. Unposted(e)' = rollup.count[e] + IF at = "mark" THEN 0 ELSE h
    BY <1>1, <1>3 DEF Unposted
  <2>6. reported'[e] = reported[e] + IF n = 1 THEN h ELSE 0
    BY <1>5, <2>1
  <2>7. rollup'.count[e] = rollup.count[e] /\ held'.count[e] = h
    BY <1>1
  <2> HIDE DEF h
  <2>8. CASE at = "mark"
    <3>0. lost' = lost /\ Unposted(e)' = rollup.count[e] /\ reported'[e] = reported[e] + h
      BY <2>1, <2>5, <2>6, <2>8
    <3>1. /\ Unposted(e)' + reported'[e] + lost <= Unposted(e) + reported[e] + lost'
          /\ Unposted(e)' + reported'[e] >= Unposted(e) + reported[e] /\ Unposted(e)' \in Nat
      BY <2>1, <2>4, <3>0
    <3>2. /\ rollup'.count[e] + held'.count[e] <= rollup.count[e] + held.count[e]
          /\ rollup'.count[e] \in Nat /\ held'.count[e] \in Nat
      BY <2>1, <2>7 DEF h
    <3>3. e \notin discarded' \cup dropped' => e \notin discarded \cup dropped
      BY <1>1
    <3> QED BY <1>2, <1>5, <2>2, <3>1, <3>2, <3>3, CountMoves
  <2>9. CASE at # "mark"
    <3>1. /\ Unposted(e)' = Unposted(e) /\ lost' = lost + n
          /\ reported'[e] <= reported[e] + n /\ reported'[e] >= reported[e]
      BY <2>1, <2>3, <2>4, <2>5, <2>6, <2>9
    <3>2. Unposted(e) \in Nat
      BY <2>1, <2>4
    <3>3. /\ Unposted(e)' + reported'[e] + lost <= Unposted(e) + reported[e] + lost'
          /\ Unposted(e)' + reported'[e] >= Unposted(e) + reported[e] /\ Unposted(e)' \in Nat
      <4> DEFINE u == Unposted(e)
                 q == reported'[e]
                 m == lost'
      <4>1. u \in Nat /\ q \in Nat /\ m = lost + n /\ q <= reported[e] + n /\ q >= reported[e]
        BY <1>5, <3>1, <3>2
      <4> HIDE DEF u, q, m
      <4>2. u + q + lost <= u + reported[e] + m /\ u + q >= u + reported[e]
        BY <2>1, <4>1
      <4> QED BY <3>1, <3>2, <4>2 DEF u, q, m
    <3>4. /\ rollup'.count[e] + held'.count[e] <= rollup.count[e] + held.count[e]
          /\ rollup'.count[e] \in Nat /\ held'.count[e] \in Nat
      BY <2>1, <2>7 DEF h
    <3>5. e \notin discarded' \cup dropped' => e \notin discarded \cup dropped
      BY <1>1
    <3> QED BY <1>2, <1>5, <2>2, <3>3, <3>4, <3>5, CountMoves
  <2> QED BY <2>8, <2>9
<1>9. DatesTrue'
  <2>1. ASSUME NEW d \in 0..(Horizon \div Day) PROVE DayTrue(d)'
    <3>1. postedOn[d] \in Nat /\ postedOn'[d] = postedOn[d] + IF d = today THEN n ELSE 0
      BY <1>2, <1>1
    <3>2. lastRun < today /\ lastRun \in Int /\ today \in Int
      BY <1>2, DayOf, DigestConstants DEF DatesTrue, DigestTypeOK
    <3>3. postedOn[d] <= lost + faults + IF d <= lastRun THEN 1 ELSE 0
      BY <1>2 DEF DatesTrue, DayTrue
    <3>4. CASE at = "mark"
      <4>1. postedOn'[d] <= lost + faults + IF d <= lastRun \/ d = today THEN 1 ELSE 0
        BY <1>2, <3>1, <3>2, <3>3, <3>4
      <4> QED BY <1>1, <1>3, <3>4, <4>1 DEF DayTrue
    <3>5. CASE at # "mark"
      <4>1. postedOn'[d] <= lost + n + faults + IF d <= lastRun THEN 1 ELSE 0
        BY <1>2, <3>1, <3>3
      <4> QED BY <1>1, <1>3, <3>5, <4>1 DEF DayTrue
    <3> QED BY <3>4, <3>5
  <2>2. today' <= now' \div Day /\ lastRun' <= now' \div Day /\ lastRun' <= today' /\ lastRun' < today'
    BY <1>1, <1>2 DEF DatesTrue
  <2> QED BY <2>1, <2>2 DEF DatesTrue
<1> QED BY <1>6, <1>7, <1>8, <1>9 DEF DigestInv, CountsTrue

LEMMA PostDigestKeeps ==
  ASSUME DigestInv, PostDigest
  PROVE  DigestInv'
<1>1. /\ pc["job"] = "post" /\ DigestTypeOK /\ LockTrue /\ lock \in Seq(DigestProcs) /\ failedPosts \in Nat
      /\ "job" \in DigestProcs
      /\ UNCHANGED <<now, stored, snap, held, readAt, today, digestHistory, faults>>
  BY DigestConstants DEF PostDigest, DigestInv, DigestTypeOK
<1>2. CASE Shown(1) /\ GoTo("job", "mark") /\ UNCHANGED <<lock, lost, failedPosts>>
  <2>1. UNCHANGED lock /\ UNCHANGED lost /\ UNCHANGED failedPosts
    BY <1>2
  <2>2. LockTrue'
    BY <1>1, <1>2, <2>1, JobWords, LockWords, StayKeeps
  <2> QED BY <1>1, <1>2, <2>1, <2>2, ShownKeeps
<1>3. CASE /\ failedPosts < MaxFailures /\ failedPosts' = failedPosts + 1
           /\ \E n \in {0, 1} : Shown(n) /\ lost' = lost + n
           /\ Enter("job", "merge") \/ (GoTo("job", "post") /\ UNCHANGED lock)
  <2>1. PICK n \in {0, 1} : Shown(n) /\ lost' = lost + n
    BY <1>3
  <2>2. failedPosts' \in Nat
    BY <1>1, <1>3
  <2>3. CASE Enter("job", "merge")
    <3>1. LockTrue' /\ lock' \in Seq(DigestProcs)
      BY <1>1, <2>3, JobWords, LockWords, EnterKeeps
    <3>2. GoTo("job", "merge") /\ "merge" # "mark"
      BY <2>3 DEF Enter
    <3> QED BY <1>1, <2>1, <2>2, <3>1, <3>2, ShownKeeps
  <2>4. CASE GoTo("job", "post") /\ UNCHANGED lock
    <3>1. LockTrue'
      BY <1>1, <2>4, JobWords, LockWords, StayKeeps
    <3>2. "post" # "mark" /\ lock' \in Seq(DigestProcs)
      BY <1>1, <2>4
    <3> QED BY <1>1, <2>1, <2>2, <2>4, <3>1, <3>2, ShownKeeps
  <2> QED BY <1>3, <2>3, <2>4
<1> QED BY <1>2, <1>3 DEF PostDigest

LEMMA MarkDayKeeps ==
  ASSUME DigestInv, MarkDay
  PROVE  DigestInv'
<1>1. /\ pc["job"] = "mark" /\ lastRun' = today /\ held' = NoRollup /\ GoTo("job", "idle")
      /\ UNCHANGED now /\ UNCHANGED rollup /\ UNCHANGED lock /\ UNCHANGED snap /\ UNCHANGED readAt
      /\ UNCHANGED today /\ UNCHANGED reported /\ UNCHANGED postedOn /\ UNCHANGED lost
      /\ UNCHANGED failedPosts /\ UNCHANGED counted /\ UNCHANGED discarded /\ UNCHANGED young /\ UNCHANGED merged
      /\ UNCHANGED dropped /\ UNCHANGED faults
  BY DEF MarkDay, teams, digestHistory
<1>2. /\ DigestTypeOK /\ LockTrue /\ SnapTrue /\ CountsTrue /\ DatesTrue /\ HeldTrue /\ "job" \in DigestProcs
      /\ snap["job"] \in Rollup \cup {NoRollup} /\ snap' = [snap EXCEPT !["job"] = snap["job"]]
      /\ today \in 0..(Horizon \div Day)
  BY <1>1, DigestConstants DEF DigestInv, DigestTypeOK
<1>3. /\ pc'["job"] = "idle" /\ (\A e \in Events : pc'[e] = pc[e]) /\ pc' \in [DigestProcs -> PcType]
      /\ \A e \in Events : EventSnap(e)'
  BY <1>1, <1>2, JobWords, JobFacts
<1>4. LockTrue'
  BY <1>1, <1>2, JobWords, LockWords, StayKeeps
<1>5. today \in -1..(Horizon \div Day) /\ today \in Int /\ lastRun \in Int
  BY <1>2, DayOf, DigestConstants DEF DigestTypeOK
<1>6. DigestTypeOK'
  BY <1>1, <1>2, <1>3, <1>5 DEF DigestTypeOK, PcType
<1>7. HeldTrue' /\ SnapTrue'
  BY <1>1, <1>3 DEF HeldTrue, SnapTrue, JobSnap
<1>8. ASSUME NEW e \in Events PROVE CountOf(e)'
  <2>1. rollup.count[e] \in Nat /\ held.count[e] \in Nat /\ reported[e] \in Nat /\ lost \in Nat
    BY <1>2, CountTypes
  <2>2. CountOf(e) /\ (pc'[e] # "done" => pc[e] # "done") /\ counted'[e] = counted[e]
    BY <1>1, <1>2, <1>3 DEF CountsTrue
  <2>3. held'.count[e] = 0
    BY <1>1, Emptied
  <2>4. Unposted(e) = rollup.count[e] /\ Unposted(e)' = rollup.count[e]
    BY <1>1, <1>3, <2>1, <2>3 DEF Unposted
  <2>5. rollup'.count[e] + held'.count[e] <= rollup.count[e] + held.count[e] /\ rollup'.count[e] \in Nat
    BY <1>1, <2>1, <2>3
  <2>6. /\ Unposted(e)' + reported'[e] + lost <= Unposted(e) + reported[e] + lost'
        /\ Unposted(e)' + reported'[e] >= Unposted(e) + reported[e] /\ Unposted(e)' \in Nat
    BY <1>1, <2>1, <2>4
  <2> QED BY <1>1, <1>2, <2>1, <2>2, <2>3, <2>5, <2>6, CountMoves
<1>9. DatesTrue'
  <2>1. lastRun < today
    BY <1>1, <1>2 DEF DatesTrue
  <2>2. ASSUME NEW d \in 0..(Horizon \div Day) PROVE DayTrue(d)'
    <3>1. d \in Int
      BY DayOf, DigestConstants
    <3>2. d <= lastRun \/ d = today => d <= today
      BY <1>5, <2>1, <3>1
    <3>3. DayTrue(d) /\ postedOn[d] \in Nat /\ lost \in Nat /\ faults \in Nat
      BY <1>2 DEF DatesTrue, DigestTypeOK
    <3>4. postedOn[d] <= lost + faults + IF d <= today THEN 1 ELSE 0
      BY <1>1, <3>2, <3>3 DEF DayTrue
    <3> QED BY <1>1, <1>3, <3>4 DEF DayTrue
  <2>3. today' <= now' \div Day /\ lastRun' <= now' \div Day
    BY <1>1, <1>2 DEF DatesTrue
  <2> QED BY <1>3, <2>2, <2>3 DEF DatesTrue
<1> QED BY <1>4, <1>6, <1>7, <1>8, <1>9 DEF DigestInv, CountsTrue

LEMMA LoadForMergeKeeps ==
  ASSUME DigestInv, LoadForMerge
  PROVE  DigestInv'
<1> DEFINE c == coerceRollup(rollup, now)
           r == Sum(c, held)
<1>1. /\ pc["job"] = "merge" /\ HoldsLock("job") /\ GoTo("job", "mergeSave") /\ snap' = [snap EXCEPT !["job"] = r]
      /\ UNCHANGED now /\ UNCHANGED rollup /\ UNCHANGED lastRun /\ UNCHANGED held /\ UNCHANGED lock /\ UNCHANGED readAt
      /\ UNCHANGED today /\ UNCHANGED reported /\ UNCHANGED postedOn /\ UNCHANGED lost
      /\ UNCHANGED failedPosts /\ UNCHANGED counted /\ UNCHANGED discarded /\ UNCHANGED young /\ UNCHANGED merged
      /\ UNCHANGED dropped /\ UNCHANGED faults
  BY DEF LoadForMerge, stored, teams, digestHistory
<1>2. /\ DigestTypeOK /\ LockTrue /\ SnapTrue /\ CountsTrue /\ DatesTrue /\ HeldTrue /\ "job" \in DigestProcs
      /\ held \in Rollup
  BY <1>1, DigestConstants DEF DigestInv, HeldTrue
<1>3. c \in Rollup /\ \A x \in Events : c.count[x] = rollup.count[x]
  BY <1>2, Coerced DEF DigestTypeOK
<1> HIDE DEF c
<1>4. r \in Rollup /\ \A x \in Events : r.count[x] = rollup.count[x] + held.count[x]
  <2>1. Earlier(c.windowStart, held.windowStart) \in 0..Horizon
    BY <1>2, <1>3 DEF Rollup, Earlier
  <2> DEFINE w == Earlier(c.windowStart, held.windowStart)
             k == [e \in Events |-> c.count[e] + held.count[e]]
  <2>2. k \in [Events -> Nat] /\ \A x \in Events : k[x] = rollup.count[x] + held.count[x]
    <3>1. \A e \in Events : c.count[e] \in Nat /\ held.count[e] \in Nat
      BY <1>2, <1>3, RollupFacts
    <3> QED BY <1>3, <3>1
  <2>3. r = [windowStart |-> w, count |-> k]
    BY DEF Sum
  <2> HIDE DEF r, w, k
  <2> QED BY <2>1, <2>2, <2>3 DEF Rollup, w
<1> HIDE DEF r
<1>5. /\ pc'["job"] = "mergeSave" /\ (\A e \in Events : pc'[e] = pc[e]) /\ pc' \in [DigestProcs -> PcType]
      /\ snap' \in [DigestProcs -> Rollup \cup {NoRollup}] /\ snap'["job"] = r
      /\ \A e \in Events : EventSnap(e)'
  BY <1>1, <1>2, <1>4, JobWords, JobFacts
<1>6. LockTrue'
  BY <1>1, <1>2, JobWords, LockWords, StayKeeps
<1>7. DigestTypeOK'
  BY <1>1, <1>2, <1>5 DEF DigestTypeOK, PcType
<1>8. HeldTrue' /\ SnapTrue'
  BY <1>1, <1>2, <1>4, <1>5 DEF HeldTrue, SnapTrue, JobSnap
<1>9. CountsTrue'
  <2>1. pc'["job"] = "mark" <=> pc["job"] = "mark"
    BY <1>1, <1>5
  <2> QED BY <1>1, <1>2, <1>5, <2>1, CountsKept
<1>10. DatesTrue'
  <2>1. ASSUME NEW d \in 0..(Horizon \div Day) PROVE DayTrue(d)'
    BY <1>1, <1>2, <1>5 DEF DatesTrue, DayTrue
  <2>2. today' <= now' \div Day /\ lastRun' <= now' \div Day /\ lastRun' <= today'
    BY <1>1, <1>2 DEF DatesTrue
  <2> QED BY <1>5, <2>1, <2>2 DEF DatesTrue
<1> QED BY <1>6, <1>7, <1>8, <1>9, <1>10 DEF DigestInv

LEMMA SaveMergedKeeps ==
  ASSUME DigestInv, SaveMerged
  PROVE  DigestInv'
<1>1. /\ pc["job"] = "mergeSave" /\ rollup' = snap["job"] /\ merged' = merged \cup In(held) /\ held' = NoRollup
      /\ Leave("job", "idle") /\ GoTo("job", "idle") /\ snap' = [snap EXCEPT !["job"] = NoRollup]
      /\ UNCHANGED now /\ UNCHANGED lastRun /\ UNCHANGED readAt
      /\ UNCHANGED today /\ UNCHANGED reported /\ UNCHANGED postedOn /\ UNCHANGED lost
      /\ UNCHANGED failedPosts /\ UNCHANGED counted /\ UNCHANGED discarded /\ UNCHANGED young
      /\ UNCHANGED dropped /\ UNCHANGED faults
  BY DEF SaveMerged, teams, Leave, Forget
<1>2. /\ DigestTypeOK /\ LockTrue /\ SnapTrue /\ CountsTrue /\ DatesTrue /\ HeldTrue /\ "job" \in DigestProcs
  BY DigestConstants DEF DigestInv
<1>3. /\ HoldsLock("job") /\ rollup' \in Rollup /\ (\A x \in Events : rollup'.count[x] = rollup.count[x] + held.count[x])
      /\ \A x \in Events : held'.count[x] = 0
  BY <1>1, <1>2, Emptied DEF LockTrue, Saving, SnapTrue, JobSnap
<1>4. /\ pc'["job"] = "idle" /\ (\A e \in Events : pc'[e] = pc[e]) /\ pc' \in [DigestProcs -> PcType]
      /\ snap' \in [DigestProcs -> Rollup \cup {NoRollup}]
      /\ \A e \in Events : EventSnap(e)'
  BY <1>1, <1>2, <1>3, JobWords, JobFacts
<1>5. LockTrue' /\ lock' \in Seq(DigestProcs)
  BY <1>1, <1>2, <1>3, JobWords, LockWords, LeaveKeeps
<1>6. DigestTypeOK'
  <2>1. merged' \subseteq Events
    BY <1>1, <1>2 DEF DigestTypeOK, In
  <2> QED BY <1>1, <1>2, <1>3, <1>4, <1>5, <2>1 DEF DigestTypeOK, PcType
<1>7. HeldTrue' /\ SnapTrue'
  BY <1>1, <1>4 DEF HeldTrue, SnapTrue, JobSnap
<1>8. ASSUME NEW e \in Events PROVE CountOf(e)'
  <2>1. rollup.count[e] \in Nat /\ held.count[e] \in Nat /\ reported[e] \in Nat /\ lost \in Nat
    BY <1>2, CountTypes
  <2>2. CountOf(e) /\ (pc'[e] # "done" => pc[e] # "done") /\ counted'[e] = counted[e]
    BY <1>1, <1>2, <1>4 DEF CountsTrue
  <2>3. rollup'.count[e] = rollup.count[e] + held.count[e] /\ held'.count[e] = 0
    BY <1>3
  <2>4. Unposted(e) = rollup.count[e] + held.count[e] /\ Unposted(e)' = rollup.count[e] + held.count[e]
    BY <1>1, <1>4, <2>1, <2>3 DEF Unposted
  <2>5. rollup'.count[e] + held'.count[e] <= rollup.count[e] + held.count[e] /\ rollup'.count[e] \in Nat
    BY <2>1, <2>3
  <2>6. /\ Unposted(e)' + reported'[e] + lost <= Unposted(e) + reported[e] + lost'
        /\ Unposted(e)' + reported'[e] >= Unposted(e) + reported[e] /\ Unposted(e)' \in Nat
    BY <1>1, <2>1, <2>4
  <2> QED BY <1>1, <1>2, <2>1, <2>2, <2>3, <2>5, <2>6, CountMoves
<1>9. DatesTrue'
  <2>1. faults' \in Nat /\ faults' >= faults /\ now' \in Nat /\ now' >= now
    BY <1>1, <1>2, DigestConstants DEF DigestTypeOK
  <2> QED BY <1>1, <1>2, <1>4, <2>1, DatesKept
<1> QED BY <1>5, <1>6, <1>7, <1>8, <1>9 DEF DigestInv, CountsTrue

\* What the job held and had not posted is lost; the rest stays.
LEMMA DropMoves ==
  ASSUME DigestTypeOK, NEW e \in Events, CountOf(e), pc'[e] # "done" => pc[e] # "done",
         UNCHANGED <<counted, lost, rollup, reported, discarded>>, held' = NoRollup, Drop, pc'["job"] = "idle"
  PROVE  CountOf(e)'
<1>1. rollup.count[e] \in Nat /\ held.count[e] \in Nat /\ reported[e] \in Nat /\ lost \in Nat
  BY CountTypes
<1>2. held'.count[e] = 0
  BY Emptied
<1>3. /\ UNCHANGED counted /\ UNCHANGED lost /\ UNCHANGED rollup /\ UNCHANGED reported /\ UNCHANGED discarded
  OBVIOUS
<1>4. Unposted(e)' = rollup.count[e] /\ Unposted(e) >= rollup.count[e] /\ Unposted(e) \in Nat
  BY <1>1, <1>2, <1>3 DEF Unposted
<1>5. ASSUME e \notin discarded' \cup dropped'
      PROVE  e \notin discarded \cup dropped /\ Unposted(e) = rollup.count[e]
  <2>1. CASE pc["job"] = "mark"
    BY <1>1, <1>3, <1>5, <2>1 DEF Drop, Unposted
  <2>2. CASE pc["job"] # "mark"
    <3>1. e \notin In(held) /\ e \notin discarded \cup dropped
      BY <1>3, <1>5, <2>2 DEF Drop
    <3>2. held.count[e] = 0
      BY <1>1, <3>1 DEF In
    <3> QED BY <1>1, <2>2, <3>1, <3>2 DEF Unposted
  <2> QED BY <2>1, <2>2
<1>6. /\ rollup'.count[e] + held'.count[e] <= rollup.count[e] + held.count[e] /\ rollup'.count[e] \in Nat
      /\ held'.count[e] \in Nat
  BY <1>1, <1>2, <1>3
<1>7. Unposted(e)' + reported'[e] + lost <= Unposted(e) + reported[e] + lost' /\ Unposted(e)' \in Nat
  BY <1>1, <1>3, <1>4
<1>8. e \notin discarded' \cup dropped' =>
        e \notin discarded \cup dropped /\ Unposted(e)' + reported'[e] >= Unposted(e) + reported[e]
  BY <1>1, <1>3, <1>4, <1>5
<1>9. lost' \in Nat /\ reported'[e] \in Nat /\ counted'[e] = counted[e]
  BY <1>1, <1>3
<1> QED BY <1>6, <1>7, <1>8, <1>9, CountMoves

LEMMA JobRejectsKeeps ==
  ASSUME DigestInv, JobRejects
  PROVE  DigestInv'
<1>1. /\ faults' = faults + 1 /\ held' = NoRollup /\ Drop
      /\ GoTo("job", "idle") /\ snap' = [snap EXCEPT !["job"] = NoRollup]
      /\ UNCHANGED now /\ UNCHANGED rollup /\ UNCHANGED lastRun /\ UNCHANGED readAt
      /\ UNCHANGED today /\ UNCHANGED reported /\ UNCHANGED postedOn /\ UNCHANGED lost
      /\ UNCHANGED failedPosts /\ UNCHANGED counted /\ UNCHANGED discarded /\ UNCHANGED young /\ UNCHANGED merged
      /\ \/ pc["job"] \in {"check", "mark"} /\ UNCHANGED lock
         \/ /\ pc["job"] \in {"reset", "mergeSave"} \/ (pc["job"] \in {"queued", "merge"} /\ HoldsLock("job"))
            /\ lock' = Tail(lock)
  BY DEF JobRejects, teams, stored, Forget
<1>2. /\ DigestTypeOK /\ LockTrue /\ SnapTrue /\ CountsTrue /\ DatesTrue /\ HeldTrue /\ "job" \in DigestProcs
      /\ lock \in Seq(DigestProcs) /\ faults \in Nat
  BY DigestConstants DEF DigestInv, DigestTypeOK
<1>3. /\ pc'["job"] = "idle" /\ (\A e \in Events : pc'[e] = pc[e]) /\ pc' \in [DigestProcs -> PcType]
      /\ snap' \in [DigestProcs -> Rollup \cup {NoRollup}]
      /\ \A e \in Events : EventSnap(e)'
  BY <1>1, <1>2, JobWords, JobFacts
<1>4. LockTrue' /\ lock' \in Seq(DigestProcs)
  <2>1. CASE pc["job"] \in {"check", "mark"} /\ UNCHANGED lock
    <3>1. LockTrue'
      BY <1>1, <1>2, <2>1, JobWords, LockWords, StayKeeps
    <3> QED BY <1>2, <2>1, <3>1
  <2>2. CASE /\ pc["job"] \in {"reset", "mergeSave"} \/ (pc["job"] \in {"queued", "merge"} /\ HoldsLock("job"))
             /\ lock' = Tail(lock)
    <3>1. HoldsLock("job")
      BY <1>2, <2>2 DEF LockTrue, Saving
    <3>2. Leave("job", "idle")
      BY <1>1, <2>2 DEF Leave
    <3> QED BY <1>2, <3>1, <3>2, JobWords, LockWords, LeaveKeeps
  <2> QED BY <1>1, <2>1, <2>2
<1>5. DigestTypeOK'
  <2>1. dropped' \subseteq Events
    BY <1>1, <1>2 DEF DigestTypeOK, In, Drop
  <2>2. faults' \in Nat
    BY <1>1, <1>2
  <2> QED BY <1>1, <1>2, <1>3, <1>4, <2>1, <2>2 DEF DigestTypeOK, PcType
<1>6. HeldTrue' /\ SnapTrue'
  BY <1>1, <1>3 DEF HeldTrue, SnapTrue, JobSnap
<1>7. ASSUME NEW e \in Events PROVE CountOf(e)'
  BY <1>1, <1>2, <1>3, DropMoves DEF CountsTrue
<1>8. DatesTrue'
  <2>1. faults' \in Nat /\ faults' >= faults /\ now' \in Nat /\ now' >= now
    BY <1>1, <1>2, DigestConstants DEF DigestTypeOK
  <2> QED BY <1>1, <1>2, <1>3, <2>1, DatesKept
<1> QED BY <1>4, <1>5, <1>6, <1>7, <1>8 DEF DigestInv, CountsTrue

LEMMA DigestCrashKeeps ==
  ASSUME DigestInv, DigestCrash
  PROVE  DigestInv'
<1>1. /\ faults' = faults + 1 /\ held' = NoRollup /\ Drop /\ lock' = <<>>
      /\ pc' = [p \in DigestProcs |-> IF p = "job" \/ pc[p] = "idle" THEN "idle" ELSE "done"]
      /\ snap' = [p \in DigestProcs |-> NoRollup]
      /\ UNCHANGED now /\ UNCHANGED rollup /\ UNCHANGED lastRun /\ UNCHANGED readAt
      /\ UNCHANGED today /\ UNCHANGED reported /\ UNCHANGED postedOn /\ UNCHANGED lost
      /\ UNCHANGED failedPosts /\ UNCHANGED counted /\ UNCHANGED discarded /\ UNCHANGED young /\ UNCHANGED merged
  BY DEF DigestCrash, teams, stored
<1>2. /\ DigestTypeOK /\ LockTrue /\ CountsTrue /\ DatesTrue /\ "job" \in DigestProcs
      /\ faults \in Nat /\ \A e \in Events : e \in DigestProcs /\ e # "job"
  BY DigestConstants DEF DigestInv, DigestTypeOK
<1>3. /\ pc'["job"] = "idle" /\ (\A e \in Events : pc'[e] \in {"idle", "done"} /\ (pc'[e] # "done" => pc[e] # "done"))
      /\ pc' \in [DigestProcs -> PcType] /\ \A p \in DigestProcs : pc'[p] \in {"idle", "done"}
  BY <1>1, <1>2 DEF PcType
<1>4. LockTrue' /\ lock' \in Seq(DigestProcs)
  <2>1. DOMAIN lock' = {} /\ lock' \in Seq(DigestProcs)
    BY <1>1
  <2>2. (\A e \in Events : pc'[e] \in HandlerAt) /\ pc'["job"] \in JobAt
    BY <1>3, JobWords DEF HandlerAt
  <2>3. \A p \in DigestProcs : pc'[p] \notin OnLock /\ pc'[p] \notin Saving
    BY <1>3, LockWords
  <2> QED BY <2>1, <2>2, <2>3 DEF LockTrue
<1>5. DigestTypeOK'
  <2>1. dropped' \subseteq Events
    BY <1>1, <1>2 DEF DigestTypeOK, In, Drop
  <2>2. faults' \in Nat
    BY <1>1, <1>2
  <2> QED BY <1>1, <1>2, <1>3, <1>4, <2>1, <2>2 DEF DigestTypeOK, PcType
<1>6. HeldTrue' /\ SnapTrue'
  <2>1. \A e \in Events : EventSnap(e)'
    <3>1. SUFFICES ASSUME NEW e \in Events PROVE EventSnap(e)'
      OBVIOUS
    <3>2. pc'[e] # "save"
      BY <1>3
    <3> QED BY <3>2 DEF EventSnap
  <2> QED BY <1>1, <1>3, <2>1 DEF HeldTrue, SnapTrue, JobSnap
<1>7. ASSUME NEW e \in Events PROVE CountOf(e)'
  BY <1>1, <1>2, <1>3, DropMoves DEF CountsTrue
<1>8. DatesTrue'
  <2>1. faults' \in Nat /\ faults' >= faults /\ now' \in Nat /\ now' >= now
    BY <1>1, <1>2, DigestConstants DEF DigestTypeOK
  <2> QED BY <1>1, <1>2, <1>3, <2>1, DatesKept
<1> QED BY <1>4, <1>5, <1>6, <1>7, <1>8 DEF DigestInv, CountsTrue

LEMMA DigestStart ==
  ASSUME DigestInit
  PROVE  DigestInv
<1>1. 0 \div Day \in Nat /\ Horizon \div Day \in Nat /\ 0 \div Day <= Horizon \div Day /\ 0 \in 0..Horizon
  BY DayOf, DaysGrow, DigestConstants
<1>2. \A e \in Events : NoRollup.count[e] = 0
  BY Emptied
<1>3. DigestTypeOK
  <2>1. pc \in [DigestProcs -> PcType]
    BY DEF DigestInit, PcType
  <2>2. lock \in Seq(DigestProcs)
    BY DEF DigestInit
  <2>3. /\ snap \in [DigestProcs -> Rollup \cup {NoRollup}] /\ held = NoRollup /\ rollup = NoRollup
        /\ counted \in [Events -> -1..Horizon]
        /\ reported \in [Events -> Nat] /\ postedOn \in [0..(Horizon \div Day) -> Nat]
    BY DigestConstants DEF DigestInit
  <2>4. now = 0 /\ readAt = 0 /\ today = 0 /\ lastRun = -1 /\ lost = 0 /\ failedPosts = 0 /\ faults = 0
    BY DEF DigestInit
  <2>5. discarded = {} /\ young = {} /\ merged = {} /\ dropped = {}
    BY DEF DigestInit
  <2>6. 0 \in 0..(Horizon \div Day) /\ -1 \in -1..(Horizon \div Day)
    BY <1>1
  <2> QED BY <1>1, <2>1, <2>2, <2>3, <2>4, <2>5, <2>6 DEF DigestTypeOK, PcType
<1>4. LockTrue
  <2>1. \A p \in DigestProcs : pc[p] = "idle"
    BY DEF DigestInit
  <2>2. (\A e \in Events : pc[e] \in HandlerAt) /\ pc["job"] \in JobAt
    BY <2>1, DigestConstants, JobWords DEF HandlerAt
  <2>3. DOMAIN lock = {}
    BY DEF DigestInit
  <2>4. \A p \in DigestProcs : pc[p] \notin OnLock /\ pc[p] \notin Saving
    BY <2>1, LockWords
  <2> QED BY <2>2, <2>3, <2>4 DEF LockTrue
<1>5. HeldTrue /\ SnapTrue
  BY DigestConstants DEF DigestInit, HeldTrue, SnapTrue, EventSnap, JobSnap
<1>6. CountsTrue
  <2>1. ASSUME NEW e \in Events PROVE CountOf(e)
    <3>1. counted[e] = -1 /\ reported[e] = 0 /\ lost = 0 /\ rollup.count[e] = 0 /\ held.count[e] = 0
      BY <1>2 DEF DigestInit
    <3>2. Was(e) = 0 /\ Unposted(e) = 0
      BY <3>1 DEF Was, Unposted
    <3> QED BY <3>1, <3>2 DEF CountOf
  <2> QED BY <2>1 DEF CountsTrue
<1>7. DatesTrue
  <2>1. \A d \in 0..(Horizon \div Day) : postedOn[d] = 0
    BY DEF DigestInit
  <2> QED BY <1>1, <2>1, DigestConstants DEF DigestInit, DatesTrue, DayTrue
<1> QED BY <1>3, <1>4, <1>5, <1>6, <1>7 DEF DigestInv

LEMMA DigestStep ==
  ASSUME DigestInv, [DigestNext]_digestVars
  PROVE  DigestInv'
<1>1. CASE UNCHANGED digestVars
  <2>1. /\ UNCHANGED now /\ UNCHANGED rollup /\ UNCHANGED lastRun /\ UNCHANGED lock /\ UNCHANGED pc /\ UNCHANGED snap
        /\ UNCHANGED held /\ UNCHANGED readAt /\ UNCHANGED today /\ UNCHANGED reported /\ UNCHANGED postedOn
        /\ UNCHANGED lost /\ UNCHANGED failedPosts /\ UNCHANGED counted /\ UNCHANGED discarded /\ UNCHANGED young
        /\ UNCHANGED merged /\ UNCHANGED dropped /\ UNCHANGED faults
    BY <1>1 DEF digestVars, stored, locals, teams, digestHistory
  <2>2. DigestTypeOK'
    BY <2>1 DEF DigestInv, DigestTypeOK
  <2>3. LockTrue' /\ HeldTrue'
    BY <2>1 DEF DigestInv, LockTrue, HeldTrue, HoldsLock
  <2>4. SnapTrue'
    BY <2>1 DEF DigestInv, SnapTrue, EventSnap, JobSnap
  <2>5. CountsTrue'
    BY <2>1, CountsKept DEF DigestInv
  <2>6. DatesTrue'
    BY <2>1 DEF DigestInv, DatesTrue, DayTrue
  <2> QED BY <2>2, <2>3, <2>4, <2>5, <2>6 DEF DigestInv
<1>2. CASE JobStep
  BY <1>2, StartJobKeeps, CheckDateKeeps, LoadForDigestKeeps, ResetKeeps, PostDigestKeeps, MarkDayKeeps,
     LoadForMergeKeeps, SaveMergedKeeps DEF JobStep
<1> QED BY <1>1, <1>2, DigestTickKeeps, HandleEventKeeps, LoadAndCountKeeps, SaveCountKeeps, HandlerRejectsKeeps,
           JobRejectsKeeps, DigestCrashKeeps DEF DigestNext

\* The digest's handlers and job are typed, write the rollup one at a time, and move
\* counts and dates only forward, for any events, days, failures and crashes
\* (digest.ts, digest-job.ts).
THEOREM DigestInductive == DigestSpec => []DigestInv
BY DigestStart, DigestStep, PTL DEF DigestSpec

\* No event that was counted is forgotten, but with an aged window or by a fault or
\* crash (createLock, readAndReset, mergeBack).
THEOREM NeverForgotten == DigestSpec => []NothingForgotten
<1>1. DigestInv => NothingForgotten
  BY DEF DigestInv, CountsTrue, CountOf, NothingForgotten
<1> QED BY <1>1, DigestInductive, PTL

\* No event is reported twice, but in a post whose answer was lost.
THEOREM NeverReportedTwice == DigestSpec => []ReportedOnce
<1>1. ASSUME DigestInv PROVE ReportedOnce
  <2>1. ASSUME NEW e \in Events PROVE Unposted(e) + reported[e] <= 1 + lost
    <3>1. Unposted(e) \in Nat /\ reported[e] \in Nat /\ lost \in Nat
      BY <1>1, CountTypes DEF DigestInv
    <3>2. Unposted(e) + reported[e] <= Was(e) + lost /\ Was(e) \in {0, 1}
      BY <1>1 DEF DigestInv, CountsTrue, CountOf, Was
    <3> QED BY <3>1, <3>2
  <2> QED BY <2>1 DEF ReportedOnce
<1> QED BY <1>1, DigestInductive, PTL

\* No day's digest is posted twice, but in a post whose answer was lost or for a
\* date that was not saved (runDigestJob).
THEOREM AlwaysOncePerDay == DigestSpec => []OncePerDay
<1>1. ASSUME DigestInv PROVE OncePerDay
  <2>1. postedOn \in [0..(Horizon \div Day) -> Nat] /\ lost \in Nat /\ faults \in Nat
    BY <1>1 DEF DigestInv, DigestTypeOK
  <2>2. ASSUME NEW d \in DOMAIN postedOn PROVE postedOn[d] <= 1 + lost + faults
    <3>1. DayTrue(d) /\ postedOn[d] \in Nat
      BY <1>1, <2>1, <2>2 DEF DigestInv, DatesTrue
    <3> QED BY <2>1, <3>1 DEF DayTrue
  <2> QED BY <2>2 DEF OncePerDay
<1> QED BY <1>1, DigestInductive, PTL

-----------------------------------------------------------------------------
(* All components of the plugin together: each keeps what it promises alone. *)

Scenes == {"approvals", "asks", "posts", "turns", "graph", "delivery", "digest"}

\* A step of the plugin is a step of one component, or leaves it alone.
LEMMA EachMoves ==
  ASSUME [TeamsNext]_teamsVars
  PROVE  /\ [ApprovalNext]_approvalVars /\ [AskNext]_askVars /\ [PostNext]_postVars /\ [TurnNext]_turnVars
         /\ [GraphNext]_graphVars /\ [DeliveryNext]_deliveryVars /\ [DigestNext]_digestVars
         /\ UNCHANGED scene
BY DEF TeamsNext, teamsVars, cardVars, serviceVars

\* The plugin is each of its components, as far as that component's variables go.
LEMMA EachRuns ==
  TeamsSpec => /\ ApprovalSpec /\ AskSpec /\ PostSpec /\ TurnSpec
               /\ GraphSpec /\ DeliverySpec /\ DigestSpec /\ [](scene \in Scenes)
<1>1. /\ TeamsInit => /\ ApprovalInit /\ AskInit /\ PostInit /\ TurnInit /\ GraphInit /\ DeliveryInit /\ DigestInit
                      /\ scene \in Scenes
  BY DEF TeamsInit, Scenes
<1>2. [TeamsNext]_teamsVars =>
        /\ [ApprovalNext]_approvalVars /\ [AskNext]_askVars /\ [PostNext]_postVars /\ [TurnNext]_turnVars
        /\ [GraphNext]_graphVars /\ [DeliveryNext]_deliveryVars /\ [DigestNext]_digestVars
  BY EachMoves
<1>3. scene \in Scenes /\ [TeamsNext]_teamsVars => (scene \in Scenes)'
  BY EachMoves
<1> QED BY <1>1, <1>2, <1>3, PTL
        DEF TeamsSpec, ApprovalSpec, AskSpec, PostSpec, TurnSpec, GraphSpec, DeliverySpec, DigestSpec

\* Every component of the Teams plugin is typed in every state, for every value of
\* the constants of all of them (worker.ts, bot.ts and what they call).
THEOREM TeamsTyped == TeamsSpec => []TeamsTypeOK
<1>1. /\ ApprovalInv /\ AskInv /\ PostInv /\ TurnInv /\ GraphInv /\ DeliveryInv /\ DigestInv /\ scene \in Scenes
      => TeamsTypeOK
  BY DEF ApprovalInv, AskInv, PostInv, TurnInv, GraphInv, DeliveryInv, DigestInv, Scenes, TeamsTypeOK
<1> QED BY <1>1, EachRuns, ApprovalsInductive, AsksInductive, PostsInductive, TurnsInductive,
           GraphInductive, DeliveryInductive, DigestInductive, PTL

\* No card in Teams shows what is not on record, whatever the plugin's other parts
\* do meanwhile (the handlers of bot.ts that update cards).
THEOREM CardsAlwaysTrue == TeamsSpec => []CardsTrue
<1>1. VerdictTrue /\ AskCardTrue => CardsTrue
  BY DEF CardsTrue
<1> QED BY <1>1, EachRuns, VerdictsAreTrue, AskCardsAreTrue, PTL

=============================================================================
