----------------------------- MODULE GraphRoster -----------------------------
(***************************************************************************)
(* Reads of Microsoft Graph: the roster of a channel's team, kept in a     *)
(* short-lived cache, and people looked up by email, kept in another; both *)
(* use one cached app token, and try once more with a new one after a 401. *)
(*                                                                         *)
(* Time is real time; the worker sees a wall clock, which may be set back. *)
(* What Graph answered is represented by the time it was read.             *)
(***************************************************************************)
EXTENDS Integers, FiniteSets

CONSTANTS
  Channels,      \* keys of the roster cache
  Persons,       \* keys of the user cache
  Lookups,       \* calls of list_channel_members and of resolveMentions
  RosterTtl, UserTtl,
  TokenLife,     \* Graph: how long a token is valid
  TokenSkew,     \* the cached token is given up this long before
  MaxEntries,    \* size of the roster cache
  MaxFetch,      \* bound: time between two steps of a call (the requests time out)
  MaxTime, MaxBack, MaxGraphFaults   \* bounds: time, setting the clock back, failures

Keys == Channels \cup Persons

ASSUME GraphAssumption ==
  /\ Keys # {} /\ Channels \cap Persons = {}
  /\ {UserTtl, TokenSkew, MaxTime, MaxBack, MaxGraphFaults} \subseteq Nat
  /\ {RosterTtl, TokenLife, MaxEntries, MaxFetch} \subseteq Nat \ {0}
  /\ TokenLife > 2 * MaxFetch

Nothing == [none |-> TRUE]

-----------------------------------------------------------------------------
VARIABLES
  time, back,     \* real time; how far the wall clock was set back
  token,          \* tokenCache, of one tenant: when it was minted, and its expiry
  cache,          \* the roster cache and the user cache
  lookup,         \* what each call knows
  graphFaults

graphVars == <<time, back, token, cache, lookup, graphFaults>>

Time == 0..MaxTime
Now == time - back

Lookup == [at: {"idle", "token", "mint", "read", "store", "done", "refused"},
           key: Keys, since: Time, start: Int, minted: Time, read: Time, retried: BOOLEAN]

GraphTypeOK ==
  /\ time \in Time /\ back \in 0..MaxBack
  /\ token \in {Nothing} \cup [minted: Time, expires: Int]
  /\ cache \in [Keys -> {Nothing} \cup [stamp: Int, read: Time]]
  /\ lookup \in [Lookups -> Lookup]
  /\ graphFaults \in Nat

GraphInit ==
  /\ time = 0 /\ back = 0
  /\ token = Nothing
  /\ cache = [k \in Keys |-> Nothing]
  /\ lookup = [l \in Lookups |-> [at |-> "idle", key |-> CHOOSE k \in Keys : TRUE, since |-> 0,
                                  start |-> 0, minted |-> 0, read |-> 0, retried |-> FALSE]]
  /\ graphFaults = 0

Done(l) == lookup[l].at \in {"done", "refused"}

\* A call goes on to its next step; what it no longer needs is dropped.
Step(l, at, r) ==
  lookup' = [lookup EXCEPT ![l] =
    IF at \in {"done", "refused"} THEN [r EXCEPT !.at = at, !.start = 0, !.minted = 0]
                                  ELSE [r EXCEPT !.at = at, !.since = time]]

-----------------------------------------------------------------------------
(* The caches.                                                              *)

\* Seeded fault: an entry of exactly that age is still fresh.
FreshOneLonger(e) == Now - e.stamp \in 0..RosterTtl

\* RosterCache.get(): an entry from the future, after a step back, is not fresh;
\* it is again once the clock has caught up, unless it was replaced meanwhile.
FreshRoster(e) == Now - e.stamp \in 0..(RosterTtl - 1)

\* resolveGraphUsers(): the expiry was computed when the entry was stored.
FreshUser(e) == Now < e.stamp + UserTtl

Fresh(k) ==
  /\ cache[k] # Nothing
  /\ IF k \in Channels THEN FreshRoster(cache[k]) ELSE FreshUser(cache[k])

\* A hit is answered from the cache; a miss starts a read of its own.
StartLookup(l) ==
  /\ lookup[l].at = "idle"
  /\ \E k \in Keys :
       LET r == [lookup[l] EXCEPT !.key = k]
       IN  IF Fresh(k) THEN Step(l, "done", [r EXCEPT !.read = cache[k].read])
                       ELSE Step(l, "token", r)
  /\ UNCHANGED <<time, back, token, cache, graphFaults>>

Rosters == {k \in Channels : cache[k] # Nothing}

\* The entry is stamped after the read; a full roster cache is emptied first.
StoreResult(l) ==
  LET k == lookup[l].key
      kept == IF k \in Channels \ Rosters /\ Cardinality(Rosters) >= MaxEntries
                THEN [c \in Keys |-> IF c \in Channels THEN Nothing ELSE cache[c]]
                ELSE cache
  IN  /\ lookup[l].at = "store"
      /\ cache' = [kept EXCEPT ![k] = [stamp |-> Now, read |-> lookup[l].read]]
      /\ Step(l, "done", lookup[l])
      /\ UNCHANGED <<time, back, token, graphFaults>>

-----------------------------------------------------------------------------
(* getAppToken() and the read.                                              *)

GetToken(l) ==
  /\ lookup[l].at = "token"
  /\ IF token # Nothing /\ Now < token.expires
       THEN Step(l, "read", [lookup[l] EXCEPT !.minted = token.minted]) /\ UNCHANGED token
       ELSE Step(l, "mint", [lookup[l] EXCEPT !.start = Now]) /\ token' = Nothing
  /\ UNCHANGED <<time, back, cache, graphFaults>>

\* The expiry counts from before the request.
Mint(l) ==
  /\ lookup[l].at = "mint"
  /\ token' = [minted |-> time,
               expires |-> lookup[l].start + (IF TokenLife > TokenSkew THEN TokenLife - TokenSkew ELSE 0)]
  /\ Step(l, "read", [lookup[l] EXCEPT !.minted = time])
  /\ UNCHANGED <<time, back, cache, graphFaults>>

\* A failed roster read is an empty roster, which is cached; a failed lookup of
\* people falls back to their addresses, and nothing is.
Failed(l) ==
  IF lookup[l].key \in Channels THEN Step(l, "store", [lookup[l] EXCEPT !.read = time])
                                ELSE Step(l, "done", [lookup[l] EXCEPT !.read = time])

Valid(l) == time < lookup[l].minted + TokenLife

Read(l) ==
  /\ lookup[l].at = "read" /\ Valid(l)
  /\ Step(l, "store", [lookup[l] EXCEPT !.read = time])
  /\ UNCHANGED <<time, back, token, cache, graphFaults>>

\* Seeded fault: the token that was refused stays cached.
RefusedOnce(l) ==
  /\ lookup[l].at = "read" /\ ~Valid(l)
  /\ IF lookup[l].retried THEN Step(l, "refused", lookup[l])
                          ELSE Step(l, "token", [lookup[l] EXCEPT !.retried = TRUE])
  /\ UNCHANGED <<time, back, token, cache, graphFaults>>

\* A 401: the cached token is dropped and the read is tried once more.
Refused(l) ==
  /\ lookup[l].at = "read" /\ ~Valid(l)
  /\ IF lookup[l].retried
       THEN Step(l, "refused", lookup[l]) /\ UNCHANGED token
       ELSE Step(l, "token", [lookup[l] EXCEPT !.retried = TRUE]) /\ token' = Nothing
  /\ UNCHANGED <<time, back, cache, graphFaults>>

\* A request fails otherwise, or times out.
Fails(l) ==
  /\ lookup[l].at \in {"mint", "read"}
  /\ graphFaults < MaxGraphFaults /\ graphFaults' = graphFaults + 1
  /\ Failed(l)
  /\ UNCHANGED <<time, back, token, cache>>

-----------------------------------------------------------------------------
\* No call takes longer than MaxFetch for one step.
Tick ==
  /\ time < MaxTime /\ time' = time + 1
  /\ \A l \in Lookups : Done(l) \/ lookup[l].at = "idle" \/ time < lookup[l].since + MaxFetch
  /\ UNCHANGED <<back, token, cache, lookup, graphFaults>>

\* The wall clock is set back, once.
SetBack ==
  /\ back = 0 /\ back' \in 1..MaxBack
  /\ UNCHANGED <<time, token, cache, lookup, graphFaults>>

GraphNext ==
  \/ \E l \in Lookups : \/ StartLookup(l) \/ StoreResult(l) \/ GetToken(l) \/ Mint(l)
                        \/ Read(l) \/ Refused(l) \/ Fails(l)
  \/ Tick \/ SetBack

GraphSpec == GraphInit /\ [][GraphNext]_graphVars

-----------------------------------------------------------------------------
(* Properties.                                                              *)

Served(l) == ~Done(l) /\ lookup'[l].at = "done" /\ lookup'[l].key \in Channels

\* However the reads of a roster overlap, none is served that Graph answered longer
\* ago than one read, the lifetime of an entry and what the clock was set back; an
\* empty roster, which stands for a failed read, is gone as soon.
RosterBounded ==
  [][\A l \in Lookups :
       Served(l) => time - lookup'[l].read < MaxFetch + RosterTtl + back]_graphVars

\* A read fails for an expired token only if that happens twice in a row, and
\* that does not happen: the second attempt has a token of its own or one that
\* another call has just minted, not the one that was refused.
ExpiryRecovered == \A l \in Lookups : lookup[l].at # "refused"

\* roster-cache.ts:12: the lifetime bounds staleness ("a membership change
\* propagates within ttlMs").
WithinTtl ==
  [][\A l \in Lookups :
       Served(l) => time - lookup'[l].read < RosterTtl]_graphVars
=============================================================================
