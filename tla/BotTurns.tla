------------------------------- MODULE BotTurns -------------------------------
(***************************************************************************)
(* The turns of the bot: a webhook builds the bot once per worker, each    *)
(* inbound turn is authenticated, remembers its conversation, and is then  *)
(* dispatched.                                                             *)
(*                                                                         *)
(* All conversations are one blob of the state store, read and written     *)
(* back under a lock that belongs to the bot's conversation store.         *)
(***************************************************************************)
EXTENDS Naturals, FiniteSets

CONSTANTS
  Turns,            \* webhook calls on the bot's endpoint
  Conversations,    \* channels and chats
  MaxBots,          \* bound: bots built, over all restarts
  MaxTurnFaults,    \* bound: configuration, Teams or store calls that fail
  MaxBotCrashes     \* bound: worker crashes

Bots == 1..MaxBots
NoTurn == "no turn"

ASSUME TurnAssumption ==
  /\ Conversations # {} /\ NoTurn \notin Turns
  /\ {MaxBots, MaxTurnFaults, MaxBotCrashes} \subseteq Nat

\* What channelData tells of the team: nothing, its id, or its Entra group too.
TeamData == {"none", "team", "group"}
\* What the blob holds of a conversation.
Known == {"unknown", "plain", "grouped"}

-----------------------------------------------------------------------------
VARIABLES
  botPromise,      \* worker: the bot, 0 while there is none
  builds,          \* worker: the constructions that are running
  built,           \* bots built so far
  conversations,   \* state store: the blob bot:conversations
  convLock,        \* the turn that holds the lock of a bot's store
  turn,            \* what each turn's handler knows
  turnFaults, botCrashes

turnVars == <<botPromise, builds, built, conversations, convLock, turn, turnFaults, botCrashes>>

Turn == [at: {"idle", "await", "verify", "needs", "resolve", "remember", "write", "dispatch", "done"},
         in: Conversations, data: TeamData,
         bot: {0} \cup Bots, blob: [Conversations -> Known]]

NewTurn == [at |-> "idle", in |-> CHOOSE c \in Conversations : TRUE, data |-> "none",
            bot |-> 0, blob |-> [c \in Conversations |-> "unknown"]]
DoneTurn == [NewTurn EXCEPT !.at = "done"]

TurnTypeOK ==
  /\ botPromise \in {0} \cup Bots
  /\ builds \in {0, 1} /\ built \in Nat
  /\ conversations \in [Conversations -> Known]
  /\ convLock \in [Bots -> Turns \cup {NoTurn}]
  /\ turn \in [Turns -> Turn]
  /\ {turnFaults, botCrashes} \subseteq Nat

TurnInit ==
  /\ botPromise = 0 /\ builds = 0 /\ built = 0
  /\ conversations = [c \in Conversations |-> "unknown"]
  /\ convLock = [b \in Bots |-> NoTurn]
  /\ turn = [t \in Turns |-> NewTurn]
  /\ turnFaults = 0 /\ botCrashes = 0

TurnFault == turnFaults < MaxTurnFaults /\ turnFaults' = turnFaults + 1

-----------------------------------------------------------------------------
(* getBot(): one construction at a time, shared by all who wait for it; a   *)
(* failed one is not kept.                                                  *)

\* Seeded fault: the promise is kept only once the bot is there, so that every caller
\* until then builds a bot of its own.
ReceiveUnshared(t) ==
  /\ turn[t].at = "idle"
  /\ \E c \in Conversations, d \in TeamData :
       turn' = [turn EXCEPT ![t].at = IF botPromise = 0 THEN "await" ELSE "verify",
                            ![t].in = c, ![t].data = d, ![t].bot = botPromise]
  /\ builds' = IF botPromise = 0 THEN builds + 1 ELSE builds
  /\ UNCHANGED <<botPromise, built, conversations, convLock, turnFaults, botCrashes>>

\* onWebhook(): the first caller starts the construction.
Receive(t) ==
  /\ turn[t].at = "idle"
  /\ \E c \in Conversations, d \in TeamData :
       turn' = [turn EXCEPT ![t].at = IF botPromise = 0 THEN "await" ELSE "verify",
                            ![t].in = c, ![t].data = d, ![t].bot = botPromise]
  /\ builds' = IF botPromise = 0 /\ builds = 0 THEN 1 ELSE builds
  /\ UNCHANGED <<botPromise, built, conversations, convLock, turnFaults, botCrashes>>

Waiting == {t \in Turns : turn[t].at = "await"}

\* The construction ends: those who wait for it go on with this bot.
BotBuilt ==
  /\ builds > 0 /\ built < MaxBots
  /\ built' = built + 1 /\ builds' = builds - 1 /\ botPromise' = built'
  /\ \E some \in SUBSET Waiting :
       /\ some # {} /\ (builds = 1 => some = Waiting)
       /\ turn' = [t \in Turns |-> IF t \in some THEN [turn[t] EXCEPT !.at = "verify", !.bot = built']
                                   ELSE turn[t]]
  /\ UNCHANGED <<conversations, convLock, turnFaults, botCrashes>>

\* No app id, or the configuration cannot be read: the waiting turns fail.
BotFails ==
  /\ builds > 0 /\ TurnFault
  /\ builds' = builds - 1 /\ botPromise' = 0
  /\ turn' = [t \in Turns |-> IF t \in Waiting THEN DoneTurn ELSE turn[t]]
  /\ UNCHANGED <<built, conversations, convLock, botCrashes>>

-----------------------------------------------------------------------------
(* handleInbound() and rememberFrom().                                      *)

Goes(t, at) == turn' = [turn EXCEPT ![t].at = at]

\* The token and the body are accepted, or the webhook fails and nothing is kept.
Verify(t) ==
  /\ turn[t].at = "verify"
  /\ Goes(t, "needs") \/ turn' = [turn EXCEPT ![t] = DoneTurn]
  /\ UNCHANGED <<botPromise, builds, built, conversations, convLock, turnFaults, botCrashes>>

\* Only a team's turn without the group id, of a conversation stored without it,
\* asks Teams; the store is read without the lock.
NeedsGroupId(t) ==
  /\ turn[t].at = "needs"
  /\ Goes(t, IF turn[t].data = "team" /\ conversations[turn[t].in] # "grouped"
               THEN "resolve" ELSE "remember")
  /\ UNCHANGED <<botPromise, builds, built, conversations, convLock, turnFaults, botCrashes>>

\* resolveInboundChannelData(): a lookup that fails or finds nothing is no error.
ResolveGroupId(t) ==
  /\ turn[t].at = "resolve"
  /\ \E d \in {"team", "group"} :
       turn' = [turn EXCEPT ![t].data = d, ![t].at = "remember"]
  /\ UNCHANGED <<botPromise, builds, built, conversations, convLock, turnFaults, botCrashes>>

\* remember(): the blob is read under the lock of this bot's store.
LoadBlob(t) ==
  LET b == turn[t].bot
  IN  /\ turn[t].at = "remember" /\ convLock[b] = NoTurn
      /\ convLock' = [convLock EXCEPT ![b] = t]
      /\ turn' = [turn EXCEPT ![t].blob = conversations, ![t].at = "write"]
      /\ UNCHANGED <<botPromise, builds, built, conversations, turnFaults, botCrashes>>

\* Seeded fault: the entry is what this turn brought.
Replaced(prior, data) == IF data = "group" THEN "grouped" ELSE "plain"

\* The merge keeps what an earlier turn has captured.
Merged(prior, data) == IF prior = "grouped" \/ data = "group" THEN "grouped" ELSE "plain"

WriteBlob(t) ==
  LET c == turn[t].in
  IN  /\ turn[t].at = "write"
      /\ convLock' = [convLock EXCEPT ![turn[t].bot] = NoTurn]
      /\ \/ /\ conversations' = [turn[t].blob EXCEPT ![c] = Merged(@, turn[t].data)]
            /\ turn' = [turn EXCEPT ![t] = [DoneTurn EXCEPT !.at = "dispatch", !.in = c]]
            /\ UNCHANGED turnFaults
         \/ /\ TurnFault
            /\ turn' = [turn EXCEPT ![t] = DoneTurn] /\ UNCHANGED conversations
      /\ UNCHANGED <<botPromise, builds, built, botCrashes>>

\* onMessage(): a card's submit, a command, or a notice; the handlers of cards are
\* modelled with their cards.
Dispatch(t) ==
  /\ turn[t].at = "dispatch"
  /\ turn' = [turn EXCEPT ![t] = DoneTurn]
  /\ UNCHANGED <<botPromise, builds, built, conversations, convLock, turnFaults, botCrashes>>

\* The worker dies; the blob stays.
BotCrash ==
  /\ botCrashes < MaxBotCrashes /\ botCrashes' = botCrashes + 1
  /\ botPromise' = 0 /\ builds' = 0
  /\ convLock' = [b \in Bots |-> NoTurn]
  /\ turn' = [t \in Turns |-> IF turn[t].at = "idle" THEN turn[t] ELSE DoneTurn]
  /\ UNCHANGED <<built, conversations, turnFaults>>

TurnNext ==
  \/ \E t \in Turns : \/ Receive(t) \/ Verify(t) \/ NeedsGroupId(t) \/ ResolveGroupId(t)
                      \/ LoadBlob(t) \/ WriteBlob(t) \/ Dispatch(t)
  \/ BotBuilt \/ BotFails \/ BotCrash

TurnSpec == TurnInit /\ [][TurnNext]_turnVars

-----------------------------------------------------------------------------
(* Properties.                                                              *)

\* A conversation that was remembered is never forgotten, and a group id that was
\* captured (the roster read needs it) is never lost, whatever other turns, of
\* this conversation or of another, are writing the blob at the time.
ConversationsKept ==
  [][\A c \in Conversations :
       /\ conversations[c] # "unknown" => conversations'[c] # "unknown"
       /\ conversations[c] = "grouped" => conversations'[c] = "grouped"]_turnVars
=============================================================================
