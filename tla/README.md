# Paperclip plugins: a TLA+ verification project

TLA+ models of the Teams and Plane plugins of this repository, TLC runs that check them on
small instances, and TLAPS proofs of what matters most for instances of every size.
`PROJECT.json` maps every definition to the source lines it stands for, and names for every
checked property a seeded fault that breaks it.

    tlc -workers 2 -config MCEscalation.cfg MCEscalation     # any run of PROJECT.json
    tlapm EscalationProofs.tla                               # any proof module

## 1. The system

Each plugin is one out-of-process Node worker under the Paperclip plugin host. The worker is
single-threaded: concurrency is the interleaving of event handlers, tool calls, webhook requests
and scheduled jobs at their `await`s. The host gives it a key/value *state store* with `get` and
`set` only (no transactions, no compare-and-set), an *entity table* with atomic upserts of single
rows, configuration, secrets, events, jobs and `agents.invoke`. Any of these calls may reject. When
the worker dies the host restarts it: the store and the table survive, memory (locks, in-flight
sets, caches, running handlers) does not.

Three idioms recur, and most of what can go wrong is about them:

* a **promise-chain lock** (`withLock`, `createLock`): each call is chained on the previous one,
  whatever its outcome, so that read-modify-writes of one key run one at a time;
* a **claim before the effect** (`close()` before `agents.invoke`, the in-flight set before
  `routeEvent`), with a release when the effect fails;
* a **queue or rollup in one key**, saved before or after an external effect, so that a failure in
  between loses it or repeats it.

### Components

| Component | State | Operations | What makes it correct |
|---|---|---|---|
| Teams: escalations (`escalation*.ts`, parts of `worker.ts`, `bot.ts`) | `escalation:{id}`, the open index, two levels of locks, the card in Teams | tool call, click, timeout sweep; `create`, `close`, `reopen`, `defer`, `listOpen` | one reply per escalation, none lost, cards agree with the store, overdue ones are handled, the locks neither lose updates nor deadlock |
| Plane: outbound mirror (`outbound-mirror.ts`) | queue, dead letters, the queue's lock | change handler (enqueue, inline attempt, remove), drain | nothing accepted is lost or revived, few repeated effects, every action leaves the queue |
| Plane: ID mapping and upsert (`id-mapping.ts`, `sync-rules.ts`) | two rows per mapping, Paperclip issues | `upsertMappedIssue`, `link`, `markStaleByPlaneId` | one issue per item and project, one mirrored issue per item, rows agree, retries converge |
| Plane: webhook intake (`webhook-handler.ts`) | in-flight set, list of seen hashes | `handle`: verify, check, route, mark | no enabled event dropped, none worked on twice at once, none routed twice unless its mark is lost |
| Plane: reconciliation (`reconcile.ts`) | a watermark per project | one run per project: pages, items, watermark | the watermark never passes an item that is behind, and what is behind is healed |
| Teams: daily digest (`digest.ts`, the job in `worker.ts`) | rollup, date of the last digest, a lock | accumulate, read-and-reset, post, merge back | each event counted once, one digest a day, an outage drops nothing |
| Teams: asks (`ask*.ts`) | `ask:{id}`, open index, the card | create, answer, cancel | an ask gets one verdict, its answer wakes the agent once, and the card shows that verdict |
| Teams: channel posts (`channel*.ts`) | the entry of a post, open index, the card | create, recordResponse, close, read | nobody's answer overwrites another's, and the report that closes a collection has them all |
| Teams: approvals (`approval-store.ts`, `approvals.ts`, `bot.ts`) | posted card per approval | post and remember, click, command, `approval.decided` | a card never shows another verdict than Paperclip's, and shows it in the end |
| Teams: notifications and delivery (`notifications.ts`, `delivery*.ts`) | budget marks, health record per URL, two locks | `deliverWithRetry`, `postOnce`, `record` | a delivery ends in time, one card per budget threshold, degraded exactly after repeated failures |
| Teams: bot (`bot*.ts`, `commands.ts`) | the promise of the bot, all conversations in one blob, its lock | webhook, building the bot, remembering a conversation, dispatch to the submit handlers | one bot per worker, no conversation and no captured group id is lost |
| Teams: roster and Graph (`roster-cache.ts`, `graph-members.ts`) | roster cache, user cache, app token | read of a channel's roster, look-up of people, token and its retry | the age of a roster is bounded, an expired token is recovered from |
| Plane: clients, agent tools (`plane-rest-client.ts`, `agent-tools.ts`) | a cache of project identifiers | each tool as a chain of requests under a deadline | what a tool tells the agent is what Plane has done |
| Plane: worker wiring (`worker.ts`) | time of the last reconcile run, summary, history | throttled job | no two runs at once, each recorded |
| Parsing, signatures, secrets, cards, routing, links | none | pure functions | |
| Kiwi TCMS, Test Context | none yet | register their configuration | |

How they interact: the escalation tool, the click and the sweep share the escalation store. A Plane
webhook passes the intake and is routed to `upsertMappedIssue`, which reconciliation calls too; both
write the ID mapping, which the outbound mirror reads to find a work item. The digest's job shares
`deliverTracked` with notifications. Clicks on all kinds of cards, and the commands, come in through the
bot's turns.

### What is hard

* **Interleaving:** two clicks, or a click and the sweep, on one escalation; a click, a decision made
  elsewhere and the event on one approval's card; an answer and a cancellation of one ask; an answer and
  the closing read of one post; handlers and drains on one queue; a webhook and a reconcile run on one new
  item; events and the digest job on one rollup; deliveries on one health record.
* **Partial failure:** an entry and its index are two writes, so are the two rows of a mapping and the
  queue and the dead letters; a call can reject between them.
* **Lost answers and timeouts:** a request took effect and its caller believes it failed.
* **Crash and restart:** memory is lost between a claim and its effect.
* **Stale reads:** the sweep acts on records it listed several awaits ago; a reconcile run on copies
  of items that have changed since; an event on a window that has aged; a handler on the card it looked up
  before another wrote it; a read of Graph on a token that has expired since.
* **Time:** deadlines and late timers, lifetimes of cache entries when the clock is set back, a job that
  is longer than its period.
* **Bounds:** the queue, the dead letters, the seen list and the pages of a run are bounded.

`PROJECT.json` lists these as hazards, each at its line, with the properties that would catch it or
the reason none does.

## 2. The modules

| Module | Models | Kind |
|---|---|---|
| `EscalationLedger` | what an escalation promises | abstract specification |
| `Escalation` | store, tool, clicks and sweep | detailed; implements `EscalationLedger` |
| `EscalationProofs` | | proofs about `Escalation` |
| `Outbox` | what the mirror's queue promises | abstract specification |
| `OutboundMirror` | handler, queue, drain, dead letters | detailed; implements `Outbox` |
| `PlaneSync` | upsert, link, unsync | detailed |
| `WebhookIntake` | `handle()` and Plane's retries | detailed |
| `Digest` | rollup and daily job | detailed |
| `ApprovalCards` | an approval's card, its clicks, command and event | detailed |
| `Asks` | ask store, tools, click | detailed |
| `ChannelPosts` | channel store, tools, submit | detailed |
| `BotTurns` | building the bot, turns, conversation store | detailed |
| `GraphRoster` | roster and user caches, app token | detailed |
| `Delivery` | notification, retries, health, budget marks | detailed |
| `PlaneClient` | agent tools and the REST client under them | detailed |
| `ReconcileJob` | the job that starts reconcile runs | detailed; a run's effect is `Reconcile`'s subject |
| `Reconcile` | a run over one project | detailed; one item's sync, `PlaneSync`'s subject, is one step |
| `OutboundProofs` | | proofs about `OutboundMirror` |
| `PlaneSyncProofs` | | proofs about `PlaneSync` |
| `WebhookProofs` | | proofs about `WebhookIntake` |
| `ReconcileProofs` | | proofs about `Reconcile`, `ReconcileJob`, `PlaneClient` and the three in `MCReconcile` |
| `AgentProofs` | | proofs about `Asks` and `ChannelPosts` |
| `BotProofs` | | proofs about `ApprovalCards` and `BotTurns` |
| `ServiceProofs` | | proofs about `GraphRoster`, `Delivery`, `Digest` and all of `MCTeams` |
| `MCTeams`, `MCReconcile` | | one instance for several components that share no state |
| other `MC*` | | instances for TLC: symmetry and `.cfg` files |

Common conventions. An action is what the code does from one `await` to the next, so that TLC
interleaves exactly where Node may. `pc` says where each handler, job or request is, and the other
local variables of a process are those it carries over an `await`. A promise-chain lock is the sequence
of the calls chained on it, and only its head runs. Every call that may reject has an action for it
(`StoreRejects`, `HandleRejects`, `DrainRejects`, `Rejects`, `CutOff`, `HandlerRejects`, `JobRejects`,
`Halt`, `ClickFails`, `AskIndexRejects`, `AskEntryRejects`, `PostWriteRejects`, `BotFails`, `Fails`,
`JobFails`, or a disjunct of the step itself) that does what the nearest `catch` or `finally` does. `Crash` empties the memory and leaves the
store; event handlers and clicks that were running are gone, jobs are started again by the host.
In `Asks`, `ChannelPosts`, `BotTurns` and
`Delivery` a lock is the call that holds it, and who gets it next is left open, which allows every order
the chain allows and more. *History* variables record what happened and no guard reads them. Operators under "Seeded fault" are
plausible bugs; the specification never uses them.

### Escalation

`entry` and `index` are the two kinds of keys of the store, `idChain` and `indexChain` the two levels of
`withLock`. A store call goes `Enter`, `ReadEntry` (which may end it: `Proceeds` has the status checks
of `close`, `reopen` and `defer`), `WriteEntry`, `ReadIndex`, `WriteIndex`, `Leave`. `PostEscalationCard`
and `CreateRecord` are the tool: the card is clickable before the record exists. `Submit` and `ClickStep`
are `onSubmit` with its two reopening branches, `SweepStep` the job, which works through the records it
listed when it began. `TimePasses` makes an escalation overdue. A click's payload is abstracted to
whether it dismisses and whether it carries a reply, the default action to `close` or `defer`.

### OutboundMirror

`Handle`, `SaveEnqueued`, `DeliverInline`, `SaveRemoved` are the change handler, the drain goes
`LoadForDrain`, `KeepItem` or `AttemptItem` for each item, `SaveKept`, `LoadDeadLetters`,
`SaveDeadLetters`. `Request` gives Plane's answers: delivered, transient failure, permanent failure, or
carried out and not acknowledged (the 15-second deadline of `withDeadline`). Whether an item's
`nextAttemptAt` has come is the drain's choice. `evicted` and `dropped` record what the code loses by
design or by a fault: an action pushed out of a full list, and one that a fault or crash hits between
the drain's two saves.

### PlaneSync

A *sync* is a webhook delivery or the part of a reconcile run that is about one item: an upsert or an
unsync. `FindByOrigin`, `ResolveMapped`, `CreateIssue` or `UpdateIssue`, then `ReadForward`,
`ReadReverse` and the row upserts of `LinkPlan`, one `WriteRow` each, in `link()`'s order.

### WebhookIntake

An *attempt* is one HTTP request. `Gate` verifies and takes the in-flight slot, `CheckSeen`, `Route`,
`ReadSeen` and `SaveSeen` (`markSeen`'s unlocked read-modify-write) follow, `Respond` records the
delivery, releases the slot and answers. Plane is external: it owes each event once, again after every
error or an attempt it stopped waiting for, and sometimes for no reason.

### Digest

A rollup counts each event separately, to tell which events are in it. `LoadAndCount` and `SaveCount`
are `mutate()`; `StartJob`, `CheckDate`, `LoadForDigest`, `Reset`, `PostDigest`, `MarkDay` or `LoadForMerge`
and `SaveMerged` are the job. The clock may tick anywhere; the cached enabled flag is abstracted to
"any event may be skipped".

### Reconcile

Plane lists items by `-updated_at` and its cursor is a page number. `FetchPage` takes a copy of the
items at the ranks of the next page, `ReconcileItem` syncs the first of the copies that is newer than
the watermark, `NextPage` goes on, and `Finish` (watermark reached, no more pages, or cap) moves the
watermark; `Halt` does not. Meanwhile items change, leave, and webhooks bring some changes early or
late. `excused` records the items the code knowingly or unknowingly leaves behind, and the run's
properties except them and nothing else: those beyond the page cap, those that moved up past the cursor
when another item left, and those a late webhook took back to an older content.

### ApprovalCards

`Post` is `postApprovalCard`: find the conversation, send, remember. `Decide` is the relay to Paperclip with
each answer it may get: recorded, recorded with an unreadable or lost answer, not carried out, refused.
`LookUpClicked`, `ShowClicked`, `ForgetClicked` finish a click; an error card keeps its actions and is a
card of its own when none is remembered (`strays`). Deliveries of `approval.decided` look up the card,
fetch the approval's status and refresh. A request for revision sends the same event and decides nothing.

A call to Teams fails without effect or with it. A send that arrived and was not acknowledged, or gave no
id, leaves a card that can be clicked and is never remembered (`LoseSend`); an update that arrived although
the call rejected is the second outcome of `ClickFails` and `RefreshFails`. A `remember` or `forget` that
was carried out and reported as failed is the same step as one that succeeded, as nothing follows it. A
crash of the worker is the failure of all its running handlers, as no handler keeps anything in memory that
another one reads: the run has two such failures, the theorems any number.

`missed` names the approvals whose card may stay behind, each with its window, and `misread` those whose
decision a click may not have been told: it came after the opposite decision, and the answer to it was a
success without a readable record. They are the exceptions of `Settled`; `VerdictTrue` has only `misread`.

### Asks

`PostAskCard` and `CreateAsk` are `ask_person`, in that order: the card is clickable before the record
exists. `AnswerAsk`, then `WriteAskIndex`, then `WakeAgent` are a click; `CancelAsk` the tool. Only calls
under an ask's lock write its entry, so reading and writing it are one step; the open index, which has a
lock of its own inside, is a second step that may reject by itself.

### ChannelPosts

`PostPrompt`, `CreatePost`, `ListPost` are `post_to_channel`, which posts the card, then writes the entry
and the index. `ReadForSubmit` and `RecordAnswer` are `recordResponse`'s read-modify-write of the whole
entry; `ReadPost`, `ReadForClose`, `WriteClosed`, `DelistPost`, `CloseCard` and `ReportAnswers` are
`get_channel_responses`, whose first read takes no lock.

### BotTurns

`Receive`, `BotBuilt` and `BotFails` are `getBot()` with the one construction that all callers share and
that is not kept when it fails. `Verify`, `NeedsGroupId` (an unlocked read), `ResolveGroupId`, `LoadBlob` and
`WriteBlob` are a turn: the lock belongs to the bot's own conversation store, so two bots would have two.

### GraphRoster

`time` is real time; the worker sees `Now`, which may be set back. What Graph answered is represented by
when it was read. `StartLookup` is a hit or a miss, `GetToken`, `Mint`, `Read` and `Refused` are the token
with its one retry after a 401, `Fails` any other failure: of a roster it is an empty roster, which is
cached; of people it is their bare addresses, which are not. `Tick` makes no step of a call longer than
`MaxFetch`, since the requests time out.

### Delivery

`CheckMark` and `Mark` are `postOnce` around `ResolveUrl`, `Attempt` and the back-off of
`deliverWithRetry`, with a time of its own for each delivery; `ReadHealth` and `RecordHealth` are the
recorder under its lock. Timers may fire late.

### PlaneClient

A tool call is a list of requests still to be made. `Send` takes the key, `Serve` is Plane performing the
request (the only step that changes Plane), `Arrive` the reply, which may make one more look-up necessary
(`Needed`: identifiers and projects not in the cache). `Refuse`, `Lose` and `NoKey` are the failures by
kind; `DeadlinePasses` answers the agent and stops nothing.

### ReconcileJob

`Fire` reads the time of the last run and throttles, `Stamp` saves it before the run, `FinishRun`,
`SaveLast`, `ReadHistory` and `AppendHistory` record it. The host's minute jitters by half a minute, and a
run may take several of them.

## 3. The runs

Passing runs:

| Run | Instance | Shows |
|---|---|---|
| `escalation` | 1 escalation, 2 clicks, 2 overlapping sweeps, a failed and a lost invoke, a rejected store call, a crash | `ReplyOnce`, `CardTruth`, `ReplyNotLost`, `DefaultOnce`, and `ImplementsLedger` |
| `escalation_live` | 2 escalations, a click, a sweep, a rejected store call; fair | `IndexExact`, `CallsReturn`, `OverdueHandled` |
| `outbound` | 3 changes, 2 drains, lists of 2 and 1, a rejected store call, a lost answer | `QueueSound` (`NothingLost`, `QueueInOrder`), `AtMostTwice`, `ImplementsOutbox` |
| `outbound_live` | 2 changes, a drain, a crash, a rejected call, a lost answer; fair | `Settles` |
| `sync` | 2 items, 2 projects, 2 syncs not on one item at once, 2 cut off | `NoDuplicate`, `MappingSound` (`OneMirror`, `RowsAgree`), `SyncTakesEffect` |
| `webhook` | 2 enabled events and another, 2 requests, one timeout, duplicate, fault and crash; fair | `FailuresAnswered`, `RoutedOnce`, `AllRouted` |
| `reconcile`, run | 3 items, 3 changes, pages of 1, cap of 2, a deletion, a cut-off run; fair | `NothingSkipped`, `Healed` |
| `reconcile`, job | 6 jittered ticks, an interval of 3 minutes, runs of up to 2, history of 1, a fault | `JobOrderly` (`OneScan`, `RunsRecorded`) |
| `reconcile`, client | 2 tool calls, a project, 2 failed requests | `AnswersTrue` |
| `teams`, approvals | 1 approval, 2 clicks or commands, 2 events, a revision, 2 faults | `Settled`, and `VerdictTrue` in `CardsTrue` |
| `teams`, asks | 2 questions, 2 clicks, a cancellation, 2 agents, a fault, a crash | `AnswerAccountedFor`, `AskIndexExact`, and `AskCardTrue` in `CardsTrue` |
| `teams`, posts | 1 post, 2 submits by 2 people, 2 readers, 2 agents, a fault | `PostsKept` (`AnswersKept`, `ReportFinal`) |
| `teams`, turns | 3 turns in 2 conversations, 2 bots, a fault, a crash | `ConversationsKept` |
| `teams`, graph | 2 channels, a person, 2 look-ups, lifetimes of 2, a cache of 1, clock set back by up to 2, a fault | `RosterBounded`, `ExpiryRecovered` |
| `teams`, delivery | 2 deliveries for one budget, 2 retries, a deadline of 3, a late timer, a fault, a crash | `AnnouncedOnce`, `BusyBounded`, `HealthTrue` |
| `teams`, digest | 2 events, 2.5 days, a failed post, a fault or crash | `NothingForgotten`, `ReportedOnce`, `OncePerDay` |

`reconcile` and `teams` are each one run over several components. The components of such a run share no
state: its initial states choose the *scene*, the one that moves, and the others stay where they start.
Nothing is gained or lost by that but the number of runs; each component is explored as if it were alone,
and every property is about one component or a conjunction over them.

Why the bounds are enough. Two processes of a kind are the least that can be in each other's way, and a
third actor of another kind (the second sweep, the second drain) is there where the code's locks or
status checks involve three. One fault of each kind at any place reaches every branch of every `catch`;
more of them repeat the same recovery from a state already reached. Capacities are one below the number
of things, so that lists do overflow. In `reconcile` a page cap of two with three items makes a run
end in each of its three ways, and three changes let an item move across the cursor in both directions.
The job's runs of up to four half-minutes against an interval of six overlap the next tick, and its ticks
come up to half a minute late. The digest
has a day of two ticks, so that a window can age before, during and after the job, and two and
a half days, so that a digest can be late by one. One approval and one post suffice, because a handler
touches the keys of its own only; two asks share the index. A roster lives for two ticks of five, so that
it expires while it is read, and a cache of one entry evicts. Three attempts against a deadline of
three are cut short by it or exhaust it. Symmetry is used for safety only, in `teams` only among the
digest's events. Deadlock is not
checked: every instance may stop when its bounds are used up, or nobody asks anything of the worker.
That no call waits for ever is checked by `CallsReturn` and the other liveness properties.

Runs that TLC finds violated; each is a disagreement between the code and what a comment says of it:

| Run | The code | What is said |
|---|---|---|
| `webhook_dropped` | A retry that arrives while the first, timed-out attempt is running is acknowledged as a duplicate; the first attempt then fails to route, and its error reaches nobody | "a verified Plane event must NEVER be silently dropped" (`webhook-handler.ts:66`) |
| `sync_duplicate` | A webhook and a reconcile run both look for a new item's origin before either creates its issue | "a duplicate is impossible" (`reconcile.ts:10-11`) |
| `sync_retry` | `link()` is cut off between its two rows; the retry sees the forward row, skips `link()`, and the reverse row is never written | "a retry [...] converging without duplicates" (`id-mapping.ts:210-212`) |
| `digest_outage` | A failed post merges its counts back with the window's old start; the next event finds that window aged and replaces it before the hourly retry | "a transient outage doesn't drop the day's stats" (`worker.ts:427-428`) |

Further windows met while modelling, which the passing runs except by name and no run of its own shows:

* `close()` writes the entry (`escalation-store.ts:160`) and then the index (161). If the second call
  rejects, the escalation stays resolved and no reply is sent; a retry click gets `null`.
  A rejected `reopen()` after a failed invoke loses the reply as well. These two are what
  `ReplyNotLost` excuses (`Threw`).
* A crash between `close()` and `agents.invoke` loses the reply; `ReplyNotLost` is about a worker that
  stays up.
* The drain saves the queue (`outbound-mirror.ts:302`) before the dead letters (303). A rejection or crash
  in between loses the letters, although 29-31 promise to keep them: `dropped` in `NothingLost`.
* An item that leaves a project while a run pages through it lets another move up past the cursor, and
  the watermark passes it; `reconcile.ts:18-20` says "nothing is dropped". That Plane's cursor counts
  pages is known only from `plane-client.ts:207`.
* A late webhook overwrites newer content behind the watermark.
* An item whose sync always rejects halts its project's reconciliation at the same place every time.
* Equal `updated_at` stamps: an item that lands at the watermark after its twin was read counts as old.
* Reconcile runs overlap when one lasts as long as the interval, although `plane/worker.ts:314` says that
  the stamp prevents it: `OneScan` is about shorter runs.
* "Self-healing" (`worker.ts:400-402`): the event of an approval that was decided before its card is
  remembered finds nothing, and the card stays pending. `SelfHealing` states it; `Settled` has the window.
* A card that is in Teams while `continueConversation` rejects, or without an id in the answer
  (`bot.ts:607-612`), or whose reference the store rejects, can be clicked and is never remembered: a click
  decides the approval, and the card stays pending.
* An error card that a slow click writes over a verdict stays, with its buttons, also when the update
  arrived and its call rejected (`bot.ts:428-429`). A refresh that fails (`worker.ts:386-393`) is not
  repeated. An error card sent beside an approval's own (`bot.ts:431`) is never refreshed: `strays` has it,
  and `Settled` is not about it.
* A create whose POST was carried out and whose look-up of the project's identifier is rate-limited is
  reported as rate-limited, and `agent-tools.ts:126` tells the agent to retry: `RefusedCreatesNothing`.
* "A membership change propagates within ttlMs" (`roster-cache.ts:12`): a read that was slow, or a clock
  that was set back, adds to it. `WithinTtl` states it, `RosterBounded` what holds. A failed read is
  cached as an empty roster for as long.
* "At most once" (`notifications.ts:167`): a lost answer, or a fault or crash before the mark, repeats the
  card. `AnnouncedOnce` counts these.
* `bot.ts:402` says that a successful click does not refresh the card; 435-449 do.
* A reader of a post that another reader is closing may get a report that still says "collecting".
* A worker that dies between the digest's reset and its post (`worker.ts:453`) loses the window; the
  `Digest` model has this crash, and `NothingForgotten` names it.

## 4. Fairness

Weak fairness of each process's own steps: Node runs a continuation that is ready, and a promise chain
continues with its next call whatever became of the one before. A job's start counts as a step of it,
since the host runs jobs on a schedule. Plane's retries are fair in `WebhookIntake`: that Plane retries a
502 is what the handler relies on. In `OutboundMirror` a drain must not find an item's `nextAttemptAt` in
the future for ever (strong fairness of attempting each action): `backoff()` is capped. Clicks, changes,
failures, timeouts and crashes are never fair. `Healed` and `AllRouted` hold although runs and requests
fail, because the bounds let them fail finitely often; they do not hold when a call rejects for ever,
and the code does not claim so.

## 5. The proofs

Every safety property of the passing runs is stated by a theorem, for every value of the constants and
every bound.

`EscalationProofs`, for any number of escalations, clicks and (finitely many) sweeps:

* `TypeCorrect`: `TypeOK`, who makes which store calls (`Roles`), and that both locks exclude (`Locked`).
  The three carry each other: a call leaves a chain by taking its tail, which is right only for its head.
* `ReplyAtMostOnce`, `CardsAreTrue`: from `Facts`, the other parts of `IInv`. `ReplyOnce` is not
  inductive: that a second click does not send needs that what `close()` read is still so when it writes
  (`SawOpen`), that a click which has claimed an escalation is the only one (`Claims`), and that the
  numbers of replies and of lost answers differ by at most one and only while it is resolved (`Counts`).
* `IndexIsExact`: the index entry of each undamaged escalation follows its status, from `Locked` and `Wrote`.
* `Inductive`: all of `IInv`.
* `NoReplyLost`: `ReplyNotLost`. An escalation that is resolved without a delivered reply has a click that
  owes it one, or whose own `close()` or `reopen()` was rejected (`Owed`). A click that reopens cannot get
  `null`, because what it claimed is still resolved.
* `DefaultAtMostOnce`: the default actions logged for an escalation, and the sweeps that may still log
  one, are together no more than the sweeps (`Defaults`). What is logged is closed or deferred for good
  (`Spent`), and a sweep lists only what is not; so each sweep counts once.
* `Refinement`: the initial state maps to the ledger's, and every step to a ledger step or a stutter.

`OutboundProofs`, for any number of changes and drains, any capacities and any faults:

* `TypeCorrect`, with the discipline of the lock (`Locked`): each call is chained once and only the first
  is past its first read.
* `QueueAlwaysSound`: `QueueSound`. A drain has the queue it loaded in parts: what it keeps, what it has
  yet to attempt, the letters to bury and what it has sent. The parts are in the order of acceptance
  and disjoint, and together with the stored queue they account for each accepted action
  (`Draining`, `Conserved`).
* `NeverThrice`: `AtMostTwice`. Each execution is a lost answer, the handler's inline attempt, or the one
  that takes the action out of the queue (`Counted`).
* `OutboxImplemented`: every save is an acceptance or a settlement, every execution a sending, every
  other step a stutter of `Outbox`.

`PlaneSyncProofs`, for any number of items, projects, issues, syncs and cut-offs:

* `TypeCorrect` and `NoCrossLink` hold however syncs overlap: a row never names a partner of another item.
  So a race of two syncs of one item, which `sync_duplicate` shows, does its damage to that item alone. It
  also shows that `link()`'s branch that makes *another item's* forward row stale is never taken: an
  issue's reverse row names the item that the issue was created for, or nothing.
* `NeverDuplicate`, `MappingAlwaysSound`, `CompletedSyncTakesEffect`: under the hypothesis that no two
  syncs work on one item (`~Overlap`), which they need. What a sync has read of its item's rows is then
  still so when it writes, the rows it has left to write make the mapping whole (`LinkLeft`, `StaleLeft`),
  and a live reverse row is the one that its item's forward row names, live or not (`RowsMatch`).

`WebhookProofs`, for any number of events and requests, any capacity and any number of timeouts,
duplicates, faults and crashes:

* `TypeCorrect`, with the bound on the seen-store (`NewestFacts`), and `OneAtATime`: the in-flight set is
  exactly what the attempts that hold a slot hold (`InFlightExact`).
* `SeenMeansRouted`: the mark, the list it will be added to and the attempt that makes it all name routed
  events (`RoutedFirst`).
* `AtMostOnce`: a routed event whose mark is not lost is marked or about to be, and an attempt about to
  route has an event not yet routed (`OnceAndMarked`). With `Exclusive`, no other attempt is in between.
* `NoneLost`: `FailuresAnswered`. An event not yet routed is owed, or some attempt Plane waits for will
  route it or be answered with an error (`Pursued`). A duplicate may be acknowledged because the attempt
  it duplicates is one of these, or done; Plane waits for that one unless it has abandoned it (`Listened`).
  This is the step that fails without `abandoned`, and `webhook_dropped` shows how.

`ReconcileProofs`, for any number of items, any page size and cap, and any number of changes, deletions,
late webhooks, halts, ticks, tool calls and faults:

* `TypeCorrect`, with the size of a page: ranks of different items differ (`RankOrder`), so a page maps
  one-to-one into an interval of `PerPage` numbers.
* `WatermarkIsSafe`: `NothingSkipped`. It needs that whatever is behind, and within reach of the watermark
  the run would save now, is on the page the run has or on one it has yet to fetch (`Covered`); that an
  item which has changed since its page was fetched is newer than everything on it (`Stale`); and that
  times are unique (`Times`). `Covered` survives changes because they only push the others down the list
  (`RankKept`), and deletions because `excused` takes the items they pull up.
* `JobAlwaysOrderly`: `JobOrderly`. Two executions are never at the stamp together, since their minutes
  differ; the one that is there was not throttled, so no run shorter than the interval goes on (`Latest`).
  The saved history is the last of the recorded runs, which appending one and cutting keeps (`ShiftKept`).
* `AnswersAlwaysTrue`: `AnswersTrue`. The requests a call has left are one of few lists (`Plans`), which
  have one write at most, and what Plane has done for a call follows from its list and from where it
  is on it (`Wrote`).
* `PlaneTyped`: a behaviour of the three together is one of each, so what holds of each holds of all.

`AgentProofs`, for any number of asks, posts, clicks, readers, people, faults and crashes:

* `AsksInductive`: an ask's lock is held by the call that is about to change the index and by no other
  (`Held`), what a call has written still stands when it goes on (`Stands`), and one click carries the answer
  to the agent, which it has not woken yet (`OneCarrier`).
* `AnswersReachAgents`, `AskCardsAreTrue`, `AskIndexIsExact`: the three properties of asks, which are
  conjuncts of the invariant.
* `PostsInductive`: what a call has read of an entry is the entry until the call gives the lock back
  (`Current`), so what it writes back differs by one person's answer or by the status.
* `PostsAreKept`: `PostsKept`. That the report of a reader who closes is final needs that the entry it
  read under the lock is still the one in the store when it reports, which only a closed status ensures.

`BotProofs`, for any number of turns, conversations, approvals, clicks, events, revisions and faults:

* `TurnsInductive`: all turns use one bot, so the lock of its store is the lock;
  `NothingForgottenOfConversations`, the action property, by the blob a turn has read under the lock
  being what it replaces (`BlobGrows`).
* `ApprovalsInductive`: a click that succeeded knows the decision (`ClickKnows`), an event's handler
  shows it (`RefreshKnows`), a posted card without a verdict is remembered (`Remembered`), and while a card
  does not show the decision, an event or its handler still has to be handled (`Pursued`).
* `VerdictsAreTrue`, and `CardsSettle`: `Settled`, which is `Pursued` when nobody is left to pursue. The
  exceptions are `misread`, and for `Settled` the windows listed at its definition. There are no others:
  any number of calls may fail, before or after they took effect.

`ServiceProofs`, for any caches, lifetimes, budgets, deliveries, deadlines, events, days and faults:

* `ExpiryAlwaysRecovered`: a call that was refused once finds no token, or one younger than the refusal
  (`SecondToken`), and no step of a call is longer than `MaxFetch` (`Timely`); so a token that lives longer
  than two steps is still valid the second time.
* `RosterAlwaysBounded`: an entry is stamped at most one step after its read (`Stamped`), by a clock that
  is behind real time by what it was set back, at most.
* `AlwaysAnnouncedOnce`, `AlwaysBusyBounded`, `HealthAlwaysTrue`: who has a lock knows that the mark, or
  the health, is as it read it (`Locked`); of a budget's cards one belongs to its mark or to a delivery
  that will make it (`Announced`); the failures in a row are those since the last success in the log
  (`LogTold`).
* `NeverForgotten`, `NeverReportedTwice`, `AlwaysOncePerDay`: the calls on the digest's lock are those
  between their call and their end (`LockTrue`), what a call is about to save is the stored rollup and its
  own change (`SnapTrue`), each counted event is in one rollup or has been posted (`CountsTrue`), and saved
  dates only grow (`DatesTrue`).
* `TeamsTyped`, `CardsAlwaysTrue`: a behaviour of all seven components is one of each.

Assumptions: only the modules' assumptions on their constants, which TLC evaluates in every run. Numbers
are natural numbers and sets of processes are disjoint. `Items`, `Attempts` and `Sweeps` are finite, there
is an event, and the values for "nobody", "none" and "plain" are not members of the sets they are added
to. A roster's lifetime is positive, and a token lives longer than two steps of a call. The three theorems
about syncs that do not overlap have that as a hypothesis of their own.

Only model-checked: liveness (`CallsReturn`, `OverdueHandled`, `Settles`, `AllRouted`, `Healed`)
and the four violations. Liveness under fairness, `ENABLED`, induction over data and RECURSIVE operators
are out of this prover's reach; no module uses RECURSIVE.

## 6. Assumptions of the models

* The host runs one worker of a plugin at a time, and a rejected state-store call has no effect.
* Two runs of the digest job do not overlap (its period is far longer than a run), nor two reconcile runs
  of one project; `ReconcileJob` shows the latter for runs shorter than the interval. The sweep and the
  drain may overlap, and do in the runs.
* `sync` takes two syncs not to work on one item at the same time, so `NoDuplicate` is there about cut-offs
  and retries; `sync_duplicate` drops that, and shows the race.
* Plane gives every change a later `updated_at`; with equal stamps at a page's edge the early stop could
  miss an item.
* The outbound mirror does not order actions of one work item: a status that failed may be retried
  after a later one was delivered. No document promises otherwise, and no property is about it.

## 7. Not modelled

Card building, message wording, markdown and HTML conversion, deep links, routing of notification kinds
to channels, manifests, token verification and signature cryptography (the models take a verified
input), secret resolution, logs, metrics and activity entries, the recording of webhook deliveries (for
display; its unlocked list can lose entries), `attachCard()` (nothing calls it), the resolution of
mentions, the sweep that bounds the cache of tokens, the paging of a roster, and the two plugins in
development, which only register their configuration. Pure decisions are abstracted to a free choice
of what they may answer: `evaluateMirror`, `findRule` and `evaluateSyncDecision`, `classifyStatus`.
Caches that are never invalidated have no model either: a renamed project keeps its old identifier in
`plane-rest-client.ts:96`, and `cachedCompanyId` (`worker.ts:1051`) keeps an empty answer.

## 8. Plan

What would add most, in order of importance:

1. Proofs: every safety property of the passing runs has its theorem. What is left: what syncs that overlap
   promise beyond `NoCrossLink` (which rows may disagree, until when), as an abstract mapping they implement.
2. `PlanePipeline`: `WebhookIntake` and `Reconcile` composed with `PlaneSync`'s per-item steps.
3. Pure decisions as operators checked against reference definitions: `evaluateMirror`, `findRule` and
   `evaluateSyncDecision`, `expiredEscalations`, `classifyStatus`, `backoff`, and the resolution of
   mentions.
