# A verification of Vimla

Vimla is a messenger with AI models: users buy usage, write to each other and to
models, and a message may become an execution plan whose steps ("invocations")
are run by models, tools and evaluators. This project models the parts of it
where money, messages or work can be lost, done twice, done by nobody or done on
what is no longer true. TLC checks the modules on small instances, and TLAPS
proves nearly all of their safety properties for every instance (section 4).

All paths below are relative to the repository.

## 1. The system

PostgreSQL is the only durable store of the server, and Redis (queues, hints,
once-only keys) may lose everything. The API and the worker run as several
processes that share nothing but these two; a browser keeps its own durable
store, IndexedDB, which its tabs share.

| Part | State | What makes it correct |
|---|---|---|
| Usage billing (`packages/billing`: `billing-engine.ts`, `allocation.ts`) | buckets, reservations, ledger | nothing is spent or held beyond a bucket's total; the books agree |
| Payments (`payment-*.ts`, the payment half of `billing-engine.ts`) | payments, events, subscriptions; orders at the acquirer | usage for money and only once; what is paid is granted |
| Tariffs (`tariff-admin.ts`, `policy-admin.ts`, triggers) | versions of plans and policies | what was sold stays as it was offered |
| AI budget (`packages/ai`: `execution-budget.ts`, `cost.ts`) | none | the longest answer that is paid for, and no bill above it |
| AI requests (`text-chat.service.ts`, `external-ai-invocation-executor.ts`, `reconciliation.ts`) | `ai_request`, `ai_provider_turn`, reservations | rows, money and answers agree; every request is decided; no turn is paid twice |
| Local inference (`local-inference-provider.ts`) | slots, queue, circuit breaker in memory | slots are exact, an open circuit is obeyed |
| Orchestration (`apps/worker/src/orchestration.ts`, `packages/orchestration`, `orchestration.service.ts`) | plans, invocations, runs, two queues | one live run, dependencies and approvals honoured, plans finish |
| Planning (same service, `semantic-planner*.ts`, `graph.ts`) | the plan row while `PLANNING`; the answer of the planner | one plan per message, by who holds the claim; the plan can run and is what was asked |
| Executors (`evaluator-`, `vimla-invocation-executor.ts`, `packages/artifacts`) | evaluations, artifacts, tool rows | all attempts agree; a tool runs once |
| Operator (`operator.service.ts`, `packages/operator`) | runs, steps, confirmation tokens, consents | an effect at most once and confirmed; the status tells the truth |
| Outbox and sync (`realtime-outbox.ts`, `apps/api/src/sync`, `apps/api/src/realtime`, `packages/client-core/src/sync-engine.ts`) | outbox rows, per-user event log, cursors, sockets | every client gets every event, in order |
| Direct chats (`packages/direct-chats`, `packages/trust`, the web feature) | messages, devices, epochs; pending sends, ratchets, leases in the browser | no ratchet state is used twice; what was given up stays out; keys are kept |
| Notifications (`packages/notifications`, `reminder-service.ts`) | reminders, deliveries, keys | every delivery settles; one email per occurrence, and one more only for a key that Redis lost |
| Memory and context (`packages/context`, `apps/api/src/memory`) | memory items, receipts, compacted states, snapshots, bundles, vectors | the user's word stands; summaries are whole; contexts are frozen; indexes are current |
| Handles, projects, listings (`handle.service.ts`, `packages/projects`, `packages/workspace`) | handles, members, invites, rows | profiles match handles; plan limits hold; pages lose nothing |

Interactions. A grant of Payments creates a bucket of usage billing, and a
refund takes from it while requests hold it. AI requests reserve before a
provider call and settle or release after it. The API writes plan and invocation
rows, and the worker finds them through queue jobs, or through the reconcile
timer when jobs are lost. A plan's invocations run in executors, which write
artifacts that later invocations read through a frozen context. Chat messages
leave receipts, from which memory, summaries and vectors are made later. Every
message of a direct chat is an event of its members' logs, which the outbox
announces and the clients read.

What is hard in it: transactions that read before they lock; checks that are not
atomic with the write they guard; notifications that are lost, repeated and
overtaken; executors that are declared dead while they work; crashes between a
commit and what should follow it; leases that expire under a holder who comes
back. `PROJECT.json` lists each such place under `hazards`, with the properties
that cover it.

## 2. Modules

| Module | Models |
|---|---|
| `Allocation` | the greedy split of an amount over buckets, as a definition |
| `Loops` | loops of the program, one iteration a step: the split over buckets, the search for the longest funded answer and its bill, the settled table of a plan |
| `UsageBilling` | one user's buckets, reservations and ledger |
| `Payments` | extends `UsageBilling` with checkout, the acquirer, events, grants and refunds |
| `Tariffs` | versions of a plan or policy under concurrent administration, and their sale |
| `AiLedger` | the rows of paid requests, and the reconciler |
| `TextChat`, `ExternalAi` | extend `AiLedger` with a chat's message and with the turns of invocations |
| `LocalInference` | the adapter of the self-hosted model |
| `Readiness` | conditions, joins, and the settled tables of a plan, as a definition |
| `Orchestration` | extends `Readiness`: one plan's execution, queues and requests |
| `PlanningShell`, `SemanticPlanner` | how a message gets its plan row, and how the planner's answer becomes a plan |
| `Executors`, `Operator` | the in-process executors with the artifact store; a run of the operator |
| `Outbox`, `ClientSync`, `EventLog` | durable events and dispatchers; the client, its socket and the sync endpoint on top; what both promise |
| `DirectChat`, `DirectOutbox`, `DirectSession` | the server of a direct chat; the browser's store; the programs of its tabs over both |
| `LocalDevice` | a browser's device keys, and the device and its prekeys on the server |
| `Notifications` | reminders, deliveries, emails |
| `Maintenance`, `Memory`, `Compaction` | receipts of chat messages; memory items; compacted states |
| `ContextBundle`, `SemanticIndex` | the context of an invocation; vectors and searches |
| `Handles`, `Projects`, `Paging` | handles and mentions; membership and plan locks; paged listings |
| `BillingProofs` | theorems about `UsageBilling`, and about it together with `Payments` |
| `OrchestrationProofs` | theorems about `Orchestration` and `PlanningShell` |
| `AiProofs` | theorems about `AiLedger` with `TextChat` and `ExternalAi` |
| `DirectProofs` | theorems about `DirectSession` with the two modules below it |
| `SyncProofs` | theorems about `ClientSync`, and that it implements `EventLog` |
| `AccountProofs` | theorems about `Tariffs`, `Handles`, `Projects`, `LocalDevice` |
| `WorkerProofs` | theorems about `SemanticIndex`, `Notifications`, `Executors`, `Operator`, `LocalInference` |
| `ContextProofs` | theorems about `Memory`, `ContextBundle`, `Compaction` |
| `MC...` | instances for TLC; `Payments` and `ClientSync` need none, their configurations name them directly |

A definition whose comment begins with "Fault:" is not part of the system. It is
a deliberately wrong form of the definition that follows it, with which the
properties are tested: put in place of the right one, it must violate one of
them (`mutants` in `PROJECT.json`).

How state and actions correspond to the code. Tables are functions from ids to
records, restricted to what the properties tell apart. A transaction that locks
what it reads is one action. A handler that reads, waits and writes is several,
and what it has read is kept in a variable of its own (`exec`, `requests`,
`editor`, `boots`, `adminCall`...) until it writes; this is where the
interleavings come from. A conditional `UPDATE` has its condition as a guard at
the moment of the write. Lease times and ages are flags that an action of time
may flip at any moment, so every order of a timeout and a late answer is
explored. A crash is an action that forgets the handler and keeps the rows.

### Billing, payments, tariffs

`settleUsage` and `releaseUsage` lock the reservation row before they read it,
so each is one action. `reserveUsage` looks for the request's reservation before
it locks anything: `ReserveLookup` and `ReserveCommit` are two actions with
anything in between, and the unique key on `(userId, requestId)` is the guard of
the second. A settlement has three cases: within the reservation, above it with
the difference still available (`SettleWithExtra`), and above it without
(`SettleAnomaly`). `GreedySplits` is the set of splits with the property the
loops are for; `Loops` shows that the loops compute its only member.

A payment is one idempotency key, and its bucket has its identity. The checks,
`createPendingPayment`, the call to the acquirer and the commit of its answer are
four steps, and the request may die after any. The acquirer is external: it moves
orders through its statuses and sends a notification of each, which may be lost,
overtaken and, with `Redelivery`, repeated. `processPaymentEvent` is one action
under the payment's row lock; a confirmed payment that cannot be granted throws,
which rolls the event row back too (`DropEvent`). Statuses that the code treats
alike are one value.

`Tariffs` has the versions of one plan, or the rows of one policy table.
Administrators check a row, and write it later; publication is two statements at
read committed, of which the first may wait for a row another transaction holds.
The triggers of the migration are guards of the writes.

### AI requests

`AiLedger` has one row per request (a chat message, or a turn of an invocation),
its reservation, and the reconciler with the row it has scanned. `TextChat` and
`ExternalAi` are the programs that write these rows, one action per write, so
that a process may die or be overtaken between any two. The billing engine is
here what its callers see. `Funded` is the budget that `Loops` shows the search to
find: the largest estimate from the minimum to the preferred that is available.
A worker reads what is available before it takes the lock under which it begins
a turn (`ReadCapacity`, kept in `funds`), so the estimate may rest on money that
is no longer there; the reservation then fails.

### Orchestration and planning

`SettledTables` is the set of status tables that decide themselves;
`Loops` shows that the loop of `dispatchPlan` ends in its one member, so
that `dispatchPlan` is one action, as it is one transaction under the plan's row
lock. `claimInvocation`, `persistExecutionResult` and `recoverStaleRun` lock the
same row. `approve` and `resolveHumanEvaluation` take no lock, so `RequestReads`
records that a request has passed its checks. The queues are external: one job
per id, an add while it waits or runs is ignored, a finished job is removed. When
a job stalls its executor goes on without owning it. A run may be declared stale
at any time after its start: the code measures 60 s without a heartbeat, while a
provider call may take 120 s.

`PlanningShell` is one message and its row, whose hash says who holds it. Each
write is one conditional `UPDATE`; the takeover of a claim reads first.
`SemanticPlanner` takes an answer through parsing, mention binding, validation,
renumbering and a second validation, with both topological sorts as loops.

### Outbox, sync and direct chats

A random claim token is the dispatcher that made it. A behaviour of `ClientSync`
follows either the dispatchers or a tab; all that a tab can notice of the
dispatchers is that a hint arrives, which may happen at any time or never.
`EventLog` is what both promise: a log, and a client that has a prefix of it.
The mapping (`Log` in `ClientSync`) numbers the events the user may read: the
committed head becomes the length of the log, the positions whose deltas were
applied become what is seen, and a tab with access is entitled.

`DirectSession` runs the programs of two tabs over one IndexedDB
(`DirectOutbox`) and one server (`DirectChat`). A tab works on snapshots it read
before an await, a request goes on after its tab has gone, and a lease may run
out under its holder. A ratchet is its version: equal versions mean equal keys.

### Services

Each of `LocalDevice`, `LocalInference`, `Handles`, `Projects`, `SemanticIndex`,
`Operator`, `Executors`, `Notifications`, `Memory`, `Compaction`, `ContextBundle`
and `Tariffs` is a component of its own; its header comment says what its state
and steps are. They share nothing, so that several of them are checked in one run.

In them and in `Maintenance`, too, a handler's reads are steps of their own where
the code waits between them:

* `Handles`: `claim` reads the account first, and whether its address was
  verified at that moment decides what each later statement of it writes.
* `Notifications`: the reconciler writes a late reminder's status and then one
  delivery per channel, with nothing to hold them together. Redis loses the
  once-only keys of emails with the queue, or one of them when its day is over,
  while an email may be late by a week; `keyLost` counts the times this happens
  before the email can no longer be sent.
* `Compaction`: the worker reads pressure, previous state, tail and segment one
  after the other, and the commit looks up each message by a query of its own,
  as does the check of a state that a context is to be built on.
* `ContextBundle`: the surface of the conversation is resolved once by whoever
  takes the snapshot or tries the invocation, then each item is looked up. The
  packer takes superseded items out, and secrets wherever they are except in the
  user's message itself.
* `SemanticIndex`: what an edit or deletion of a source does to its rows is the
  triggers of the migration `20260923120000_semantic_retrieval`.
* `Projects`: `ChangePlan` is what `EffectivePlanResolver` answers after the
  owner's subscription has changed.
* `Maintenance`: the reconciler writes what it decided about a receipt on reading
  it, guarded by the receipt's status alone (`SkipStale`).

`Operator` has one case outside its property. `awaitClarification`
(`operator.service.ts:1091`) is guarded by the status alone, so the question of
an earlier round, put by a request that was repeated, takes a later round back
(`crossed`); handlers of the round that was cut off then act on the next one, and
the status may no longer tell what was done. In `LocalDevice`, likewise, the
stored keys are only claimed to fit the keyring while no two tabs clear the data
at the same time. In `Projects` ids are numbers, since a project's age is
`lastOpenedAt`, then `createdAt`, then its id.

## 3. Runs

| Run | Instance | Checks |
|---|---|---|
| `algorithms` | every table of three buckets and amounts to 4; four invocations as chain, backwards chain and diamond; prices, margins and limits around the boundaries of the search; three rows per listing, pages of one and two, one edit; every graph of four steps with up to six edges; nine sources of a context, two processes that take its snapshot, two workers that try the invocation | `LoopsAreGreedy`, `LoopSettles`, `BudgetIsGreatest`, `ListingComplete`, `PlanIsSound`, `ContextIsFrozen` |
| `core` | two buckets, two request ids, two open `reserveUsage` calls, amounts to 2, one expiry; plans of three invocations with join, branch and human verdict; two memory items; three index workers over a source that changes twice | `Solvent`, `BooksAgree`; `ClosedPlanIsQuiet`, `VerdictAgrees`, `RunsAreJustified`; `UserWordStands`, `IndexIsCurrent` |
| `payments` | one payment of either kind, and one request that may hold part of the grant | `GrantIffPaid`, `RefundTakesAllUnheld`, and under fairness `ConfirmedIsFulfilled` |
| `two_payments` | two subscription payments over two periods | `OneActiveSubscription` |
| `progress` | three planning requests, two plans; two invocations for one slot or one after the other's approval, two attempts, one crash | `OneLiveRun`, `HolderDecides`, and under fairness `PlanFinishes`, `PlanningEnds` |
| `settling` | one message with its receipts, two workers, two attempts; one reminder, one delivery worker, one edit, one stop or loss | under fairness `ReceiptsClose`, `NotificationsSettle` |
| `sync` | three events, one without recipients and one the client may not read; two dispatchers; two faults; one change of the cursor secret | `HonestClientKept`, and under fairness `EveryEventPublished`, `ImplementsEventLog` |
| `direct` | two tabs, a message or an invocation with its output, two peer devices, two epochs, one revoked device, one mishap; two tabs with the keys of a device, two readers of its prekeys, one wipe | `DiscardedStaysOut`, `NoRatchetFork`, `DeviceKeysHold` |
| `ai` | one chat message in two streams with one slot; one invocation with a worker that dies; the reconciler beside both | `LedgerAgrees`, `TurnsArePaidOnce`, and under fairness `RequestsEnd` |
| `services` | two or three concurrent callers of each of eight services; two accounts for one handle, of which one writes messages; three messages, two compacting workers and one context | `SlotsAreExact`, `ProfilesMatchHandles`, `PlanLocksHold`, `RunTellsTruth`, `AttemptsAgree`, `EmailedOnce`, `SummaryIsWhole`, `SoldTermsStand` |

What each property says is in the comment above it. A run whose module has
several components takes one of them per behaviour, with the variable `part`;
the others stay as they start, so the states add up and do not multiply.
Deadlock is not an error in any of them: services have nothing to do without a
user, and the instances end when their bounds are used up.

Bounds. Every bound is a constant whose comment says so. Two buckets suffice for
a split, a hold on one and an extra hold on the other; two requests for a
competitor; two callers for the duplicate that a lookup misses. `MaxTime = 1`
lets a monthly bucket expire, and a subscription lapse, between any two steps.
Two invocations over one slot make a claim lose its slot. One crash, stall or
loss is enough for each gap, because each gap is closed by a timer before the
next; the proofs have no such bound. `MaxStops` counts workers and reconcilers
that stop and the losses of Redis alike: one loss lets a second email go out, by
a slow worker or by the next attempt. Three planning requests let a takeover be
taken over, as do three index workers, one of them of the newer generation. Two
attempts show a first failure with a retry and a last one without. Two events
the client may read, one page each, make a page that ends before the head. Two
epochs are a block and its lifting. Three messages with segments of up to two
and a tail of one make a summary of a summary, and a tail that a message which
completes late overtakes; the message that is edited is the oldest. The nine
sources of the context have a secret in the message, in the conversation's title
and in an earlier message, a superseded item, two items that say the same, one
that the external model may not see, two of a project, and together more than
the budget of four and the seven that are retrieved. `MaxChanges = 1` is one
change of access, membership or surface at any moment of two attempts.

Two runs show a disagreement between the code and what is said of it:

* `renewal`: a subscription payment can be paid and never granted. The checkout
  looks for a subscription whose period is running, before it writes; the grant
  refuses while any row is `ACTIVE`. Two racing checkouts, and every renewal
  after a lapsed period, since nothing sets `EXPIRED`, end in a payment that
  throws each time it is reconciled.
* `plan_spend`: the spend limit of a plan is checked under the plan's row lock,
  and the comments there call this the authority. Turns that resume from a wait
  for allowance are not counted by each other: two of them exceed the limit.

Further disagreements met while modelling, which no run is about:

* The usage percentage is computed from what is spent (`billing-engine.ts:1615`),
  while `docs/ARCHITECTURE.md:307` says it includes what is reserved.
* A refund made through `refundOwnedPayment` is counted twice in the payment's
  economics when the acquirer also notifies it, since the two events have
  different ids (`payment-service.ts:184`). Only tests call that method.
* Reconciliation of payments, and of AI requests from before turns, takes the
  oldest rows of a batch; rows that stay as they are keep later ones out
  (`billing-engine.ts:826`, `packages/ai/src/reconciliation.ts:124`).
* Waiting for usage capacity takes an attempt number, so a later retryable
  failure may get no retry (`apps/worker/src/orchestration.ts:547`).
* Notes are ordered by `pinnedAt` but paged by `updatedAt`
  (`note-service.ts:104`); `ListingComplete` is checked of the other listings,
  and proved of notes only while none is pinned.
  Two concurrent additions to a list get one position (`list-service.ts:176`).
* A worker that dies between taking the once-only key of an email and sending
  it leaves an occurrence that is reported as delivered
  (`packages/notifications/src/service.ts:151`). The edit of a reminder writes
  back the status it read (`reminder-service.ts:136`).
* A second email is sent when Redis loses the key after the provider's answer
  and before `markDelivered`, or when the key's 86400 s
  (`packages/notifications/src/service.ts:26`) are over while the reminder may
  still be late (up to 10080 minutes, `packages/config/src/schemas.ts:745`).
  `docs/NOTIFICATIONS.md:51` says that the adapters are not exactly-once;
  `EmailedOnce` counts one email more for each such loss.
* A reconciler that dies after it failed a late reminder leaves no skipped
  deliveries for it (`packages/notifications/src/reconciler.ts:124`).
* A claim that read the account before its address was verified resets a handle
  that has become `ACTIVE` to `PENDING`, while its public profile stays
  (`handle.service.ts:31`, `:51`). `ProfilesMatchHandles` admits a profile of
  such a handle, and of no other that is not `ACTIVE`.
* Messages of the tail are left out of every summary when a later message
  completes between the reads of the tail and of the segment
  (`memory-maintenance.service.ts:632`, `:637`), as is a message that completes
  after a later one: the next segment begins after the latest in the state.
  `SummaryIsWhole` is about all the others.
* A context may rest on a message that is edited while its state is being
  checked (`compaction.ts:480`).
* The packer drops the conversation's title or a participant's name when it looks
  like a secret, though both are mandatory (`packer.ts:119`, `:427`).
* An operator run that has acted is rewritten as `FAILED` when its consent is
  revoked under a handler that had read it (`operator.service.ts:1619`).
* Two concurrent publications can leave two `PUBLISHED` versions of a plan, and
  a draft's entitlements are replaced by single statements between which it may
  be published (`tariff-admin.ts:101`, `:196`); the margin guard judges the terms
  simulated before the publication reads them (`admin.service.ts:231`).
* With prices that are no whole microRUB per token a bill may exceed what was
  reserved by up to two microRUB, since it rounds three times.

### Fairness

Only what a timer, a worker loop or a timeout of the code brings about is fair.
Users, administrators, crashes, stalls and losses never are.

* Payments: the worker's timer (`apps/worker/src/main.ts:364`) asks the acquirer
  about open payments and processes the answer, while fewer are open than a
  batch takes.
* Orchestration: workers take waiting jobs, the reconcile timer runs
  (`main.ts:637`), and an executor that does not die answers, because every
  provider call has a timeout. PlanningShell: time passes, the worker's recovery
  runs, and a planner call ends by its timeout.
* Outbox and sync: the outbox timer (`main.ts:344`) runs each dispatcher,
  back-offs and orphaned leases elapse; the tab's engine goes on with what it
  began, its retry timer fires, it reconnects, and the gateway's heartbeat and
  reaper run. Hints are not fair.
* AI requests: streams and workers that live go on, and the reconciliation timer
  (`main.ts:391`) goes on with a row it took. That a row is taken again and again
  while it is open is strong fairness: other rows may take the job in between.
* Receipts and deliveries: their timers and workers run, ages and back-offs
  elapse; that a delivery's job gets a worker is strong, because a worker is not
  free all the time.

## 4. What is proved

The theorems hold for every value of the constants that satisfies the named
assumptions of the modules: any number of users' requests, rows, tabs, workers,
attempts, crashes. The bounds of the runs (`Max...`) are constants like the
others, so a theorem covers every bound. No theorem is about a smaller system
than its run; those about AI requests are about a larger one.

In each of the proofs the property itself is not inductive, because a handler
decides on what it has read and writes later. The invariant therefore says, for
each place where a handler may be, what it still knows of the rows, and the
proof shows two things of every step: that the handler that moves knows what its
next place asks for, and that the step takes back nothing that others know
(`RowsStand`, `Onward`, `Quiet` and the like).

| Theorem | Property | What the inductive invariant adds, and why |
|---|---|---|
| `BillingProofs`: `NeverOverspent`, `FinishedStaysFinished` | `Solvent`; a finished reservation never changes | no hold is negative. A split gives each bucket at most its cap, a reservation's cap is what is available, a settlement charges at most what is held there and what was still available |
| `BooksAlwaysAgree` | `BooksAgree` | each reservation holds exactly its estimate while it is `ACTIVE`, and charges nothing before it is settled; `Total` is shown to count units, so that theorems on cardinality apply |
| `GrantedIffPaid`, `AtMostOneActive`, `PaymentsStaySolvent`, `PaidPaymentsMoveOn` | `GrantIffPaid`, `OneActiveSubscription`, `Solvent`; a paid payment only goes on to a refund | an order without a URL is not paid by the customer, so a late answer of the acquirer meets no grant; a notification tells a state the order has reached, and from the states a grant rests on there is no way back |
| `RefundsTakeAllUnheld`, `PaymentsKeepBooks` | `RefundTakesAllUnheld`, `BooksAgree` | a bucket never holds more than its grant, and what it counts as spent and held are the sums over the reservations, so a full refund takes all that is unused |
| `LoopsSplitGreedily` | `LoopsAreGreedy` | every bucket that the loop has passed is used up for as long as something remains, and one still to visit is untouched. The order in which the buckets are visited exists because each has a rank, the number of buckets before it; of two greedy splits one is nowhere above the other, and with equal sums they are equal |
| `BudgetsAreGreatest` | `BudgetIsGreatest` | what is above `high` is too dear, `chosen` is paid for and directly below `low` or further up; this stays so because a longer answer never costs less, roundings included. The parts of a bill, each rounded up, come to at most two microRUB more than their sum rounded up |
| `OrchestrationProofs`: `OneLiveRunAlways`, `ClosedPlanStaysQuiet`, `VerdictAlwaysAgrees`, `NeverTooManyRunning`, `FinishedStaysAlways` | `OneLiveRun`, `ClosedPlanIsQuiet`, `VerdictAgrees`; parallelism; finality | runs are numbered without gaps, so a claim overwrites none; an invocation is `CANCELED` only with its plan, so dispatch never meets one. That a plan is quiet once closed needs its verdict to agree, and that one run is live needs the closed plan to be quiet |
| `RunsStayJustified` | `RunsAreJustified` | a dependency is decided on what has finished, so the decision stands, for each of the three joins; a failure that used up the attempts ended with its invocation and is its latest run; a request is of the kind its invocation's approval asks for |
| `LoopAlwaysSettles` | `LoopSettles` | each pass but the last has decided one more invocation; a decision stands, because a dependency counts once it has finished; a pass that decides nothing leaves nothing to decide. Two settled tables would differ first, in an order of the steps, at one whose dependencies they agree on |
| `HolderAlwaysDecides` | `HolderDecides` | the hash of the row says what its status rests on, and the plan a request was told is the one that is stored |
| `AiProofs`: `LedgerAlwaysAgrees` | `LedgerAgrees` | for each step of a stream, a worker and the reconciler, what it knows of its row and its reservation; a reservation is made once, keeps its amount and is settled or released for good, a text stays, the estimate of a turn is written once |
| `TurnsAlwaysPaidOnce` | `TurnsArePaidOnce` | up to its call, the one worker at an invocation knows that the turn was not asked yet and that nobody else stores its answer; whatever an artifact may be made of (the history's verdict, a recovered turn, the finished text) is a settled turn with text and no tool calls |
| `DirectProofs`: `DiscardedNeverAppears` | `DiscardedStaysOut` | all that the browser and the network know of a message carries one epoch, which is behind the server's while somebody blocks; a message still to be sent for the first time is known nowhere else |
| `RatchetsNeverFork` | `NoRatchetFork` | what was sealed is behind its ratchet |
| `SyncProofs`: `HonestClientsStay` | `HonestClientKept` | of a heartbeat and its answer at most one is under way, and it is the one the gateway waits for |
| `ReplicaIsPrefix` | initial states and steps of `ImplementsEventLog` | everything up to a kept cursor has been applied, a page under application leaves out nothing up to its own cursor. The mapping numbers the readable events, so the proof is about ranks in a finite set |
| `AccountProofs`: `SoldTermsHold` | `SoldTermsStand` | a version on sale stays one and keeps its terms, so what a call or a checkout has read still stands |
| `ProfilesAlwaysMatch` | `ProfilesMatchHandles` | names and accounts are unique keys; a profile names a row of its own account; an id held by a call is of its account; a call that writes `ACTIVE` has read a verified address, and only one that has not can take an `ACTIVE` row back |
| `PlanLocksAlwaysHold` | `PlanLocksHold` | every project has its owner, and no two were opened in one instant, so that the order by age is total |
| `DeviceKeysAlwaysHold` | `DeviceKeysHold` | the identities the tabs hold are different; one that was posted is stored or was lost in a wipe; a prekey under a lock is free and locked by one reader |
| `ListingsAreComplete` | `ListingComplete` | a row that did not change was shown unless the cursor has yet to pass it, and those shown stand in order. For each listing a page is cut from the rows to come so that the rows its cursor has not passed are exactly those it left out; so too where the two groups of tasks meet. In the inbox search one more than a page of the conversations found by peer is enough, since of them at least one is left out by the page, and what was not looked up comes behind it |
| `WorkerProofs`: `IndexStaysCurrent` | `IndexIsCurrent` | a worker that still owns its row read the text of now, because a change of the source takes the lease away |
| `AtMostOneEmail` | `EmailedOnce` | the emails sent, with the workers between the guard and the provider's answer, are at most the losses of the key, plus one while the key is set or the occurrence is too late |
| `AttemptsAlwaysAgree` | `AttemptsAgree` | the order of the writes: row, artifact, answer |
| `RunsAlwaysTellTruth` | `RunTellsTruth` | a handler at work is at the steps of the current round, and its counts are what the steps before it say |
| `SlotsStayExact` | `SlotsAreExact` | the queue has each waiting call once and none with a slot; a permit of the present generation was given while the circuit was not open |
| `ContextProofs`: `UserWordAlwaysStands` | `UserWordStands` | a current item is the parent of no other, so to replace or delete it leaves the other lineages as they are |
| `ContextStaysFrozen` | `ContextIsFrozen` | the snapshot of a plan that has begun does not change, and what a worker has let through so far is of it and may go to the model, or is a dependency it was bound to; an attempt that is not blocked has the audience of the snapshot; what the packer's loops give for any set of items (a part of it, within the budget, without a superseded item, without a secret but the message, and missing a required item only when those up to it exceed the budget) is proved by rank, as lemmas |
| `SummaryStaysWhole` | `SummaryIsWhole` | each state's own messages lie after the range of the state before it, and between them no message is missing that was not overtaken: of what completes after the tail was read, only the messages that it overtakes can be lost; that the whole chain leaves none out and has none twice follows by the order of the states |

The type invariants (`TypeCorrect`, `PaymentTypesHold`) are part of each. A
theorem about a module that has no specification of its own is about its initial
predicate and next-state relation, as they are composed in the runs.

The assumptions on constants say what the constants are, with six that are
more: the sets of buckets and requests are finite (sums), no two buckets are of
one type, expire together and were created together (else the order of a split
would be the database's), the dependencies of a plan run in no circle
(`validateExecutionPlanGraph` refuses the others), the output message of
an invocation belongs to it alone (`IsInjective(OutputOf)`; without it the proof
of `DiscardedStaysOut` does not go through; the code draws a random id for each
output, `crypto-store.ts:1706`), "none" is not the id of a device, and of the
candidates of a context the required ones come first, as both of its orders have
it (`retrieval.ts:1611`, `packer.ts:246`). `LedgerAlwaysAgrees` and
`TurnsAlwaysPaidOnce` have a hypothesis, `Apart`: a request of a chat message is
not a request of a turn; both are rows of `ai_request` under generated keys.
Under it, messages, turns and the reconciler work on one ledger at once, while
the run takes one of the programs per behaviour. `ListingsAreComplete` has the
hypothesis `Unpinned`, that the rows of a listing of notes have no `pinnedAt`:
without it the property is false (section 3).

What the attempts to prove taught about the models is in them now: the tie-break
by creation and id in `Projects`, the wrapping key and the two tabs that wipe at
once in `LocalDevice`, the round a late question belongs to in `Operator`, and
that a required item of a context may give way to one that says the same
(`packer.ts:135`) in `ContextIsFrozen`.

Recursion. `Total` (of the books), the lineages of `Memory` and `Compaction` and
the packer's loops are recursive functions, the lowest free key of `LocalDevice`
and the budget of `AiLedger` are least and greatest elements. Their proofs use no
induction theorem, which would take an operator as a parameter, but smallest
counterexamples: the numbers for which the claim fails have a least one, by
`WFMin` and `NatLessThanWellFounded`.

Only model-checked:

* Liveness (`ConfirmedIsFulfilled`, `PlanFinishes`, `PlanningEnds`,
  `ReceiptsClose`, `NotificationsSettle`, `EveryEventPublished`, `RequestsEnd`,
  and the fairness in `ImplementsEventLog`), which needs `ENABLED`.
* `PlanIsSound`, which is checked on every graph of a bounded set.

## 5. Assumptions about the environment

PostgreSQL's row locks, unique keys, triggers and conditional updates work as
documented at READ COMMITTED; a transaction commits or leaves nothing. IndexedDB
transactions are serial. A signed notification tells the truth about its order.
BullMQ keeps at most one job per job id. A provider that was asked may answer,
refuse, fail or be silent, and is paid when it answered. Amounts are `bigint` in
the code and integers here.

## 6. Plan

1. Done: the components above, and the proofs of section 4.
2. Proofs next: what is only model-checked in section 4; that `UsageBilling`
   implements the wallet of 3.
3. An abstract wallet (a balance that grants raise and charges lower) that
   `UsageBilling` implements, and `AiLedger` over it in place of its own summary
   of the engine.
4. The batch limits of the reconcilers.

## 7. Not modelled

Cryptography, authentication and identity providers; administrators' sessions;
wire formats of providers and of the acquirer; client installations beyond their
validity; abuse reports and read markers; finance reports, which only read; the
fields of tasks, notes and lists that no order or cursor depends on; scores of
retrieval; contracts, configuration and user interfaces. Of the modelled
components: ledger entries of amount 0, logging and telemetry, the chargeback
branch, whether a plan allows top-ups, texts and formats, and the retries of a
transaction after a deadlock, which start it anew. `PROJECT.json` says under
`components` what of each part is in and what is out.
