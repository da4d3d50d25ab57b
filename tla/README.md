# TLA+ verification of the api-load gateway

api-load is a self-hosted AI gateway written in Go. Clients call it with access
keys; it routes each request to a group of upstream credentials, retries on
other credentials when one fails, meters and bills the answer, and keeps
configuration and statistics in a SQL database that an operator edits through a
control API. This directory holds TLA+ models of the parts of the server whose
correctness depends on interleavings, crashes, late answers or long histories,
the TLC configurations that check them on small instances, and TLAPS proofs of
the most important properties for every instance.

Contents: 1 the system, 2 the modules, 3 how the runs are built, 4 the runs and
their bounds, 5 fairness, 6 the proofs, 7 where code and documentation disagree,
8 what is only model-checked, 9 what is not modelled.

## 1. The system

One process, one database (SQLite, MySQL or PostgreSQL). Inside the process:

* the **gateway** (`internal/gateway`) handles each client request in its own
  goroutine: authenticate the access key, check its cost limits, request rate and
  concurrency, pin a configuration snapshot, iterate over candidate credentials
  through the **scheduler**, forward through an **execution** runtime, judge the
  outcome (**health**), complete the cost ticket and emit a **request log** event;
  websocket connections and realtime calls are long-lived variants of it;
* the **control plane** (`internal/control`) runs the operator's edits one at a
  time (`writeMu`): a database transaction, then the publication of a new
  immutable configuration snapshot through `state.Manager`;
* the **credential registry** (`internal/state`) holds the runtime state of
  every credential (status, blacklist, cooldown, auth state, weight) and the
  scheduling ledger, shared by gateway, control plane and background workers;
* the **request-log worker** (`internal/requestlog`) owns all statistical
  writes: log batches, usage tables, quota checkpoints, retention;
* **background workers**: credential refresh (`internal/subscription`), health
  validation, catalog and price synchronisation, release checks;
* the **application** (`internal/app`) starts everything in order, saves a
  runtime checkpoint at a clean shutdown and restores it at the next start.

## 2. The modules

Each module models one component: its state as variables, one action per
operation, critical section or step between two locks, waits or database calls.
`map` in `PROJECT.json` gives the source lines of every definition. Names,
payloads, prices and texts are model values or small numbers throughout; every
width, capacity and limit of the code is a constant.

**Statistics and admission**

* `RequestLog`, `EventSink` (`requestlog/service.go`, `worker.go`): handlers that
  `Emit`, the worker goroutine (`worker.pc` is the select or call it is in,
  `worker.then` where `writeBatch` returns to), callers of `Stop` with and
  without a deadline, and the cost-limit runtime that marks rules dirty and
  notifies. The transaction succeeds, fails, or commits with its answer lost.
  Events are counted, not told apart; the channel send of `Emit` and its total are
  one step. `EventSink` is the abstract promise: an open sink accepts, each
  accepted event is settled once as kept or lost, and none waits for ever.
* `AccessQuota` (`accessquota`, the checkpoint part of `requestlog`, the cost-limit
  edits of `control`): `entry` is `Runtime.entries`, `ruleRow` and `stateRow` the
  tables, `req` the requests with their tickets, `wpc`/`scan`/`batch`/`wake` the
  checkpoint loop. `Begin` reads the clock before the lock as the handler does, so
  a request may carry an old time. `Restart` is a crash at any moment followed by
  `Loader.Load`.
* `RateLimits` (`ratelimit`): permits of keys, groups and shared accounts, sliding
  windows with their sweep, Retry-After, under configuration changes.
* `RpmStore` (`rpm`, `requestlog` rows): the ring of seconds, minute buckets,
  versioned rows written late and pruned, a query beside the writer. `MaxLag`
  bounds how late a request is recorded; one that is two minutes late could
  recreate an evicted bucket.
* `UsageReports` (`requestlog/usage_*`, `credential_*`, `group_usage.go`): exact
  windows over hourly tables and rows, series, the overview, group, credential and
  account-card numbers with their completeness flag, retention and its sweep. One
  group has one credential; `Steps` are the hourly widths with the spans they serve.
  `reach` and `overtaken` remember how far sweeps have gone.
* `LogQueries` (`requestlog/query.go`, `mapper.go`): what a row stores of an event,
  `List` with filters, cursor and page walks, `Get`, the view of an access key.

**Credentials**

* `CredentialScheduling` (`scheduler`, `state/scheduling*.go`): `entry` is the
  registry, `member`, `started`, `watermark`, `sequence` and `streak` the ledger,
  `config` the published snapshot, `pinned` and `chosen` what each request's
  iterator holds. Every registry operation ends with `SyncCredentials` and is one
  action; the replacement of a secret does not synchronise, in code and model. A
  selection is one action: identity filter, baseline, calibration, turn or
  preference, cut of a long run, charge. Maxima that the code finds with loops are
  predicates (`IsBaseline`, `IsFirst`, `IsTurn`); a 128-bit coordinate is an
  integer in units of its fraction; the candidates of a request are any set in
  `Pools`. `Crash` loses ledger and health, `CleanRestart` restores both.
* `CredentialManager` (`subscription/credential_manager.go`): the row, the registry
  entry, the stripe locks, every entry point (`CallKinds`), the provider's
  single-use refresh tokens (`issued`, `valid`, `spent`), the operator's
  reconnection, target changes, statements that fail before or after taking effect.
  `behind` remembers the accounts whose entry was left or put behind their row.
* `CredentialStages` (`control/credential_stages.go`): staged authorizations by
  browser, device code or file; polls, callbacks, claims by conditional `UPDATE`,
  expiry, cleanup, consumption into a group (one transaction) and restarts.
* `RegistryHealth` (`state/registry.go`, `health`, `control/validation.go`, batch
  mutations): failure counts and generations, blacklists, cooldowns, probes,
  restores, batches with exact compensation, changes of the target and back, reloads,
  transactions that fail or are reported as failed after their commit.
* `Affinity` (`affinity/cache.go`): the bounded cache with expiry and revisions.

**A request through the gateway**

* `AttemptLoop` (`gateway/handler.go`, `execution_forward.go`): `Handle` and
  `executeAttempts` with permits, quota ticket, candidates, refresh replay, effects
  on the registry, deferred answers and the recorded attempts, while others change
  the registry. The executor's result is any the contract admits (`Results`).
* `ErrorJudge` (`health`, error rules, operation contracts): the whole decision
  function over every attempt and context.
* `StreamForward` (`gateway` stream forwarding): preread window, event framing,
  restore holds, terminal observation, the writer's sticky failure.
* `BifrostExecutor` (`execution/bifrost`): native, typed, converted and Cline
  streams and unary calls, with the first-byte gate, idle timer, deadline and
  cancellation racing the SDK, which is external.
* `WebsocketConnection`, `NativeSession` (`gateway` websocket, `wsnative`): the
  connection with its lanes, budget, bind lock and watcher; the upstream session
  with its reader, write lock and turns, and events that the reader or a turn refuses.
* `LiveSessions` (`gateway` realtime calls): reservation, attachment, every ending
  with its retries and timers.

**The process**

* `ControlOperations` (`control/idempotency_*`, `operation_recovery.go`,
  `service.go`): idempotent operations with their stages, replay, recovery and
  compaction; the three paths of plain writes; `writeMu` is `holder`; a commit may
  be ambiguous. What a write changes is a version number of each part of memory.
* `RuntimeCheckpoint` (`app/runtime_checkpoint.go`, `resourcebinding`): restore with
  staging, import and fallbacks, save, recording and lookup of bindings, crashes at
  every step.
* `ProviderRuntimes` (`execution/bifrost/runtime_manager.go`): the pool of provider
  runtimes, with leases, waiting callers, failing factories, reconciliation,
  credential retirement and shutdown.
* `Shutdown` (`httplifecycle`, `app` stop): registrations of handlers, the
  cancellations delivered after the unlock, the ordered waits under one deadline.

Modules meet where the code does: the log worker's checkpoint loop appears in
`RequestLog` with its wake-ups and in `AccessQuota` with its contents; the
scheduling part of the runtime checkpoint is in `CredentialScheduling`; the
effects of `ErrorJudge` are those `AttemptLoop` applies; the control runtime and
the HTTP handlers of `Shutdown` stand for what the other modules do.

## 3. How the runs are built

There is one `MC` module per question asked of a subsystem, with a `.cfg` of the
same name. Such a suite is the disjoint union of instances: `part` says which
instance a behaviour belongs to, it is chosen in the initial state and never
changes, the variables of the other instances are `Off`, and `Next` is the
disjunction of the instances' next-state relations, each under its `part`. A
behaviour of the suite is a behaviour of one instance, so a property checked in
the suite as `part = "x" => X!P` is `P` of that instance. `RequestLog`,
`AccessQuota` and `CredentialScheduling`, which state their assumptions with
`ASSUME`, are extended by their suites; other components define
`ConstantsAssumption`, which the suite assumes of each instance whose component
has a proof.

Related properties of several instances are checked together under one name, e.g.
`CountersAreExact` of `MCStores`; its definition lists the components' properties
one per line, with what each says. Liveness properties are written out in the
suites with the guard `part = "x"` on both sides of the leads-to.

## 4. The runs

| run | asks | passes for |
| --- | --- | --- |
| `stores` | does the log lose, strand or double-count an event or checkpoint; do limits, rate store, affinity cache and executor keep their books | `Accounted`, `StopMeansDrained`, `NoLostWake`, `CountersAreExact`, `ObeysItsRevision`, `ExecutorIsHonest`, `LateIsHarmless` |
| `quota` | do rows, memory and startup agree; is a late answer billed only to its own window; is the retry time exact | `StoredIsPast`, `CleanIsDurable`, `RestartPossible`, `RetryTimeIsExact`, `SpendingIsHonest` |
| `scheduling` | is the ledger one history; is service shared by weight; where does a returning credential start | `OneHistory`, `AwayIsPending`, `FairShares`, `JoinsInFront` |
| `accounts` | is a single-use token ever used twice, or kept longer than needed | `ReadyIsUnspent`, `NoAutomaticReplay`, `ServedIsDurable`, `StagesAreUsedOnce`, `HealthyIsKept` |
| `process` | do memory, files and tables agree across crashes; is anything shut down in use; is the stop quiet | `OwnershipSurvives`, `MemoryAgreesWithDatabase`, `LeaseIsLive`, `CleanStopIsQuiet`, `OperationsAreExact`, `NothingIsUndone` |
| `gateway` | is the verdict safe, the stream whole, the loop honest | `VerdictIsSafe`, `StreamIsWhole`, `LoopIsHonest`, `NoCandidateIsTrue` |
| `sessions` | do turns and calls keep apart and settle once | `CallsSettleOnce`, `TurnsAreSerial`, `NoSwitch` |
| `reports` | is a report what a scan of all requests would say | `ReportsAreExact`, `QueriesAreExact` |
| `progress` | do the log, the checkpoints, refreshes and stage secrets settle; does the log implement its sink | `EverythingSettles`, `ImplementsSink` |
| `endings` | do operations, turns, calls, runtimes and the process end | `EverythingEnds` |
| `delivery` | is held data released; do requests, attempts and connections end | `EveryRequestEnds` |
| `failed_start` | does ownership survive a start that fails | violated, see section 7 |

Bounds, and why they are enough to meet the interesting cases:

* `stores`. Log: two events through a channel of one and batches of two, so a batch
  fails in part and the channel is full while it is open; three rules, two callers
  of `Stop`, hourly counters that overflow. Permits: three requests, two accounts
  shared by groups, configurations that change the sharing and the limits. Rates:
  limits 0 to 2 that change, three windows of time. Rate store: a ring of three
  seconds over eight, so it wraps twice; rows with a retention that passes; two
  sessions and a query. Cache: two keys, two targets, two revisions of which the
  second is stricter. Executor: each lane with its own pieces (delimiters of every
  kind, comments, oversized, encoded and broken pieces, error events), every SDK error, a
  sink that fails.
* `quota`. Windows roll over; a rule is edited and reset until its revision
  saturates; a snapshot is overtaken by a completion, an edit and a crash, which are
  all the ways the steps overlap for one rule. Rules of one key interact only in
  admission, hence two in the part `retry`; two requests in `window`.
* `scheduling`. Two credentials are the least that compete, three the least of which
  an older snapshot sees some; weights, run length, coordinates and sequence are
  small enough to be exhausted. The part `fair` has two credentials of the weights 1
  and 2 that stay, and runs that are cut after one or two turns; a weight edited
  within a run is left to the part `ledger`, since the run is then measured by weights
  it was not counted with and the shares drift by a step for each such edit.
* `accounts`. Two callers of one account are the least that race; two faults allow a
  hidden success followed by another failure; two versions allow a stale one. The
  part `group` has two accounts of one group, the least of which a call for one reads
  the row of the other, and a fault.
* `process`. Three starts allow a crash in the start after a crash; two resources
  with two owners conflict. Three attempts on three runtime entries allow a retired
  and a new runtime of one configuration. Two keys with two digests, three kinds of
  operations and writes, two faults and a crash reach each stage of recovery.
  Health: two probes and an attempt (`probe`) or two attempts and a probe (`late`)
  of one credential, with a reload and changes of the target and back, so that an
  entry is replaced while they run; `batch`: two credentials, and three faults, so
  that a transaction, its compensation and a reconciliation can fail.
* `gateway`. The judge: every attempt the contract admits with every context (one
  step per judgement). Streams: three chunks of seven kinds, or two of ten, over all
  modes; a window of two events or three bytes, so it closes by either. The loop:
  three credentials in two priority groups, limit three, one change by others, and
  attempts that are canceled while the client stays.
* `sessions`. Three messages of which two share a lane and one is malformed; two
  that may try two credentials; two lanes that share one upstream. Two turns in lanes
  of their own, or one after the other in one, with an event before the final one, so
  that an event is refused with others behind it. Two calls for one place; three
  hang-up attempts.
* `reports`. Hours of two minutes and days of two hours, over a day; two rows of
  the kinds the counters tell apart, those billed per request without usage included;
  windows that begin and end inside an hour; the part `wide` has the widths between an
  hour and a day; in `complete` the retention is lowered and raised. Rows: every
  combination of billing unit, usage, price and receipt the mapper accepts, models that
  the redactor rewrites included. Walks over three rows, written and deleted between
  pages.
* `progress`, `endings`, `delivery` repeat the instances in smaller form, since
  temporal checking is dearer: one or two of each actor.

Deadlock is checked in `stores`, `quota` and `scheduling`; it is switched off only
where a part ends (all budgets spent, the process stopped, the request answered).

## 5. Fairness

Used only in `progress`, `endings` and `delivery`; nothing is assumed of clients and
operators, and a crash need not happen.

* Weak fairness of steps of a running goroutine: the Go scheduler runs it.
* Timers fire and calls with a deadline return, with any result: weak fairness of
  `Expire`, `Deadline`, `LifetimeEnds`, `RetryFires`, `AttemptEnds`, `ContextEnds`,
  `Tick`.
* A select among ready cases picks at random, so a case ready again and again is
  taken: strong fairness of `TakesEvent` and `HearsStop` in `RequestLog`.
* A Go mutex hands over to a waiter that has starved, and channel locks are granted in
  turn: strong fairness of `Enter` (stripes), `Wake` (the recovery worker and
  `writeMu`), `TakeLock`, `TakeWrite`.
* A database asked again and again answers once: strong fairness of `AckSnapshots`,
  `WriteSnapshots` and `ConnectApply`. In the other models faults are a bounded budget,
  so a retry succeeds in the end; each budget still allows a failure at every step.
* `Shutdown`: handlers return when cancelled unless they are in `Stuck`; the part
  `forced` has stuck handlers and a deadline, the part `clean` neither.
* `ControlOperations`: the supervisor starts a crashed process again.
* `NativeSession`: the upstream answers a turn it has read or its context ends;
  `StreamForward` and `BifrostExecutor` assume nothing of the upstream.

## 6. The proofs

Eight modules hold theorems; each extends its component (`CredentialSharesProofs`
extends `CredentialSchedulingProofs`). Three of them prove a second component in their
last section, as an instance with constants and variables of its own: `ProcessProofs`
has `Shutdown` (`Down`), `CredentialManagerProofs` has `RuntimeCheckpoint` (`File`),
`ProviderRuntimesProofs` has `LiveSessions` (`Calling`). A theorem holds for
every value of the constants that the component's assumptions admit (`ASSUME` in
`AccessQuota`, `CredentialScheduling` and `RequestLog`, `ConstantsAssumption` or `StagesAssumption` as a hypothesis in
the others): any number of requests, callers, credentials, keys, rules and
events, any width, capacity and bound. The assumptions say of which kind the
constants are and that sets that are counted are finite. Each proof has one lemma per action or group of
actions, under it one step per conjunct the action can disturb, and a last step that
combines them with `PTL`. No property is inductive alone; the strengthenings are
below.

**AccessQuotaProofs.** `TypeCorrect`, `Durability` (`CleanIsDurable`),
`NoInventedSpending` (`StoredIsPast`), `StartupAccepts` (`RestartPossible`). `Inv`
adds: rows of a rule carry equal revisions and a well-formed state (`RowsInv`); a
runtime rule is never newer than its rows and holds a state of which the stored one
is a past state (`RuntimeInv`, with `Past` ordering the states of one revision by
version); snapshots in the worker's hands are past states, and are on disk when the
worker acknowledges them (`WorkerInv`, `BatchInv`); tickets name a generation that
exists (`TicketInv`). A second invariant `Own` (`TicketsAgree`) relates tickets to
rules: while the rule runs the ticket's revision, an equal generation below the
saturation means the very window of the ticket. `Evolves` says how any step may
change a rule that a ticket can name. From both follow two action properties:
`ChargesAreOwn` (a late answer charges only the window and revision that admitted
it) and `UsageIsKept` (short of a crash, usage is lost only with its window or
revision). `RetryTimeIsTrue` (`NextAvailableIsExact`, the run's `RetryTimeIsExact`)
needs only the types and that the rules are finitely many: the latest end of a
blocking window exists (`FiniteMaximum`, from the least-number principle
`LeastNumber`), every blocking rule is inactive from its end on, and the rule whose
window ends last still blocks the moment before.

**CredentialSchedulingProofs.** `TypeCorrect`, `LedgerIsOneHistory` (`OneHistory`),
`AbsenceIsRemembered` (`AwayIsPending`). `Inv` adds `Mirror`: every registered
credential has a member of the same identity; this is what makes the synchronisation
of one credential sufficient. `NewcomersJoinInFront` proves the action property
`JoinsAtTheFront` when every request may use every credential
(`Pools = {Credentials}`), since only then is every settled credential within the
request's sight. It rests on a second invariant `Current`: a request holds the published snapshot or an
older one, nothing has progressed before the first selection, nothing is due of a
credential that is gone. The revision check then shows that a member admitted by an
older snapshot keeps its mark, and one admitted by the current snapshot is placed
at the baseline of all that are settled (`Admits`).

**CredentialSharesProofs.** `ServiceIsShared` (`SharesAreFair`, the run's
`FairShares`) under `SteadyShares(W)`: one configuration, credentials of the weight W
or out of service, no refresh that hides a credential, requests that may use every
credential without a preference or a replay, and numbers for which a cut run pays off, `Scale \div v <=
(StreakStart - 1 + CeilDiv(u, v)) * (Scale \div u)` for all products u, v of weights.
`RunsPayOff` proves that the numbers of the code (a scale of 2^64, runs of 100, weights
up to 100) satisfy it. The bound of two steps is not inductive: the invariant
(`Level`, by `Even`) gives every settled credential d a `Room` and says that no
credential is ahead of d by more than it; the room is two steps, except for the member
of the current run, which has used up as much of it as its turns have cost. A turn of
the first candidate keeps this because nobody is behind it (`ChargingKeepsEven`); a cut
does because the run has by then cost what the next candidate's turn costs
(`TurnHasRoom`, `LongRunPays`); an admission does because the baseline is the largest
coordinate among the settled (`JoiningKeepsEven`). Registry operations settle nobody.

**ProcessProofs.** Of `RequestLog`: `TypeCorrect`, `EventsAreAccounted`, `QueueIsEmptied`,
`NilMeansDrained`, `WakeIsNeverLost`, `TotalsAgreeWithStore`, and `LogRefinesSink`:
initial states map to initial states of `EventSink` and every step to a step or a
stutter. `Inv` adds `Stage` (in which phase of the service the worker can be where,
and when batch and channel are empty), `Ending` (a shutdown without an error has
dropped nothing and owes nothing; only a recorded error cancels the worker) and
`Answered` (nil is returned only after such a shutdown). `Stage` makes
`NothingStranded` inductive: the worker reaches its last steps only after `Stop`,
when `Emit` adds nothing more.

Of `Shutdown` (the instance `Down`): `CountIsExact`, `HandlersAreCancelled`,
`CleanStop`. `StopInv` adds that the registered stop functions are exactly the handlers inside `TrackAll` and
`BindData`, and what each phase of `Stop` may rely on (`Progress`): while the
cancellations are delivered every handler is cancelled or still in the list, and
`Wait` has read the newest channel, since no handler registers after `closing`.

**ProviderRuntimesProofs.** `TypeCorrect`, `LeasesAreLive`, `ReferencesAreExact`,
`NothingLingers`, `ReportIsTrue`. `Inv` adds: the map holds exactly the entries whose
runtime starts or runs, each under its own configuration (`MapIsLive`); the caller in
the factory is the only one on a starting entry and leases are on running entries
only (`CallersAreApart`); the number of shutdowns is counted (`DownIsCounted`). The
exact reference count is what excludes a shutdown under a lease.

Of `LiveSessions` (the instance `Calling`): `CallsStayWithinMaximum`,
`CallsAreSettledOnce` (`PermitsReturnOnce`, `LoggedOnce`), `CallsEndForAReason`
(`NoStaleTimeout`, `NotAbandoned`), `EndingsAreDriven`. `CallsInv` says of every call
how it looks before it is registered and what the reason of its end implies (`Begins`),
that whoever holds `finishMu` works on a registered call and skips the hang-up only when
the upstream has ended the session (`Works`), and what has been given back and written
by then (`Settled`). Since it speaks of one call at a time, a step of one call leaves
the others alone; only the admission bound counts, and it follows from the test of
`reserve` because every other step keeps or removes members of the counted set.

**CredentialManagerProofs.** `TypeCorrect`, `ReadyIsFresh` (`ReadyIsUnspent`),
`NoReplay` (`NoAutomaticReplay`), `TargetIsSeen` (`SameTarget`). `Inv` adds: whoever
is past the lock holds the stripe (`Holds`); at each place a call may rely on a
relation of its locals to the row (`LocalOK`: before the exchange the row is the one
it has read, marked as refreshing, and its token is unspent if it was ready); the
provider has issued every token in use, at most two for each version (`TokenOK`).
Because `LocalOK` speaks of one account, a step of another account's holder leaves
it alone, and a step on the same account is made by the holder itself or changes only
what `LocalOK` does not fix.

Of `RuntimeCheckpoint` (the instance `File`): `CheckpointTypes` without conditions.
`OwnershipIsNotLost`: native ownership that was durable once stays in the
checkpoint, the pending file or the table, through any number of crashes, failing
claims and import timeouts, provided no stage of `Start` and no file operation fails
(`MayFail = {}`; section 7 shows that this is needed). The invariant adds that a missing or
damaged checkpoint gives nothing, and `ImportCovers`: what the import has yet to do
is staged. `MemoryAgrees` (the memory names the owner in the table) needs a table that
can be reached, a condition in the property itself, and allows every other failure.

**CredentialStagesProofs.** `GrantsAreOneShot` (`OneShot`), `StagedTokensAreUnspent`
(`ReadyIsUnspent`), `TokensHaveOnePlace` (`TokensAreNotShared`, `EndedIsEmpty`) and the
action property `WorkingCredentialsAreKept` (`HealthyIsKept`), provided there is a stage
at all. `StagesInv` adds: the provider has issued every token in use (`Minted`); between
the claim of a stage and its end one handler works on it, and its status admits no
second claim (`ClaimedOnce`); a grant that was answered is in nobody's hands
(`Answered`); a token that a stage, a handler or a credential can still use is not spent (`Unspent`); a token
belongs to at most one stage, and to a credential only when its stage is consumed or
gone (`Apart`); a stage that has ended holds nothing (`Erased`). A token belongs to a
stage when the row holds it or a handler of the stage has read or received it; without
the handlers the invariant would not survive a claim that overlaps a cancellation.

**ControlOperationsProofs.** `TypeCorrect`, `RetriesAreSafe` (`AtMostOnce`),
`BarrierHolds` (`OneUnfinished`), `CompletionIsSeen` (`CompletedIsVisible`),
`SuccessIsWhole` (`AnsweredIsDone`), `NoSilentDivergence` (`DivergenceIsReported`).
`Inv` adds: memory is never ahead of the database; what a row has applied is in memory
(`RowOK`); a key has changed the database exactly when it has a row (`Once`); what the
holder of `writeMu` may rely on, by its goal and place (`JobOK`); and the reason for
every difference between memory and database: reported, a stage still to come of an
unfinished operation, or a step the current holder has yet to make (`Divergence`).

Checked with `tlapm <module>.tla`; the backends are Z3, Zenon and LS4.

## 7. Where code and documentation disagree

`failed_start` is a run that TLC finds violated: `src/runtime.go:82` calls `Stop` after a
failed `Start`, and `Stop` saves a checkpoint whether or not the old one was restored. A
start that fails in the migration, the bootstrap, the load or the recovery overwrites
the checkpoint with an empty one; the comment at
`internal/app/runtime_checkpoint.go:117-118` says that durable ownership must survive.

The models show more places where the code departs from what a comment, a test or a
message of the repository says. Where a run checks the property, its definition names the
departure as an exception that the run's instance reaches, and states exactly what holds
beside it. Paths are under `src/internal/`.

| property | the exception |
| --- | --- |
| `CredentialManager` `ServedIsDurable` | after a store whose success is hidden by an error, a retryable operator refresh publishes ready over the older entry (`subscription/credential_manager.go:498`); and the rows of the group are read under one account's stripe (:345), so that another account's entry can go back. :33-34 promises one durable version |
| `RegistryHealth` `RecoversWhatItTested` | a reload, or a change of the target and back, resets the failure generation (`state/registry.go:1049`), so that an old probe matches again; `gateway/handler_test.go:740` |
| `RegistryHealth` `NeverMoreThanDurable`, `BothSidesAgree` | a commit that is reported as failed (`storage/dbtx/transaction.go:227`) is compensated in the registry, or not applied to it, until the group is next written or reloaded; `control/credential_mutations.go:665-667` |
| `ControlOperations` `OperationsComplete` | an operation committed by a transaction that reports an error wakes no worker; it waits for another request or a restart |
| `UsageReports` `WindowIsExact`, `SeriesIsTrue` | the projection of rows leaves out unpriced requests billed per request without usage (`requestlog/usage_query_minute.go:57`), which `addRow` counts; :39 |
| `UsageReports` `CountedOncePerRequest` | such an answer beside an unpriced decision or review is counted twice |
| `UsageReports` `ActivityIsExact` | attempts of a search count in the partial hour only, which is read from rows |
| `UsageReports` `CompleteIsTrue` | rows deleted under a shorter retention are forgotten once it is raised (`requestlog/credential_window_usage.go:189`); `requestlog/group_usage.go:17` |
| `UsageReports` `ActivityCompleteIsTrue` | completeness is also computed before the read transaction (`requestlog/credential_activity.go:72`); `control/credentials.go:115` |
| `LogQueries` `WrittenIsReadable`, `GetReturnsTheReceipt` | a model that the redactor rewrites: the row's name is redacted, the receipt's is not, and the decoder refuses the pair (`requestlog/query.go:350`), with every page that holds it; :240 |
| `BifrostExecutor` `EventsAreWellFormed` | a stream without LF LF or CRLF CRLF under an alias: the rewriter's remainder is sent without Ready (`execution/bifrost/passthrough.go:659`); `execution/validation.go:226` |
| `BifrostExecutor` `ResultIsAccepted` | an error event in a 200 Cline stream: 502 in the error, 200 in the result (`execution/bifrost/cline_stream.go:179`); `execution/validation.go:313` |
| `AttemptLoop` `Balanced` | an attempt that ends as canceled is taken for the client's leaving, and a client that is still there gets no answer (`gateway/handler.go:1489`) |
| `NativeSession` `FinalEventArrives` | a refused event is acknowledged before the failure is recorded (`execution/wsnative/session.go:308`), so the turn may report the disconnection that follows instead |
| `LiveSessions` `NotAbandoned` | a call whose ID is missing or taken is hung up once and not again (`gateway/live.go:460`) |

Four statements are no runs; the instance given reproduces the violation with
`SPECIFICATION Spec` (`FairSpec` for the temporal one).

| definition | instance | disagreement |
| --- | --- | --- |
| `CredentialManager` `RegistryNeverRegresses` (`[][..]_vars`) | two accounts, `MaxVer` 3, no faults | as `ServedIsDurable`: another account's entry goes back (:345); :342-344 |
| `Affinity` `PolicyIsAtomic` | that of `stores` | a request of the old revision whose lookup follows the change stores a target whose group the new revision has switched off (`affinity/cache.go:93`); :72-74 |
| `ProviderRuntimes` `RetiredCredentialStops` | that of `endings` with `MaxReconciles` 2 | a publication during a lease clears the retirement (`execution/bifrost/runtime_manager.go:499`); :880-881 |
| `CredentialStages` `PollsKeepTheInterval` | one device stage, two processes, `MaxTime` 4 | the claim of a poll does not look at the next poll time (`control/credential_stages.go:1034`); :996-998 |

## 8. What is only model-checked

* Liveness under fairness (`EverythingSettles`, `EverythingEnds`, `EveryRequestEnds`,
  and the liveness part of `ImplementsSink`): out of the prover's reach.
* `ServedIsDurable` and `ResponsesReturn`, and `SharesAreFair` for weights that differ
  within the credentials of a group.
* The components without a proof module: `RateLimits`, `RpmStore`, `Affinity`,
  `RegistryHealth`, `AttemptLoop`, `ErrorJudge`, `StreamForward`, `BifrostExecutor`,
  `WebsocketConnection`, `NativeSession`, `UsageReports`, `LogQueries`. Several are functions of bounded data (the judge, the
  reports, the queries) for which enumeration is the natural check; the rest are
  candidates for proofs.

## 9. What is not modelled

Left out of modelled components: views and labels of the control API; expiry, index
capacity and a damaged pending file of the checkpoint; rankings, distributions, name
lookups and the retention of journals in the reports; 64-bit overflow of a total, the
encoding of cursors and the JSON layout in the queries (pages by number may repeat or
skip rows under concurrent writes); continuation parents, redaction and recorded details
of websocket turns; the callback listener, its pages and the parsing of import files;
what the executor builds for each provider, headers, usage values, the unary Cline
answer; failed writes of the gateway's final answer; the text that redaction restores.

In `BifrostExecutor` a first-byte gate that fires between `expired()` and `stop()` may be
reported as a cancellation; `CanceledHasACause` admits this race (`raced`).

Not modelled at all, with the reason in `PROJECT.json`: model rotation, passive quota
and quota history, byte-level stream rewriting and redaction, control authentication
and its limiter, other control-plane resources, payload conversion, request redaction
and audit, catalog and automodel, pricing, the release check, storage and migrations,
outbound proxies and provider adapters, the web UI, vendored code and tools.
