----------------------------- MODULE RequestLog -----------------------------
(***************************************************************************)
(* The asynchronous request log: internal/requestlog/service.go and        *)
(* worker.go.                                                              *)
(*                                                                         *)
(* Request handlers call Emit, which never blocks: it puts the event into  *)
(* a bounded channel or counts it as dropped.  One worker goroutine takes  *)
(* events out, collects a batch until it is full or a timer fires, writes  *)
(* it in one transaction and never retries it.  After each batch the same  *)
(* worker writes the access-key cost checkpoints that are dirty; a channel *)
(* of capacity one, quotaWake, tells it that there are some.  Stop asks    *)
(* the worker to drain the channel and waits, until the caller's context   *)
(* expires; then the worker is cancelled and drops what it has not tried.  *)
(*                                                                         *)
(* Events are counted, not told apart: no property depends on which event  *)
(* of a batch is which.  Whether an event can be mapped to a row and       *)
(* whether it is billed is chosen when its batch is written.               *)
(***************************************************************************)
EXTENDS Naturals, FiniteSets

CONSTANTS Rules,          \* cost-limit rules whose checkpoints the worker writes
          Callers,        \* callers of Stop
          QueueCapacity,  \* queueCapacity (4096)
          BatchSize,      \* batchSize (500), of events and of checkpoints
          MaxStat,        \* the largest value of an hourly counter (int64)
          MaxEvents,      \* bound: events emitted
          MaxMarks        \* bound: times a rule becomes dirty

ASSUME BoundsAssumption ==
  /\ QueueCapacity \in Nat \ {0}
  /\ BatchSize \in Nat \ {0}
  /\ {MaxStat, MaxEvents, MaxMarks} \subseteq Nat
  /\ IsFiniteSet(Rules)

VARIABLES
  state,       \* lifecycleState: "new", "running", "stopping", "stopped"
  cancelled,   \* the worker's context
  shutdownErr, \* "none", "timeout" or "checkpoint"
  caller,      \* per caller of Stop: "away", "waiting", or what Stop returned
  queue,       \* events in the channel
  worker,      \* [pc, batch, then, sent]: where it is, the events in hand, where
               \*   writeBatch returns to, the checkpoints being written
  count,       \* the totals of Stats
  db,          \* [logs, billed, usage]: rows, rows that are billed, hourly requests
  dirty,       \* rules with a checkpoint to write
  late,        \* the dirty rules that became so after Stop was called
  wake,        \* quotaWake holds its token
  notices,     \* notifyDirty calls under way: rule marked, channel not yet tried
  emitted, marks   \* used by the bounds

vars == <<state, cancelled, shutdownErr, caller, queue, worker, count, db,
          dirty, late, wake, notices, emitted, marks>>

stopVars  == <<state, cancelled, shutdownErr, caller>>
quotaVars == <<dirty, late, wake, notices, marks>>

-----------------------------------------------------------------------------
(* State and its initial value                                             *)

Counters == {"enqueued", "persisted", "notRunning", "queueFull", "stopping",
             "persistFailed", "shutdown"}

Steps   == {"none", "idle", "collect", "write", "flush", "ack", "drain", "quota", "exit"}
Returns == {"idle", "drain", "final", "quota"}
Workers == [pc : Steps, batch : 0 .. BatchSize, then : Returns, sent : SUBSET Rules]

TypeOK ==
  /\ state \in {"new", "running", "stopping", "stopped"}
  /\ cancelled \in BOOLEAN
  /\ shutdownErr \in {"none", "timeout", "checkpoint"}
  /\ caller \in [Callers -> {"away", "waiting", "none", "timeout", "checkpoint"}]
  /\ queue \in 0 .. QueueCapacity
  /\ worker \in Workers
  /\ count \in [Counters -> Nat]
  /\ db \in [logs : Nat, billed : Nat, usage : 0 .. MaxStat]
  /\ dirty \in SUBSET Rules /\ late \in SUBSET dirty
  /\ wake \in BOOLEAN
  /\ notices \in Nat /\ emitted \in 0 .. MaxEvents /\ marks \in 0 .. MaxMarks

\* NewService, after the quota runtime was restored: a restored rule may be dirty.
Init ==
  /\ state = "new" /\ cancelled = FALSE /\ shutdownErr = "none"
  /\ caller = [c \in Callers |-> "away"]
  /\ queue = 0
  /\ worker = [pc |-> "none", batch |-> 0, then |-> "idle", sent |-> {}]
  /\ count = [x \in Counters |-> 0]
  /\ db = [logs |-> 0, billed |-> 0, usage |-> 0]
  /\ dirty \in SUBSET Rules /\ late = {}
  /\ wake = FALSE /\ notices = 0
  /\ emitted = 0 /\ marks = 0

Counted(x, n) == [count EXCEPT ![x] = @ + n]

-----------------------------------------------------------------------------
(* Start, Emit, Stop: each holds stateMu                                   *)

Start(ok) ==
  /\ state = "new"
  /\ state' = IF ok THEN "running" ELSE "stopped"
  /\ worker' = [worker EXCEPT !.pc = IF ok THEN "idle" ELSE "none"]
  /\ wake' = (wake \/ (ok /\ dirty # {}))
  /\ UNCHANGED <<cancelled, shutdownErr, caller, queue, count, db, dirty, late,
                 notices, emitted, marks>>

Emit ==
  /\ emitted < MaxEvents
  /\ emitted' = emitted + 1
  /\ \/ state = "new" /\ count' = Counted("notRunning", 1) /\ UNCHANGED queue
     \/ state \in {"stopping", "stopped"} /\ count' = Counted("stopping", 1) /\ UNCHANGED queue
     \/ /\ state = "running" /\ queue < QueueCapacity
        /\ queue' = queue + 1 /\ count' = Counted("enqueued", 1)
     \/ /\ state = "running" /\ queue = QueueCapacity
        /\ count' = Counted("queueFull", 1) /\ UNCHANGED queue
  /\ UNCHANGED <<stopVars, quotaVars, worker, db>>

\* Stop up to the point where it waits for shutdownDone.
Stop(c) ==
  /\ caller[c] = "away"
  /\ \/ state = "new" /\ state' = "stopped" /\ caller' = [caller EXCEPT ![c] = "none"]
     \/ state = "running" /\ state' = "stopping" /\ caller' = [caller EXCEPT ![c] = "waiting"]
     \/ state = "stopping" /\ caller' = [caller EXCEPT ![c] = "waiting"] /\ UNCHANGED state
     \/ state = "stopped" /\ caller' = [caller EXCEPT ![c] = shutdownErr] /\ UNCHANGED state
  /\ UNCHANGED <<cancelled, shutdownErr, queue, worker, count, db, quotaVars, emitted>>

\* waitForShutdown sees shutdownDone closed.
ShutdownResult(c) ==
  /\ caller[c] = "waiting" /\ state = "stopped"
  /\ caller' = [caller EXCEPT ![c] = shutdownErr]
  /\ UNCHANGED <<state, cancelled, shutdownErr, queue, worker, count, db, quotaVars, emitted>>

\* waitForShutdown sees the caller's context expire first: cancelShutdown.
CancelShutdown(c) ==
  /\ caller[c] = "waiting" /\ state = "stopping"
  /\ shutdownErr' = IF shutdownErr = "none" THEN "timeout" ELSE shutdownErr
  /\ cancelled' = (cancelled \/ shutdownErr = "none")
  /\ caller' = [caller EXCEPT ![c] = shutdownErr']
  /\ UNCHANGED <<state, queue, worker, count, db, quotaVars, emitted>>

\* finishShutdown, started by the first Stop.
FinishShutdown ==
  /\ state = "stopping" /\ worker.pc = "exit"
  /\ state' = "stopped"
  /\ UNCHANGED <<cancelled, shutdownErr, caller, queue, worker, count, db, quotaVars, emitted>>

-----------------------------------------------------------------------------
(* The cost-limit runtime: it marks a rule dirty under its own lock and    *)
(* calls the notifier after releasing it.  A rule marked again while its   *)
(* checkpoint is being written stays dirty: Ack compares versions.         *)

MarkDirty(r) ==
  /\ marks < MaxMarks
  /\ marks' = marks + 1
  /\ dirty' = dirty \cup {r}
  /\ late' = IF state \in {"new", "running"} \/ r \in dirty THEN late ELSE late \cup {r}
  /\ worker' = [worker EXCEPT !.sent = @ \ {r}]
  /\ notices' = notices + 1
  /\ UNCHANGED <<stopVars, queue, count, db, wake, emitted>>

WakeAccessQuotaCheckpoint ==
  /\ notices > 0
  /\ notices' = notices - 1
  /\ wake' = TRUE
  /\ UNCHANGED <<stopVars, queue, worker, count, db, dirty, late, marks, emitted>>

-----------------------------------------------------------------------------
(* The worker goroutine: runWorker, collectAndWrite, drain, writeBatch     *)

At(step, n, return, sent) == [pc |-> step, batch |-> n, then |-> return, sent |-> sent]

Goes(step, n) == worker' = At(step, n, worker.then, worker.sent)
StopRequested == state \in {"stopping", "stopped"}

\* dropUnattempted, after which the worker returns.
Drop ==
  /\ count' = Counted("shutdown", worker.batch + queue)
  /\ queue' = 0
  /\ Goes("exit", 0)

\* runWorker's select.
Idle ==
  /\ worker.pc = "idle"
  /\ \/ cancelled /\ Drop /\ UNCHANGED wake
     \/ StopRequested /\ Goes("drain", 0) /\ UNCHANGED <<queue, count, wake>>
     \/ wake /\ wake' = FALSE /\ Goes("collect", 0) /\ UNCHANGED <<queue, count>>
     \/ queue > 0 /\ queue' = queue - 1 /\ Goes("collect", 1) /\ UNCHANGED <<count, wake>>
  /\ UNCHANGED <<stopVars, db, dirty, late, notices, marks, emitted>>

Writes(return) == worker' = At("write", worker.batch, return, worker.sent)

\* Mutant: no timer, a batch is written only when it is full.
CollectPatient ==
  /\ worker.pc = "collect" /\ worker.batch < BatchSize
  /\ \/ cancelled /\ Drop /\ UNCHANGED wake
     \/ StopRequested /\ Goes("drain", worker.batch) /\ UNCHANGED <<queue, count, wake>>
     \/ /\ queue > 0 /\ queue' = queue - 1
        /\ Goes("collect", worker.batch + 1) /\ UNCHANGED <<count, wake>>
     \/ wake /\ wake' = FALSE /\ UNCHANGED <<queue, count, worker>>
  /\ UNCHANGED <<stopVars, db, dirty, late, notices, marks, emitted>>

\* collectAndWrite's select; the timer may fire at any time.
Collect ==
  /\ worker.pc = "collect" /\ worker.batch < BatchSize
  /\ \/ cancelled /\ Drop /\ UNCHANGED wake
     \/ StopRequested /\ Goes("drain", worker.batch) /\ UNCHANGED <<queue, count, wake>>
     \/ /\ queue > 0 /\ queue' = queue - 1
        /\ Goes("collect", worker.batch + 1) /\ UNCHANGED <<count, wake>>
     \/ wake /\ wake' = FALSE /\ UNCHANGED <<queue, count, worker>>
     \/ Writes("idle") /\ UNCHANGED <<queue, count, wake>>
  /\ UNCHANGED <<stopVars, db, dirty, late, notices, marks, emitted>>

\* collectAndWrite after its loop.
CollectFull ==
  /\ worker.pc = "collect" /\ worker.batch = BatchSize
  /\ \/ cancelled /\ Drop
     \/ ~cancelled /\ Writes("idle") /\ UNCHANGED <<queue, count>>
  /\ UNCHANGED <<stopVars, db, quotaVars, emitted>>

\* One iteration of drain.  The runtime of cost limits is always installed, so
\* the last writeBatch is made with an empty batch too.
Drain ==
  /\ worker.pc = "drain"
  /\ \/ cancelled /\ Drop
     \/ /\ ~cancelled /\ worker.batch = BatchSize
        /\ Writes("drain") /\ UNCHANGED <<queue, count>>
     \/ /\ ~cancelled /\ worker.batch < BatchSize /\ queue > 0
        /\ queue' = queue - 1 /\ Goes("drain", worker.batch + 1) /\ UNCHANGED count
     \/ /\ ~cancelled /\ worker.batch < BatchSize /\ queue = 0
        /\ Writes("final") /\ UNCHANGED <<queue, count>>
  /\ UNCHANGED <<stopVars, db, quotaVars, emitted>>

\* checkedInt64Add, and the new hourly total applyUsageJournalBatch writes.
Fits(billed)    == db.usage + billed <= MaxStat
Applied(billed) == db.usage + billed

\* The transaction of WriteBatch: rows and hourly counters together; a counter
\* that would overflow fails it.
Commit(rows, billed) ==
  /\ Fits(billed)
  /\ db' = [logs |-> db.logs + rows, billed |-> db.billed + billed, usage |-> Applied(billed)]

\* Mutant: a failed transaction does not count its rows as dropped.
SettledQuietly(persisted, failed) ==
  count' = [count EXCEPT !["persisted"] = @ + persisted]

Settled(persisted, failed) ==
  count' = [count EXCEPT !["persisted"] = @ + persisted, !["persistFailed"] = @ + failed]

\* writeBatch up to the checkpoints.  broken events cannot be mapped to a row.
\* A commit whose answer is lost is reported as a failure although the rows
\* are stored; nothing is tried again.
WriteBatch(broken, billed) ==
  LET rows == worker.batch - broken IN
  /\ worker.pc = "write" /\ broken <= worker.batch /\ billed <= rows
  /\ \/ rows > 0 /\ Commit(rows, billed) /\ Settled(rows, broken)
     \/ rows > 0 /\ Commit(rows, billed) /\ Settled(0, broken + rows)
     \/ Settled(0, broken + rows) /\ UNCHANGED db
  /\ Goes("flush", 0)
  /\ UNCHANGED <<stopVars, queue, quotaVars, emitted>>

\* Where the worker goes once writeBatch (or a lone flush of drain) is over, with
\* the error of the flush.
AfterFlush(failed) ==
  /\ IF failed /\ worker.then \in {"final", "quota"}
     THEN shutdownErr' = (IF shutdownErr = "none" THEN "checkpoint" ELSE shutdownErr)
     ELSE UNCHANGED shutdownErr
  /\ LET step == IF worker.then \in {"idle", "drain"} THEN worker.then
                 ELSE IF failed THEN "exit" ELSE "quota"
     IN worker' = At(step, worker.batch, worker.then, {})

\* The observations and request-per-minute rows flushed after the checkpoints
\* may leave something pending, and then set the wake-up again.
Rewake(w) == wake' \in {w, w \/ worker.then # "quota"}

\* Mutant: a checkpoint batch that leaves more behind does not ask for another turn.
AckForgetsRest ==
  /\ worker.pc = "ack"
  /\ dirty' = dirty \ worker.sent /\ late' = late \ worker.sent
  /\ UNCHANGED wake
  /\ AfterFlush(FALSE)
  /\ UNCHANGED <<state, cancelled, caller, queue, count, db, notices, marks, emitted>>

\* flushAccessQuotaCheckpoints: DirtySnapshots copies at most a batch.
FlushAccessQuotaCheckpoints ==
  /\ worker.pc = "flush"
  /\ \/ /\ dirty = {} /\ AfterFlush(FALSE) /\ Rewake(wake)
     \/ \E sent \in SUBSET dirty :
          /\ sent # {} /\ Cardinality(sent) <= BatchSize
          /\ sent = dirty \/ Cardinality(sent) = BatchSize
          /\ worker' = At("ack", worker.batch, worker.then, sent)
          /\ UNCHANGED <<shutdownErr, wake>>
  /\ UNCHANGED <<state, cancelled, caller, queue, count, db, dirty, late, notices, marks, emitted>>

\* WriteSnapshots succeeded: Ack, and another turn if something is still dirty.
AckSnapshots ==
  /\ worker.pc = "ack"
  /\ dirty' = dirty \ worker.sent /\ late' = late \ worker.sent
  /\ Rewake(wake \/ dirty' # {})
  /\ AfterFlush(FALSE)
  /\ UNCHANGED <<state, cancelled, caller, queue, count, db, notices, marks, emitted>>

\* WriteSnapshots failed: everything stays dirty.
SnapshotsFail ==
  /\ worker.pc = "ack"
  /\ wake' = TRUE
  /\ AfterFlush(TRUE)
  /\ UNCHANGED <<state, cancelled, caller, queue, count, db, dirty, late, notices, marks, emitted>>

\* Mutant: drain returns after its last writeBatch.
DrainQuotasOnce ==
  /\ worker.pc = "quota"
  /\ worker' = [worker EXCEPT !.pc = "exit"]
  /\ UNCHANGED <<stopVars, queue, count, db, quotaVars, emitted>>

\* The last loop of drain.
DrainQuotas ==
  /\ worker.pc = "quota"
  /\ worker' = IF dirty = {} \/ cancelled
               THEN [worker EXCEPT !.pc = "exit"]
               ELSE At("flush", worker.batch, "quota", worker.sent)
  /\ UNCHANGED <<stopVars, queue, count, db, quotaVars, emitted>>

-----------------------------------------------------------------------------

Work ==
  \/ Idle \/ Collect \/ CollectFull \/ Drain
  \/ \E broken, billed \in 0 .. BatchSize : WriteBatch(broken, billed)
  \/ FlushAccessQuotaCheckpoints \/ AckSnapshots \/ SnapshotsFail \/ DrainQuotas

\* A stopped service whose callers all have their answer stays as it is.
Over ==
  /\ state = "stopped" /\ \A c \in Callers : caller[c] # "waiting"
  /\ UNCHANGED vars

Next ==
  \/ \E ok \in BOOLEAN : Start(ok)
  \/ Emit
  \/ \E c \in Callers : Stop(c) \/ ShutdownResult(c) \/ CancelShutdown(c)
  \/ FinishShutdown
  \/ \E r \in Rules : MarkDirty(r)
  \/ WakeAccessQuotaCheckpoint
  \/ Work
  \/ Over

Spec == Init /\ [][Next]_vars

(* The scheduler runs the worker; a select among ready cases picks one at  *)
(* random, so a case that is ready again and again is picked; a database   *)
(* that is asked again and again answers.                                  *)
TakesEvent == (Idle \/ Collect) /\ queue' = queue - 1
HearsStop  == (Idle \/ Collect) /\ worker'.pc \in {"drain", "exit"}

Fairness ==
  /\ WF_vars(Work) /\ SF_vars(TakesEvent) /\ SF_vars(HearsStop) /\ SF_vars(AckSnapshots)
  /\ WF_vars(WakeAccessQuotaCheckpoint) /\ WF_vars(FinishShutdown)
  /\ \A c \in Callers : WF_vars(ShutdownResult(c))

FairSpec == Spec /\ Fairness

-----------------------------------------------------------------------------
(* Properties                                                              *)

\* Every event handed to Emit is in exactly one place: waiting, in the worker's
\* hands, or in one of the totals Stats reports, through batches that fail in
\* part, a drain, and a shutdown cut short.
Accounted ==
  /\ count["enqueued"] = queue + worker.batch + count["persisted"]
                         + count["persistFailed"] + count["shutdown"]
  /\ emitted = count["enqueued"] + count["notRunning"] + count["queueFull"] + count["stopping"]

\* Once the worker has returned, by whichever path, no event is stranded in the
\* channel: Emit and Stop exclude each other on stateMu.
NothingStranded ==
  worker.pc = "exit" => queue = 0 /\ worker.batch = 0 /\ state # "running"

\* If Stop of a started service returns nil, to any caller, then no accepted
\* event was dropped for lack of time and every checkpoint that was dirty when
\* Stop was called has been written.
StopMeansDrained ==
  \A c \in Callers :
    caller[c] = "none" /\ worker.pc # "none" =>
      /\ worker.pc = "exit" /\ queue = 0 /\ count["shutdown"] = 0
      /\ dirty \subseteq late

\* No lost wake-up: a worker waiting in its select with a checkpoint to write
\* has the token in quotaWake, or the call that will put it there is under way.
NoLostWake ==
  worker.pc = "idle" /\ dirty # {} => wake \/ notices > 0

\* What the totals say of the database: a row counted as persisted is stored, a
\* stored row was counted as persisted or (its answer lost) as failed, and the
\* hourly totals count exactly the stored rows that are billed.
StoreAgrees ==
  /\ count["persisted"] <= db.logs
  /\ db.logs <= count["persisted"] + count["persistFailed"]
  /\ db.usage = db.billed

\* A caller of Stop gets an answer even if its own context never expires.
StopReturns ==
  \A c \in Callers : caller[c] = "waiting" ~> caller[c] # "waiting"

\* A dirty checkpoint of a running service is written in the end, without
\* further traffic.
CheckpointsAreWritten ==
  \A r \in Rules : (state = "running" /\ r \in dirty) ~> (state # "running" \/ r \notin dirty)

\* The log implements the abstract sink: enqueued events are settled exactly
\* once and none stays unsettled for ever.
Sink == INSTANCE EventSink WITH
  phase    <- IF state = "new" THEN "new" ELSE IF state = "running" THEN "open" ELSE "closed",
  accepted <- count["enqueued"],
  kept     <- count["persisted"],
  lost     <- count["persistFailed"] + count["shutdown"]

ImplementsSink == Sink!Spec
=============================================================================
