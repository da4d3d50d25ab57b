---------------------------- MODULE ProcessProofs ----------------------------
(***************************************************************************)
(* Proofs about what the gateway process keeps while it runs, and about    *)
(* its end.                                                                *)
(*                                                                         *)
(* RequestLog, for every number of rules, callers and events and every     *)
(* capacity.  The inductive invariant adds to the properties what each     *)
(* step of the worker may rely on (Stage), what is true of a shutdown that *)
(* has an error or not (Ending), and who may have been answered            *)
(* (Answered).                                                             *)
(*                                                                         *)
(* Shutdown (instance Down), for every finite set of requests: the count   *)
(* of the coordinator, the cancellation of every handler, and the quiet    *)
(* end of a stop without errors.                                           *)
(***************************************************************************)
EXTENDS RequestLog, Integers, TLAPS

-----------------------------------------------------------------------------
(* RequestLog *)

pc   == worker.pc
then == worker.then

\* Where the worker can be in each phase of the service, and what it holds.
Stage ==
  /\ state = "new" => pc = "none" /\ shutdownErr = "none"
  /\ pc = "none" => state \in {"new", "stopped"} /\ queue = 0
  /\ state = "stopped" => pc \in {"none", "exit"}
  /\ pc \in {"drain", "quota", "exit"} => state \in {"stopping", "stopped"}
  /\ pc \in {"write", "flush", "ack"} /\ then # "idle" => state = "stopping"
  /\ pc \notin {"collect", "write", "drain"} => worker.batch = 0
  /\ pc \in {"quota", "exit"} => queue = 0
  /\ pc \in {"write", "flush", "ack"} /\ then \in {"final", "quota"} => queue = 0

\* A shutdown without an error has cut nothing short.
Ending ==
  /\ cancelled => shutdownErr # "none" /\ state \in {"stopping", "stopped"}
  /\ shutdownErr = "none" => count["shutdown"] = 0
  /\ pc = "exit" /\ shutdownErr = "none" => dirty \subseteq late

\* Stop returns nil only at the end of a shutdown without an error.
Answered ==
  \A c \in Callers : caller[c] = "none" => state = "stopped" /\ shutdownErr = "none"

Inv ==
  /\ TypeOK /\ Accounted /\ StoreAgrees /\ NoLostWake
  /\ Stage /\ Ending /\ Answered

USE DEF pc, then, At

\* NewService starts in the invariant.
LEMMA InitInv == Init => Inv
<1> SUFFICES ASSUME Init PROVE Inv
  OBVIOUS
<1>1. TypeOK
  <2>1. 0 \in 0 .. QueueCapacity /\ 0 \in 0 .. BatchSize /\ 0 \in 0 .. MaxStat
        /\ 0 \in 0 .. MaxEvents /\ 0 \in 0 .. MaxMarks
    BY BoundsAssumption
  <2>2. /\ worker \in Workers
        /\ db \in [logs : Nat, billed : Nat, usage : 0 .. MaxStat]
        /\ count \in [Counters -> Nat]
    BY <2>1 DEF Init, Steps, Returns, Workers
  <2> QED
    BY <2>1, <2>2, Zenon DEF Init, TypeOK
<1>2. Accounted /\ StoreAgrees /\ NoLostWake
  BY DEF Init, Accounted, StoreAgrees, NoLostWake, Counters
<1>3. Stage /\ Ending /\ Answered
  BY DEF Init, Stage, Ending, Answered, Counters
<1> QED
  BY <1>1, <1>2, <1>3 DEF Inv

\* Adding to one total leaves the others alone.
LEMMA CountedFacts ==
  ASSUME count \in [Counters -> Nat], NEW x \in Counters, NEW n \in Nat
  PROVE  /\ Counted(x, n) \in [Counters -> Nat]
         /\ Counted(x, n)[x] = count[x] + n
         /\ \A y \in Counters : y # x => Counted(x, n)[y] = count[y]
  BY DEF Counted

\* Start leaves the invariant intact, whether it succeeds or not.
LEMMA StartKeepsInv ==
  ASSUME Inv, NEW ok \in BOOLEAN, Start(ok)
  PROVE  Inv'
<1> USE DEF stopVars, quotaVars
<1>1. TypeOK'
  BY DEF Inv, Stage, Start, TypeOK, Counters, Steps, Returns, Workers
<1>2. Accounted'
  BY DEF Inv, Stage, Start, TypeOK, Accounted, Steps, Returns, Workers
<1>3. StoreAgrees'
  BY DEF Inv, Stage, Start, TypeOK, StoreAgrees
<1>4. NoLostWake'
  BY DEF Inv, Stage, Start, TypeOK, NoLostWake
<1>5. Stage'
  BY DEF Inv, Stage, Start, TypeOK, Counters, Steps, Returns, Workers
<1>6. Ending'
  BY DEF Inv, Stage, Ending, Start, TypeOK, Steps, Returns, Workers
<1>7. Answered'
  BY DEF Inv, Stage, Ending, Start, TypeOK, Answered
<1> QED
  BY <1>1, <1>2, <1>3, <1>4, <1>5, <1>6, <1>7 DEF Inv

\* Emit puts an event into the channel of a running service only.
LEMMA EmitKeepsInv ==
  ASSUME Inv, Emit
  PROVE  Inv'
<1> USE DEF stopVars, quotaVars
<1>1. TypeOK'
  BY BoundsAssumption DEF Inv, Stage, Emit, Counted, TypeOK
<1>2. Accounted'
  BY DEF Inv, Emit, Counted, TypeOK, Accounted, Counters, Workers
<1>3. StoreAgrees'
  BY DEF Inv, Stage, Emit, Counted, TypeOK, StoreAgrees, Counters
<1>4. NoLostWake'
  BY DEF Inv, Stage, Emit, Counted, TypeOK, NoLostWake
<1>5. Stage'
  BY DEF Inv, Stage, Emit, Counted, TypeOK, Steps, Returns, Workers
<1>6. Ending'
  BY DEF Inv, Stage, Ending, Emit, Counted, TypeOK, Counters
<1>7. Answered'
  BY DEF Inv, Stage, Ending, Emit, Counted, TypeOK, Answered
<1> QED
  BY <1>1, <1>2, <1>3, <1>4, <1>5, <1>6, <1>7 DEF Inv

\* Callers of Stop begin, end and cut short a shutdown.
LEMMA StopKeepsInv ==
  ASSUME Inv, NEW c \in Callers, Stop(c) \/ ShutdownResult(c) \/ CancelShutdown(c)
  PROVE  Inv'
<1> USE DEF stopVars, quotaVars
<1>1. TypeOK'
  BY Zenon DEF Inv, Stage, Stop, ShutdownResult, CancelShutdown, TypeOK
<1>2. Accounted'
  BY DEF Inv, Stage, Stop, ShutdownResult, CancelShutdown, Accounted
<1>3. StoreAgrees'
  BY DEF Inv, Stage, Stop, ShutdownResult, CancelShutdown, StoreAgrees
<1>4. NoLostWake'
  BY DEF Inv, Stage, Stop, ShutdownResult, CancelShutdown, NoLostWake
<1>5. Stage'
  BY DEF Inv, Stage, Stop, ShutdownResult, CancelShutdown, TypeOK
<1>6. Ending'
  BY DEF Inv, Stage, Ending, Stop, ShutdownResult, CancelShutdown
<1>7. Answered'
  BY DEF Inv, Stage, Stop, ShutdownResult, CancelShutdown, TypeOK, Answered
<1> QED
  BY <1>1, <1>2, <1>3, <1>4, <1>5, <1>6, <1>7 DEF Inv

\* finishShutdown follows the return of the worker.
LEMMA FinishKeepsInv ==
  ASSUME Inv, FinishShutdown
  PROVE  Inv'
<1> USE DEF stopVars, quotaVars
<1>1. TypeOK'
  BY DEF Inv, Stage, FinishShutdown, TypeOK, Steps, Returns, Workers
<1>2. Accounted'
  BY DEF Inv, Stage, FinishShutdown, TypeOK, Accounted
<1>3. StoreAgrees'
  BY DEF Inv, Stage, FinishShutdown, TypeOK, StoreAgrees
<1>4. NoLostWake'
  BY DEF Inv, Stage, FinishShutdown, TypeOK, NoLostWake
<1>5. Stage'
  BY DEF Inv, Stage, FinishShutdown, TypeOK, Steps, Returns, Workers
<1>6. Ending'
  BY DEF Inv, Stage, Ending, FinishShutdown, TypeOK
<1>7. Answered'
  BY DEF Inv, Stage, Ending, FinishShutdown, TypeOK, Answered
<1> QED
  BY <1>1, <1>2, <1>3, <1>4, <1>5, <1>6, <1>7 DEF Inv

\* The quota runtime marks a rule dirty.
LEMMA MarkKeepsInv ==
  ASSUME Inv, NEW r \in Rules, MarkDirty(r)
  PROVE  Inv'
<1> USE DEF stopVars, quotaVars
<1>1. TypeOK'
  BY BoundsAssumption DEF Inv, Stage, MarkDirty, TypeOK, Workers
<1>2. Accounted'
  BY DEF Inv, Stage, MarkDirty, TypeOK, Accounted
<1>3. StoreAgrees'
  BY DEF Inv, Stage, MarkDirty, TypeOK, StoreAgrees
<1>4. NoLostWake'
  BY DEF Inv, Stage, MarkDirty, TypeOK, NoLostWake
<1>5. Stage'
  BY DEF Inv, Stage, MarkDirty, TypeOK, Steps, Returns, Workers
<1>6. Ending'
  BY DEF Inv, Stage, Ending, MarkDirty, TypeOK
<1>7. Answered'
  BY DEF Inv, Stage, Ending, MarkDirty, TypeOK, Answered
<1> QED
  BY <1>1, <1>2, <1>3, <1>4, <1>5, <1>6, <1>7 DEF Inv

\* The notifier puts the token into quotaWake.
LEMMA WakeKeepsInv ==
  ASSUME Inv, WakeAccessQuotaCheckpoint
  PROVE  Inv'
<1> USE DEF stopVars, quotaVars
<1>1. TypeOK'
  BY DEF Inv, Stage, WakeAccessQuotaCheckpoint, TypeOK
<1>2. Accounted'
  BY DEF Inv, Stage, WakeAccessQuotaCheckpoint, TypeOK, Accounted
<1>3. StoreAgrees'
  BY DEF Inv, Stage, WakeAccessQuotaCheckpoint, TypeOK, StoreAgrees
<1>4. NoLostWake'
  BY DEF Inv, Stage, WakeAccessQuotaCheckpoint, TypeOK, NoLostWake
<1>5. Stage'
  BY DEF Inv, Stage, WakeAccessQuotaCheckpoint, TypeOK
<1>6. Ending'
  BY DEF Inv, Stage, Ending, WakeAccessQuotaCheckpoint, TypeOK
<1>7. Answered'
  BY DEF Inv, Stage, Ending, WakeAccessQuotaCheckpoint, Answered
<1> QED
  BY <1>1, <1>2, <1>3, <1>4, <1>5, <1>6, <1>7 DEF Inv

\* dropUnattempted: everything in hand and in the channel becomes one total.
LEMMA DropKeepsInv ==
  ASSUME Inv, cancelled, pc \in {"idle", "collect", "drain"},
         Drop, UNCHANGED <<stopVars, db, quotaVars, emitted>>
  PROVE  Inv'
<1> USE DEF stopVars, quotaVars
<1> DEFINE n == worker.batch + queue
<1>a. n \in Nat /\ count \in [Counters -> Nat] /\ "shutdown" \in Counters
  BY BoundsAssumption DEF Inv, TypeOK, Counters, Workers
<1>b. /\ count' \in [Counters -> Nat]
      /\ count'["shutdown"] = count["shutdown"] + n
      /\ \A y \in Counters : y # "shutdown" => count'[y] = count[y]
  BY <1>a, CountedFacts DEF Drop
<1>c. /\ queue' = 0
      /\ worker'.pc = "exit" /\ worker'.batch = 0 /\ worker'.then = worker.then
      /\ worker' \in Workers
  BY BoundsAssumption DEF Drop, Goes, Inv, TypeOK, Steps, Returns, Workers
<1>1. TypeOK'
  BY <1>a, <1>b, <1>c, BoundsAssumption DEF Inv, Stage, Ending, TypeOK
<1>2. Accounted'
  <2>1. \A x \in Counters : count[x] \in Nat
    BY <1>a
  <2>2. worker.batch \in Nat /\ queue \in Nat /\ emitted' = emitted
    BY BoundsAssumption DEF Inv, TypeOK, Workers
  <2>3. \A y \in Counters \ {"shutdown"} : count'[y] = count[y]
    BY <1>b
  <2> QED
    BY <2>1, <2>2, <2>3, <1>b, <1>c DEF Inv, Accounted, Counters
<1>3. StoreAgrees'
  BY <1>a, <1>b, <1>c, BoundsAssumption DEF Inv, StoreAgrees, Counters
<1>4. NoLostWake'
  BY <1>a, <1>b, <1>c, BoundsAssumption DEF Inv, Ending, NoLostWake
<1>5. Stage'
  BY <1>a, <1>b, <1>c, BoundsAssumption DEF Inv, Stage, Ending, TypeOK
<1>6. Ending'
  BY <1>a, <1>b, <1>c, BoundsAssumption DEF Inv, Stage, Ending, TypeOK
<1>7. Answered'
  BY <1>a, <1>b, <1>c, BoundsAssumption DEF Inv, Ending, Answered
<1> QED
  BY <1>1, <1>2, <1>3, <1>4, <1>5, <1>6, <1>7 DEF Inv

\* The select of runWorker.
LEMMA IdleKeepsInv ==
  ASSUME Inv, Idle
  PROVE  Inv'
<1> USE DEF stopVars, quotaVars
<1>1. CASE cancelled /\ Drop /\ UNCHANGED wake
  BY <1>1, DropKeepsInv DEF Idle
<1>2. CASE ~(cancelled /\ Drop /\ UNCHANGED wake)
  <2>a. queue \in 0 .. QueueCapacity /\ worker.batch \in 0 .. BatchSize
        /\ QueueCapacity \in Nat /\ BatchSize \in Nat \ {0}
        /\ worker \in Workers
    BY BoundsAssumption DEF Inv, TypeOK, Workers
  <2>b. queue' \in 0 .. QueueCapacity /\ count' = count
    BY <1>2, <2>a DEF Idle
  <2>c. worker' \in Workers
    BY <1>2, <2>a DEF Idle, Goes, Steps, Returns, Workers
  <2>d. queue' + worker'.batch = queue + worker.batch
    BY <1>2, <2>a DEF Idle, Goes, Writes, StopRequested, Inv, Stage
  <2>1. TypeOK'
    BY <1>2, <2>b, <2>c, Zenon DEF Idle, Inv, TypeOK
  <2>2. Accounted'
    <3>1. \A x \in Counters : count[x] \in Nat
      BY DEF Inv, TypeOK
    <3>2. worker'.batch \in Nat /\ queue' \in Nat /\ emitted' = emitted
      BY <2>b, <2>c, <2>a DEF Idle, Workers
    <3> QED
      BY <2>a, <2>b, <2>d, <3>1, <3>2 DEF Inv, Accounted, Counters
  <2>3. StoreAgrees'
    BY <1>2 DEF Inv, Idle, Goes, Writes, StopRequested, StoreAgrees
  <2>4. NoLostWake'
    BY <1>2 DEF Inv, Idle, Goes, Writes, StopRequested, NoLostWake
  <2>5. Stage'
    BY <1>2 DEF Inv, Stage, Idle, Goes, Writes, StopRequested, TypeOK
  <2>6. Ending'
    BY <1>2 DEF Inv, Stage, Ending, Idle, Goes, Writes, StopRequested
  <2>7. Answered'
    BY <1>2 DEF Inv, Idle, Goes, Writes, StopRequested, Answered
  <2> QED
    BY <2>1, <2>2, <2>3, <2>4, <2>5, <2>6, <2>7 DEF Inv
<1> QED
  BY <1>1, <1>2 DEF Idle

\* The select of collectAndWrite.
LEMMA CollectKeepsInv ==
  ASSUME Inv, Collect
  PROVE  Inv'
<1> USE DEF stopVars, quotaVars
<1>1. CASE cancelled /\ Drop /\ UNCHANGED wake
  BY <1>1, DropKeepsInv DEF Collect
<1>2. CASE ~(cancelled /\ Drop /\ UNCHANGED wake)
  <2>a. queue \in 0 .. QueueCapacity /\ worker.batch \in 0 .. BatchSize
        /\ QueueCapacity \in Nat /\ BatchSize \in Nat \ {0}
        /\ worker \in Workers
    BY BoundsAssumption DEF Inv, TypeOK, Workers
  <2>b. queue' \in 0 .. QueueCapacity /\ count' = count
    BY <1>2, <2>a DEF Collect
  <2>c. worker' \in Workers
    BY <1>2, <2>a DEF Collect, Goes, Writes, Steps, Returns, Workers
  <2>d. queue' + worker'.batch = queue + worker.batch
    BY <1>2, <2>a DEF Collect, Goes, Writes, StopRequested, Inv, Stage
  <2>1. TypeOK'
    BY <1>2, <2>b, <2>c, Zenon DEF Collect, Inv, TypeOK
  <2>2. Accounted'
    <3>1. \A x \in Counters : count[x] \in Nat
      BY DEF Inv, TypeOK
    <3>2. worker'.batch \in Nat /\ queue' \in Nat /\ emitted' = emitted
      BY <2>b, <2>c, <2>a DEF Collect, Workers
    <3> QED
      BY <2>a, <2>b, <2>d, <3>1, <3>2 DEF Inv, Accounted, Counters
  <2>3. StoreAgrees'
    BY <1>2 DEF Inv, Collect, Goes, Writes, StopRequested, StoreAgrees
  <2>4. NoLostWake'
    BY <1>2 DEF Inv, Collect, Goes, Writes, StopRequested, NoLostWake
  <2>5. Stage'
    BY <1>2 DEF Inv, Stage, Collect, Goes, Writes, StopRequested
  <2>6. Ending'
    BY <1>2 DEF Inv, Ending, Collect, Goes, Writes, StopRequested
  <2>7. Answered'
    BY <1>2 DEF Inv, Collect, Goes, Writes, StopRequested, Answered
  <2> QED
    BY <2>1, <2>2, <2>3, <2>4, <2>5, <2>6, <2>7 DEF Inv
<1> QED
  BY <1>1, <1>2 DEF Collect

\* collectAndWrite with a full batch.
LEMMA CollectFullKeepsInv ==
  ASSUME Inv, CollectFull
  PROVE  Inv'
<1> USE DEF stopVars, quotaVars
<1>1. CASE cancelled /\ Drop
  BY <1>1, DropKeepsInv DEF CollectFull
<1>2. CASE ~(cancelled /\ Drop)
  <2>1. TypeOK'
    BY <1>2 DEF Inv, CollectFull, Writes, TypeOK, Steps, Returns, Workers
  <2>2. Accounted'
    BY <1>2 DEF Inv, CollectFull, Goes, Writes, Accounted
  <2>3. StoreAgrees'
    BY <1>2 DEF Inv, CollectFull, Goes, StopRequested, StoreAgrees
  <2>4. NoLostWake'
    BY <1>2 DEF Inv, CollectFull, Goes, Writes, NoLostWake
  <2>5. Stage'
    BY <1>2 DEF Inv, Stage, CollectFull, Goes, Writes, StopRequested
  <2>6. Ending'
    BY <1>2 DEF Inv, Ending, CollectFull, Goes, Writes, StopRequested
  <2>7. Answered'
    BY <1>2 DEF Inv, CollectFull, Goes, StopRequested, Answered
  <2> QED
    BY <2>1, <2>2, <2>3, <2>4, <2>5, <2>6, <2>7 DEF Inv
<1> QED
  BY <1>1, <1>2 DEF CollectFull

\* One iteration of drain.
LEMMA DrainKeepsInv ==
  ASSUME Inv, Drain
  PROVE  Inv'
<1> USE DEF stopVars, quotaVars
<1>1. CASE cancelled /\ Drop
  BY <1>1, DropKeepsInv DEF Drain
<1>2. CASE ~(cancelled /\ Drop)
  <2>a. queue \in 0 .. QueueCapacity /\ worker.batch \in 0 .. BatchSize
        /\ QueueCapacity \in Nat /\ BatchSize \in Nat \ {0}
        /\ worker \in Workers
    BY BoundsAssumption DEF Inv, TypeOK, Workers
  <2>b. queue' \in 0 .. QueueCapacity /\ count' = count
    BY <1>2, <2>a DEF Drain
  <2>c. worker' \in Workers
    BY <1>2, <2>a DEF Drain, Goes, Writes, Steps, Returns, Workers
  <2>d. queue' + worker'.batch = queue + worker.batch
    BY <1>2, <2>a DEF Drain, Goes, Writes, StopRequested, Inv, Stage
  <2>1. TypeOK'
    BY <1>2, <2>b, <2>c DEF Drain, Inv, TypeOK
  <2>2. Accounted'
    <3>1. \A x \in Counters : count[x] \in Nat
      BY DEF Inv, TypeOK
    <3>2. worker'.batch \in Nat /\ queue' \in Nat /\ emitted' = emitted
      BY <2>b, <2>c, <2>a DEF Drain, Workers
    <3> QED
      BY <2>a, <2>b, <2>d, <3>1, <3>2 DEF Inv, Accounted, Counters
  <2>3. StoreAgrees'
    BY <1>2 DEF Inv, Drain, Goes, Writes, StopRequested, StoreAgrees
  <2>4. NoLostWake'
    BY <1>2 DEF Inv, Drain, Goes, Writes, StopRequested, NoLostWake
  <2>5. Stage'
    BY <1>2 DEF Inv, Stage, Drain, Goes, Writes, StopRequested, TypeOK
  <2>6. Ending'
    BY <1>2 DEF Inv, Stage, Ending, Drain, Goes, Writes, StopRequested
  <2>7. Answered'
    BY <1>2 DEF Inv, Drain, Goes, Writes, StopRequested, Answered
  <2> QED
    BY <2>1, <2>2, <2>3, <2>4, <2>5, <2>6, <2>7 DEF Inv
<1> QED
  BY <1>1, <1>2 DEF Drain

\* The transaction of a batch, whatever becomes of it.
LEMMA WriteKeepsInv ==
  ASSUME Inv, NEW broken \in 0 .. BatchSize, NEW billed \in 0 .. BatchSize,
         WriteBatch(broken, billed)
  PROVE  Inv'
<1> USE DEF stopVars, quotaVars
<1>1. TypeOK'
  BY BoundsAssumption DEF Inv, WriteBatch, Commit, Fits, Applied, Settled, Goes, TypeOK,
     Steps, Returns, Workers
<1>2. Accounted'
  BY DEF Inv, WriteBatch, Settled, Goes, TypeOK, Accounted, Counters, Workers
<1>3. StoreAgrees'
  BY DEF Inv, WriteBatch, Commit, Applied, Settled, TypeOK, StoreAgrees, Counters, Workers
<1>4. NoLostWake'
  BY DEF Inv, WriteBatch, Fits, Applied, Settled, Goes, NoLostWake
<1>5. Stage'
  BY DEF Inv, Stage, WriteBatch, Commit, Fits, Applied, Settled, Goes
<1>6. Ending'
  BY DEF Inv, Ending, WriteBatch, Settled, Goes, TypeOK, Counters
<1>7. Answered'
  BY DEF Inv, WriteBatch, Commit, Fits, Applied, Settled, Answered
<1> QED
  BY <1>1, <1>2, <1>3, <1>4, <1>5, <1>6, <1>7 DEF Inv

\* The checkpoints to write are chosen.
LEMMA FlushKeepsInv ==
  ASSUME Inv, FlushAccessQuotaCheckpoints
  PROVE  Inv'
<1> USE DEF stopVars, quotaVars
<1>1. TypeOK'
  <2>1. worker' \in Workers
    BY DEF Inv, FlushAccessQuotaCheckpoints, AfterFlush, TypeOK, Steps, Returns, Workers
  <2>2. wake' \in BOOLEAN
    BY Zenon DEF Inv, FlushAccessQuotaCheckpoints, Rewake, TypeOK
  <2>3. shutdownErr' \in {"none", "timeout", "checkpoint"}
    BY DEF Inv, FlushAccessQuotaCheckpoints, AfterFlush, TypeOK
  <2> QED
    BY <2>1, <2>2, <2>3 DEF Inv, FlushAccessQuotaCheckpoints, TypeOK
<1>2. Accounted'
  BY DEF Inv, FlushAccessQuotaCheckpoints, AfterFlush, Accounted
<1>3. StoreAgrees'
  BY DEF Inv, FlushAccessQuotaCheckpoints, AfterFlush, StoreAgrees
<1>4. NoLostWake'
  BY DEF Inv, FlushAccessQuotaCheckpoints, AfterFlush, NoLostWake
<1>5. Stage'
  BY DEF Inv, Stage, FlushAccessQuotaCheckpoints, AfterFlush, TypeOK, Steps, Returns, Workers
<1>6. Ending'
  BY DEF Inv, Ending, FlushAccessQuotaCheckpoints, AfterFlush, Rewake
<1>7. Answered'
  BY DEF Inv, FlushAccessQuotaCheckpoints, AfterFlush, Answered
<1> QED
  BY <1>1, <1>2, <1>3, <1>4, <1>5, <1>6, <1>7 DEF Inv

\* The checkpoints are acknowledged.
LEMMA AckKeepsInv ==
  ASSUME Inv, AckSnapshots
  PROVE  Inv'
<1> USE DEF stopVars, quotaVars
<1>1. TypeOK'
  BY Zenon DEF Inv, AckSnapshots, AfterFlush, Rewake, TypeOK, Steps, Returns, Workers
<1>2. Accounted'
  BY DEF Inv, Stage, AckSnapshots, AfterFlush, Rewake, Accounted
<1>3. StoreAgrees'
  BY DEF Inv, Stage, AckSnapshots, AfterFlush, Rewake, StoreAgrees
<1>4. NoLostWake'
  BY Zenon DEF Inv, Stage, AckSnapshots, AfterFlush, Rewake, NoLostWake
<1>5. Stage'
  BY DEF Inv, Stage, AckSnapshots, AfterFlush, TypeOK, Steps, Returns, Workers
<1>6. Ending'
  BY DEF Inv, Stage, Ending, AckSnapshots, AfterFlush, Rewake, TypeOK
<1>7. Answered'
  BY DEF Inv, Ending, AckSnapshots, AfterFlush, Rewake, Answered
<1> QED
  BY <1>1, <1>2, <1>3, <1>4, <1>5, <1>6, <1>7 DEF Inv

\* The checkpoints could not be written.
LEMMA FailKeepsInv ==
  ASSUME Inv, SnapshotsFail
  PROVE  Inv'
<1> USE DEF stopVars, quotaVars
<1>1. TypeOK'
  BY DEF Inv, SnapshotsFail, AfterFlush, TypeOK, Steps, Returns, Workers
<1>2. Accounted'
  BY DEF Inv, Stage, SnapshotsFail, AfterFlush, Rewake, Accounted
<1>3. StoreAgrees'
  BY DEF Inv, Stage, SnapshotsFail, AfterFlush, Rewake, StoreAgrees
<1>4. NoLostWake'
  BY DEF Inv, Stage, SnapshotsFail, AfterFlush, Rewake, NoLostWake
<1>5. Stage'
  BY DEF Inv, Stage, SnapshotsFail, AfterFlush, TypeOK, Steps, Returns, Workers
<1>6. Ending'
  BY DEF Inv, Ending, SnapshotsFail, AfterFlush, TypeOK, Steps, Returns, Workers
<1>7. Answered'
  BY DEF Inv, Stage, SnapshotsFail, AfterFlush, Rewake, Answered
<1> QED
  BY <1>1, <1>2, <1>3, <1>4, <1>5, <1>6, <1>7 DEF Inv

\* The last loop of drain.
LEMMA QuotasKeepInv ==
  ASSUME Inv, DrainQuotas
  PROVE  Inv'
<1> USE DEF stopVars, quotaVars
<1>1. TypeOK'
  BY DEF Inv, Stage, DrainQuotas, TypeOK, Steps, Returns, Workers
<1>2. Accounted'
  BY DEF Inv, Stage, DrainQuotas, TypeOK, Accounted
<1>3. StoreAgrees'
  BY DEF Inv, Stage, DrainQuotas, TypeOK, StoreAgrees
<1>4. NoLostWake'
  BY DEF Inv, Stage, DrainQuotas, TypeOK, NoLostWake
<1>5. Stage'
  BY DEF Inv, Stage, DrainQuotas, TypeOK, Steps, Returns, Workers
<1>6. Ending'
  BY DEF Inv, Stage, Ending, DrainQuotas, TypeOK
<1>7. Answered'
  BY DEF Inv, Stage, Ending, DrainQuotas, TypeOK, Answered
<1> QED
  BY <1>1, <1>2, <1>3, <1>4, <1>5, <1>6, <1>7 DEF Inv

\* Every step keeps the invariant.
LEMMA NextInv == Inv /\ [Next]_vars => Inv'
<1> SUFFICES ASSUME Inv, [Next]_vars PROVE Inv'
  OBVIOUS
<1>1. CASE UNCHANGED vars
  <2>1. /\ state' = state /\ cancelled' = cancelled /\ shutdownErr' = shutdownErr
        /\ caller' = caller /\ queue' = queue /\ worker' = worker /\ count' = count
        /\ db' = db /\ dirty' = dirty /\ late' = late /\ wake' = wake
        /\ notices' = notices /\ emitted' = emitted /\ marks' = marks
    BY <1>1, Zenon DEF vars
  <2>2. TypeOK' /\ Accounted' /\ StoreAgrees'
    BY <2>1, Zenon DEF Inv, TypeOK, Accounted, StoreAgrees
  <2>3. NoLostWake' /\ Stage'
    BY <2>1, Zenon DEF Inv, NoLostWake, Stage
  <2>4. Ending' /\ Answered'
    BY <2>1, Zenon DEF Inv, Ending, Answered
  <2> QED
    BY <2>2, <2>3, <2>4 DEF Inv
<1>2. CASE \E ok \in BOOLEAN : Start(ok)
  BY <1>2, StartKeepsInv
<1>3. CASE Emit
  BY <1>3, EmitKeepsInv
<1>4. CASE \E c \in Callers : Stop(c) \/ ShutdownResult(c) \/ CancelShutdown(c)
  BY <1>4, StopKeepsInv
<1>5. CASE FinishShutdown \/ WakeAccessQuotaCheckpoint
  BY <1>5, FinishKeepsInv, WakeKeepsInv
<1>6. CASE \E r \in Rules : MarkDirty(r)
  BY <1>6, MarkKeepsInv
<1>7. CASE Idle \/ Collect \/ CollectFull \/ Drain
  BY <1>7, IdleKeepsInv, CollectKeepsInv, CollectFullKeepsInv, DrainKeepsInv
<1>8. CASE \E broken, billed \in 0 .. BatchSize : WriteBatch(broken, billed)
  BY <1>8, WriteKeepsInv
<1>9. CASE FlushAccessQuotaCheckpoints \/ AckSnapshots \/ SnapshotsFail \/ DrainQuotas
  BY <1>9, FlushKeepsInv, AckKeepsInv, FailKeepsInv, QuotasKeepInv
<1>10. CASE Over
  BY <1>1, <1>10 DEF Over
<1> QED
  BY <1>1, <1>2, <1>3, <1>4, <1>5, <1>6, <1>7, <1>8, <1>9, <1>10 DEF Next, Work

\* The invariant holds in every behaviour of the request log.
LEMMA AlwaysInv == Spec => []Inv
  BY InitInv, NextInv, PTL DEF Spec

\* Queue, batch, totals and shutdown result keep their types: neither the channel
\* nor a batch outgrows its capacity and no hourly counter overflows.
THEOREM TypeCorrect == Spec => []TypeOK
<1>1. Inv => TypeOK
  BY DEF Inv
<1> QED
  BY <1>1, AlwaysInv, PTL

\* Every emitted event is in one place or one total, at any capacity and batch
\* size, however writes fail and shutdowns race (Emit, writeBatch, dropUnattempted).
THEOREM EventsAreAccounted == Spec => []Accounted
<1>1. Inv => Accounted
  BY DEF Inv
<1> QED
  BY <1>1, AlwaysInv, PTL

\* A worker that has returned leaves nothing in the channel, and nothing is put
\* there afterwards (Emit and Stop under stateMu, drain, dropUnattempted).
THEOREM QueueIsEmptied == Spec => []NothingStranded
<1>1. Inv => NothingStranded
  BY DEF Inv, Stage, NothingStranded
<1> QED
  BY <1>1, AlwaysInv, PTL

\* Stop returns nil only if the drain was complete (drain, cancelShutdown,
\* recordFinalQuotaCheckpointFailure, shutdownResult).
THEOREM NilMeansDrained == Spec => []StopMeansDrained
<1>1. Inv => StopMeansDrained
  BY DEF Inv, Stage, Ending, Answered, StopMeansDrained
<1> QED
  BY <1>1, AlwaysInv, PTL

\* A dirty checkpoint never waits for a worker that nobody will wake (Start,
\* flushAccessQuotaCheckpoints, wakeAccessQuotaCheckpoint).
THEOREM WakeIsNeverLost == Spec => []NoLostWake
<1>1. Inv => NoLostWake
  BY DEF Inv
<1> QED
  BY <1>1, AlwaysInv, PTL

\* The totals never overstate the database, and the hourly counters agree with
\* the billed rows (WriteBatch, recordPersistFailure).
THEOREM TotalsAgreeWithStore == Spec => []StoreAgrees
<1>1. Inv => StoreAgrees
  BY DEF Inv
<1> QED
  BY <1>1, AlwaysInv, PTL

(* The request log takes only steps the abstract sink allows.              *)

\* A step that settles k events as kept and l as lost is a step of the sink.
LEMMA SettleStep ==
  ASSUME Inv, NEW k \in Nat, NEW l \in Nat, k + l <= queue + worker.batch,
         count' \in [Counters -> Nat], state' = state,
         count'["enqueued"] = count["enqueued"],
         count'["persisted"] = count["persisted"] + k,
         count'["persistFailed"] + count'["shutdown"]
           = count["persistFailed"] + count["shutdown"] + l
  PROVE  [Sink!Next]_(Sink!vars)
<1> DEFINE enq == count["enqueued"]   per == count["persisted"]
           los == count["persistFailed"] + count["shutdown"]
<1>1. /\ enq \in Nat /\ per \in Nat /\ los \in Nat
      /\ queue \in Nat /\ worker.batch \in Nat /\ emitted \in Nat /\ emitted <= MaxEvents
      /\ MaxEvents \in Nat
      /\ count["notRunning"] \in Nat /\ count["queueFull"] \in Nat /\ count["stopping"] \in Nat
      /\ count["persistFailed"] \in Nat /\ count["shutdown"] \in Nat
  BY BoundsAssumption DEF Inv, TypeOK, Counters, Workers
<1>2. per + los + k + l <= enq /\ enq <= MaxEvents
  BY <1>1 DEF Inv, Accounted
<1>3. k \in 0 .. MaxEvents /\ l \in 0 .. MaxEvents
  BY <1>1, <1>2
<1>4. CASE k + l = 0
  BY <1>1, <1>4 DEF Sink!vars
<1>5. CASE 0 < k + l
  <2>1. Sink!Settle
    BY <1>1, <1>2, <1>3, <1>5 DEF Sink!Settle
  <2> QED
    BY <2>1 DEF Sink!Next
<1> QED
  BY <1>4, <1>5

\* dropUnattempted settles everything that is left as lost.
LEMMA DropSettles ==
  ASSUME Inv, Drop, state' = state
  PROVE  [Sink!Next]_(Sink!vars)
<1> DEFINE n == worker.batch + queue
<1>1. n \in Nat /\ 0 \in Nat /\ 0 + n <= queue + worker.batch /\ count \in [Counters -> Nat]
  BY BoundsAssumption DEF Inv, TypeOK, Workers
<1>2. \A x \in Counters : count[x] \in Nat
  BY <1>1
<1>3. /\ count' \in [Counters -> Nat]
      /\ count'["shutdown"] = count["shutdown"] + n
      /\ \A y \in Counters : y # "shutdown" => count'[y] = count[y]
  BY <1>1, CountedFacts, Zenon DEF Drop, Counters
<1>4. /\ count'["enqueued"] = count["enqueued"]
      /\ count'["persisted"] = count["persisted"] + 0
      /\ count'["persistFailed"] + count'["shutdown"]
           = count["persistFailed"] + count["shutdown"] + n
  BY <1>1, <1>2, <1>3 DEF Counters
<1> HIDE DEF n
<1> QED
  BY <1>1, <1>3, <1>4, SettleStep

\* writeBatch settles its whole batch, as kept or as lost.
LEMMA WriteSettles ==
  ASSUME Inv, NEW broken \in 0 .. BatchSize, NEW billed \in 0 .. BatchSize,
         WriteBatch(broken, billed)
  PROVE  [Sink!Next]_(Sink!vars)
<1> DEFINE rows == worker.batch - broken
<1>1. /\ broken \in Nat /\ rows \in Nat /\ broken + rows = worker.batch
      /\ queue \in Nat /\ worker.batch \in Nat /\ count \in [Counters -> Nat] /\ state' = state
  BY BoundsAssumption DEF Inv, TypeOK, Workers, WriteBatch, stopVars
<1>2. PICK k \in {0, rows}, l \in {broken, broken + rows} : k + l = broken + rows /\ Settled(k, l)
  BY <1>1 DEF WriteBatch
<1>3. k \in Nat /\ l \in Nat /\ k + l <= queue + worker.batch
  BY <1>1, <1>2
<1>4. /\ count' \in [Counters -> Nat]
      /\ count'["enqueued"] = count["enqueued"]
      /\ count'["persisted"] = count["persisted"] + k
      /\ count'["persistFailed"] = count["persistFailed"] + l
      /\ count'["shutdown"] = count["shutdown"]
  BY <1>1, <1>2, <1>3 DEF Settled, Counters
<1>5. count["persistFailed"] \in Nat /\ count["shutdown"] \in Nat
  BY <1>1 DEF Counters
<1>6. count'["persistFailed"] + count'["shutdown"]
        = count["persistFailed"] + count["shutdown"] + l
  BY <1>3, <1>4, <1>5
<1> QED
  BY <1>1, <1>3, <1>4, <1>6, SettleStep

\* Each step of the service is a step of the sink or leaves it alone.
LEMMA StepRefines == Inv /\ [Next]_vars => [Sink!Next]_(Sink!vars)
<1> SUFFICES ASSUME Inv, [Next]_vars PROVE [Sink!Next]_(Sink!vars)
  OBVIOUS
<1> USE DEF stopVars, quotaVars
<1>1. ASSUME count' = count, state' = state PROVE [Sink!Next]_(Sink!vars)
  BY <1>1 DEF Sink!vars
<1>2. CASE \E ok \in BOOLEAN : Start(ok)
  BY <1>2 DEF Start, Sink!Next, Sink!Open, Sink!Close
<1>3. CASE Emit
  <2>1. count["enqueued"] \in Nat /\ count \in [Counters -> Nat]
    BY DEF Inv, TypeOK, Counters
  <2> QED
    BY <1>3, <2>1 DEF Emit, Counted, Counters, Sink!Next, Sink!Accept, Sink!vars
<1>4. CASE \E c \in Callers : Stop(c) \/ ShutdownResult(c) \/ CancelShutdown(c)
  BY <1>4 DEF Stop, ShutdownResult, CancelShutdown, Sink!Next, Sink!Close, Sink!vars
<1>5. CASE FinishShutdown
  BY <1>5 DEF FinishShutdown, Sink!vars
<1>6. CASE WakeAccessQuotaCheckpoint \/ (\E r \in Rules : MarkDirty(r))
  BY <1>1, <1>6 DEF WakeAccessQuotaCheckpoint, MarkDirty
<1>7. CASE Idle \/ Collect \/ CollectFull \/ Drain
  BY <1>1, <1>7, DropSettles DEF Idle, Collect, CollectFull, Drain
<1>8. CASE \E broken, billed \in 0 .. BatchSize : WriteBatch(broken, billed)
  BY <1>8, WriteSettles
<1>9. CASE FlushAccessQuotaCheckpoints \/ AckSnapshots \/ SnapshotsFail \/ DrainQuotas
  BY <1>1, <1>9, Zenon DEF FlushAccessQuotaCheckpoints, AckSnapshots, SnapshotsFail, DrainQuotas
<1>10. CASE Over \/ UNCHANGED vars
  BY <1>1, <1>10 DEF Over, vars
<1> QED
  BY <1>2, <1>3, <1>4, <1>5, <1>6, <1>7, <1>8, <1>9, <1>10 DEF Next, Work

\* The safety part of ImplementsSink, for every capacity, batch size and number
\* of events: Emit accepts only while the service runs, and what writeBatch and
\* dropUnattempted settle was accepted and is settled once.
THEOREM LogRefinesSink == Spec => Sink!Init /\ [][Sink!Next]_(Sink!vars)
<1>1. Init => Sink!Init
  BY DEF Init, Sink!Init, Counters
<1> QED
  BY <1>1, AlwaysInv, StepRefines, PTL DEF Spec

-----------------------------------------------------------------------------
(* Shutdown *)

CONSTANTS Requests, Data, Hijacked, Stuck, MayExpire
VARIABLES request, closing, active, allStop, dataStop, zero, closedZero, canceled, listening,
          runtime, stopAt, stops, waitFor, expired, errs

Down == INSTANCE Shutdown WITH pc <- stopAt

Fin == INSTANCE FiniteSetTheorems

\* The library's finite sets and cardinalities are those of this module.
LEMMA SameSizes ==
  \A S : /\ Fin!IsFiniteSet(S) <=> IsFiniteSet(S)
         /\ Fin!Cardinality(S) = Cardinality(S)
BY Zenon DEF Fin!IsFiniteSet, IsFiniteSet, Fin!Cardinality, Cardinality

\* A part of a finite set is finite.
LEMMA FinitePart ==
  ASSUME NEW S, IsFiniteSet(S), NEW T \in SUBSET S
  PROVE  IsFiniteSet(T)
BY SameSizes, Fin!FS_Subset, Zenon

\* The size of a finite set is a number, 0 for the empty set alone.
LEMMA Sizes ==
  /\ Cardinality({}) = 0
  /\ \A S : IsFiniteSet(S) => Cardinality(S) \in Nat /\ (Cardinality(S) = 0 <=> S = {})
<1>1. \A S : IsFiniteSet(S) => Cardinality(S) \in Nat
  BY SameSizes, Fin!FS_CardinalityType, Zenon
<1>2. /\ Cardinality({}) = 0
      /\ \A S : IsFiniteSet(S) => (Cardinality(S) = 0 <=> S = {})
  BY SameSizes, Fin!FS_EmptySet, Zenon
<1> QED
  BY <1>1, <1>2, Zenon

\* One more when x joins a finite set, one less when it leaves.
LEMMA SizeAfter ==
  ASSUME NEW S, IsFiniteSet(S), NEW x
  PROVE  /\ Cardinality(S \cup {x}) = IF x \in S THEN Cardinality(S) ELSE Cardinality(S) + 1
         /\ Cardinality(S \ {x}) = IF x \in S THEN Cardinality(S) - 1 ELSE Cardinality(S)
<1>1. Cardinality(S \cup {x}) = IF x \in S THEN Cardinality(S) ELSE Cardinality(S) + 1
  BY SameSizes, Fin!FS_AddElement, Zenon
<1>2. Cardinality(S \ {x}) = IF x \in S THEN Cardinality(S) - 1 ELSE Cardinality(S)
  BY SameSizes, Fin!FS_RemoveElement, Zenon
<1> QED
  BY <1>1, <1>2, Zenon

Places == {"new", "arrived", "tracked", "bound", "leaving", "done"}
Waited == {"save", "logs", "database", "stopped"}
Phases == {"serving", "cancel", "drain", "runtime", "wait"} \cup Waited

StopTypes ==
  /\ request \in [Requests -> Places]
  /\ closing \in BOOLEAN /\ active \in Nat
  /\ zero \in Nat /\ closedZero \subseteq 0 .. zero
  /\ allStop \subseteq Requests /\ dataStop \subseteq Requests
  /\ stopAt \in Phases /\ errs \in BOOLEAN

\* The stop functions the coordinator keeps are those of the handlers that
\* are inside TrackAll and inside BindData.
StopsAreHandlers ==
  /\ allStop = {r \in Requests : Down!InHandler(r)}
  /\ dataStop = {r \in Requests : request[r] = "bound"}

\* What each phase of Stop may rely on.
Progress ==
  /\ closing <=> stopAt # "serving"
  /\ stopAt = "cancel" => \A r \in Requests : Down!InHandler(r) => r \in canceled \cup stops
  /\ stopAt \in {"wait"} \cup Waited => waitFor = zero
  /\ stopAt \in {"wait"} \cup Waited /\ ~errs => runtime = "returned"
  /\ stopAt \in Waited /\ ~errs => zero \in closedZero

\* The coordinator's count is its registrations, and the channel a waiter
\* reads is closed exactly while nobody is registered.
Registrations ==
  /\ active = Cardinality(allStop) + Cardinality(dataStop)
  /\ active = 0 <=> zero \in closedZero

StopInv ==
  /\ StopTypes /\ StopsAreHandlers /\ Registrations
  /\ Progress /\ Down!NobodyEscapes

\* The sets of stop functions are finite, and their sizes are numbers that
\* are zero when the sets are empty.
LEMMA FiniteStops ==
  ASSUME Down!ConstantsAssumption, StopTypes
  PROVE  /\ IsFiniteSet(allStop) /\ IsFiniteSet(dataStop)
         /\ Cardinality(allStop) \in Nat /\ Cardinality(dataStop) \in Nat
         /\ Cardinality(allStop) = 0 <=> allStop = {}
         /\ Cardinality(dataStop) = 0 <=> dataStop = {}
<1>0. IsFiniteSet(Requests)
  BY Zenon DEF Down!ConstantsAssumption, Down!IsFiniteSet, IsFiniteSet
<1>1. IsFiniteSet(allStop) /\ IsFiniteSet(dataStop)
  BY <1>0, FinitePart DEF StopTypes
<1> QED
  BY <1>1, Sizes

\* NewCoordinator starts in the invariant.
LEMMA StopInitInv == Down!Init => StopInv
<1> SUFFICES ASSUME Down!Init PROVE StopInv
  OBVIOUS
<1>1. StopTypes
  <2>1. 0 \in Nat /\ {0} \subseteq 0 .. 0
    OBVIOUS
  <2>2. request \in [Requests -> Places]
    BY DEF Down!Init, Places
  <2> QED
    BY <2>1, <2>2, Zenon DEF Down!Init, StopTypes, Phases
<1>2. StopsAreHandlers
  BY DEF Down!Init, StopsAreHandlers, Down!InHandler
<1>3. Registrations
  BY Sizes DEF Down!Init, Registrations
<1>4. Progress /\ Down!NobodyEscapes
  BY DEF Down!Init, Progress, Down!NobodyEscapes, Waited
<1> QED
  BY <1>1, <1>2, <1>3, <1>4 DEF StopInv

\* addActiveLocked with a new registration in TrackAll or in BindData keeps
\* the count exact, and opens a new channel when it is the first.
LEMMA AddKeepsCount ==
  ASSUME Down!ConstantsAssumption, StopInv, Down!AddActive, NEW r \in Requests,
         \/ r \notin allStop /\ allStop' = allStop \cup {r} /\ dataStop' = dataStop
         \/ r \notin dataStop /\ dataStop' = dataStop \cup {r} /\ allStop' = allStop
  PROVE  /\ Registrations'
         /\ active' \in Nat /\ zero' \in Nat /\ closedZero' \subseteq 0 .. zero'
<1>1. /\ IsFiniteSet(allStop) /\ IsFiniteSet(dataStop)
      /\ Cardinality(allStop) \in Nat /\ Cardinality(dataStop) \in Nat
  BY FiniteStops DEF StopInv
<1>2. Cardinality(allStop') + Cardinality(dataStop') = active + 1
  <2>1. r \notin allStop => Cardinality(allStop \cup {r}) = Cardinality(allStop) + 1
    BY <1>1, SizeAfter, Zenon
  <2>2. r \notin dataStop => Cardinality(dataStop \cup {r}) = Cardinality(dataStop) + 1
    BY <1>1, SizeAfter, Zenon
  <2>3. active = Cardinality(allStop) + Cardinality(dataStop)
    BY DEF StopInv, Registrations
  <2>4. CASE r \notin allStop /\ allStop' = allStop \cup {r} /\ dataStop' = dataStop
    BY <1>1, <2>1, <2>3, <2>4
  <2>5. CASE r \notin dataStop /\ dataStop' = dataStop \cup {r} /\ allStop' = allStop
    BY <1>1, <2>2, <2>3, <2>5
  <2> QED
    BY <2>4, <2>5
<1>3. active' = active + 1 /\ active \in Nat /\ zero \in Nat /\ closedZero \subseteq 0 .. zero
  BY DEF StopInv, StopTypes, Down!AddActive
<1>4. zero' \notin closedZero'
  BY <1>3 DEF StopInv, Registrations, Down!AddActive
<1> QED
  BY <1>2, <1>3, <1>4 DEF Registrations, Down!AddActive

\* leaveLocked with one registration fewer keeps the count exact, and closes
\* the channel when it was the last.
LEMMA LeaveKeepsCount ==
  ASSUME Down!ConstantsAssumption, StopInv, Down!LeaveActive, NEW r \in Requests,
         \/ r \in allStop /\ allStop' = allStop \ {r} /\ dataStop' = dataStop
         \/ r \in dataStop /\ dataStop' = dataStop \ {r} /\ allStop' = allStop
  PROVE  /\ Registrations'
         /\ active' \in Nat /\ zero' \in Nat /\ closedZero' \subseteq 0 .. zero'
         /\ closedZero \subseteq closedZero'
<1>1. /\ IsFiniteSet(allStop) /\ IsFiniteSet(dataStop)
      /\ Cardinality(allStop) \in Nat /\ Cardinality(dataStop) \in Nat
  BY FiniteStops DEF StopInv
<1>2. Cardinality(allStop') + Cardinality(dataStop') = active - 1
  <2>1. r \in allStop => Cardinality(allStop \ {r}) = Cardinality(allStop) - 1
    BY <1>1, SizeAfter, Zenon
  <2>2. r \in dataStop => Cardinality(dataStop \ {r}) = Cardinality(dataStop) - 1
    BY <1>1, SizeAfter, Zenon
  <2>3. active = Cardinality(allStop) + Cardinality(dataStop)
    BY DEF StopInv, Registrations
  <2>4. CASE r \in allStop /\ allStop' = allStop \ {r} /\ dataStop' = dataStop
    BY <1>1, <2>1, <2>3, <2>4
  <2>5. CASE r \in dataStop /\ dataStop' = dataStop \ {r} /\ allStop' = allStop
    BY <1>1, <2>2, <2>3, <2>5
  <2> QED
    BY <2>4, <2>5
<1>3. active > 0
  BY <1>1, FiniteStops DEF StopInv, Registrations
<1>4. active' = active - 1 /\ active \in Nat /\ zero \in Nat /\ closedZero \subseteq 0 .. zero
  BY DEF StopInv, StopTypes, Down!LeaveActive
<1>5. active # 0 /\ zero \notin closedZero
  BY <1>3, <1>4 DEF StopInv, Registrations
<1>6. /\ active = 1 => zero' \in closedZero'
      /\ active # 1 => zero' \notin closedZero'
      /\ closedZero \subseteq closedZero' /\ zero' = zero
      /\ closedZero' \subseteq 0 .. zero'
  BY <1>4, <1>5 DEF Down!LeaveActive
<1> QED
  BY <1>2, <1>3, <1>4, <1>6 DEF Registrations

\* A new registration finds the coordinator open, so Stop has not begun.
LEMMA TrackAllKeepsInv ==
  ASSUME Down!ConstantsAssumption, StopInv, NEW r \in Requests, Down!TrackAll(r)
  PROVE  StopInv'
<1> USE DEF Down!coordinator, Down!stopping
<1>1. CASE closing
  <2>1. StopTypes' /\ StopsAreHandlers'
    BY <1>1, ZenonT(40) DEF StopInv, StopTypes, StopsAreHandlers, Down!InHandler, Down!TrackAll, Down!Goto, Places
  <2>2. Registrations'
    BY <1>1 DEF StopInv, Registrations, Down!TrackAll
  <2>3. Progress' /\ Down!NobodyEscapes'
    BY <1>1 DEF StopInv, StopTypes, Progress, Down!NobodyEscapes, Down!InHandler, Down!TrackAll, Down!Goto
  <2> QED
    BY <2>1, <2>2, <2>3 DEF StopInv
<1>2. CASE ~closing
  <2>1. /\ Down!AddActive /\ r \notin allStop
        /\ allStop' = allStop \cup {r} /\ dataStop' = dataStop
    BY <1>2 DEF StopInv, StopsAreHandlers, Down!InHandler, Down!TrackAll
  <2>2. /\ Registrations'
        /\ active' \in Nat /\ zero' \in Nat /\ closedZero' \subseteq 0 .. zero'
    BY <2>1, AddKeepsCount
  <2>3. StopTypes' /\ StopsAreHandlers'
    BY <1>2, <2>1, <2>2 DEF StopInv, StopTypes, StopsAreHandlers, Down!InHandler, Down!TrackAll, Down!Goto, Places
  <2>4. stopAt = "serving" /\ stopAt' = "serving" /\ closing' = closing
    BY <1>2 DEF StopInv, Progress, Down!TrackAll
  <2>5. Progress' /\ Down!NobodyEscapes'
    BY <1>2, <2>4 DEF Progress, Down!NobodyEscapes, Waited
  <2> QED
    BY <2>2, <2>3, <2>5 DEF StopInv
<1> QED
  BY <1>1, <1>2

\* The second registration, too, is refused once Stop has begun.
LEMMA BindDataKeepsInv ==
  ASSUME Down!ConstantsAssumption, StopInv, NEW r \in Requests, Down!BindData(r)
  PROVE  StopInv'
<1> USE DEF Down!coordinator, Down!stopping
<1>1. CASE closing
  <2>1. StopTypes' /\ StopsAreHandlers'
    BY <1>1, ZenonT(40) DEF StopInv, StopTypes, StopsAreHandlers, Down!InHandler, Down!BindData, Down!Goto, Places
  <2>2. Registrations'
    BY <1>1 DEF StopInv, Registrations, Down!BindData
  <2>3. Progress' /\ Down!NobodyEscapes'
    BY <1>1 DEF StopInv, StopTypes, Progress, Down!NobodyEscapes, Down!InHandler, Down!BindData, Down!Goto
  <2> QED
    BY <2>1, <2>2, <2>3 DEF StopInv
<1>2. CASE ~closing
  <2>1. /\ Down!AddActive /\ r \notin dataStop
        /\ dataStop' = dataStop \cup {r} /\ allStop' = allStop
    BY <1>2 DEF StopInv, StopsAreHandlers, Down!InHandler, Down!BindData
  <2>2. /\ Registrations'
        /\ active' \in Nat /\ zero' \in Nat /\ closedZero' \subseteq 0 .. zero'
    BY <2>1, AddKeepsCount
  <2>3. StopTypes' /\ StopsAreHandlers'
    BY <1>2, <2>1, <2>2 DEF StopInv, StopTypes, StopsAreHandlers, Down!InHandler, Down!BindData, Down!Goto, Places
  <2>4. stopAt = "serving" /\ stopAt' = "serving" /\ closing' = closing
    BY <1>2 DEF StopInv, Progress, Down!BindData
  <2>5. Progress' /\ Down!NobodyEscapes'
    BY <1>2, <2>4 DEF Progress, Down!NobodyEscapes, Waited
  <2> QED
    BY <2>2, <2>3, <2>5 DEF StopInv
<1> QED
  BY <1>1, <1>2

\* The end of a handler takes back exactly the registrations it made.
LEMMA EndKeepsInv ==
  ASSUME Down!ConstantsAssumption, StopInv, NEW r \in Requests, Down!Release(r) \/ Down!Leave(r)
  PROVE  StopInv'
<1> USE DEF Down!stopping
<1>1. /\ Down!LeaveActive
      /\ \/ r \in allStop /\ allStop' = allStop \ {r} /\ dataStop' = dataStop
         \/ r \in dataStop /\ dataStop' = dataStop \ {r} /\ allStop' = allStop
  BY DEF StopInv, StopsAreHandlers, Down!InHandler, Down!Release, Down!Leave
<1>2. /\ Registrations'
      /\ active' \in Nat /\ zero' \in Nat /\ closedZero' \subseteq 0 .. zero'
      /\ closedZero \subseteq closedZero'
  BY <1>1, LeaveKeepsCount
<1>3. StopTypes'
  BY <1>1, <1>2 DEF StopInv, StopTypes, Down!Release, Down!Leave, Down!Goto, Places
<1>4. StopsAreHandlers'
  BY DEF StopInv, StopTypes, StopsAreHandlers, Down!InHandler, Down!Release, Down!Leave, Down!Goto, Places
<1>5. Progress' /\ Down!NobodyEscapes'
  <2>1. /\ zero' = zero /\ closing' = closing /\ UNCHANGED <<Down!stopping, canceled, runtime>>
        /\ \A x \in Requests : Down!InHandler(x)' => Down!InHandler(x)
    BY DEF StopInv, StopTypes, Down!InHandler, Down!Release, Down!Leave, Down!LeaveActive, Down!Goto
  <2> QED
    BY <1>2, <2>1 DEF StopInv, Progress, Down!NobodyEscapes
<1> QED
  BY <1>2, <1>3, <1>4, <1>5 DEF StopInv

\* The steps outside the coordinator: the arrival of a request, the end of
\* the control runtime, the deadline, and the steps of Stop itself.
LEMMA OtherKeepsInv ==
  ASSUME Down!ConstantsAssumption, StopInv,
         \/ \E r \in Requests : Down!Arrive(r)
         \/ Down!RuntimeReturns \/ Down!Expire \/ Down!BeginShutdown \/ Down!StopStep
  PROVE  StopInv'
<1> USE DEF Down!coordinator, Down!stopping
<1>1. CASE \E r \in Requests : Down!Arrive(r)
  <2>1. PICK r \in Requests : Down!Arrive(r)
    BY <1>1
  <2>2. \A x \in Requests : Down!InHandler(x)' = Down!InHandler(x)
    BY <2>1 DEF StopInv, StopTypes, Down!InHandler, Down!Arrive, Down!Goto
  <2>3. StopTypes' /\ StopsAreHandlers'
    BY <2>1 DEF StopInv, StopTypes, StopsAreHandlers, Down!InHandler, Down!Arrive, Down!Goto, Places
  <2>4. Registrations' /\ Progress' /\ Down!NobodyEscapes'
    BY <2>1, <2>2 DEF StopInv, Registrations, Progress, Down!NobodyEscapes, Down!Arrive
  <2> QED
    BY <2>3, <2>4 DEF StopInv
<1>2. CASE Down!RuntimeReturns \/ Down!Expire
  <2>1. /\ UNCHANGED <<request, Down!coordinator, canceled, stopAt, stops, waitFor, errs>>
        /\ runtime = "returned" => runtime' = "returned"
    BY <1>2 DEF Down!RuntimeReturns, Down!Expire
  <2>2. StopTypes' /\ StopsAreHandlers' /\ Registrations'
    BY <2>1 DEF StopInv, StopTypes, StopsAreHandlers, Down!InHandler, Registrations
  <2>3. Progress' /\ Down!NobodyEscapes'
    BY <2>1 DEF StopInv, Progress, Down!NobodyEscapes, Down!InHandler
  <2> QED
    BY <2>2, <2>3 DEF StopInv
<1>3. CASE Down!BeginShutdown
  <2>1. \A r \in Requests : Down!InHandler(r)' = Down!InHandler(r)
    BY <1>3 DEF Down!InHandler, Down!BeginShutdown
  <2>2. \A r \in Requests : Down!InHandler(r) => r \in stops'
    BY <1>3 DEF StopInv, StopsAreHandlers, Down!BeginShutdown, Down!StopsOfAll
  <2>3. StopTypes' /\ StopsAreHandlers' /\ Registrations'
    BY <1>3
       DEF StopInv, StopTypes, StopsAreHandlers, Down!InHandler, Registrations,
           Down!BeginShutdown, Phases
  <2>4. Progress' /\ Down!NobodyEscapes'
    BY <1>3, <2>1, <2>2 DEF StopInv, Progress, Down!NobodyEscapes, Down!BeginShutdown, Waited
  <2> QED
    BY <2>3, <2>4 DEF StopInv
<1>4. CASE Down!StopStep
  <2>1. /\ UNCHANGED <<request, Down!coordinator>>
        /\ \A r \in Requests : Down!InHandler(r)' = Down!InHandler(r)
    BY <1>4 DEF Down!StopStep, Down!InHandler, Down!Cancel, Down!CancelRuntime, Down!DrainServer, Down!WaitRuntime, Down!Wait, Down!Close
  <2>2. stopAt' \in Phases /\ errs' \in BOOLEAN
    BY <1>4, Zenon DEF StopInv, StopTypes, Down!StopStep, Down!Cancel, Down!CancelRuntime, Down!DrainServer, Down!WaitRuntime,
                Down!Wait, Down!Close, Phases, Waited
  <2>3. StopTypes' /\ StopsAreHandlers' /\ Registrations'
    BY <2>1, <2>2 DEF StopInv, StopTypes, StopsAreHandlers, Registrations, Down!InHandler
  <2>4. Progress'
    <3>1. CASE \E r \in Requests : Down!Cancel(r)
      BY <2>1, <3>1 DEF StopInv, StopTypes, Progress, Phases, Waited, Down!Cancel
    <3>2. CASE Down!CancelRuntime
      BY <2>1, <3>2 DEF StopInv, StopTypes, Progress, Phases, Waited, Down!CancelRuntime
    <3>3. CASE Down!DrainServer
      BY <2>1, <3>3 DEF StopInv, StopTypes, Progress, Phases, Waited, Down!DrainServer
    <3>4. CASE Down!WaitRuntime
      BY <2>1, <3>4 DEF StopInv, StopTypes, Progress, Phases, Waited, Down!WaitRuntime
    <3>5. CASE Down!Wait
      BY <2>1, <3>5 DEF StopInv, StopTypes, Progress, Phases, Waited, Down!Wait
    <3>6. CASE Down!Close
      <4>1. stopAt \in {"save", "logs", "database"} /\ stopAt' \in {"logs", "database", "stopped"}
        BY <3>6, Zenon DEF Down!Close
      <4>2. UNCHANGED <<canceled, stops, waitFor, zero, closing, runtime, errs, closedZero>>
        BY <3>6, Zenon DEF Down!Close, Down!coordinator
      <4> QED
        BY <4>1, <4>2 DEF StopInv, Progress, Waited
    <3> QED
      BY <1>4, <3>1, <3>2, <3>3, <3>4, <3>5, <3>6, Zenon DEF Down!StopStep
  <2>5. Down!NobodyEscapes'
    <3>1. CASE \E r \in Requests : Down!Cancel(r)
      BY <2>1, <3>1 DEF StopInv, Progress, Down!NobodyEscapes, Down!Cancel
    <3>2. CASE Down!CancelRuntime
      BY <2>1, <3>2 DEF StopInv, Progress, Down!NobodyEscapes, Down!CancelRuntime
    <3>3. CASE Down!DrainServer
      BY <2>1, <3>3 DEF StopInv, Progress, Down!NobodyEscapes, Down!DrainServer
    <3>4. CASE Down!WaitRuntime
      BY <2>1, <3>4 DEF StopInv, Progress, Down!NobodyEscapes, Down!WaitRuntime
    <3>5. CASE Down!Wait
      BY <2>1, <3>5 DEF StopInv, Progress, Down!NobodyEscapes, Down!Wait
    <3>6. CASE Down!Close
      BY <2>1, <3>6 DEF StopInv, Progress, Down!NobodyEscapes, Down!Close
    <3> QED
      BY <1>4, <3>1, <3>2, <3>3, <3>4, <3>5, <3>6, Zenon DEF Down!StopStep
  <2> QED
    BY <2>3, <2>4, <2>5, Zenon DEF StopInv
<1> QED
  BY <1>1, <1>2, <1>3, <1>4

\* Every step of the program keeps the invariant.
LEMMA StopNextInv ==
  ASSUME Down!ConstantsAssumption, StopInv, [Down!Next]_(Down!vars)
  PROVE  StopInv'
<1>1. CASE UNCHANGED Down!vars
  BY <1>1, ZenonT(40) DEF Down!vars, Down!coordinator, Down!stopping, StopInv, StopTypes, StopsAreHandlers, Down!InHandler,
              Registrations, Progress, Down!NobodyEscapes
<1>2. CASE Down!Next
  BY <1>2, TrackAllKeepsInv, BindDataKeepsInv, EndKeepsInv, OtherKeepsInv DEF Down!Next
<1> QED
  BY <1>1, <1>2

\* The invariant holds in every reachable state.
THEOREM StopInvariance ==
  ASSUME Down!ConstantsAssumption
  PROVE  Down!Spec => []StopInv
<1>1. Down!Init => StopInv
  BY StopInitInv
<1>2. StopInv /\ [Down!Next]_(Down!vars) => StopInv'
  BY StopNextInv
<1> QED
  BY <1>1, <1>2, PTL DEF Down!Spec

\* The coordinator's count is the number of its registrations, and the
\* channel that Wait reads is closed exactly while nobody is registered.
THEOREM CountIsExact ==
  ASSUME Down!ConstantsAssumption
  PROVE  Down!Spec => []Down!CountIsRegistrations
<1>0. \A S : Down!Cardinality(S) = Cardinality(S)
  BY Zenon DEF Down!Cardinality, Cardinality, Down!IsFiniteSet, IsFiniteSet
<1>1. StopInv => Down!CountIsRegistrations
  BY <1>0, Zenon DEF StopInv, Registrations, Down!CountIsRegistrations
<1> QED
  BY <1>1, StopInvariance, PTL

\* When BeginShutdown has returned, every handler that is still running has
\* been cancelled, however its two registrations interleaved with it.
THEOREM HandlersAreCancelled ==
  ASSUME Down!ConstantsAssumption
  PROVE  Down!Spec => []Down!NobodyEscapes
<1>1. StopInv => Down!NobodyEscapes
  BY DEF StopInv
<1> QED
  BY <1>1, StopInvariance, PTL

\* A stop that has recorded no error saves the checkpoint, stops the request
\* log and closes the database when no handler and no control runtime runs.
THEOREM CleanStop ==
  ASSUME Down!ConstantsAssumption
  PROVE  Down!Spec => []Down!CleanStopIsQuiet
<1>1. StopInv => Down!CleanStopIsQuiet
  <2> SUFFICES ASSUME StopInv, stopAt \in Waited, ~errs
               PROVE  /\ \A r \in Requests : ~Down!InHandler(r)
                      /\ runtime = "returned"
    BY DEF Down!CleanStopIsQuiet, Waited
  <2>1. zero \in closedZero /\ runtime = "returned"
    BY DEF StopInv, Progress
  <2>2. Cardinality(allStop) + Cardinality(dataStop) = 0
    BY <2>1 DEF StopInv, Registrations
  <2>3. allStop = {}
    BY <2>2, FiniteStops DEF StopInv
  <2> QED
    BY <2>1, <2>3 DEF StopInv, StopsAreHandlers
<1> QED
  BY <1>1, StopInvariance, PTL
=============================================================================
