----------------------------- MODULE MCEndings ------------------------------
(* Liveness of the process: every call, turn and operation ends, and so    *)
(* does the process. The parts share no state: Init chooses one, and the   *)
(* fairness conditions of the others are void.                             *)
EXTENDS Integers, Sequences, TLC

CONSTANTS c1, p1, p2, plain, own, page, call, socket, k1, k2, d1, Off

VARIABLE part     \* the part Init chose
VARIABLES closing, active, done, canceled     \* used by several parts

-----------------------------------------------------------------------------
(* LiveSessions: one call that several parties end.                        *)
VARIABLES live, finish

Live == INSTANCE LiveSessions WITH Calls <- {c1}, Maximum <- 1, MaxAttempts <- 3,
        MaxClaims <- 2, MaxEnders <- 2, call <- live

-----------------------------------------------------------------------------
(* ProviderRuntimes: two attempts on a shared runtime and one of a single  *)
(* credential.                                                             *)
VARIABLES entries, entry, created, closed, shuttingDown, caller, reconciles, condemned

Runtimes == INSTANCE ProviderRuntimes WITH Callers <- {p1, p2}, Configs <- {plain, own},
        BaseOf <- (plain :> plain) @@ (own :> plain), Partitioned <- {own},
        MaxEntries <- 2, MaxReconciles <- 1

-----------------------------------------------------------------------------
(* Shutdown: all requests end when cancelled, or two are stuck and the     *)
(* deadline passes.                                                        *)
VARIABLES request, allStop, dataStop, zero, closedZero, listening, runtime, pc, stops,
          waitFor, expired, errs

Clean == INSTANCE Shutdown WITH Requests <- {page, call, socket}, Data <- {call, socket},
        Hijacked <- {socket}, Stuck <- {}, MayExpire <- FALSE
Forced == INSTANCE Shutdown WITH Requests <- {page, call, socket}, Data <- {call, socket},
        Hijacked <- {socket}, Stuck <- {page, socket}, MayExpire <- TRUE

-----------------------------------------------------------------------------
(* ControlOperations: two keys, the operation with the most stages,        *)
(* failing steps, a crash and commits that report an error.                *)
VARIABLES row, db, mem, holder, job, wake, retry, up, commits, faults, crashes, mutated,
          answered, reported

Operations == INSTANCE ControlOperations WITH Keys <- {k1, k2}, Digests <- {d1},
        OpKinds <- {"group_create"}, WriteKinds <- {"config"}, MaxCommits <- 2,
        MaxFaults <- 2, MaxCrashes <- 1, Ambiguous <- TRUE

-----------------------------------------------------------------------------
(* NativeSession: two turns that share a lane.                             *)
VARIABLES turn, result, sent, armed, slots, write, failure, reader, item, wire, hangup,
          upstream, events, handled, refused

Turns == INSTANCE NativeSession WITH Turns <- {1, 2}, Lanes <- {"a"},
        LaneOf <- <<"a", "a">>, MaxEvents <- 1

-----------------------------------------------------------------------------
liveSessionsVars == <<live, finish>>
liveshutVars == <<closing>>
providerRuntimesVars == <<entries, entry, created, closed, shuttingDown, caller,
                          reconciles, condemned>>
provshutVars == <<active>>
natiprovVars == <<done>>
shutdownVars == <<request, allStop, dataStop, zero, closedZero, listening, runtime, pc,
                  stops, waitFor, expired, errs>>
natishutVars == <<canceled>>
controlOperationsVars == <<row, db, mem, holder, job, wake, retry, up, commits, faults,
                           crashes, mutated, answered, reported>>
nativeSessionVars == <<turn, result, sent, armed, slots, write, failure, reader, item,
                       wire, hangup, upstream, events, handled, refused>>
NoLiveSessions ==
  /\ live = Off /\ finish = Off
NoLiveshut ==
  /\ closing = Off
NoProviderRuntimes ==
  /\ entries = Off /\ entry = Off /\ created = Off /\ closed = Off /\ shuttingDown = Off
  /\ caller = Off /\ reconciles = Off /\ condemned = Off
NoProvshut ==
  /\ active = Off
NoNatiprov ==
  /\ done = Off
NoShutdown ==
  /\ request = Off /\ allStop = Off /\ dataStop = Off /\ zero = Off /\ closedZero = Off
  /\ listening = Off /\ runtime = Off /\ pc = Off /\ stops = Off /\ waitFor = Off
  /\ expired = Off /\ errs = Off
NoNatishut ==
  /\ canceled = Off
NoControlOperations ==
  /\ row = Off /\ db = Off /\ mem = Off /\ holder = Off /\ job = Off /\ wake = Off
  /\ retry = Off /\ up = Off /\ commits = Off /\ faults = Off /\ crashes = Off
  /\ mutated = Off /\ answered = Off /\ reported = Off
NoNativeSession ==
  /\ turn = Off /\ result = Off /\ sent = Off /\ armed = Off /\ slots = Off
  /\ write = Off /\ failure = Off /\ reader = Off /\ item = Off /\ wire = Off
  /\ hangup = Off /\ upstream = Off /\ events = Off /\ handled = Off /\ refused = Off

suiteVars == <<part, liveSessionsVars, liveshutVars, providerRuntimesVars, provshutVars, natiprovVars, shutdownVars, natishutVars, controlOperationsVars, nativeSessionVars>>

ASSUME
  /\ Live!ConstantsAssumption
  /\ Runtimes!ConstantsAssumption
  /\ Clean!ConstantsAssumption
  /\ Forced!ConstantsAssumption
  /\ Operations!ConstantsAssumption
  /\ Turns!SessionAssumption

Init ==
  \/ part = "operations" /\ Operations!Init /\ NoLiveSessions /\ NoLiveshut
      /\ NoProviderRuntimes /\ NoProvshut /\ NoNatiprov /\ NoShutdown /\ NoNatishut
      /\ NoNativeSession
  \/ part = "live" /\ Live!Init /\ NoProviderRuntimes /\ NoProvshut /\ NoNatiprov /\ NoShutdown
      /\ NoNatishut /\ NoControlOperations /\ NoNativeSession
  \/ part = "turns" /\ Turns!Init /\ NoLiveSessions /\ NoLiveshut /\ NoProviderRuntimes
      /\ NoProvshut /\ NoShutdown /\ NoControlOperations
  \/ part = "drain" /\ Runtimes!Init /\ NoLiveSessions /\ NoLiveshut /\ NoShutdown /\ NoNatishut
      /\ NoControlOperations /\ NoNativeSession
  \/ part = "clean" /\ Clean!Init /\ NoLiveSessions /\ NoProviderRuntimes /\ NoNatiprov
      /\ NoControlOperations /\ NoNativeSession
  \/ part = "forced" /\ Forced!Init /\ NoLiveSessions /\ NoProviderRuntimes /\ NoNatiprov
      /\ NoControlOperations /\ NoNativeSession

Next ==
  \/ part = "operations" /\ Operations!Next
      /\ UNCHANGED <<part, liveSessionsVars, liveshutVars, providerRuntimesVars, provshutVars, natiprovVars, shutdownVars, natishutVars, nativeSessionVars>>
  \/ part = "live" /\ Live!Next
      /\ UNCHANGED <<part, providerRuntimesVars, provshutVars, natiprovVars, shutdownVars, natishutVars, controlOperationsVars, nativeSessionVars>>
  \/ part = "turns" /\ Turns!Next
      /\ UNCHANGED <<part, liveSessionsVars, liveshutVars, providerRuntimesVars, provshutVars, shutdownVars, controlOperationsVars>>
  \/ part = "drain" /\ Runtimes!Next
      /\ UNCHANGED <<part, liveSessionsVars, liveshutVars, shutdownVars, natishutVars, controlOperationsVars, nativeSessionVars>>
  \/ part = "clean" /\ Clean!Next
      /\ UNCHANGED <<part, liveSessionsVars, providerRuntimesVars, natiprovVars, controlOperationsVars, nativeSessionVars>>
  \/ part = "forced" /\ Forced!Next
      /\ UNCHANGED <<part, liveSessionsVars, providerRuntimesVars, natiprovVars, controlOperationsVars, nativeSessionVars>>

OperationsFairness ==
  /\ WF_(Operations!vars)(part = "operations" /\ Operations!Step)
  /\ WF_(Operations!vars)(part = "operations" /\ Operations!Start)
  /\ SF_(Operations!vars)(part = "operations" /\ Operations!Wake)

LiveFairness ==
  \A c \in {c1} :
      /\ WF_(Live!vars)(part = "live" /\ (Live!OpenFails(c) \/ Live!Opened(c)))
      /\ WF_(Live!vars)(part = "live" /\ (Live!Put(c) \/ Live!SetupFails(c)))
      /\ WF_(Live!vars)(part = "live" /\ Live!Return(c))
      /\ WF_(Live!vars)(part = "live" /\ Live!FinishSetup(c))
      /\ WF_(Live!vars)(part = "live" /\ Live!RelayEnds(c))
      /\ WF_(Live!vars)(part = "live" /\ Live!LifetimeEnds(c))
      /\ WF_(Live!vars)(part = "live" /\ Live!RetryFires(c))
      /\ WF_(Live!vars)(part = "live" /\ Live!AttemptStarts(c))
      /\ WF_(Live!vars)(part = "live" /\ \E ok \in BOOLEAN : Live!AttemptEnds(c, ok))

TurnsFairness ==
  /\ WF_(Turns!vars)(part = "turns" /\ Turns!Close)
  /\ WF_(Turns!vars)(part = "turns" /\ Turns!Read)
  /\ WF_(Turns!vars)(part = "turns" /\ Turns!ReaderStops)
  /\ \A t \in {1, 2} :
        /\ WF_(Turns!vars)(part = "turns" /\ Turns!Turn(t))
        /\ SF_(Turns!vars)(part = "turns" /\ Turns!TakeWrite(t))
                      /\ WF_(Turns!vars)(part = "turns" /\ Turns!ContextEnds(t))
                      /\ WF_(Turns!vars)(part = "turns" /\ Turns!Answers(t))

RuntimesFairness ==
  /\ \A p \in {p1, p2} :
        /\ WF_(Runtimes!vars)(part = "drain" /\ Runtimes!Acquire(p))
        /\ WF_(Runtimes!vars)(part = "drain" /\ Runtimes!Created(p))
        /\ WF_(Runtimes!vars)(part = "drain" /\ Runtimes!Wait(p))
        /\ WF_(Runtimes!vars)(part = "drain" /\ Runtimes!Release(p))
  /\ \A e \in Runtimes!EntryIds : WF_(Runtimes!vars)(part = "drain" /\ Runtimes!Stopped(e))

CleanFairness ==
  /\ WF_(Clean!vars)(part = "clean" /\ Clean!StopStep)
  /\ WF_(Clean!vars)(part = "clean" /\ Clean!RuntimeReturns)
  /\ WF_(Clean!vars)(part = "clean" /\ Clean!Expire)
  /\ \A r \in {page, call, socket} :
        /\ WF_(Clean!vars)(part = "clean" /\ Clean!TrackAll(r))
        /\ WF_(Clean!vars)(part = "clean" /\ Clean!BindData(r))
        /\ WF_(Clean!vars)(part = "clean" /\ Clean!Returns(r))

ForcedFairness ==
  /\ WF_(Forced!vars)(part = "forced" /\ Forced!StopStep)
  /\ WF_(Forced!vars)(part = "forced" /\ Forced!RuntimeReturns)
  /\ WF_(Forced!vars)(part = "forced" /\ Forced!Expire)
  /\ \A r \in {page, call, socket} :
        /\ WF_(Forced!vars)(part = "forced" /\ Forced!TrackAll(r))
        /\ WF_(Forced!vars)(part = "forced" /\ Forced!BindData(r))
        /\ WF_(Forced!vars)(part = "forced" /\ Forced!Returns(r))

Spec == Init /\ [][Next]_suiteVars
  /\ OperationsFairness
  /\ LiveFairness
  /\ TurnsFairness
  /\ RuntimesFairness
  /\ CleanFairness
  /\ ForcedFairness

-----------------------------------------------------------------------------
\* What was begun ends: operations, turns, calls, the provider runtimes and the process.
EverythingEnds ==
    \* ControlOperations: an operation whose commit was reported, or that the worker has
    \*   taken up, completes, across a crash.
    /\ \A k \in {k1, k2} : 
        (part = "operations" /\ job # Operations!Idle /\ job.goal \in {"own", "drain"} /\ k \in job.todo)
        ~> (part = "operations" => Operations!Done(k))
    \* ControlOperations: a restart completes every committed operation.
    /\ \A k \in {k1, k2} : 
        (part = "operations" /\ up = "down" /\ Operations!Exists(k))
        ~> (part = "operations" => Operations!Done(k))
    \* NativeSession: every turn ends.
    /\ \A t \in {1, 2} : (part = "turns" /\ turn[t] # "idle") ~> (part = "turns" => turn[t] = "end")
    \* LiveSessions: every call ends.
    /\ \A c \in {c1} : 
        (part = "live" /\ live[c].at = "reserved")
        ~> (part = "live" => live[c].at = "gone" /\ ~live[c].slot)
    \* ProviderRuntimes: a shutdown completes.
    /\ (part = "drain" /\ closed) ~> (part = "drain" => done)
    \* Shutdown: the stop ends, whatever the requests do.
    /\ (part = "clean" /\ pc = "cancel") ~> (part = "clean" => pc = "stopped")
    /\ (part = "forced" /\ pc = "cancel") ~> (part = "forced" => pc = "stopped")
=============================================================================
