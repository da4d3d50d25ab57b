----------------------------- MODULE MCProcess ------------------------------
(* The instances of the runtime checkpoint, the provider runtimes, the     *)
(* shutdown, the idempotent operations and the registry's health that TLC  *)
(* checks. They share no state: Init chooses a part, every step is one of  *)
(* that part, and the variables of the others stay Off.                    *)
EXTENDS Integers, TLC

CONSTANTS n1, n2, r1, o1, o2, p1, p2, p3, plain, own, page, call, call2, socket, k1, k2,
          d1, d2, c1, c2, a1, a2, Off

VARIABLE part     \* the part Init chose
VARIABLES faults     \* used by several parts

-----------------------------------------------------------------------------
(* RuntimeCheckpoint: two native resources and a response; crashes at any  *)
(* point; claims that fail, or starts and files that do.                   *)
VARIABLES file, pending, rows, memory, pc, doc, todo, failed, restored, recording, starts,
          owed

Crash == INSTANCE RuntimeCheckpoint WITH Natives <- {n1, n2}, Responses <- {r1},
        Owners <- {o1, o2}, MaxStarts <- 3, MaxFaults <- 2, MayFail <- {}
Owner == INSTANCE RuntimeCheckpoint WITH Natives <- {n1, n2}, Responses <- {r1},
        Owners <- {o1, o2}, MaxStarts <- 3, MaxFaults <- 0, MayFail <- {"start", "file"}

-----------------------------------------------------------------------------
(* ProviderRuntimes: a shared configuration and one of a single            *)
(* credential, three attempts.                                             *)
VARIABLES entries, runtimeEntry, runtimeCreated, runtimeActive, closed, shuttingDown, done,
          caller, reconciles, condemned

Pool == INSTANCE ProviderRuntimes WITH Callers <- {p1, p2, p3}, Configs <- {plain, own},
        BaseOf <- (plain :> plain) @@ (own :> plain), Partitioned <- {own},
        MaxEntries <- 3, MaxReconciles <- 1, entry <- runtimeEntry,
        created <- runtimeCreated, active <- runtimeActive

-----------------------------------------------------------------------------
(* Shutdown: a page, two data requests and a websocket; all end when       *)
(* cancelled, or two are stuck and the deadline passes.                    *)
VARIABLES request, closing, active, allStop, dataStop, zero, closedZero, canceled,
          listening, runtime, stopPc, stops, waitFor, expired, errs

Clean == INSTANCE Shutdown WITH Requests <- {page, call, call2, socket},
        Data <- {call, call2, socket}, Hijacked <- {socket}, Stuck <- {},
        MayExpire <- FALSE, pc <- stopPc
Forced == INSTANCE Shutdown WITH Requests <- {page, call, call2, socket},
        Data <- {call, call2, socket}, Hijacked <- {socket}, Stuck <- {page, socket},
        MayExpire <- TRUE, pc <- stopPc

-----------------------------------------------------------------------------
(* ControlOperations: two keys and two digests, every kind of operation    *)
(* and of write, ambiguous commits, a crash.                               *)
VARIABLES row, db, mem, holder, job, wake, retry, up, commits, crashes, mutated, answered,
          reported

Operations == INSTANCE ControlOperations WITH Keys <- {k1, k2}, Digests <- {d1, d2},
        OpKinds <- {"access_key", "group_create", "credential_import"},
        WriteKinds <- {"config", "group", "credential"}, MaxCommits <- 2, MaxFaults <- 2,
        MaxCrashes <- 1, Ambiguous <- TRUE

-----------------------------------------------------------------------------
(* RegistryHealth: two probes and an attempt, or two attempts and a probe, *)
(* of one credential that is reloaded and moved to another target and      *)
(* back; batches over two credentials, in which transactions fail or are   *)
(* reported as failed.                                                     *)
VARIABLES entry, healthRow, stored, attempt, probe, target, events, healthFaults, failures,
          blame, cleared, lost, misfit

Probe == INSTANCE RegistryHealth WITH Creds <- {c1}, Attempts <- {a1}, Probes <- {p1, p2},
        Threshold <- 1, MaxTime <- 2, MaxEvents <- 4, MaxFaults <- 1,
        Actions <- {"test", "restore", "retarget"}, MayReplace <- TRUE, row <- healthRow,
        faults <- healthFaults
Late == INSTANCE RegistryHealth WITH Creds <- {c1}, Attempts <- {a1, a2}, Probes <- {p1},
        Threshold <- 1, MaxTime <- 2, MaxEvents <- 4, MaxFaults <- 1,
        Actions <- {"test", "restore", "reset", "retarget"}, MayReplace <- TRUE,
        row <- healthRow, faults <- healthFaults
Batch == INSTANCE RegistryHealth WITH Creds <- {c1, c2}, Attempts <- {a1}, Probes <- {p1},
        Threshold <- 2, MaxTime <- 1, MaxEvents <- 4, MaxFaults <- 3,
        Actions <- {"enable", "disable", "delete", "retarget"}, MayReplace <- TRUE,
        row <- healthRow, faults <- healthFaults

-----------------------------------------------------------------------------
runtimeCheckpointVars == <<file, pending, rows, memory, pc, doc, todo, failed, restored,
                           recording, starts, owed>>
contruntVars == <<faults>>
providerRuntimesVars == <<entries, runtimeEntry, runtimeCreated, runtimeActive, closed,
                          shuttingDown, done, caller, reconciles, condemned>>
shutdownVars == <<request, closing, active, allStop, dataStop, zero, closedZero, canceled,
                  listening, runtime, stopPc, stops, waitFor, expired, errs>>
controlOperationsVars == <<row, db, mem, holder, job, wake, retry, up, commits, crashes,
                           mutated, answered, reported>>
registryHealthVars == <<entry, healthRow, stored, attempt, probe, target, events,
                        healthFaults, failures, blame, cleared, lost, misfit>>
NoRuntimeCheckpoint ==
  /\ file = Off /\ pending = Off /\ rows = Off /\ memory = Off /\ pc = Off /\ doc = Off
  /\ todo = Off /\ failed = Off /\ restored = Off /\ recording = Off /\ starts = Off
  /\ owed = Off
NoContrunt ==
  /\ faults = Off
NoProviderRuntimes ==
  /\ entries = Off /\ runtimeEntry = Off /\ runtimeCreated = Off /\ runtimeActive = Off
  /\ closed = Off /\ shuttingDown = Off /\ done = Off /\ caller = Off /\ reconciles = Off
  /\ condemned = Off
NoShutdown ==
  /\ request = Off /\ closing = Off /\ active = Off /\ allStop = Off /\ dataStop = Off
  /\ zero = Off /\ closedZero = Off /\ canceled = Off /\ listening = Off /\ runtime = Off
  /\ stopPc = Off /\ stops = Off /\ waitFor = Off /\ expired = Off /\ errs = Off
NoControlOperations ==
  /\ row = Off /\ db = Off /\ mem = Off /\ holder = Off /\ job = Off /\ wake = Off
  /\ retry = Off /\ up = Off /\ commits = Off /\ crashes = Off /\ mutated = Off
  /\ answered = Off /\ reported = Off
NoRegistryHealth ==
  /\ entry = Off /\ healthRow = Off /\ stored = Off /\ attempt = Off /\ probe = Off
  /\ target = Off /\ events = Off /\ healthFaults = Off /\ failures = Off /\ blame = Off
  /\ cleared = Off /\ lost = Off /\ misfit = Off

suiteVars == <<part, runtimeCheckpointVars, contruntVars, providerRuntimesVars, shutdownVars, controlOperationsVars, registryHealthVars>>

ASSUME
  /\ Crash!ConstantsAssumption
  /\ Owner!ConstantsAssumption
  /\ Pool!ConstantsAssumption
  /\ Clean!ConstantsAssumption
  /\ Forced!ConstantsAssumption
  /\ Operations!ConstantsAssumption

Init ==
  \/ part = "crash" /\ Crash!Init /\ NoProviderRuntimes /\ NoShutdown /\ NoControlOperations
      /\ NoRegistryHealth
  \/ part = "owner" /\ Owner!Init /\ NoProviderRuntimes /\ NoShutdown /\ NoControlOperations
      /\ NoRegistryHealth
  \/ part = "pool" /\ Pool!Init /\ NoRuntimeCheckpoint /\ NoContrunt /\ NoShutdown
      /\ NoControlOperations /\ NoRegistryHealth
  \/ part = "clean" /\ Clean!Init /\ NoRuntimeCheckpoint /\ NoContrunt /\ NoProviderRuntimes
      /\ NoControlOperations /\ NoRegistryHealth
  \/ part = "forced" /\ Forced!Init /\ NoRuntimeCheckpoint /\ NoContrunt /\ NoProviderRuntimes
      /\ NoControlOperations /\ NoRegistryHealth
  \/ part = "operations" /\ Operations!Init /\ NoRuntimeCheckpoint /\ NoProviderRuntimes
      /\ NoShutdown /\ NoRegistryHealth
  \/ part = "probe" /\ Probe!Init /\ NoRuntimeCheckpoint /\ NoContrunt /\ NoProviderRuntimes
      /\ NoShutdown /\ NoControlOperations
  \/ part = "late" /\ Late!Init /\ NoRuntimeCheckpoint /\ NoContrunt /\ NoProviderRuntimes
      /\ NoShutdown /\ NoControlOperations
  \/ part = "batch" /\ Batch!Init /\ NoRuntimeCheckpoint /\ NoContrunt /\ NoProviderRuntimes
      /\ NoShutdown /\ NoControlOperations

Next ==
  \/ part = "crash" /\ Crash!Next
      /\ UNCHANGED <<part, providerRuntimesVars, shutdownVars, controlOperationsVars, registryHealthVars>>
  \/ part = "owner" /\ Owner!Next
      /\ UNCHANGED <<part, providerRuntimesVars, shutdownVars, controlOperationsVars, registryHealthVars>>
  \/ part = "pool" /\ Pool!Next
      /\ UNCHANGED <<part, runtimeCheckpointVars, contruntVars, shutdownVars, controlOperationsVars, registryHealthVars>>
  \/ part = "clean" /\ Clean!Next
      /\ UNCHANGED <<part, runtimeCheckpointVars, contruntVars, providerRuntimesVars, controlOperationsVars, registryHealthVars>>
  \/ part = "forced" /\ Forced!Next
      /\ UNCHANGED <<part, runtimeCheckpointVars, contruntVars, providerRuntimesVars, controlOperationsVars, registryHealthVars>>
  \/ part = "operations" /\ Operations!Next
      /\ UNCHANGED <<part, runtimeCheckpointVars, providerRuntimesVars, shutdownVars, registryHealthVars>>
  \/ part = "probe" /\ Probe!Next
      /\ UNCHANGED <<part, runtimeCheckpointVars, contruntVars, providerRuntimesVars, shutdownVars, controlOperationsVars>>
  \/ part = "late" /\ Late!Next
      /\ UNCHANGED <<part, runtimeCheckpointVars, contruntVars, providerRuntimesVars, shutdownVars, controlOperationsVars>>
  \/ part = "batch" /\ Batch!Next
      /\ UNCHANGED <<part, runtimeCheckpointVars, contruntVars, providerRuntimesVars, shutdownVars, controlOperationsVars>>

Spec == Init /\ [][Next]_suiteVars

-----------------------------------------------------------------------------
\* RuntimeCheckpoint: the owner of a native resource is known after any crash.
OwnershipSurvives == part = "crash" => Crash!OwnershipSurvives

\* Memory and database say the same of owners, operations and credentials, or the
\* difference is reported.
MemoryAgreesWithDatabase ==
    \* RuntimeCheckpoint: requests go to the credential that owns the resource.
    /\ part = "owner" => Owner!MemoryAgreesWithTable
    \* ControlOperations: a completed operation is visible in memory.
    /\ part = "operations" => Operations!CompletedIsVisible
    \* ControlOperations: memory differs from the database only if that is reported.
    /\ part = "operations" => Operations!DivergenceIsReported
    \* RegistryHealth: the health of a credential stems from attempts at its present
    \*   target.
    /\ part = "probe" => Probe!HealthIsOwn
    /\ part = "late" => Late!HealthIsOwn
    /\ part = "batch" => Batch!HealthIsOwn
    \* RegistryHealth: memory has more credentials in service than the database only where
    \*   a commit was reported as failed.
    /\ part = "probe" => Probe!NeverMoreThanDurable
    /\ part = "late" => Late!NeverMoreThanDurable
    /\ part = "batch" => Batch!NeverMoreThanDurable
    \* RegistryHealth: memory and database agree on every credential, unless its commit
    \*   was reported as failed or its compensation failed.
    /\ part = "probe" => Probe!BothSidesAgree
    /\ part = "late" => Late!BothSidesAgree
    /\ part = "batch" => Batch!BothSidesAgree

\* No step undoes what it has not looked at.
NothingIsUndone == [][
    \* RuntimeCheckpoint: a stop and the next start keep every response binding.
    /\ part = "owner" => Owner!ResponsesReturn
    \* RegistryHealth: a probe clears only the blacklisting it tested, or one of an entry
    \*   that was replaced meanwhile.
    /\ part = "probe" => Probe!RecoversWhatItTested
    /\ part = "late" => Late!RecoversWhatItTested
    /\ part = "batch" => Batch!RecoversWhatItTested
    \* RegistryHealth: an explicit restore is final for attempts that began before it.
    /\ part = "probe" => Probe!LateModelCooldowns
    /\ part = "late" => Late!LateModelCooldowns
    /\ part = "batch" => Batch!LateModelCooldowns
    \* RegistryHealth: between restores a cooldown is never shortened by an outcome.
    /\ part = "probe" => Probe!CooldownsExtend
    /\ part = "late" => Late!CooldownsExtend
    /\ part = "batch" => Batch!CooldownsExtend
    ]_suiteVars

\* ProviderRuntimes: a runtime in use is not shut down.
LeaseIsLive == part = "pool" => Pool!LeaseIsLive

\* Shutdown: a stop without error left nothing running when it saved.
CleanStopIsQuiet ==
  /\ (part = "clean") => Clean!CleanStopIsQuiet
  /\ (part = "forced") => Forced!CleanStopIsQuiet

\* An operation takes effect once, one after the other, and before it is answered.
OperationsAreExact ==
    \* ControlOperations: every variable has its type.
    /\ part = "operations" => Operations!TypeOK
    \* ControlOperations: a key takes effect at most once.
    /\ part = "operations" => Operations!AtMostOnce
    \* ControlOperations: at most one operation is committed and not yet applied.
    /\ part = "operations" => Operations!OneUnfinished
    \* ControlOperations: a successful answer means the effect is there.
    /\ part = "operations" => Operations!AnsweredIsDone
=============================================================================
