----------------------------- MODULE MCProgress -----------------------------
(* Liveness of the stores and the account managers: what must happen in    *)
(* the end, under the fairness of each component. The parts share no       *)
(* state: SuiteInit chooses one, and the fairness conditions of the others *)
(* are void. The log has a channel of one for two events and one caller of *)
(* Stop; its hourly counter is full, so that a billed batch always fails.  *)
EXTENDS RequestLog, TLC

CONSTANTS c1, p1, p2, q1, a1, g1, Off

VARIABLE part     \* the part Init chose
VARIABLES now, issued, spent, faults     \* used by several parts

LogIdle == Init /\ dirty = {}

-----------------------------------------------------------------------------
(* AccessQuota: one rule that a request and the time change.               *)
VARIABLES ruleRow, stateRow, created, publishing, entry, req, wpc, scan, batch,
          accessQuotaWake

Quota == INSTANCE AccessQuota WITH Keys <- {1}, Rules <- {1}, Owner <- <<1>>,
        PeriodicRules <- {1}, Limits <- {1}, Periods <- {1}, Costs <- {1},
        Requests <- {q1}, MaxInt64 <- 1, MaxUint64 <- 3, BatchLimit <- 1, MaxTime <- 0,
        wake <- accessQuotaWake

-----------------------------------------------------------------------------
(* CredentialManager: two callers of one credential, every kind of call.   *)
VARIABLES credentialManagerDb, reg, target, stripe, pending, valid, pc, refreshing, behind

Refresh == INSTANCE CredentialManager WITH Creds <- {c1}, Callers <- {p1, p2},
        CallKinds <- {"prepare", "controlForced"}, MaxVer <- 2, MaxTarget <- 0,
        MaxFaults <- 1, db <- credentialManagerDb, call <- refreshing

-----------------------------------------------------------------------------
(* CredentialStages: one stage of every method, a restart.                 *)
VARIABLES rows, creds, procs, restarts, granted, bad

Stage == INSTANCE CredentialStages WITH Stages <- {1}, Procs <- {p1}, Accounts <- {a1},
        Groups <- {g1}, Methods <- {"browser", "device"}, AuthTTL <- 1, ReadyTTL <- 1,
        ExchangeTTL <- 1, Interval <- 1, TombstoneTTL <- 1, MaxTime <- 4, MaxTokens <- 2,
        MaxFaults <- 1, MaxRestarts <- 1

-----------------------------------------------------------------------------
accecredVars == <<now>>
accessQuotaVars == <<ruleRow, stateRow, created, publishing, entry, req, wpc, scan, batch,
                     accessQuotaWake>>
credentialManagerVars == <<credentialManagerDb, reg, target, stripe, pending, valid, pc,
                           refreshing, behind>>
credcredVars == <<issued, spent, faults>>
credentialStagesVars == <<rows, creds, procs, restarts, granted, bad>>
NoAccecred ==
  /\ now = Off
NoAccessQuota ==
  /\ ruleRow = Off /\ stateRow = Off /\ created = Off /\ publishing = Off /\ entry = Off
  /\ req = Off /\ wpc = Off /\ scan = Off /\ batch = Off /\ accessQuotaWake = Off
NoCredentialManager ==
  /\ credentialManagerDb = Off /\ reg = Off /\ target = Off /\ stripe = Off
  /\ pending = Off /\ valid = Off /\ pc = Off /\ refreshing = Off /\ behind = Off
NoCredcred ==
  /\ issued = Off /\ spent = Off /\ faults = Off
NoCredentialStages ==
  /\ rows = Off /\ creds = Off /\ procs = Off /\ restarts = Off /\ granted = Off
  /\ bad = Off

suiteVars == <<part, vars, accecredVars, accessQuotaVars, credentialManagerVars, credcredVars, credentialStagesVars>>

ASSUME
  /\ Refresh!ConstantsAssumption
  /\ Stage!StagesAssumption

SuiteInit ==
  \/ part = "log" /\ Init /\ NoAccecred /\ NoAccessQuota /\ NoCredentialManager /\ NoCredcred
      /\ NoCredentialStages
  \/ part = "quota" /\ Quota!Init /\ LogIdle /\ NoCredentialManager /\ NoCredcred
      /\ NoCredentialStages
  \/ part = "refresh" /\ Refresh!Init /\ LogIdle /\ NoAccecred /\ NoAccessQuota
      /\ NoCredentialStages
  \/ part = "stage" /\ Stage!Init /\ LogIdle /\ NoAccessQuota /\ NoCredentialManager

SuiteNext ==
  \/ part = "log" /\ Next
      /\ UNCHANGED <<part, accecredVars, accessQuotaVars, credentialManagerVars, credcredVars, credentialStagesVars>>
  \/ part = "quota" /\ Quota!Next
      /\ UNCHANGED <<part, vars, credentialManagerVars, credcredVars, credentialStagesVars>>
  \/ part = "refresh" /\ Refresh!Next
      /\ UNCHANGED <<part, vars, accecredVars, accessQuotaVars, credentialStagesVars>>
  \/ part = "stage" /\ Stage!Next
      /\ UNCHANGED <<part, vars, accessQuotaVars, credentialManagerVars>>

RequestLogFairness ==
  /\ WF_vars(part = "log" /\ Work)
  /\ SF_vars(part = "log" /\ TakesEvent)
  /\ SF_vars(part = "log" /\ HearsStop)
  /\ SF_vars(part = "log" /\ AckSnapshots)
  /\ WF_vars(part = "log" /\ WakeAccessQuotaCheckpoint) /\ WF_vars(part = "log" /\ FinishShutdown)
  /\ \A c \in Callers : WF_vars(part = "log" /\ ShutdownResult(c))

QuotaFairness ==
  /\ \A q \in {q1} : WF_(Quota!vars)(part = "quota" /\ Quota!NotifyDirty(q))
  /\ WF_(Quota!vars)(part = "quota" /\ Quota!WorkerWakes)
  /\ WF_(Quota!vars)(part = "quota" /\ Quota!FlushStarts)
  /\ WF_(Quota!vars)(part = "quota" /\ \E k \in {1} : \E picked \in SUBSET Quota!RulesOf(k) : Quota!ScanKey(k, picked))
  /\ SF_(Quota!vars)(part = "quota" /\ Quota!WriteSnapshots)
  /\ WF_(Quota!vars)(part = "quota" /\ \E b \in batch : Quota!Ack(b))
  /\ WF_(Quota!vars)(part = "quota" /\ Quota!Recheck)

RefreshFairness ==
  /\ \A p \in {p1, p2} : /\ SF_(Refresh!vars)(part = "refresh" /\ Refresh!Enter(p))
                        /\ WF_(Refresh!vars)(part = "refresh" /\ (Refresh!Unneeded(p)
                                                                  \/ Refresh!Begin(p)
                                                                  \/ Refresh!Undo(p)
                                                                  \/ Refresh!Exchange(p) \/ Refresh!Finish(p)
                                   \/ Refresh!Store(p) \/ Refresh!Publish(p) \/ Refresh!Load(p)
                                   \/ Refresh!Apply(p)))
  /\ SF_(Refresh!vars)(part = "refresh" /\ Refresh!ConnectApply)

StageFairness ==
  /\ WF_(Stage!vars)(part = "stage" /\ Stage!CleanupCredentialStages)
  /\ WF_(Stage!vars)(part = "stage" /\ Stage!Tick)

SuiteSpec == SuiteInit /\ [][SuiteNext]_suiteVars
  /\ RequestLogFairness
  /\ QuotaFairness
  /\ RefreshFairness
  /\ StageFairness

-----------------------------------------------------------------------------
\* What is due is done: the log stops, checkpoints are written, refreshes return, staged
\* secrets go.
EverythingSettles ==
    /\ StopReturns
    /\ CheckpointsAreWritten
    \* AccessQuota: a dirty rule is written in the end.
    /\ \A r \in {1}, n \in 1 .. 3, v \in 1 .. 3 - 1 : 
        (part = "quota" /\ entry[r].def.revision = n /\ entry[r].dirty /\ entry[r].state.version = v)
        ~> (part = "quota" => (entry[r].def.revision # n \/ entry[r].state.version < v \/ stateRow[r].revision # n \/ stateRow[r].state.version >= v))
    \* CredentialManager: every call returns.
    /\ \A p \in {p1, p2} : (part = "refresh" /\ pc[p] = "wait") ~> (part = "refresh" => pc[p] = "idle")
    \* CredentialManager: a committed connection reaches the registry.
    /\ (part = "refresh" /\ pending) ~> (part = "refresh" => ~pending)
    \* CredentialStages: the secrets of a stage are erased in the end.
    /\ \A s \in {1} : 
        (part = "stage" /\ rows[s].payload # 0)
        ~> (part = "stage" => (rows[s].payload = 0 \/ rows[s].expires > 4))
=============================================================================
