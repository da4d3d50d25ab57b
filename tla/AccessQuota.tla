------------------------------ MODULE AccessQuota ------------------------------
(***************************************************************************)
(* Access-key cost limits: the in-memory quota runtime                     *)
(* (accessquota/runtime.go), the two database tables behind it             *)
(* (access_key_cost_limit_rules and _states), the control-plane edits of   *)
(* the rules (control/access_key_cost_limits.go) and the request-log       *)
(* worker that checkpoints changed rules (requestlog/worker.go,            *)
(* requestlog/access_quota_checkpoint.go).                                 *)
(*                                                                         *)
(* A revision 0 stands for "no such row" or "no such rule": the code       *)
(* refuses revision 0 everywhere (runtime.go:455, :548).                   *)
(***************************************************************************)
EXTENDS Integers, FiniteSets

CONSTANTS
    Keys,           \* access key IDs, scanned in ascending order
    Rules,          \* rule IDs; auto-increment, so an ID is created once
    Owner,          \* the access key of each rule
    PeriodicRules,  \* the rules of kind "periodic"; the others are "total"
    Limits,         \* the limits an operator may set
    Periods,        \* the periods an operator may set
    Costs,          \* costs a completed request may report (negative: fault)
    Requests,       \* concurrent gateway requests
    MaxInt64,       \* math.MaxInt64, where used_nano_usd saturates
    MaxUint64,      \* math.MaxUint64, where generations and versions saturate
    BatchLimit,     \* requestlog.batchSize, snapshots per checkpoint
    MaxTime         \* bound on the clock (the only bound that is not the code's)

ASSUME KeysAssumption == Keys \subseteq Nat \ {0}
ASSUME RulesAssumption == Owner \in [Rules -> Keys] /\ PeriodicRules \subseteq Rules
ASSUME DefinitionsAssumption ==
    Limits \subseteq Nat \ {0} /\ Periods \subseteq Nat \ {0} /\ Costs \subseteq Int
ASSUME WidthAssumption == MaxInt64 \in Nat /\ MaxUint64 \in Nat \ {0, 1}
ASSUME BoundsAssumption == BatchLimit \in Nat \ {0} /\ MaxTime \in Nat

VARIABLES
    now,         \* the wall clock, in the unit of the periods
    ruleRow,     \* table access_key_cost_limit_rules
    stateRow,    \* table access_key_cost_limit_states
    created,     \* rule IDs handed out so far
    publishing,  \* an edit is committed and its snapshot not yet published
    entry,       \* Runtime.entries, flattened over the keys
    req,         \* the gateway requests and their tickets
    wpc,         \* program counter of the request-log worker
    scan,        \* keys DirtySnapshots has still to visit
    batch,       \* snapshots collected, being written or acknowledged
    wake         \* the one-slot channel Service.quotaWake

database == <<ruleRow, stateRow, created, publishing>>
worker == <<wpc, scan, batch>>
vars == <<now, database, entry, req, worker, wake>>

-----------------------------------------------------------------------------
(* Rows, runtime rules and tickets. *)

RulesOf(k) == {r \in Rules : Owner[r] = k}

NoWindow == [started |-> 0, ends |-> 0]
Window == [started : Nat, ends : Nat]
State == [used : 0 .. MaxInt64, window : Window,
          generation : 0 .. MaxUint64, version : 1 .. MaxUint64]
FreshState == [used |-> 0, window |-> NoWindow, generation |-> 0, version |-> 1]

Definition == [revision : 0 .. MaxUint64, limit : Nat, period : Nat]
NoRule == [revision |-> 0, limit |-> 0, period |-> 0]
StateRow == [revision : 0 .. MaxUint64, state : State]
NoRow == [revision |-> 0, state |-> FreshState]
RuntimeRule == [def : Definition, state : State, dirty : BOOLEAN]
NoEntry == [def |-> NoRule, state |-> FreshState, dirty |-> FALSE]
Snapshot == [rule : Rules, revision : 0 .. MaxUint64, state : State]

TicketRule == [revision : 0 .. MaxUint64, generation : 0 .. MaxUint64]
NoTicket == [r \in Rules |-> [revision |-> 0, generation |-> 0]]
\* "windows" is a history field: the windows that were current at admission.
Request == [pc : {"idle", "timed", "admitNotify", "admitted", "doneNotify"},
            key : Keys \cup {0}, at : Nat, snapshot : {"none", "current", "stale"},
            ticket : [Rules -> TicketRule], windows : [Rules -> Window]]
IdleRequest == [pc |-> "idle", key |-> 0, at |-> 0, snapshot |-> "none",
                ticket |-> NoTicket, windows |-> [r \in Rules |-> NoWindow]]

-----------------------------------------------------------------------------
(* Helpers of runtime.go. *)

\* advanceVersion, and the same guard for the window generation.
Saturating(n) == IF n < MaxUint64 THEN n + 1 ELSE n

periodicInactive(s, t) == s.window = NoWindow \/ t >= s.window.ends

\* ruleViewLocked: status "exhausted" of a rule that exists.
Exhausted(r, t) ==
    /\ entry[r].def.revision # 0
    /\ ~(r \in PeriodicRules /\ periodicInactive(entry[r].state, t))
    /\ entry[r].state.used >= entry[r].def.limit

\* decisionLocked
Blocking(k, t) == {r \in RulesOf(k) : Exhausted(r, t)}
Allowed(k, t) == Blocking(k, t) = {}
Recoverable(k, t) == Blocking(k, t) \subseteq PeriodicRules
\* Mutant: the earliest recovery instead of the latest.
FirstWindowEnd(k, t) ==
    CHOOSE e \in {entry[r].state.window.ends : r \in Blocking(k, t)} :
        \A r \in Blocking(k, t) : entry[r].state.window.ends >= e

NextAvailableAt(k, t) ==
    CHOOSE e \in {entry[r].state.window.ends : r \in Blocking(k, t)} :
        \A r \in Blocking(k, t) : entry[r].state.window.ends <= e

\* The window Admit opens for an inactive periodic rule.
OpenWindow(rule, t) ==
    [def |-> rule.def,
     state |-> [used |-> 0,
                window |-> [started |-> t, ends |-> t + rule.def.period],
                generation |-> Saturating(rule.state.generation),
                version |-> Saturating(rule.state.version)],
     dirty |-> TRUE]

\* The new usage of one rule in Complete.
Charge(used, cost) ==
    IF cost < 0 \/ used > MaxInt64 - cost THEN MaxInt64 ELSE used + cost

\* Mutant: the charge does not advance the version.
ChargedSilently(rule, cost) ==
    [def |-> rule.def,
     state |-> [rule.state EXCEPT !.used = Charge(rule.state.used, cost)],
     dirty |-> TRUE]

\* A charged rule in Complete.
Charged(rule, cost) ==
    [def |-> rule.def,
     state |-> [used |-> Charge(rule.state.used, cost),
                window |-> rule.state.window,
                generation |-> rule.state.generation,
                version |-> Saturating(rule.state.version)],
     dirty |-> TRUE]

\* Mutant: the window generation of the ticket is not compared.
MatchesRevision(rule, t, periodic) ==
    t.revision # 0 /\ rule.def.revision = t.revision

\* The rules of a ticket that Complete may still charge.
Matches(rule, t, periodic) ==
    /\ t.revision # 0
    /\ rule.def.revision = t.revision
    /\ periodic => rule.state.generation = t.generation

-----------------------------------------------------------------------------
(* Gateway requests. *)

\* The handler pins the config snapshot when it lists cost limits for the key,
\* and reads the clock before it takes any lock.
Begin(q, k) ==
    /\ req[q].pc = "idle"
    /\ req' = [req EXCEPT ![q] = [IdleRequest EXCEPT
           !.pc = "timed", !.key = k, !.at = now,
           !.snapshot = IF \E r \in RulesOf(k) : entry[r].def.revision # 0
                        THEN "current" ELSE "none"]]
    /\ UNCHANGED <<now, database, entry, worker, wake>>

\* Refused: the pinned snapshot is no longer the published one, or a rule is
\* exhausted. No ticket is kept, so nothing will be completed.
AdmitRefused(q) ==
    /\ req[q].pc = "timed"
    /\ req[q].snapshot = "stale" \/ ~Allowed(req[q].key, req[q].at)
    /\ req' = [req EXCEPT ![q] = IdleRequest]
    /\ UNCHANGED <<now, database, entry, worker, wake>>

\* Runtime.Admit, allowed: one critical section under the entry lock.
Admit(q) ==
    LET k == req[q].key
        t == req[q].at
        opened == {r \in RulesOf(k) \cap PeriodicRules :
                       entry[r].def.revision # 0 /\ periodicInactive(entry[r].state, t)}
    IN  /\ req[q].pc = "timed"
        /\ req[q].snapshot # "stale"
        /\ Allowed(k, t)
        /\ entry' = [r \in Rules |->
                        IF r \in opened THEN OpenWindow(entry[r], t) ELSE entry[r]]
        /\ req' = [req EXCEPT ![q] =
               [req[q] EXCEPT !.pc = IF opened = {} THEN "admitted" ELSE "admitNotify",
                         !.ticket = [r \in Rules |->
                            IF r \in RulesOf(k)
                            THEN [revision |-> entry'[r].def.revision,
                                  generation |-> entry'[r].state.generation]
                            ELSE NoTicket[r]],
                         !.windows = [r \in Rules |-> entry'[r].state.window]]]
        /\ UNCHANGED <<now, database, worker, wake>>

\* Runtime.Complete, the critical section: charge every rule that still matches.
Complete(q, cost) ==
    LET charged == {r \in Rules :
            /\ Matches(entry[r], req[q].ticket[r], r \in PeriodicRules)
            /\ Charge(entry[r].state.used, cost) # entry[r].state.used}
    IN  /\ req[q].pc = "admitted"
        /\ entry' = [r \in Rules |->
               IF r \in charged THEN Charged(entry[r], cost) ELSE entry[r]]
        /\ req' = [req EXCEPT ![q] = [IdleRequest EXCEPT
                       !.pc = IF charged = {} THEN "idle" ELSE "doneNotify"]]
        /\ UNCHANGED <<now, database, worker, wake>>

\* Runtime.notifyDirty and Service.wakeAccessQuotaCheckpoint, after the unlock.
NotifyDirty(q) ==
    /\ req[q].pc \in {"admitNotify", "doneNotify"}
    /\ wake' = TRUE
    /\ req' = [req EXCEPT ![q].pc = IF @ = "admitNotify" THEN "admitted" ELSE "idle"]
    /\ UNCHANGED <<now, database, entry, worker>>

-----------------------------------------------------------------------------
(* Control plane: edits commit in one transaction, then publish. *)

NewDefinition(revision, d) == [revision |-> revision, limit |-> d.limit, period |-> d.period]

\* A desired rule list of one key; limit 0 stands for "not listed".
Desired(k) == [RulesOf(k) -> [limit : Limits, period : Periods \cup {0}]
                                \cup {[limit |-> 0, period |-> 0]}]

\* normalizeAccessKeyCostLimitRules and the identity checks of the reconcile.
ValidDesired(k, desired) ==
    LET listed == {r \in RulesOf(k) : desired[r].limit # 0}
    IN  /\ \A r \in listed : /\ (desired[r].period # 0) <=> (r \in PeriodicRules)
                             /\ r \in created => ruleRow[r].revision # 0
        /\ \A r, s \in listed : desired[r].period = desired[s].period => r = s

\* Mutant: a changed period keeps the revision and the old state row.
neverRenewed(r, d) == FALSE

semanticsChanged(r, d) == r \in created /\ ruleRow[r].period # d.period

\* reconcileAccessKeyCostLimitRules: a period change starts a new revision and
\* resets the state row; a limit change keeps both.
EditRules(k, desired) ==
    LET listed == {r \in RulesOf(k) : desired[r].limit # 0}
        renewed == {r \in listed : semanticsChanged(r, desired[r])}
        Row(r) == CASE r \notin RulesOf(k) -> ruleRow[r]
                    [] r \in RulesOf(k) \ listed -> NoRule
                    [] r \in listed \ created -> NewDefinition(1, desired[r])
                    [] r \in renewed -> NewDefinition(ruleRow[r].revision + 1, desired[r])
                    [] OTHER -> NewDefinition(ruleRow[r].revision, desired[r])
    IN  /\ ~publishing
        /\ ValidDesired(k, desired)
        /\ \A r \in renewed : /\ ruleRow[r].revision < MaxUint64
                              /\ stateRow[r].revision = ruleRow[r].revision
        /\ ruleRow' = [r \in Rules |-> Row(r)]
        /\ stateRow' = [r \in Rules |->
               CASE r \in RulesOf(k) \ listed -> NoRow
                 [] r \in (listed \ created) \cup renewed ->
                        [revision |-> Row(r).revision, state |-> FreshState]
                 [] OTHER -> stateRow[r]]
        /\ created' = created \cup listed
        /\ publishing' = TRUE
        /\ UNCHANGED <<now, entry, req, worker, wake>>

\* ResetAccessKeyCostLimitRules
ResetRules(k, targets) ==
    /\ ~publishing
    /\ targets # {} /\ targets \subseteq RulesOf(k)
    /\ \A r \in targets : /\ ruleRow[r].revision \in 1 .. MaxUint64 - 1
                          /\ stateRow[r].revision = ruleRow[r].revision
    /\ ruleRow' = [r \in Rules |-> IF r \in targets
                                  THEN [ruleRow[r] EXCEPT !.revision = @ + 1]
                                  ELSE ruleRow[r]]
    /\ stateRow' = [r \in Rules |-> IF r \in targets
                       THEN [revision |-> ruleRow[r].revision + 1, state |-> FreshState]
                       ELSE stateRow[r]]
    /\ publishing' = TRUE
    /\ UNCHANGED <<now, created, entry, req, worker, wake>>

Reconciled(r) ==
    IF entry[r].def.revision = ruleRow[r].revision
    THEN [entry[r] EXCEPT !.def = ruleRow[r]]
    ELSE [def |-> ruleRow[r], state |-> FreshState, dirty |-> FALSE]

\* Runtime.Reconcile inside Manager.Publish: the published definitions are the
\* rows of the transaction, since writeMu admits no other edit in between.
Publish ==
    /\ publishing
    /\ \A r \in Rules : entry[r].def.revision = ruleRow[r].revision
                          => entry[r].def.period = ruleRow[r].period
    /\ entry' = [r \in Rules |-> Reconciled(r)]
    /\ publishing' = FALSE
    /\ req' = [q \in Requests |->
           [req[q] EXCEPT !.snapshot = IF @ = "current" THEN "stale" ELSE @]]
    /\ UNCHANGED <<now, ruleRow, stateRow, created, worker, wake>>

\* Another part of the publication, and the recovery after it, fails: the rows
\* stay committed and the runtime keeps the previous definitions.
PublishFails ==
    /\ publishing
    /\ publishing' = FALSE
    /\ UNCHANGED <<now, ruleRow, stateRow, created, entry, req, worker, wake>>

-----------------------------------------------------------------------------
(* The request-log worker: flushAccessQuotaCheckpoints. *)

\* runWorker leaves its select on a wake-up.
WorkerWakes ==
    /\ wpc = "idle"
    /\ wake
    /\ wpc' = "delay"
    /\ wake' = FALSE
    /\ UNCHANGED <<now, database, entry, req, scan, batch>>

\* Or on a queued log event, whose batch is followed by a flush as well.
WorkerTakesEvent ==
    /\ wpc = "idle"
    /\ wpc' = "delay"
    /\ UNCHANGED <<now, database, entry, req, scan, batch, wake>>

\* collectAndWrite swallows wake-ups until its timer fires.
WorkerAbsorbsWake ==
    /\ wpc = "delay"
    /\ wake
    /\ wake' = FALSE
    /\ UNCHANGED <<now, database, entry, req, worker>>

\* The timer fires: DirtySnapshots lists the keys, then locks one at a time.
FlushStarts ==
    /\ wpc = "delay"
    /\ scan' = {k \in Keys : \E r \in RulesOf(k) : entry[r].def.revision # 0}
    /\ wpc' = IF scan' = {} THEN "idle" ELSE "scan"
    /\ UNCHANGED <<now, database, entry, req, batch, wake>>

SnapshotOf(r) == [rule |-> r, revision |-> entry[r].def.revision, state |-> entry[r].state]

\* One key of DirtySnapshots. "picked" are its dirty rules, cut at the limit.
ScanKey(k, picked) ==
    LET dirty == {r \in RulesOf(k) : entry[r].def.revision # 0 /\ entry[r].dirty}
        full == Cardinality(batch) + Cardinality(picked) >= BatchLimit
    IN  /\ wpc = "scan"
        /\ k \in scan /\ \A j \in scan : k <= j
        /\ picked \subseteq dirty
        /\ Cardinality(batch) + Cardinality(picked) <= BatchLimit
        /\ full \/ picked = dirty
        /\ batch' = batch \cup {SnapshotOf(r) : r \in picked}
        /\ scan' = IF full THEN {} ELSE scan \ {k}
        /\ wpc' = CASE scan' # {} -> "scan"
                     [] scan' = {} /\ batch' # {} -> "write"
                     [] OTHER -> "idle"
        /\ UNCHANGED <<now, database, entry, req, wake>>

\* The WHERE clause of persistAccessQuotaSnapshot: only a newer version of the
\* same revision overwrites the row.
Overwrites(b, row) == b.revision = row.revision /\ b.state.version > row.state.version

\* The row of one rule after the batch, written in one transaction.
Persisted(r) ==
    LET newer == {b \in batch : b.rule = r /\ Overwrites(b, stateRow[r])}
    IN  IF newer = {} THEN stateRow[r]
        ELSE [stateRow[r] EXCEPT !.state = (CHOOSE b \in newer : TRUE).state]

WriteSnapshots ==
    /\ wpc = "write"
    /\ stateRow' = [r \in Rules |-> Persisted(r)]
    /\ wpc' = "ack"
    /\ UNCHANGED <<now, ruleRow, created, publishing, entry, req, scan, batch, wake>>

\* Mutant: a failed checkpoint is not retried before the next change.
WriteFailsSilently ==
    /\ wpc = "write"
    /\ wpc' = "idle"
    /\ batch' = {}
    /\ UNCHANGED <<now, database, entry, req, scan, wake>>

\* The transaction reports an error: rolled back, or committed all the same.
WriteFails ==
    /\ wpc = "write"
    /\ stateRow' \in {stateRow, [r \in Rules |-> Persisted(r)]}
    /\ wpc' = "idle"
    /\ batch' = {}
    /\ wake' = TRUE
    /\ UNCHANGED <<now, ruleRow, created, publishing, entry, req, scan>>

\* Mutant: the acknowledged version is not compared.
AcknowledgesRevision(b, rule) == rule.def.revision = b.revision

Acknowledges(b, rule) ==
    rule.def.revision = b.revision /\ rule.state.version = b.state.version

Ack(b) ==
    /\ wpc = "ack"
    /\ b \in batch
    /\ entry' = IF Acknowledges(b, entry[b.rule])
                THEN [entry EXCEPT ![b.rule].dirty = FALSE]
                ELSE entry
    /\ batch' = batch \ {b}
    /\ wpc' = IF batch' = {} THEN "recheck" ELSE "ack"
    /\ UNCHANGED <<now, database, req, scan, wake>>

\* DirtySnapshots(1) after the acknowledgements: wake up again for the rest.
Recheck ==
    /\ wpc = "recheck"
    /\ wake' = (wake \/ \E r \in Rules : entry[r].dirty)
    /\ wpc' = "idle"
    /\ UNCHANGED <<now, database, entry, req, scan, batch>>

-----------------------------------------------------------------------------
(* Time, and the end of the process. *)

Tick ==
    /\ now < MaxTime
    /\ now' = now + 1
    /\ UNCHANGED <<database, entry, req, worker, wake>>

\* applyRestoredState: the states startup accepts for a rule with this period.
WellFormed(r, s, period) ==
    IF r \in PeriodicRules /\ s.window # NoWindow
    THEN s.generation # 0 /\ s.window.ends - s.window.started = period
    ELSE /\ s.window = NoWindow
         /\ s.generation = 0
         /\ r \in PeriodicRules => s.used = 0

\* What Restore and the first Reconcile demand of the rows of one rule.
Restorable(r) ==
    /\ stateRow[r].revision = ruleRow[r].revision
    /\ ruleRow[r].revision # 0 => WellFormed(r, stateRow[r].state, ruleRow[r].period)

\* A crash at any point, then startup: Loader.Load rebuilds the runtime.
Restart ==
    /\ \A r \in Rules : Restorable(r)
    /\ entry' = [r \in Rules |->
           [def |-> ruleRow[r], state |-> stateRow[r].state, dirty |-> FALSE]]
    /\ req' = [q \in Requests |-> IdleRequest]
    /\ wpc' = "idle" /\ scan' = {} /\ batch' = {} /\ wake' = FALSE
    /\ publishing' = FALSE
    /\ UNCHANGED <<now, ruleRow, stateRow, created>>

-----------------------------------------------------------------------------
Init ==
    /\ now = 0
    /\ ruleRow = [r \in Rules |-> NoRule]
    /\ stateRow = [r \in Rules |-> NoRow]
    /\ created = {}
    /\ publishing = FALSE
    /\ entry = [r \in Rules |-> NoEntry]
    /\ req = [q \in Requests |-> IdleRequest]
    /\ wpc = "idle" /\ scan = {} /\ batch = {}
    /\ wake = FALSE

Control ==
    \/ \E k \in Keys : \/ \E desired \in Desired(k) : EditRules(k, desired)
                       \/ \E targets \in SUBSET RulesOf(k) : ResetRules(k, targets)
    \/ Publish
    \/ PublishFails

Gateway ==
    \E q \in Requests :
        \/ \E k \in Keys : Begin(q, k)
        \/ AdmitRefused(q)
        \/ Admit(q)
        \/ \E cost \in Costs : Complete(q, cost)
        \/ NotifyDirty(q)

Worker ==
    \/ WorkerWakes
    \/ WorkerTakesEvent
    \/ WorkerAbsorbsWake
    \/ FlushStarts
    \/ \E k \in Keys : \E picked \in SUBSET RulesOf(k) : ScanKey(k, picked)
    \/ WriteSnapshots
    \/ WriteFails
    \/ \E b \in batch : Ack(b)
    \/ Recheck

Next == Control \/ Gateway \/ Worker \/ Tick \/ Restart

Spec == Init /\ [][Next]_vars

\* The goroutines run: a request that marked a rule dirty gets to notify, the
\* worker leaves its select, its timer fires, its loops go on; and a database
\* that is written to again and again does not fail for ever.
Fairness ==
    /\ \A q \in Requests : WF_vars(NotifyDirty(q))
    /\ WF_vars(WorkerWakes) /\ WF_vars(FlushStarts)
    /\ WF_vars(\E k \in Keys : \E picked \in SUBSET RulesOf(k) : ScanKey(k, picked))
    /\ SF_vars(WriteSnapshots)
    /\ WF_vars(\E b \in batch : Ack(b)) /\ WF_vars(Recheck)

FairSpec == Spec /\ Fairness

-----------------------------------------------------------------------------
(* Properties. *)

\* Rows, runtime rules, tickets and snapshots have their types; in particular
\* used_nano_usd stays in 0 .. MaxInt64 and the counters in 0 .. MaxUint64, so
\* the additions of Complete and Admit saturate and never wrap.
TypeOK ==
    /\ now \in Nat
    /\ ruleRow \in [Rules -> Definition]
    /\ stateRow \in [Rules -> StateRow]
    /\ created \subseteq Rules
    /\ publishing \in BOOLEAN
    /\ entry \in [Rules -> RuntimeRule]
    /\ req \in [Requests -> Request]
    /\ wpc \in {"idle", "delay", "scan", "write", "ack", "recheck"}
    /\ scan \subseteq Keys
    /\ batch \subseteq Snapshot
    /\ wake \in BOOLEAN

\* A rule the runtime holds as clean is durable: the checkpoint row of the same
\* revision holds exactly the usage, window and generation in memory. Below the
\* saturation of the version counter; at saturation the row no longer changes.
CleanIsDurable ==
    \A r \in Rules :
        /\ entry[r].def.revision # 0
        /\ stateRow[r].revision = entry[r].def.revision
        /\ entry[r].state.version < MaxUint64
        /\ ~entry[r].dirty
        => stateRow[r].state = entry[r].state

\* The database never runs ahead of memory: within one revision the stored
\* version is not newer, an equal version is the same state, and within one
\* window the stored usage is not larger. A restart invents no spending, and a
\* snapshot taken before an edit never reaches the rows of the new revision.
StoredIsPast ==
    \A r \in Rules :
        LET row == stateRow[r].state
            mem == entry[r].state
        IN  /\ entry[r].def.revision # 0
            /\ stateRow[r].revision = entry[r].def.revision
            /\ mem.version < MaxUint64
            => /\ row.version <= mem.version
               /\ row.version = mem.version => row = mem
               /\ row.window = mem.window => row.used <= mem.used

\* Startup never refuses the rows it finds, whatever edit, checkpoint or crash
\* came before (Runtime.Restore and entriesFromRestore reject them otherwise,
\* and the process does not start).
RestartPossible == \A r \in Rules : Restorable(r)

\* The retry time a blocked request is told is exact: the key stays blocked
\* until then and is free at that instant unless somebody spends meanwhile.
NextAvailableIsExact ==
    \A k \in Keys :
        ~Allowed(k, now) /\ Recoverable(k, now) =>
            LET t == NextAvailableAt(k, now)
            IN  t > now /\ Allowed(k, t) /\ ~Allowed(k, t - 1)

\* Usage grows only by the completion of a request admitted into the very
\* window, and under the very revision, that is charged: an answer that arrives
\* after the window rolled over, or after a reset, is not billed to the new one.
ChargesOwnWindow ==
    \A r \in Rules :
       /\ entry'[r].def.revision = entry[r].def.revision
       /\ entry'[r].state.window = entry[r].state.window
       /\ entry'[r].state.used > entry[r].state.used
       /\ entry[r].state.generation < MaxUint64
       => \E q \in Requests :
             /\ req[q].pc = "admitted" /\ req'[q].pc # "admitted"
             /\ req[q].ticket[r].revision = entry[r].def.revision
             /\ req[q].windows[r] = entry[r].state.window

\* Short of a crash, spending is forgotten only when its window has ended or
\* the rule has a new revision: publishing other edits keeps it.
SpendingIsKept ==
    Restart \/ \A r \in Rules :
       /\ entry'[r].def.revision = entry[r].def.revision
       /\ entry'[r].state.used < entry[r].state.used
       => r \in PeriodicRules /\ now >= entry[r].state.window.ends

\* Every change of a rule is eventually checkpointed, unless a newer revision
\* replaces the rule or the process restarts from an older row: no wake-up of
\* the worker is lost between the notification, the flush and the recheck.
DirtyIsPersisted ==
    \A r \in Rules, n \in 1 .. MaxUint64, v \in 1 .. MaxUint64 - 1 :
        (entry[r].def.revision = n /\ entry[r].dirty /\ entry[r].state.version = v)
        ~> \/ entry[r].def.revision # n
           \/ entry[r].state.version < v
           \/ stateRow[r].revision # n
           \/ stateRow[r].state.version >= v

=============================================================================
