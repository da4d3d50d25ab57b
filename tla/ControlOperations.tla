-------------------------- MODULE ControlOperations --------------------------
(***************************************************************************)
(* The writes of the control plane: every change of the configuration is   *)
(* committed to the database and then applied, part by part, to the state  *)
(* the data plane reads.  An idempotent operation leaves a row that says   *)
(* how far its application came; requests, a background worker and the     *)
(* start of the process finish what an earlier one left unfinished.  The   *)
(* configuration is abstracted to a version of each part.                  *)
(***************************************************************************)
EXTENDS Integers, Sequences, FiniteSets

CONSTANTS
    Keys,          \* idempotency keys
    Digests,       \* digests of request bodies
    OpKinds,       \* the kinds of idempotent operations in use
    WriteKinds,    \* the kinds of plain writes in use
    MaxCommits,    \* bound: commits
    MaxFaults,     \* bound: failing steps
    MaxCrashes,    \* bound: crashes
    Ambiguous      \* a commit may succeed and still report an error

ConstantsAssumption ==
    /\ OpKinds \subseteq {"access_key", "group_create", "credential_import"}
    /\ WriteKinds \subseteq {"config", "group", "credential"}
    /\ MaxCommits \in Nat /\ MaxFaults \in Nat /\ MaxCrashes \in Nat /\ Ambiguous \in BOOLEAN

VARIABLES
    row,       \* row[k]: the operation row of key k, or NoRow
    db,        \* the committed version of each part
    mem,       \* the version of each part the data plane reads
    holder,    \* who holds writeMu: "nobody", "request", "worker" or "start"
    job,       \* what the holder is doing
    wake,      \* the one-slot wake-up channel of the worker
    retry,     \* the worker's retry timer is set
    up,        \* "down", "loaded" or "listening"
    commits, faults, crashes,
    mutated,   \* history: how often key k has changed the database
    answered,  \* history: <<key, digest>> of the requests answered with success
    reported   \* history: parts whose stale version was reported as an error

durable == <<row, db>>
worker == <<wake, retry>>
history == <<mutated, answered, reported>>
vars == <<row, db, mem, holder, job, wake, retry, up, commits, faults, crashes, history>>

Parts == {"prices", "registry", "snapshot"}

(* operationRequiredStages *)
Plan(kind) ==
    CASE kind = "access_key" -> <<"db", "snapshot", "completed">>
      [] kind = "group_create" -> <<"db", "prices", "registry", "snapshot", "completed">>
      [] kind = "credential_import" -> <<"db", "registry", "completed">>

Touches(kind) ==
    CASE kind \in {"access_key", "config"} -> {"snapshot"}
      [] kind \in {"group_create", "group"} -> Parts
      [] kind \in {"credential_import", "credential"} -> {"registry"}

NoRow == [seq |-> 0]
Rows == [seq : 1 .. MaxCommits, digest : Digests, kind : OpKinds, at : 1 .. 5,
         ver : [Parts -> 0 .. MaxCommits], compacted : BOOLEAN]
Exists(k) == row[k] # NoRow
Done(k) == Exists(k) /\ row[k].at = Len(Plan(row[k].kind))
Pending == {k \in Keys : Exists(k) /\ ~Done(k)}
First(ks) == CHOOSE k \in ks : \A j \in ks : row[k].seq <= row[j].seq

Idle == [pc |-> "idle"]
NoKey == "no key"
Jobs == [pc : {"lookup", "list", "stage", "advance", "mutate", "commit", "publish", "repair"},
         goal : {"new", "replay", "own", "drain", "write"},
         key : Keys \cup {NoKey}, digest : Digests \cup {NoKey},
         kind : OpKinds \cup WriteKinds \cup {NoKey},
         todo : SUBSET Keys, left : SUBSET Parts]
Job(pc, goal, k, d, kind) ==
    [pc |-> pc, goal |-> goal, key |-> k, digest |-> d, kind |-> kind, todo |-> {}, left |-> {}]

Init ==
    /\ row = [k \in Keys |-> NoRow]
    /\ db = [p \in Parts |-> 0] /\ mem = db
    /\ holder = "nobody" /\ job = Idle /\ wake = FALSE /\ retry = FALSE
    /\ up = "listening" /\ commits = 0 /\ faults = 0 /\ crashes = 0
    /\ mutated = [k \in Keys |-> 0] /\ answered = {} /\ reported = {}

-----------------------------------------------------------------------------
Release == holder' = "nobody" /\ job' = Idle
Continue(j) == job' = j /\ UNCHANGED holder
Fault == faults < MaxFaults /\ faults' = faults + 1 /\ UNCHANGED <<commits, crashes>>
NoFault == UNCHANGED <<commits, faults, crashes>>
Bump(kind) == [p \in Parts |-> IF p \in Touches(kind) THEN db[p] + 1 ELSE db[p]]

\* Mutant: the failure of an operation does not wake the worker.
FailSilently ==
    /\ Release /\ UNCHANGED wake
    /\ up' = IF holder = "start" THEN "down" ELSE up
    /\ retry' = IF holder = "worker" THEN TRUE ELSE retry

(* A recovery failed.  An operation's own request wakes the worker, the    *)
(* worker sets its retry timer, a start gives up, others just answer.      *)
Fail ==
    /\ Release
    /\ wake' = (wake \/ job.goal = "own")
    /\ retry' = IF holder = "worker" THEN TRUE ELSE retry
    /\ up' = IF holder = "start" THEN "down" ELSE up

-----------------------------------------------------------------------------
(* executeIdempotentOperation takes writeMu. *)
Request(k, d, kind) ==
    /\ up = "listening" /\ holder = "nobody"
    /\ holder' = "request" /\ job' = Job("lookup", "new", k, d, kind)
    /\ NoFault /\ UNCHANGED <<durable, mem, worker, up, history>>

\* Mutant: a compacted row does not count as a known key.
LookupForgets ==
    /\ job.pc = "lookup"
    /\ \/ /\ (Exists(job.key) => row[job.key].compacted)
          /\ Continue([job EXCEPT !.pc = "list", !.goal = "new"]) /\ NoFault
       \/ /\ Exists(job.key) /\ row[job.key].digest # job.digest /\ Release /\ NoFault
       \/ /\ Exists(job.key) /\ ~row[job.key].compacted /\ row[job.key].digest = job.digest
          /\ Continue([job EXCEPT !.pc = "list", !.goal = "replay"]) /\ NoFault
       \/ Fault /\ Release
    /\ UNCHANGED <<durable, mem, worker, up, history>>

(* The key is looked up and compared, before any recovery. *)
Lookup ==
    /\ job.pc = "lookup"
    /\ \/ /\ ~Exists(job.key) /\ Continue([job EXCEPT !.pc = "list", !.goal = "new"]) /\ NoFault
       \/ /\ Exists(job.key) /\ row[job.key].digest # job.digest /\ Release /\ NoFault
       \/ /\ Exists(job.key) /\ row[job.key].digest = job.digest
          /\ Continue([job EXCEPT !.pc = "list", !.goal = "replay"]) /\ NoFault
       \/ Fault /\ Release
    /\ UNCHANGED <<durable, mem, worker, up, history>>

(* recoverPendingOperationsLocked lists what it will finish: all of it, or *)
(* what was committed before the replayed operation.                       *)
Before == IF job.goal = "replay" THEN {k \in Pending : row[k].seq < row[job.key].seq} ELSE Pending
List ==
    /\ job.pc = "list"
    /\ \/ Continue([job EXCEPT !.pc = "stage", !.todo = Before]) /\ NoFault
          /\ UNCHANGED <<worker, up>>
       \/ Fault /\ Fail
    /\ UNCHANGED <<durable, mem, history>>

(* One stage of recoverOperationLocked: its part is loaded from the        *)
(* database and published, unless what is published matches already.       *)
Stage ==
    /\ job.pc = "stage" /\ job.todo # {}
    /\ LET k == First(job.todo)
           next == Plan(row[k].kind)[row[k].at + 1]
       IN \/ /\ Continue([job EXCEPT !.pc = "advance"]) /\ NoFault /\ UNCHANGED <<worker, up>>
             /\ mem' = IF next \in Parts THEN [mem EXCEPT ![next] = db[next]] ELSE mem
          \/ next \in Parts /\ Fault /\ Fail /\ UNCHANGED mem
    /\ UNCHANGED <<durable, history>>

(* advanceOperationStageLocked, one transaction; recordOperationFailure    *)
(* changes only what error messages say.                                   *)
Advance ==
    /\ job.pc = "advance"
    /\ LET k == First(job.todo)
           next == [row EXCEPT ![k].at = @ + 1]
           last == next[k].at = Len(Plan(next[k].kind))
       IN \/ /\ row' = next /\ NoFault /\ UNCHANGED <<worker, up>>
             /\ Continue([job EXCEPT !.pc = "stage", !.todo = IF last THEN @ \ {k} ELSE @])
          \/ UNCHANGED row /\ Fault /\ Fail
          \/ Ambiguous /\ row' = next /\ Fault /\ Fail
    /\ UNCHANGED <<db, mem, history>>

Answer == answered' = answered \cup {<<job.key, job.digest>>}

(* Nothing is left to finish: the request goes on, or is answered. *)
Finished ==
    /\ job.pc = "stage" /\ job.todo = {}
    /\ CASE job.goal = "new" -> Continue([job EXCEPT !.pc = "mutate"]) /\ UNCHANGED <<retry, up, answered>>
         [] job.goal = "write" -> Continue([job EXCEPT !.pc = "commit"]) /\ UNCHANGED <<retry, up, answered>>
         [] job.goal = "own" -> Release /\ Answer /\ UNCHANGED <<retry, up>>
         [] job.goal = "replay" ->
              /\ UNCHANGED <<retry, up>>
              /\ IF row[job.key].compacted THEN Release /\ UNCHANGED answered
                 ELSE IF Done(job.key) THEN Release /\ Answer
                 ELSE /\ Continue([job EXCEPT !.goal = "own", !.todo = {job.key}])
                      /\ UNCHANGED answered
         [] job.goal = "drain" ->
              /\ Release /\ UNCHANGED answered
              /\ IF holder = "start" THEN up' = "listening" /\ UNCHANGED retry
                 ELSE retry' = FALSE /\ UNCHANGED up
    /\ NoFault /\ UNCHANGED <<durable, mem, wake, mutated, reported>>

(* The mutation and its operation row are one transaction. *)
Mutate ==
    /\ job.pc = "mutate"
    /\ LET k == job.key
           ver == Bump(job.kind)
           Commit ==
              /\ db' = ver /\ mutated' = [mutated EXCEPT ![k] = @ + 1]
              /\ row' = [row EXCEPT ![k] = [seq |-> commits + 1, digest |-> job.digest, kind |-> job.kind,
                                            at |-> 1, ver |-> ver, compacted |-> FALSE]]
              /\ commits' = commits + 1 /\ UNCHANGED crashes
       IN \/ /\ commits < MaxCommits /\ Commit /\ UNCHANGED faults
             /\ Continue([job EXCEPT !.pc = "stage", !.goal = "own", !.todo = {k}])
          \/ Release /\ NoFault /\ UNCHANGED <<durable, mutated>>
          \/ /\ Ambiguous /\ commits < MaxCommits /\ faults < MaxFaults
             /\ Commit /\ faults' = faults + 1 /\ Release
    /\ UNCHANGED <<mem, worker, up, answered, reported>>

-----------------------------------------------------------------------------
(* writeConfig, writeGroupConfig and writeCredentialConfig take writeMu. *)
Write(kind) ==
    /\ up = "listening" /\ holder = "nobody"
    /\ holder' = "request" /\ job' = Job("list", "write", NoKey, NoKey, kind)
    /\ NoFault /\ UNCHANGED <<durable, mem, worker, up, history>>

(* Its transaction; what it will publish was read inside of it. *)
CommitWrite ==
    /\ job.pc = "commit"
    /\ \/ /\ commits < MaxCommits /\ commits' = commits + 1 /\ UNCHANGED <<faults, crashes>>
          /\ db' = Bump(job.kind) /\ UNCHANGED reported
          /\ Continue([job EXCEPT !.pc = "publish", !.left = Touches(job.kind)])
       \/ Release /\ NoFault /\ UNCHANGED <<db, reported>>
       \/ /\ Ambiguous /\ commits < MaxCommits /\ commits' = commits + 1
          /\ faults < MaxFaults /\ faults' = faults + 1 /\ UNCHANGED crashes
          /\ db' = Bump(job.kind) /\ reported' = reported \cup Touches(job.kind) /\ Release
    /\ UNCHANGED <<row, mem, worker, up, mutated, answered>>

Next1(left) ==
    CASE "prices" \in left -> "prices" [] "registry" \in left -> "registry" [] OTHER -> "snapshot"

(* The parts are applied in order: the prices, the registry, the snapshot. *)
Publish ==
    /\ job.pc = "publish"
    /\ LET p == Next1(job.left) IN
       \/ /\ mem' = [mem EXCEPT ![p] = db[p]] /\ NoFault
          /\ IF job.left = {p} THEN Release ELSE Continue([job EXCEPT !.left = @ \ {p}])
       \/ /\ p # "prices" /\ Fault /\ UNCHANGED mem /\ Continue([job EXCEPT !.pc = "repair"])
    /\ UNCHANGED <<durable, worker, up, history>>

(* recoverCommittedRuntime and recoverCommittedCredentialRegistryGroup     *)
(* reload what the write touched; they fail at the load or at one part.    *)
(* The write answers with an error in every case.                          *)
Repair ==
    /\ job.pc = "repair" /\ Release
    /\ \E done \in {{}, {"prices"}, {"prices", "registry"}, Parts} :
          LET applied == done \cap Touches(job.kind)
          IN /\ mem' = [p \in Parts |-> IF p \in applied THEN db[p] ELSE mem[p]]
             /\ IF applied = Touches(job.kind) THEN NoFault ELSE Fault
             /\ reported' = reported \cup (Touches(job.kind) \ applied)
    /\ UNCHANGED <<durable, worker, up, mutated, answered>>

-----------------------------------------------------------------------------
(* RunOperationRecovery receives its wake-up or the retry timer. *)
Wake ==
    /\ up = "listening" /\ holder = "nobody" /\ holder' = "worker"
    /\ \/ wake /\ wake' = FALSE /\ UNCHANGED retry
       \/ retry /\ retry' = FALSE /\ UNCHANGED wake
    /\ job' = Job("list", "drain", NoKey, NoKey, NoKey)
    /\ NoFault /\ UNCHANGED <<durable, mem, up, history>>

(* compactCompletedOperationsLocked, hourly: the results past retention;   *)
(* the comparator stays.                                                   *)
Compact(k) ==
    /\ up = "listening" /\ holder = "nobody"
    /\ Done(k) /\ ~row[k].compacted
    /\ row' = [row EXCEPT ![k].compacted = TRUE]
    /\ NoFault /\ UNCHANGED <<db, mem, holder, job, worker, up, history>>

Crash ==
    /\ crashes < MaxCrashes /\ crashes' = crashes + 1 /\ UNCHANGED <<commits, faults>>
    /\ up # "down" /\ up' = "down" /\ Release
    /\ wake' = FALSE /\ retry' = FALSE
    /\ UNCHANGED <<durable, mem, history>>

(* The start loads every part from the database, then drains the pending   *)
(* operations before the process listens.                                  *)
Start ==
    /\ up = "down" /\ up' = "loaded" /\ holder' = "start"
    /\ mem' = db /\ reported' = {}
    /\ job' = Job("list", "drain", NoKey, NoKey, NoKey)
    /\ NoFault /\ UNCHANGED <<durable, worker, mutated, answered>>

Step == Lookup \/ List \/ Stage \/ Advance \/ Finished \/ Mutate \/ CommitWrite \/ Publish \/ Repair

Next ==
    \/ \E k \in Keys, d \in Digests, kind \in OpKinds : Request(k, d, kind)
    \/ \E kind \in WriteKinds : Write(kind)
    \/ \E k \in Keys : Compact(k)
    \/ Step \/ Wake \/ Crash \/ Start

Spec == Init /\ [][Next]_vars

(* The holder of writeMu goes on, the supervisor starts the process again, *)
(* and the worker gets the lock infinitely often when it waits for it.     *)
Fairness == WF_vars(Step) /\ WF_vars(Start) /\ SF_vars(Wake)

FairSpec == Spec /\ Fairness

-----------------------------------------------------------------------------
TypeOK ==
    /\ row \in [Keys -> Rows \cup {NoRow}]
    /\ db \in [Parts -> 0 .. MaxCommits] /\ mem \in [Parts -> 0 .. MaxCommits]
    /\ holder \in {"nobody", "request", "worker", "start"}
    /\ job \in Jobs \cup {Idle} /\ (job = Idle <=> holder = "nobody")
    /\ wake \in BOOLEAN /\ retry \in BOOLEAN /\ up \in {"down", "loaded", "listening"}
    /\ commits \in 0 .. MaxCommits /\ faults \in 0 .. MaxFaults /\ crashes \in 0 .. MaxCrashes
    /\ mutated \in [Keys -> Nat] /\ answered \subseteq Keys \X Digests
    /\ reported \subseteq Parts

(* A request that is retried, after an error, a crash or the compaction of *)
(* its result, changes the database at most once, and only requests with   *)
(* the body that did so are answered with its result.                      *)
AtMostOnce ==
    /\ \A k \in Keys : mutated[k] <= 1
    /\ \A a \in answered : row[a[1]] # NoRow /\ row[a[1]].digest = a[2]

(* The barrier: an operation is committed only when all earlier ones are   *)
(* complete, so one at most is ever unfinished, whatever fails.            *)
OneUnfinished == Cardinality(Pending) <= 1

(* What an operation has completed the data plane sees: none of the parts  *)
(* it changed is older than its commit while the process serves.           *)
CompletedIsVisible ==
    up # "down" =>
       \A k \in Keys : Done(k) =>
          \A p \in Touches(row[k].kind) : mem[p] >= row[k].ver[p]

(* A success is the success of the whole operation.                        *)
AnsweredIsDone == \A a \in answered : Done(a[1])

(* While nobody writes, a part that is older than the database belongs to  *)
(* an unfinished operation or was reported as an error to its writer.      *)
DivergenceIsReported ==
    up = "listening" /\ holder = "nobody" =>
       \A p \in Parts : mem[p] = db[p] \/ p \in reported
                        \/ \E k \in Pending : p \in Touches(row[k].kind)

(* An operation whose commit was reported, or that its own retry, the      *)
(* worker or a start has taken up, completes without another request: the  *)
(* wake-up is not lost and the worker retries until it succeeds.  One that *)
(* was committed by a transaction that reported an error wakes nobody and  *)
(* stays pending until another request or a restart.                       *)
OperationsComplete ==
    \A k \in Keys : (job # Idle /\ job.goal \in {"own", "drain"} /\ k \in job.todo) ~> Done(k)

(* A restart finishes every committed operation, whatever was reported.    *)
RestartCompletes == \A k \in Keys : (up = "down" /\ Exists(k)) ~> Done(k)
=============================================================================
