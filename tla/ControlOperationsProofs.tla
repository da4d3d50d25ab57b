------------------------ MODULE ControlOperationsProofs ------------------------
(***************************************************************************)
(* Proofs about ControlOperations for every set of keys and digests and    *)
(* any number of commits, failing steps and crashes: what an idempotent    *)
(* operation promises, and how far the memory of the data plane may be     *)
(* from the database.                                                      *)
(***************************************************************************)
EXTENDS ControlOperations, FiniteSetTheorems, TLAPS

Kinds == {"access_key", "group_create", "credential_import"}
Writes == {"config", "group", "credential"}

\* The parts that a plan has still to apply after its first n stages.
Rest(kind, n) == {p \in Parts : \E i \in (n + 1) .. Len(Plan(kind)) : Plan(kind)[i] = p}

\* Memory is never ahead of the database.
Bounded == \A p \in Parts : mem[p] <= db[p] /\ db[p] <= commits

\* A row stands at a stage of its plan; what it has applied is in memory.
RowOK(k) ==
  Exists(k) => /\ row[k].at <= Len(Plan(row[k].kind))
               /\ \A p \in Parts : row[k].ver[p] <= db[p]
               /\ \A p \in Touches(row[k].kind) : p \notin Rest(row[k].kind, row[k].at) => mem[p] >= row[k].ver[p]

\* A key has changed the database exactly when it has a row.
Once == \A k \in Keys : mutated[k] = IF Exists(k) THEN 1 ELSE 0

\* What was answered with success is done, with the digest it was asked with.
Answers == \A a \in answered : Done(a[1]) /\ row[a[1]].digest = a[2]

\* At most one operation is unfinished.
Single == \A j, k \in Pending : j = k

\* What the holder of writeMu may rely on, by its goal and its place.
JobGoal ==
  /\ job.goal \in {"new", "replay", "own"} => job.key \in Keys /\ job.digest \in Digests /\ job.kind \in OpKinds
  /\ job.goal = "new" => job.pc \in {"lookup", "list", "stage", "advance", "mutate"}
  /\ job.goal = "own" => job.pc \in {"stage", "advance"}
  /\ job.goal \in {"replay", "drain"} => job.pc \in {"list", "stage", "advance"}
  /\ job.goal = "write" => job.kind \in WriteKinds /\ job.pc \in {"list", "stage", "advance", "commit", "publish", "repair"}
  /\ job.goal = "new" /\ job.pc # "lookup" => ~Exists(job.key)
  /\ job.goal \in {"replay", "own"} => Exists(job.key) /\ row[job.key].digest = job.digest

\* Where a job stands in the stages of its row.
JobPlace ==
  /\ job.pc \in {"stage", "advance"} => job.todo \subseteq Pending /\ (job.goal # "replay" => job.todo = Pending)
  /\ job.pc = "advance" =>
       /\ job.todo # {}
       /\ \A k \in job.todo : \A p \in Parts : p = Plan(row[k].kind)[row[k].at + 1] => mem[p] = db[p]
  /\ job.pc \in {"mutate", "commit", "publish", "repair"} => Pending = {}
  /\ job.pc \in {"publish", "repair"} => job.left \subseteq Touches(job.kind)
  /\ job.pc = "publish" => job.left # {}

\* A job exists only in a process that is up.
JobOK == job.pc # "idle" => up # "down" /\ JobGoal /\ JobPlace

\* Why memory and database may differ while the process is up.
Excused(p) ==
  \/ p \in reported
  \/ \E k \in Pending : p \in Rest(row[k].kind, row[k].at)
  \/ job.pc = "publish" /\ p \in job.left
  \/ job.pc = "repair" /\ p \in Touches(job.kind)

\* Memory differs from the database only where somebody has yet to act.
Divergence == up # "down" => \A p \in Parts : mem[p] = db[p] \/ Excused(p)

\* The inductive invariant.
Inv ==
  /\ TypeOK /\ Bounded
  /\ \A k \in Keys : RowOK(k)
  /\ Once /\ Answers /\ Single /\ JobOK /\ Divergence

-----------------------------------------------------------------------------
\* operationRequiredStages: each stage applies one part that the operation
\* touches, and the last one none.
LEMMA PlanFacts ==
  ASSUME NEW kind \in Kinds
  PROVE  /\ Len(Plan(kind)) \in 3 .. 5
         /\ Rest(kind, 1) = Touches(kind) /\ Rest(kind, Len(Plan(kind))) = {}
         /\ \A n \in 1 .. 5 : n < Len(Plan(kind)) => Rest(kind, n + 1) = Rest(kind, n) \ {Plan(kind)[n + 1]}
         /\ \A n \in 1 .. 5 : Rest(kind, n) \subseteq Touches(kind)
<1>1. CASE kind = "access_key"
  BY <1>1 DEF Plan, Touches, Rest, Parts
<1>2. CASE kind = "group_create"
  BY <1>2 DEF Plan, Touches, Rest, Parts
<1>3. CASE kind = "credential_import"
  BY <1>3 DEF Plan, Touches, Rest, Parts
<1> QED
  BY <1>1, <1>2, <1>3 DEF Kinds

\* What an operation or a write touches is made of parts.
LEMMA TouchesFacts ==
  ASSUME NEW kind \in Kinds \cup Writes
  PROVE  Touches(kind) \subseteq Parts /\ Touches(kind) # {}
<1>1. CASE kind \in {"access_key", "config"}
  BY <1>1 DEF Touches, Parts
<1>2. CASE kind \in {"group_create", "group"}
  BY <1>2 DEF Touches, Parts
<1>3. CASE kind \in {"credential_import", "credential"}
  BY <1>3 DEF Touches, Parts
<1> QED
  BY <1>1, <1>2, <1>3 DEF Kinds, Writes

\* The kinds in use are kinds the code knows.
LEMMA ConstantFacts ==
  ASSUME ConstantsAssumption
  PROVE  OpKinds \subseteq Kinds /\ WriteKinds \subseteq Writes /\ MaxCommits \in Nat /\ MaxFaults \in Nat
         /\ MaxCrashes \in Nat
BY Zenon DEF Kinds, Writes, ConstantsAssumption

\* A row that asks for no more than one version of the parts asks for no more
\* than a later one.
LEMMA VersionsGrow ==
  ASSUME ConstantsAssumption, NEW f \in [Parts -> 0 .. MaxCommits],
         NEW g \in [Parts -> 0 .. MaxCommits], NEW h \in [Parts -> 0 .. MaxCommits],
         \A p \in Parts : f[p] <= g[p], \A p \in Parts : g[p] <= h[p]
  PROVE  \A p \in Parts : f[p] <= h[p]
<1>1. \A p \in Parts : f[p] \in Nat /\ g[p] \in Nat /\ h[p] \in Nat
  BY DEF ConstantsAssumption
<1> QED
  BY <1>1

\* What a request may rely on once it carries its own operation out.
LEMMA OwnGoal ==
  ASSUME NEW k \in Keys, job'.goal = "own", job'.pc \in {"stage", "advance"}, job'.key = k,
         job'.digest \in Digests, job'.kind \in OpKinds,
         Exists(k)', row'[k].digest = job'.digest
  PROVE  JobGoal'
  BY Zenon DEF JobGoal

\* A key has a row or none.
LEMMA RowFacts ==
  ASSUME ConstantsAssumption, TypeOK, NEW k \in Keys
  PROVE  /\ Exists(k) <=> row[k] \in Rows
         /\ Exists(k) => /\ row[k].kind \in Kinds /\ row[k].at \in 1 .. 5 /\ row[k].seq \in Nat
                         /\ row[k].ver \in [Parts -> 0 .. MaxCommits] /\ row[k].digest \in Digests
         /\ row[k] = NoRow \/ row[k] \in Rows
<1>1. NoRow \notin Rows
  BY DEF NoRow, Rows, ConstantsAssumption
<1>2. row[k] = NoRow \/ row[k] \in Rows
  BY DEF TypeOK
<1>3. Exists(k) <=> row[k] \in Rows
  BY <1>1, <1>2 DEF Exists
<1>4. ASSUME NEW r \in Rows
      PROVE  /\ r.kind \in Kinds /\ r.at \in 1 .. 5 /\ r.seq \in Nat
             /\ r.ver \in [Parts -> 0 .. MaxCommits] /\ r.digest \in Digests
  <2>1. r.kind \in OpKinds /\ r.at \in 1 .. 5 /\ r.seq \in 1 .. MaxCommits
        /\ r.ver \in [Parts -> 0 .. MaxCommits] /\ r.digest \in Digests
    BY DEF Rows
  <2> QED
    BY <2>1, ConstantFacts
<1> QED
  BY <1>2, <1>3, <1>4

\* The control plane starts in the invariant.
LEMMA InitInv ==
  ASSUME ConstantsAssumption
  PROVE  Init => Inv
<1> SUFFICES ASSUME Init PROVE Inv
  OBVIOUS
<1>1. 0 \in 0 .. MaxCommits /\ 0 \in 0 .. MaxFaults /\ 0 \in 0 .. MaxCrashes
  BY DEF ConstantsAssumption
<1>2. TypeOK
  BY <1>1, Zenon DEF Init, TypeOK
<1>3. \A k \in Keys : ~Exists(k)
  BY DEF Init, Exists
<1>4. Pending = {}
  BY <1>3 DEF Pending
<1>5. Bounded /\ Divergence
  BY DEF Init, Bounded, Divergence
<1>6. (\A k \in Keys : RowOK(k)) /\ Once /\ Answers /\ Single /\ JobOK
  BY <1>3, <1>4 DEF Init, RowOK, Once, Answers, Single, JobOK, Idle
<1> QED
  BY <1>2, <1>5, <1>6 DEF Inv

-----------------------------------------------------------------------------
\* Rows, history and versions that stay as they are.
Rest1 == <<row, db, mem, commits, mutated, reported>>

\* A step that only changes what the holder is doing, or ends it.
LEMMA JobOnly ==
  ASSUME ConstantsAssumption, Inv, UNCHANGED Rest1,
         job' \in Jobs \cup {Idle}, holder' \in {"nobody", "request", "worker", "start"},
         job' = Idle <=> holder' = "nobody",
         wake' \in BOOLEAN, retry' \in BOOLEAN, up' \in {"down", "loaded", "listening"},
         faults' \in 0 .. MaxFaults, crashes' \in 0 .. MaxCrashes,
         answered' \subseteq Keys \X Digests,
         \A a \in answered' : a \in answered \/ (Done(a[1]) /\ row[a[1]].digest = a[2]),
         JobOK',
         up' = "down" \/ (up # "down" /\ job.pc \notin {"publish", "repair"})
  PROVE  Inv'
<1>1. row' = row /\ db' = db /\ mem' = mem /\ commits' = commits /\ mutated' = mutated /\ reported' = reported
  BY DEF Rest1
<1>2. TypeOK'
  BY <1>1 DEF Inv, TypeOK
<1>3. Bounded' /\ (\A k \in Keys : RowOK(k)') /\ Once'
  BY <1>1 DEF Inv, Bounded, RowOK, Once, Exists
<1>4. Pending' = Pending /\ \A k : Done(k)' <=> Done(k)
  BY <1>1 DEF Pending, Done, Exists
<1>5. Answers' /\ Single'
  BY <1>1, <1>4 DEF Inv, Answers, Single
<1>6. Divergence'
  BY <1>1, <1>4 DEF Inv, Divergence, Excused
<1> QED
  BY <1>2, <1>3, <1>5, <1>6 DEF Inv

\* A step that ends the holder's work, and only that.
LEMMA ReleaseOnly ==
  ASSUME ConstantsAssumption, Inv, UNCHANGED Rest1, Release,
         wake' \in BOOLEAN, retry' \in BOOLEAN, up' \in {"down", "loaded", "listening"},
         faults' \in 0 .. MaxFaults, crashes' \in 0 .. MaxCrashes,
         answered' \subseteq Keys \X Digests,
         \A a \in answered' : a \in answered \/ (Done(a[1]) /\ row[a[1]].digest = a[2]),
         up' = "down" \/ (up # "down" /\ job.pc \notin {"publish", "repair"})
  PROVE  Inv'
<1>1. job' = Idle /\ holder' = "nobody" /\ job' \in Jobs \cup {Idle}
  BY DEF Release
<1>2. JobOK'
  BY <1>1 DEF JobOK, Idle
<1> QED
  BY <1>1, <1>2, JobOnly

\* The counters after a step that fails or does not.
LEMMA CounterFacts ==
  ASSUME ConstantsAssumption, TypeOK, Fault \/ NoFault
  PROVE  /\ commits' = commits /\ faults' \in 0 .. MaxFaults /\ crashes' \in 0 .. MaxCrashes
         /\ commits' \in 0 .. MaxCommits
BY DEF ConstantsAssumption, TypeOK, Fault, NoFault

\* A holder is at work: its job is typed, and the process is up or starting.
LEMMA JobFacts ==
  ASSUME Inv, job.pc # "idle"
  PROVE  job \in Jobs /\ holder # "nobody" /\ up # "down" /\ JobGoal /\ JobPlace
BY DEF Inv, TypeOK, JobOK, Idle

-----------------------------------------------------------------------------
\* A request or a write takes writeMu, the worker wakes up.
LEMMA TakeStep ==
  ASSUME ConstantsAssumption, Inv,
         \/ \E k \in Keys, d \in Digests, kind \in OpKinds : Request(k, d, kind)
         \/ \E kind \in WriteKinds : Write(kind)
         \/ Wake
  PROVE  Inv'
<1>1. TypeOK /\ up = "listening" /\ holder = "nobody" /\ up' = up /\ job = Idle
  BY DEF Inv, TypeOK, Request, Write, Wake
<1>2. /\ UNCHANGED Rest1 /\ answered' = answered /\ holder' \in {"request", "worker"}
      /\ faults' = faults /\ crashes' = crashes
      /\ wake' \in BOOLEAN /\ retry' \in BOOLEAN
  BY <1>1, Zenon DEF Rest1, Request, Write, Wake, NoFault, durable, worker, history, TypeOK
<1>3. job' \in Jobs /\ JobGoal' /\ JobPlace'
  <2>1. ASSUME NEW k \in Keys, NEW d \in Digests, NEW kind \in OpKinds, Request(k, d, kind)
        PROVE  job' \in Jobs /\ JobGoal' /\ JobPlace'
    <3>1. job' = [pc |-> "lookup", goal |-> "new", key |-> k, digest |-> d, kind |-> kind, todo |-> {}, left |-> {}]
      BY <2>1 DEF Request, Job
    <3> QED
      BY <3>1 DEF Jobs, JobGoal, JobPlace
  <2>2. ASSUME NEW kind \in WriteKinds, Write(kind)
        PROVE  job' \in Jobs /\ JobGoal' /\ JobPlace'
    <3>1. job' = [pc |-> "list", goal |-> "write", key |-> NoKey, digest |-> NoKey, kind |-> kind, todo |-> {}, left |-> {}]
      BY <2>2 DEF Write, Job
    <3> QED
      BY <3>1 DEF Jobs, JobGoal, JobPlace
  <2>3. CASE Wake
    <3>1. job' = [pc |-> "list", goal |-> "drain", key |-> NoKey, digest |-> NoKey, kind |-> NoKey, todo |-> {}, left |-> {}]
      BY <2>3 DEF Wake, Job
    <3> QED
      BY <3>1 DEF Jobs, JobGoal, JobPlace
  <2> QED
    BY <2>1, <2>2, <2>3
<1>4. job' # Idle /\ JobOK'
  BY <1>1, <1>3 DEF Jobs, Idle, JobOK
<1>5. job.pc \notin {"publish", "repair"}
  BY <1>1 DEF Idle
<1>6. \A a \in answered' : a \in answered
  BY <1>2
<1>7. faults' \in 0 .. MaxFaults /\ crashes' \in 0 .. MaxCrashes /\ answered' \subseteq Keys \X Digests
  BY <1>1, <1>2 DEF TypeOK
<1> QED
  BY <1>1, <1>2, <1>3, <1>4, <1>5, <1>6, <1>7, JobOnly

\* A failed recovery ends the holder's work.
LEMMA FailKeepsInv ==
  ASSUME ConstantsAssumption, Inv, UNCHANGED <<row, db, mem, history>>, Fault, Fail,
         job.pc \in {"list", "stage", "advance"}
  PROVE  Inv'
<1>1. TypeOK /\ job.pc # "idle"
  BY DEF Inv
<1>2. up # "down" /\ up \in {"loaded", "listening"} /\ job \in Jobs
  BY <1>1, JobFacts DEF TypeOK
<1>3. /\ UNCHANGED Rest1 /\ answered' = answered /\ faults' \in 0 .. MaxFaults /\ crashes' \in 0 .. MaxCrashes
  BY <1>1, CounterFacts DEF Rest1, history
<1>4. wake' \in BOOLEAN /\ retry' \in BOOLEAN /\ up' \in {"down", "loaded", "listening"} /\ Release
      /\ (up' = "down" \/ up' = up)
  BY <1>1, <1>2, Zenon DEF TypeOK, Fail
<1>5. answered' \subseteq Keys \X Digests /\ \A a \in answered' : a \in answered
  BY <1>1, <1>3 DEF TypeOK
<1> QED
  BY <1>2, <1>3, <1>4, <1>5, ReleaseOnly

\* The holder goes on with other locals; rows and versions stay.
LEMMA GoOn ==
  ASSUME ConstantsAssumption, Inv, job.pc \notin {"idle", "publish", "repair"}, NEW j \in Jobs, j.pc # "idle", Continue(j),
         UNCHANGED <<row, db, mem, wake, retry, up, mutated, answered, reported>>, NoFault,
         JobGoal', JobPlace'
  PROVE  Inv'
<1>1. TypeOK /\ up # "down" /\ holder # "nobody"
  BY JobFacts DEF Inv
<1>2. job' = j /\ holder' = holder /\ UNCHANGED Rest1 /\ faults' = faults /\ crashes' = crashes
  BY DEF Continue, NoFault, Rest1
<1>3. JobOK' /\ job' # Idle
  BY <1>1, <1>2 DEF JobOK, Idle
<1>4. answered' \subseteq Keys \X Digests /\ \A a \in answered' : a \in answered
  BY <1>1 DEF TypeOK
<1>5. /\ holder' \in {"nobody", "request", "worker", "start"} /\ wake' \in BOOLEAN /\ retry' \in BOOLEAN
      /\ up' \in {"down", "loaded", "listening"} /\ faults' \in 0 .. MaxFaults /\ crashes' \in 0 .. MaxCrashes
  BY <1>1, <1>2 DEF TypeOK
<1> QED
  BY <1>1, <1>2, <1>3, <1>4, <1>5, JobOnly

\* The key is looked up and compared.
LEMMA LookupStep ==
  ASSUME ConstantsAssumption, Inv, Lookup
  PROVE  Inv'
<1>1. job.pc = "lookup" /\ TypeOK
  BY DEF Lookup, Inv
<1>2. job \in Jobs /\ JobGoal /\ up # "down" /\ job.goal = "new" /\ job.key \in Keys
  <2>1. job \in Jobs /\ JobGoal /\ up # "down"
    BY <1>1, JobFacts
  <2> QED
    BY <1>1, <2>1 DEF Jobs, JobGoal
<1>3. UNCHANGED <<row, db, mem, wake, retry, up, mutated, answered, reported>>
  BY DEF Lookup, durable, worker, history
<1>4. CASE Release /\ (Fault \/ NoFault)
  <2>1. UNCHANGED Rest1 /\ faults' \in 0 .. MaxFaults /\ crashes' \in 0 .. MaxCrashes
    BY <1>1, <1>3, <1>4, CounterFacts DEF Rest1
  <2>2. wake' \in BOOLEAN /\ retry' \in BOOLEAN /\ up' \in {"down", "loaded", "listening"} /\ answered' \subseteq Keys \X Digests
    BY <1>1, <1>3 DEF TypeOK
  <2> QED
    BY <1>1, <1>2, <1>3, <1>4, <2>1, <2>2, ReleaseOnly
<1>5. CASE ~Exists(job.key) /\ Continue([job EXCEPT !.pc = "list", !.goal = "new"]) /\ NoFault
  <2> DEFINE j == [job EXCEPT !.pc = "list", !.goal = "new"]
  <2>1. /\ j \in Jobs /\ j.pc = "list" /\ j.goal = "new" /\ j.key = job.key /\ j.digest = job.digest
        /\ j.kind = job.kind
    BY <1>2, Zenon DEF Jobs
  <2>2. job' = j /\ Continue(j)
    BY <1>5 DEF Continue
  <2> HIDE DEF j
  <2>3. JobGoal' /\ JobPlace'
    BY <1>2, <1>3, <1>5, <2>1, <2>2 DEF JobGoal, JobPlace, Exists
  <2> QED
    BY <1>1, <1>3, <1>5, <2>1, <2>2, <2>3, GoOn
<1>6. CASE /\ Exists(job.key) /\ row[job.key].digest = job.digest
           /\ Continue([job EXCEPT !.pc = "list", !.goal = "replay"]) /\ NoFault
  <2> DEFINE j == [job EXCEPT !.pc = "list", !.goal = "replay"]
  <2>1. /\ j \in Jobs /\ j.pc = "list" /\ j.goal = "replay" /\ j.key = job.key /\ j.digest = job.digest
        /\ j.kind = job.kind
    BY <1>2, Zenon DEF Jobs
  <2>2. job' = j /\ Continue(j)
    BY <1>6 DEF Continue
  <2> HIDE DEF j
  <2>3. JobGoal' /\ JobPlace'
    BY <1>2, <1>3, <1>6, <2>1, <2>2 DEF JobGoal, JobPlace, Exists
  <2> QED
    BY <1>1, <1>3, <1>6, <2>1, <2>2, <2>3, GoOn
<1> QED
  BY <1>4, <1>5, <1>6 DEF Lookup

\* recoverPendingOperationsLocked lists what it will finish.
LEMMA ListStep ==
  ASSUME ConstantsAssumption, Inv, List
  PROVE  Inv'
<1>1. job.pc = "list" /\ TypeOK
  BY DEF List, Inv
<1>2. job \in Jobs /\ JobGoal
  BY <1>1, JobFacts
<1>3. CASE Fault /\ Fail
  BY <1>1, <1>3, FailKeepsInv DEF List, durable
<1>4. CASE Continue([job EXCEPT !.pc = "stage", !.todo = Before]) /\ NoFault /\ UNCHANGED <<worker, up>>
  <2> DEFINE j == [job EXCEPT !.pc = "stage", !.todo = Before]
  <2>0. Before \subseteq Pending /\ (job.goal # "replay" => Before = Pending) /\ Pending \subseteq Keys
    BY DEF Before, Pending
  <2>1. /\ j \in Jobs /\ j.pc = "stage" /\ j.goal = job.goal /\ j.key = job.key /\ j.digest = job.digest
        /\ j.kind = job.kind /\ j.todo = Before
    BY <1>2, <2>0, Zenon DEF Jobs
  <2>2. job' = j /\ Continue(j) /\ UNCHANGED <<row, db, mem, wake, retry, up, mutated, answered, reported>>
    BY <1>4 DEF Continue, List, durable, worker, history
  <2> HIDE DEF j
  <2>3. Pending' = Pending
    BY <2>2 DEF Pending, Done, Exists
  <2>4. JobGoal'
    BY <1>1, <1>2, <2>1, <2>2, Zenon DEF JobGoal, Exists
  <2>5. JobPlace'
    BY <1>2, <2>0, <2>1, <2>2, <2>3 DEF JobPlace
  <2> QED
    BY <1>1, <1>4, <2>1, <2>2, <2>4, <2>5, GoOn
<1> QED
  BY <1>3, <1>4 DEF List

-----------------------------------------------------------------------------
\* Unfinished operations have their next stage before them.
LEMMA PendingFacts ==
  ASSUME ConstantsAssumption, Inv, NEW k \in Pending
  PROVE  /\ k \in Keys /\ Exists(k) /\ row[k] \in Rows /\ row[k].kind \in Kinds
         /\ row[k].at \in 1 .. 5 /\ row[k].at < Len(Plan(row[k].kind))
         /\ Pending = {k}
<1>1. k \in Keys /\ Exists(k) /\ ~Done(k) /\ TypeOK /\ RowOK(k)
  BY DEF Pending, Inv
<1>2. row[k] \in Rows /\ row[k].kind \in Kinds /\ row[k].at \in 1 .. 5
  BY <1>1, RowFacts
<1>3. row[k].at # Len(Plan(row[k].kind)) /\ row[k].at <= Len(Plan(row[k].kind))
  BY <1>1 DEF Done, RowOK
<1>4. Len(Plan(row[k].kind)) \in 3 .. 5
  BY <1>2, PlanFacts
<1>5. Pending = {k}
  BY DEF Inv, Single
<1> QED
  BY <1>1, <1>2, <1>3, <1>4, <1>5

\* The first operation of a list is the only one.
LEMMA FirstFacts ==
  ASSUME ConstantsAssumption, Inv, NEW ks, ks \subseteq Pending, ks # {}
  PROVE  First(ks) \in Pending /\ ks = {First(ks)}
<1>1. PICK k \in Pending : ks = {k}
  BY DEF Inv, Single
<1>2. row[k].seq \in Nat
  BY PendingFacts, RowFacts DEF Inv
<1>3. \E j \in ks : \A i \in ks : row[j].seq <= row[i].seq
  BY <1>1, <1>2
<1>4. First(ks) \in ks
  BY <1>3 DEF First
<1> QED
  BY <1>1, <1>4

\* A step that brings parts of the memory up to the database.
LEMMA MemoryStep ==
  ASSUME ConstantsAssumption, Inv, UNCHANGED <<row, db, commits, mutated, answered>>,
         mem' \in [Parts -> 0 .. MaxCommits],
         \A p \in Parts : mem'[p] = mem[p] \/ mem'[p] = db[p],
         reported' \subseteq Parts,
         job' \in Jobs \cup {Idle}, holder' \in {"nobody", "request", "worker", "start"},
         job' = Idle <=> holder' = "nobody",
         wake' \in BOOLEAN, retry' \in BOOLEAN, up' \in {"down", "loaded", "listening"},
         faults' \in 0 .. MaxFaults, crashes' \in 0 .. MaxCrashes,
         JobOK', Divergence'
  PROVE  Inv'
<1>1. TypeOK'
  BY DEF Inv, TypeOK
<1>2. \A p \in Parts : mem[p] \in Nat /\ db[p] \in Nat /\ mem'[p] >= mem[p] /\ mem'[p] <= db[p]
  <2>1. \A p \in Parts : mem[p] \in Nat /\ db[p] \in Nat /\ mem[p] <= db[p]
    BY DEF Inv, TypeOK, Bounded
  <2> QED
    BY <2>1
<1>3. Bounded'
  BY <1>2 DEF Inv, Bounded
<1>4. ASSUME NEW k \in Keys
      PROVE  RowOK(k)'
  <2>1. CASE ~Exists(k)
    BY <2>1 DEF RowOK, Exists
  <2>2. CASE Exists(k)
    <3>1. TypeOK /\ RowOK(k)
      BY DEF Inv
    <3>2. row[k].kind \in Kinds /\ row[k].ver \in [Parts -> 0 .. MaxCommits]
      BY <2>2, <3>1, RowFacts
    <3>3. Touches(row[k].kind) \subseteq Parts
      BY <3>2, TouchesFacts
    <3>4. \A p \in Touches(row[k].kind) : /\ p \in Parts /\ row[k].ver[p] \in Nat
                                          /\ mem[p] >= row[k].ver[p] => mem'[p] >= row[k].ver[p]
      BY <1>2, <3>2, <3>3
    <3> QED
      BY <2>2, <3>1, <3>4 DEF RowOK, Exists
  <2> QED
    BY <2>1, <2>2
<1>5. Once' /\ Answers' /\ Single'
  BY DEF Inv, Once, Answers, Single, Pending, Done, Exists
<1> QED
  BY <1>1, <1>3, <1>4, <1>5 DEF Inv

\* One stage: its part is loaded from the database and published.
LEMMA StageStep ==
  ASSUME ConstantsAssumption, Inv, Stage
  PROVE  Inv'
<1>1. job.pc = "stage" /\ TypeOK /\ job.todo # {}
  BY DEF Stage, Inv
<1>2. job \in Jobs /\ JobGoal /\ JobPlace /\ up # "down" /\ holder # "nobody"
  BY <1>1, JobFacts
<1>3. PICK k \in Pending : k = First(job.todo) /\ job.todo = {k} /\ Pending = {k}
  <2>1. job.todo \subseteq Pending
    BY <1>1, <1>2, Zenon DEF JobPlace
  <2> QED
    BY <1>1, <2>1, FirstFacts, PendingFacts, Zenon
<1> DEFINE next == Plan(row[k].kind)[row[k].at + 1]
<1>4. CASE Fault /\ Fail /\ UNCHANGED mem
  BY <1>1, <1>4, FailKeepsInv DEF Stage, durable
<1>5. CASE /\ Continue([job EXCEPT !.pc = "advance"]) /\ NoFault /\ UNCHANGED <<worker, up>>
           /\ mem' = IF next \in Parts THEN [mem EXCEPT ![next] = db[next]] ELSE mem
  <2> DEFINE j == [job EXCEPT !.pc = "advance"]
  <2>1. /\ j \in Jobs /\ j.pc = "advance" /\ j.goal = job.goal /\ j.key = job.key /\ j.digest = job.digest
        /\ j.kind = job.kind /\ j.todo = {k}
    BY <1>2, <1>3, Zenon DEF Jobs
  <2>2. /\ job' = j /\ holder' = holder /\ UNCHANGED <<row, db, mutated, answered, reported>>
        /\ UNCHANGED <<wake, retry, up, commits, faults, crashes>>
    BY <1>5, Zenon DEF Continue, NoFault, Stage, durable, worker, history
  <2> HIDE DEF j, next
  <2>3. /\ mem' \in [Parts -> 0 .. MaxCommits]
        /\ \A p \in Parts : mem'[p] = IF p = next THEN db[p] ELSE mem[p]
    BY <1>1, <1>5 DEF TypeOK
  <2>4. Pending' = Pending
    BY <2>2 DEF Pending, Done, Exists
  <2>5. JobGoal'
    BY <1>1, <1>2, <2>1, <2>2 DEF JobGoal, Exists
  <2>6. JobPlace'
    BY <1>2, <1>3, <2>1, <2>2, <2>3, <2>4, ZenonT(40) DEF JobPlace, next
  <2>7. JobOK' /\ job' # Idle
    BY <1>2, <2>1, <2>2, <2>5, <2>6 DEF JobOK, Idle
  <2>8. Divergence'
    BY <1>1, <1>2, <2>2, <2>3, <2>4 DEF Inv, Divergence, Excused
  <2>9. /\ holder' \in {"nobody", "request", "worker", "start"} /\ wake' \in BOOLEAN /\ retry' \in BOOLEAN
        /\ up' \in {"down", "loaded", "listening"} /\ faults' \in 0 .. MaxFaults /\ crashes' \in 0 .. MaxCrashes
        /\ reported' \subseteq Parts
    BY <1>1, <2>2, Zenon DEF TypeOK
  <2> QED
    BY <1>2, <2>1, <2>2, <2>3, <2>7, <2>8, <2>9, MemoryStep
<1> QED
  BY <1>3, <1>4, <1>5, ZenonT(40) DEF Stage

\* advanceOperationStageLocked: the row of the unfinished operation k passes a
\* stage whose part is in memory.
Advanced(k) == row' = [row EXCEPT ![k].at = @ + 1] /\ UNCHANGED <<db, mem, commits, mutated, answered, reported>>
\* The stage that follows is the last of the plan.
Last(k) == row[k].at + 1 = Len(Plan(row[k].kind))

\* The row that has passed a stage is still well formed, and what the operation
\* has left to do shrinks by that stage.
LEMMA AdvanceFacts ==
  ASSUME ConstantsAssumption, Inv, NEW k \in Pending, Advanced(k),
         \A p \in Parts : p = Plan(row[k].kind)[row[k].at + 1] => mem[p] = db[p]
  PROVE  /\ row' \in [Keys -> Rows \cup {NoRow}] /\ Bounded' /\ Once' /\ Answers' /\ Single'
         /\ \A j \in Keys : RowOK(j)' /\ (Exists(j)' <=> Exists(j)) /\ (Exists(j) => row'[j].digest = row[j].digest)
         /\ Pending' = IF Last(k) THEN {} ELSE {k}
         /\ \A p \in Parts : p \in Rest(row[k].kind, row[k].at) =>
               mem[p] = db[p] \/ (~Last(k) /\ p \in Rest(row'[k].kind, row'[k].at))
<1>1. /\ k \in Keys /\ Exists(k) /\ row[k] \in Rows /\ row[k].kind \in Kinds /\ row[k].at \in 1 .. 5
      /\ row[k].at < Len(Plan(row[k].kind)) /\ Pending = {k} /\ TypeOK /\ RowOK(k)
  BY PendingFacts, Zenon DEF Inv
<1>2. Len(Plan(row[k].kind)) \in 3 .. 5
  BY <1>1, PlanFacts, Zenon
<1>3. PICK n \in 1 .. 5 : n = row[k].at + 1
  BY <1>1, <1>2
<1> DEFINE r == [row[k] EXCEPT !.at = n]
<1>4. /\ r \in Rows /\ r.at = n /\ r.kind = row[k].kind /\ r.digest = row[k].digest /\ r.ver = row[k].ver
  BY <1>1, Zenon DEF Rows
<1>5. row' = [row EXCEPT ![k] = r]
  BY <1>3 DEF Advanced
<1> HIDE DEF r
<1>6. /\ row' \in [Keys -> Rows \cup {NoRow}] /\ row'[k] = r
      /\ \A j \in Keys : j # k => row'[j] = row[j]
  BY <1>1, <1>4, <1>5, Zenon DEF TypeOK
<1>7. r # NoRow
  BY <1>4 DEF Rows, NoRow
<1>8. \A j \in Keys : (Exists(j)' <=> Exists(j)) /\ (Exists(j) => row'[j].digest = row[j].digest)
  BY <1>1, <1>4, <1>6, <1>7, Zenon DEF Exists
<1>9. Rest(row[k].kind, n) = Rest(row[k].kind, row[k].at) \ {Plan(row[k].kind)[n]}
  BY <1>1, <1>3, PlanFacts, Zenon
<1>10. Last(k) => Rest(row[k].kind, n) = {}
  BY <1>1, <1>3, PlanFacts, Zenon DEF Last
<1>11. Pending' = IF Last(k) THEN {} ELSE {k}
  <2>1. Done(k)' <=> Last(k)
    BY <1>1, <1>3, <1>4, <1>6, <1>8, Zenon DEF Done, Last
  <2>2. \A j \in Keys : j # k => (Done(j)' <=> Done(j))
    BY <1>6, <1>8, Zenon DEF Done
  <2>3. \A j : j \in Pending' <=> j \in Keys /\ Exists(j)' /\ ~Done(j)'
    BY DEF Pending
  <2>4. \A j : j \in Pending <=> j \in Keys /\ Exists(j) /\ ~Done(j)
    BY Zenon DEF Pending
  <2> QED
    BY <1>1, <1>8, <2>1, <2>2, <2>3, <2>4, Zenon
<1>12. Answers'
  <2>1. \A a \in answered : Done(a[1]) /\ row[a[1]].digest = a[2] /\ a[1] \in Keys
    BY <1>1 DEF Inv, Answers, TypeOK
  <2>2. ~Done(k) /\ answered' = answered
    BY Zenon DEF Pending, Advanced
  <2>3. \A j \in Keys : j # k => (Done(j)' <=> Done(j))
    BY <1>6, <1>8 DEF Done
  <2> QED
    BY <1>6, <2>1, <2>2, <2>3, Zenon DEF Answers
<1>13. ASSUME NEW j \in Keys
       PROVE  RowOK(j)'
  <2>1. db' = db /\ mem' = mem
    BY Zenon DEF Advanced
  <2>2. CASE j # k
    BY <1>6, <1>8, <2>1, <2>2, Zenon DEF Inv, RowOK
  <2>3. CASE j = k
    <3>1. n <= Len(Plan(row[k].kind))
      BY <1>1, <1>2, <1>3
    <3>2. \A p \in Parts : row[k].ver[p] <= db[p]
      BY <1>1, Zenon DEF RowOK
    <3>3. \A p \in Touches(row[k].kind) : p \notin Rest(row[k].kind, n) => mem[p] >= row[k].ver[p]
      <4>1. Touches(row[k].kind) \subseteq Parts
        BY <1>1, TouchesFacts, Zenon
      <4>2. \A p \in Parts : mem[p] \in Nat /\ db[p] \in Nat /\ row[k].ver[p] \in Nat
        BY <1>1, RowFacts DEF TypeOK
      <4> QED
        BY <1>1, <1>3, <1>9, <3>2, <4>1, <4>2, Zenon DEF RowOK
    <3> QED
      BY <1>4, <1>6, <2>1, <2>3, <3>1, <3>2, <3>3, Zenon DEF RowOK
  <2> QED
    BY <2>2, <2>3
<1>14. Bounded' /\ Once' /\ Single'
  <2>1. db' = db /\ mem' = mem /\ commits' = commits /\ mutated' = mutated
    BY Zenon DEF Advanced
  <2> QED
    BY <1>8, <1>11, <2>1 DEF Inv, Bounded, Once, Single
<1>15. \A p \in Parts : p \in Rest(row[k].kind, row[k].at) =>
               mem[p] = db[p] \/ (~Last(k) /\ p \in Rest(row'[k].kind, row'[k].at))
  BY <1>3, <1>4, <1>6, <1>9, <1>10
<1> QED
  BY <1>6, <1>8, <1>11, <1>12, <1>13, <1>14, <1>15, Zenon

\* One transaction of recoverOperationLocked.
LEMMA AdvanceStep ==
  ASSUME ConstantsAssumption, Inv, Advance
  PROVE  Inv'
<1>1. job.pc = "advance" /\ TypeOK
  BY DEF Advance, Inv
<1>2. job \in Jobs /\ JobGoal /\ JobPlace /\ up # "down" /\ holder # "nobody"
  BY <1>1, JobFacts
<1>3. PICK k \in Pending : k = First(job.todo) /\ job.todo = {k} /\ Pending = {k}
  <2>1. job.todo \subseteq Pending /\ job.todo # {}
    BY <1>1, <1>2, ZenonT(40) DEF JobPlace
  <2> QED
    BY <2>1, FirstFacts, PendingFacts, Zenon
<1>4. \A p \in Parts : p = Plan(row[k].kind)[row[k].at + 1] => mem[p] = db[p]
  BY <1>1, <1>2, <1>3 DEF JobPlace
<1>5. UNCHANGED <<db, mem, mutated, answered, reported>>
  BY DEF Advance, history
<1>6. CASE UNCHANGED row /\ Fault /\ Fail
  BY <1>1, <1>5, <1>6, FailKeepsInv DEF history
<1>7. ASSUME row' = [row EXCEPT ![k].at = @ + 1], Fault \/ NoFault,
             job' \in Jobs \cup {Idle}, job' = Idle <=> holder' = "nobody",
             holder' \in {"nobody", "request", "worker", "start"},
             wake' \in BOOLEAN, retry' \in BOOLEAN, up' \in {"down", "loaded", "listening"},
             JobOK'
      PROVE  Inv'
  <2>1. commits' = commits /\ faults' \in 0 .. MaxFaults /\ crashes' \in 0 .. MaxCrashes /\ Advanced(k)
    BY <1>1, <1>5, <1>7, CounterFacts, Zenon DEF Advanced
  <2>2. /\ row' \in [Keys -> Rows \cup {NoRow}] /\ Bounded' /\ Once' /\ Answers' /\ Single'
        /\ \A j \in Keys : RowOK(j)'
        /\ Pending' = IF Last(k) THEN {} ELSE {k}
        /\ \A p \in Parts : p \in Rest(row[k].kind, row[k].at) =>
               mem[p] = db[p] \/ (~Last(k) /\ p \in Rest(row'[k].kind, row'[k].at))
    BY <1>4, <2>1, AdvanceFacts
  <2>3. TypeOK'
    BY <1>1, <1>5, <1>7, <2>1, <2>2, Zenon DEF TypeOK
  <2>4. \A p \in Parts : mem[p] = db[p] \/ p \in reported \/ p \in Rest(row[k].kind, row[k].at)
    BY <1>1, <1>2, <1>3, Zenon DEF Inv, Divergence, Excused
  <2>5. \A p \in Parts : mem'[p] = db'[p] \/ p \in reported' \/ \E j \in Pending' : p \in Rest(row'[j].kind, row'[j].at)
    BY <1>5, <2>2, <2>4, Zenon
  <2>6. Divergence'
    BY <2>5 DEF Divergence, Excused
  <2> QED
    BY <1>7, <2>2, <2>3, <2>6 DEF Inv
<1>8. CASE row' = [row EXCEPT ![k].at = @ + 1] /\ Fault /\ Fail
  <2>1. job' = Idle /\ holder' = "nobody" /\ JobOK'
    BY <1>8 DEF Fail, Release, JobOK, Idle
  <2>2. wake' \in BOOLEAN /\ retry' \in BOOLEAN /\ up' \in {"down", "loaded", "listening"}
    BY <1>1, <1>2, <1>8, Zenon DEF Fail, TypeOK
  <2> QED
    BY <1>7, <1>8, <2>1, <2>2
<1>9. CASE /\ row' = [row EXCEPT ![k].at = @ + 1] /\ NoFault /\ UNCHANGED <<worker, up>>
           /\ \E todo : /\ todo = IF Last(k) THEN {} ELSE {k}
                        /\ Continue([job EXCEPT !.pc = "stage", !.todo = todo])
  <2>1. PICK todo : /\ todo = IF Last(k) THEN {} ELSE {k}
                    /\ Continue([job EXCEPT !.pc = "stage", !.todo = todo])
    BY <1>9, Zenon
  <2> DEFINE j == [job EXCEPT !.pc = "stage", !.todo = todo]
  <2>2. /\ j \in Jobs /\ j.pc = "stage" /\ j.goal = job.goal /\ j.key = job.key /\ j.digest = job.digest
        /\ j.kind = job.kind /\ j.todo = todo
    <3>1. todo \subseteq Keys
      BY <2>1 DEF Pending
    <3> QED
      BY <1>2, <3>1, Zenon DEF Jobs
  <2>3. job' = j /\ holder' = holder /\ up' = up
    BY <1>9, <2>1 DEF Continue
  <2> HIDE DEF j
  <2>4. /\ Pending' = todo
        /\ \A i \in Keys : (Exists(i)' <=> Exists(i)) /\ (Exists(i) => row'[i].digest = row[i].digest)
    <3>1. Advanced(k)
      BY <1>5, <1>9, Zenon DEF Advanced, NoFault
    <3> QED
      BY <1>4, <2>1, <3>1, AdvanceFacts
  <2>5. JobGoal'
    BY <1>1, <1>2, <2>2, <2>3, <2>4, Zenon DEF JobGoal
  <2>6. JobPlace'
    BY <2>2, <2>3, <2>4 DEF JobPlace
  <2>7. JobOK' /\ job' # Idle
    BY <1>2, <2>2, <2>3, <2>5, <2>6 DEF JobOK, Idle
  <2>8. /\ holder' \in {"nobody", "request", "worker", "start"} /\ wake' \in BOOLEAN /\ retry' \in BOOLEAN
        /\ up' \in {"down", "loaded", "listening"}
    BY <1>1, <1>9, <2>3 DEF TypeOK, worker
  <2> QED
    BY <1>2, <1>7, <1>9, <2>2, <2>3, <2>7, <2>8
<1> QED
  <2> DEFINE new == [row EXCEPT ![k].at = @ + 1]
  <2>1. (new[k].at = Len(Plan(new[k].kind))) <=> Last(k)
    <3>1. new[k] = [row[k] EXCEPT !.at = row[k].at + 1] /\ row[k] \in Rows
      BY <1>1, PendingFacts, Zenon DEF TypeOK
    <3> HIDE DEF new
    <3>2. new[k].at = row[k].at + 1 /\ new[k].kind = row[k].kind
      BY <3>1 DEF Rows
    <3> QED
      BY <3>2 DEF Last
  <2>2. job.todo \ {k} = {} /\ job.todo = {k}
    BY <1>3
  <2>3. \/ /\ row' = new /\ NoFault /\ UNCHANGED <<worker, up>>
           /\ Continue([job EXCEPT !.pc = "stage", !.todo = IF Last(k) THEN job.todo \ {k} ELSE job.todo])
        \/ UNCHANGED row /\ Fault /\ Fail
        \/ row' = new /\ Fault /\ Fail
    BY <1>3, <2>1, Zenon DEF Advance
  <2>4. (IF Last(k) THEN job.todo \ {k} ELSE job.todo) = (IF Last(k) THEN {} ELSE {k})
    BY <2>2
  <2> QED
    BY <1>6, <1>8, <1>9, <2>3, <2>4, Zenon

\* Nothing is left to finish: the holder goes on or answers.
LEMMA FinishedStep ==
  ASSUME ConstantsAssumption, Inv, Finished
  PROVE  Inv'
<1>1. job.pc = "stage" /\ job.todo = {} /\ TypeOK
  BY DEF Finished, Inv
<1>2. job \in Jobs /\ JobGoal /\ JobPlace /\ up # "down" /\ holder # "nobody"
  BY <1>1, JobFacts
<1>3. /\ UNCHANGED <<row, db, mem, wake, mutated, reported, commits, faults, crashes>> /\ UNCHANGED Rest1
      /\ job.goal \in {"new", "replay", "own", "drain", "write"}
  BY <1>2, Zenon DEF Finished, NoFault, durable, Rest1, Jobs
<1>4. Pending' = Pending /\ (job.goal # "replay" => Pending = {})
  <2>1. Pending' = Pending
    BY <1>3, Zenon DEF Pending, Done, Exists
  <2> QED
    BY <1>1, <1>2, <2>1 DEF JobPlace
<1>5. ASSUME Release, answered' = answered \/ (Done(job.key) /\ Answer /\ job.goal \in {"own", "replay"}),
             retry' \in BOOLEAN, up' \in {"loaded", "listening"}
      PROVE  Inv'
  <2>1. job.goal \in {"own", "replay"} => job.key \in Keys /\ job.digest \in Digests /\ row[job.key].digest = job.digest
    BY <1>2, Zenon DEF JobGoal
  <2>2. answered' \subseteq Keys \X Digests
    BY <1>1, <1>5, <2>1 DEF TypeOK, Answer
  <2>3. \A a \in answered' : a \in answered \/ (Done(a[1]) /\ row[a[1]].digest = a[2])
    BY <1>5, <2>1 DEF Answer
  <2>4. wake' \in BOOLEAN /\ faults' \in 0 .. MaxFaults /\ crashes' \in 0 .. MaxCrashes
    BY <1>1, <1>3 DEF TypeOK
  <2> QED
    BY <1>1, <1>2, <1>3, <1>5, <2>2, <2>3, <2>4, ReleaseOnly, Zenon
<1>6. retry \in BOOLEAN /\ up \in {"loaded", "listening"}
  BY <1>1, <1>2 DEF TypeOK
<1>7. CASE job.goal = "new"
  <2> DEFINE j == [job EXCEPT !.pc = "mutate"]
  <2>1. /\ j \in Jobs /\ j.pc = "mutate" /\ j.goal = job.goal /\ j.key = job.key /\ j.digest = job.digest /\ j.kind = job.kind
    BY <1>2 DEF Jobs
  <2>2. job' = j /\ Continue(j) /\ UNCHANGED <<row, db, mem, wake, retry, up, mutated, answered, reported>> /\ NoFault
    BY <1>3, <1>7, Zenon DEF Finished, Continue
  <2> HIDE DEF j
  <2>3. JobGoal'
    BY <1>1, <1>2, <1>3, <1>7, <2>1, <2>2, Zenon DEF JobGoal, Exists
  <2>4. JobPlace'
    BY <1>4, <1>7, <2>1, <2>2, Zenon DEF JobPlace
  <2> QED
    BY <1>1, <2>1, <2>2, <2>3, <2>4, GoOn
<1>8. CASE job.goal = "write"
  <2> DEFINE j == [job EXCEPT !.pc = "commit"]
  <2>1. /\ j \in Jobs /\ j.pc = "commit" /\ j.goal = job.goal /\ j.key = job.key /\ j.digest = job.digest /\ j.kind = job.kind
    BY <1>2 DEF Jobs
  <2>2. job' = j /\ Continue(j) /\ UNCHANGED <<row, db, mem, wake, retry, up, mutated, answered, reported>> /\ NoFault
    BY <1>3, <1>8, Zenon DEF Finished, Continue
  <2> HIDE DEF j
  <2>3. JobGoal'
    BY <1>1, <1>2, <1>3, <1>8, <2>1, <2>2, Zenon DEF JobGoal, Exists
  <2>4. JobPlace'
    BY <1>4, <1>8, <2>1, <2>2 DEF JobPlace
  <2> QED
    BY <1>1, <2>1, <2>2, <2>3, <2>4, GoOn
<1>9. CASE job.goal = "own"
  <2>1. Done(job.key)
    BY <1>2, <1>4, <1>9 DEF JobGoal, Pending
  <2>2. Release /\ Answer /\ UNCHANGED <<retry, up>>
    BY <1>9 DEF Finished
  <2> QED
    BY <1>5, <1>6, <1>9, <2>1, <2>2, Zenon
<1>10. CASE job.goal = "replay"
  <2>1. \/ Release /\ UNCHANGED <<answered, retry, up>>
        \/ Done(job.key) /\ Release /\ Answer /\ UNCHANGED <<retry, up>>
        \/ /\ ~Done(job.key) /\ Continue([job EXCEPT !.goal = "own", !.todo = {job.key}])
           /\ UNCHANGED <<retry, up, answered>>
    BY <1>10, Zenon DEF Finished
  <2>2. CASE ~Done(job.key) /\ Continue([job EXCEPT !.goal = "own", !.todo = {job.key}]) /\ UNCHANGED <<retry, up, answered>>
    <3> DEFINE j == [job EXCEPT !.goal = "own", !.todo = {job.key}]
    <3>1. job.key \in Keys /\ Exists(job.key) /\ job.key \in Pending
      BY <1>2, <1>10, <2>2 DEF JobGoal, Pending
    <3>2. Pending = {job.key}
      BY <3>1, PendingFacts
    <3>3. /\ j \in Jobs /\ j.pc = "stage" /\ j.goal = "own" /\ j.key = job.key /\ j.digest = job.digest
          /\ j.kind = job.kind /\ j.todo = {job.key}
      BY <1>1, <1>2, <3>1, Zenon DEF Jobs
    <3>4. job' = j /\ Continue(j) /\ UNCHANGED <<row, db, mem, wake, retry, up, mutated, answered, reported>> /\ NoFault
      BY <1>3, <2>2, Zenon DEF Finished, Continue
    <3> HIDE DEF j
    <3>5. JobGoal'
      BY <1>2, <1>3, <1>10, <3>1, <3>3, <3>4, Zenon DEF JobGoal, Exists
    <3>6. JobPlace'
      BY <1>4, <3>2, <3>3, <3>4 DEF JobPlace
    <3> QED
      BY <1>1, <3>3, <3>4, <3>5, <3>6, GoOn
  <2> QED
    BY <1>5, <1>6, <1>10, <2>1, <2>2
<1>11. CASE job.goal = "drain"
  <2>1. Release /\ answered' = answered /\ (up' = up \/ up' = "listening") /\ (retry' = retry \/ retry' = FALSE)
    BY <1>11, Zenon DEF Finished
  <2> QED
    BY <1>5, <1>6, <2>1, Zenon
<1> QED
  BY <1>3, <1>7, <1>8, <1>9, <1>10, <1>11

-----------------------------------------------------------------------------
\* The versions after a commit of a kind.
LEMMA BumpFacts ==
  ASSUME ConstantsAssumption, Inv, NEW kind \in Kinds \cup Writes, commits < MaxCommits
  PROVE  /\ Bump(kind) \in [Parts -> 0 .. MaxCommits]
         /\ \A p \in Parts : /\ Bump(kind)[p] = IF p \in Touches(kind) THEN db[p] + 1 ELSE db[p]
                             /\ db[p] <= Bump(kind)[p] /\ Bump(kind)[p] <= commits + 1 /\ mem[p] <= Bump(kind)[p]
         /\ commits + 1 \in 1 .. MaxCommits /\ commits + 1 \in 0 .. MaxCommits
<1>1. \A p \in Parts : db[p] \in Nat /\ mem[p] \in Nat /\ db[p] <= commits /\ mem[p] <= db[p]
  BY DEF Inv, TypeOK, Bounded
<1>2. commits \in Nat /\ MaxCommits \in Nat
  BY ConstantFacts DEF Inv, TypeOK
<1> QED
  BY <1>1, <1>2 DEF Bump

\* The mutation and its operation row are one transaction.
LEMMA MutateStep ==
  ASSUME ConstantsAssumption, Inv, Mutate
  PROVE  Inv'
<1>1. job.pc = "mutate" /\ TypeOK
  BY Zenon DEF Mutate, Inv
<1>2. job \in Jobs /\ JobGoal /\ JobPlace /\ up # "down" /\ holder # "nobody" /\ Pending = {}
  BY <1>1, JobFacts DEF JobPlace
<1>3. /\ UNCHANGED <<mem, wake, retry, up, answered, reported>>
  BY Zenon DEF Mutate, worker
<1>4. job.goal = "new" /\ job.goal \in {"new", "replay", "own", "drain", "write"}
  BY <1>1, <1>2, Zenon DEF Jobs, JobGoal
<1>5. PICK k \in Keys : /\ k = job.key /\ ~Exists(k) /\ job.digest \in Digests /\ job.kind \in OpKinds
  BY <1>1, <1>2, <1>4 DEF JobGoal
<1>6. PICK kd \in Kinds : kd = job.kind
  BY <1>5, ConstantFacts, Zenon
<1>7. CASE Release /\ NoFault /\ UNCHANGED <<durable, mutated>>
  <2>1. UNCHANGED Rest1 /\ faults' = faults /\ crashes' = crashes
    BY <1>3, <1>7 DEF Rest1, NoFault, durable
  <2>2. wake' \in BOOLEAN /\ retry' \in BOOLEAN /\ up' \in {"down", "loaded", "listening"} /\ answered' \subseteq Keys \X Digests
        /\ faults' \in 0 .. MaxFaults /\ crashes' \in 0 .. MaxCrashes
    BY <1>1, <1>3, <2>1 DEF TypeOK
  <2> QED
    BY <1>1, <1>2, <1>3, <1>7, <2>1, <2>2, ReleaseOnly, Zenon
<1> DEFINE ver == Bump(job.kind)
           new == [seq |-> commits + 1, digest |-> job.digest, kind |-> job.kind,
                   at |-> 1, ver |-> ver, compacted |-> FALSE]
           Committed == /\ commits < MaxCommits /\ db' = ver /\ mutated' = [mutated EXCEPT ![k] = @ + 1]
                        /\ row' = [row EXCEPT ![k] = new] /\ commits' = commits + 1 /\ crashes' = crashes
<1>8. ASSUME Committed, faults' \in 0 .. MaxFaults,
             job' \in Jobs \cup {Idle}, job' = Idle <=> holder' = "nobody",
             holder' \in {"nobody", "request", "worker", "start"},
             job'.pc \notin {"publish", "repair"},
             (Pending' = {k} /\ (\A j \in Keys : Exists(j)' <=> Exists(j) \/ j = k) /\ row'[k] = new) => JobOK'
      PROVE  Inv'
  <2>1. /\ ver \in [Parts -> 0 .. MaxCommits]
        /\ \A p \in Parts : /\ ver[p] = IF p \in Touches(kd) THEN db[p] + 1 ELSE db[p]
                            /\ db[p] <= ver[p] /\ ver[p] <= commits + 1 /\ mem[p] <= ver[p]
        /\ commits + 1 \in 1 .. MaxCommits /\ commits + 1 \in 0 .. MaxCommits
    BY <1>6, <1>8, BumpFacts, Zenon
  <2> HIDE DEF ver
  <2>2. /\ new \in Rows /\ new.kind = kd /\ new.at = 1 /\ new.ver = ver /\ new.digest = job.digest
    BY <1>5, <1>6, <2>1 DEF Rows
  <2>3. new # NoRow
    BY <2>2, Zenon DEF Rows, NoRow
  <2> HIDE DEF new
  <2>4. /\ row' \in [Keys -> Rows \cup {NoRow}] /\ row'[k] = new
        /\ \A j \in Keys : j # k => row'[j] = row[j]
    BY <1>1, <1>8, <2>2 DEF TypeOK
  <2>5. \A j \in Keys : Exists(j)' <=> Exists(j) \/ j = k
    BY <2>3, <2>4 DEF Exists
  <2>6. \A j \in Keys : j # k => (Done(j)' <=> Done(j))
    BY <2>4, <2>5 DEF Done
  <2>7. Len(Plan(kd)) \in 3 .. 5 /\ Rest(kd, 1) = Touches(kd) /\ Touches(kd) \subseteq Parts
    BY <1>6, PlanFacts, TouchesFacts
  <2>8. Pending' = {k}
    <3>1. ~Done(k)'
      <4>1. row'[k].at = 1 /\ row'[k].kind = kd
        BY <2>2, <2>4
      <4> QED
        BY <2>7, <4>1 DEF Done
    <3>2. \A j : j \in Pending' <=> j \in Keys /\ Exists(j)' /\ ~Done(j)'
      BY DEF Pending
    <3>3. \A j \in Keys : Exists(j) => Done(j)
      BY <1>2, Zenon DEF Pending
    <3> QED
      BY <2>5, <2>6, <3>1, <3>2, <3>3, Zenon
  <2>9. Bounded' /\ db' \in [Parts -> 0 .. MaxCommits]
    BY <1>3, <1>8, <2>1 DEF Bounded
  <2>10. ASSUME NEW j \in Keys
         PROVE  RowOK(j)'
    <3>1. CASE j = k
      <4>1. \A p \in Parts : ver[p] \in Nat /\ new.ver[p] <= db'[p]
        BY <1>8, <2>1, <2>2
      <4>2. row'[k].at = 1 /\ row'[k].kind = kd /\ row'[k].ver = new.ver
        BY <2>2, <2>4
      <4>3. row'[k].at <= Len(Plan(row'[k].kind))
        <5>1. 1 <= Len(Plan(kd))
          BY <2>7
        <5> QED
          BY <4>2, <5>1, Zenon
      <4>4. \A p \in Touches(row'[k].kind) : p \in Rest(row'[k].kind, row'[k].at)
        BY <2>7, <4>2, Zenon
      <4>5. \A p \in Parts : row'[k].ver[p] <= db'[p]
        BY <4>1, <4>2, Zenon
      <4> QED
        BY <3>1, <4>3, <4>4, <4>5, Zenon DEF RowOK
    <3>2. CASE j # k /\ Exists(j)
      <4>1. RowOK(j) /\ row'[j] = row[j]
        BY <2>4, <3>2, Zenon DEF Inv
      <4>2. row[j].ver \in [Parts -> 0 .. MaxCommits]
        BY <1>1, <3>2, RowFacts, Zenon
      <4>3. db \in [Parts -> 0 .. MaxCommits] /\ \A p \in Parts : row[j].ver[p] <= db[p]
        BY <1>1, <3>2, <4>1, Zenon DEF TypeOK, RowOK
      <4>4. \A p \in Parts : row[j].ver[p] <= db'[p]
        <5>1. \A p \in Parts : row[j].ver[p] <= ver[p]
          BY <2>1, <4>2, <4>3, VersionsGrow, Zenon
        <5> QED
          BY <1>8, <5>1, Zenon
      <4> QED
        BY <1>3, <3>2, <4>1, <4>4 DEF RowOK
    <3>3. CASE j # k /\ ~Exists(j)
      BY <2>5, <3>3 DEF RowOK
    <3> QED
      BY <3>1, <3>2, <3>3, Zenon
  <2>11. Once' /\ mutated' \in [Keys -> Nat]
    <3>1. mutated \in [Keys -> Nat] /\ mutated[k] = 0
      BY <1>1, <1>5 DEF Inv, Once, TypeOK
    <3>2. \A j \in Keys : mutated'[j] = IF j = k THEN 1 ELSE mutated[j]
      BY <1>8, <3>1
    <3>3. mutated' \in [Keys -> Nat]
      BY <1>8, <3>1
    <3> QED
      BY <2>5, <3>2, <3>3, Zenon DEF Inv, Once
  <2>12. Answers'
    <3>1. \A a \in answered : a[1] \in Keys /\ Done(a[1]) /\ row[a[1]].digest = a[2] /\ a[1] # k
      BY <1>1, <1>5 DEF Inv, Answers, TypeOK, Done
    <3> QED
      BY <1>3, <2>4, <2>6, <3>1, ZenonT(40) DEF Answers
  <2>13. Single'
    BY <2>8, Zenon DEF Single
  <2>14. Divergence'
    <3>1. \A p \in Parts : mem[p] = db[p] \/ p \in reported
      BY <1>1, <1>2, Zenon DEF Inv, Divergence, Excused
    <3>2. \A p \in Parts : p \in Touches(kd) => p \in Rest(row'[k].kind, row'[k].at)
      BY <2>2, <2>4, <2>7, Zenon
    <3>3. \A p \in Parts : p \notin Touches(kd) => db'[p] = db[p]
      BY <1>8, <2>1, Zenon
    <3>4. \A p \in Parts : mem'[p] = db'[p] \/ p \in reported' \/ \E j \in Pending' : p \in Rest(row'[j].kind, row'[j].at)
      BY <1>3, <2>8, <3>1, <3>2, <3>3, Zenon
    <3> QED
      BY <3>4, Zenon DEF Divergence, Excused
  <2>15. TypeOK'
    BY <1>1, <1>3, <1>8, <2>1, <2>4, <2>9, <2>11, Zenon DEF TypeOK
  <2>16. JobOK'
    BY <1>8, <2>4, <2>5, <2>8
  <2> QED
    BY <2>9, <2>10, <2>11, <2>12, <2>13, <2>14, <2>15, <2>16, Zenon DEF Inv
<1>9. CASE /\ Committed /\ UNCHANGED faults
           /\ Continue([job EXCEPT !.pc = "stage", !.goal = "own", !.todo = {k}])
  <2> DEFINE j == [job EXCEPT !.pc = "stage", !.goal = "own", !.todo = {k}]
  <2>1. /\ j \in Jobs /\ j.pc = "stage" /\ j.goal = "own" /\ j.key = job.key /\ j.digest = job.digest
        /\ j.kind = job.kind /\ j.todo = {k}
    BY <1>2, Zenon DEF Jobs
  <2>2. job' = j /\ holder' = holder
    BY <1>9 DEF Continue
  <2> HIDE DEF j
  <2>3. ASSUME Pending' = {k}, \A i \in Keys : Exists(i)' <=> Exists(i) \/ i = k, row'[k] = new
        PROVE  JobOK'
    <3>1. JobGoal'
      <4>1. /\ job'.goal = "own" /\ job'.pc \in {"stage", "advance"} /\ job'.key = k
            /\ job'.digest = job.digest /\ job'.digest \in Digests /\ job'.kind \in OpKinds
        BY <1>5, <2>1, <2>2, Zenon
      <4>2. new.digest = job.digest
        BY Zenon
      <4>3. Exists(k)' /\ row'[k].digest = job'.digest
        BY <2>3, <4>1, <4>2, ZenonT(40)
      <4> QED
        BY <4>1, <4>3, OwnGoal, Zenon
    <3>2. JobPlace'
      BY <2>1, <2>2, <2>3 DEF JobPlace
    <3> QED
      BY <1>2, <1>3, <3>1, <3>2, Zenon DEF JobOK
  <2>4. job' # Idle /\ faults' \in 0 .. MaxFaults /\ holder' \in {"nobody", "request", "worker", "start"}
    BY <1>1, <1>9, <2>1, <2>2 DEF Idle, TypeOK
  <2> HIDE DEF Committed, new
  <2> QED
    BY <1>2, <1>8, <1>9, <2>1, <2>2, <2>3, <2>4
<1>10. CASE Committed /\ faults < MaxFaults /\ faults' = faults + 1 /\ Release
  <2>1. job' = Idle /\ holder' = "nobody" /\ JobOK' /\ job'.pc = "idle"
    BY <1>10, Zenon DEF Release, JobOK, Idle
  <2>2. faults' \in 0 .. MaxFaults
    BY <1>1, <1>10, ConstantFacts DEF TypeOK
  <2> HIDE DEF Committed, new
  <2> QED
    BY <1>8, <1>10, <2>1, <2>2, Zenon
<1> QED
  BY <1>5, <1>7, <1>9, <1>10 DEF Mutate

-----------------------------------------------------------------------------
\* A holder in one of the last places is a write, and nothing is pending.
LEMMA WriteFacts ==
  ASSUME ConstantsAssumption, Inv, job.pc \in {"commit", "publish", "repair"}
  PROVE  /\ job \in Jobs /\ job.goal = "write" /\ job.kind \in WriteKinds /\ job.kind \in Kinds \cup Writes
         /\ Pending = {} /\ up # "down" /\ holder # "nobody" /\ TypeOK
         /\ Touches(job.kind) \subseteq Parts
<1>1. job \in Jobs /\ JobGoal /\ JobPlace /\ up # "down" /\ holder # "nobody"
  BY JobFacts
<1>2. job.goal \in {"new", "replay", "own", "drain", "write"}
  BY <1>1, Zenon DEF Jobs
<1>3. job.goal = "write" /\ job.kind \in WriteKinds
  BY <1>1, <1>2 DEF JobGoal
<1>4. job.kind \in Kinds \cup Writes
  BY <1>3, ConstantFacts
<1>5. Touches(job.kind) \subseteq Parts
  BY <1>4, TouchesFacts
<1> QED
  BY <1>1, <1>3, <1>4, <1>5 DEF JobPlace, Inv

\* A write without an operation row commits: memory lags until it publishes.
LEMMA CommitWriteStep ==
  ASSUME ConstantsAssumption, Inv, CommitWrite
  PROVE  Inv'
<1>1. job.pc = "commit"
  BY DEF CommitWrite
<1>2. /\ job \in Jobs /\ job.goal = "write" /\ job.kind \in WriteKinds /\ job.kind \in Kinds \cup Writes
      /\ Pending = {} /\ up # "down" /\ holder # "nobody" /\ TypeOK
      /\ Touches(job.kind) \subseteq Parts
  BY <1>1, WriteFacts
<1>3. UNCHANGED <<row, mem, wake, retry, up, mutated, answered>>
  BY DEF CommitWrite, worker
<1>4. CASE Release /\ NoFault /\ UNCHANGED <<db, reported>>
  <2>1. UNCHANGED Rest1 /\ faults' = faults /\ crashes' = crashes
    BY <1>3, <1>4 DEF Rest1, NoFault
  <2>2. wake' \in BOOLEAN /\ retry' \in BOOLEAN /\ up' \in {"down", "loaded", "listening"} /\ answered' \subseteq Keys \X Digests
        /\ faults' \in 0 .. MaxFaults /\ crashes' \in 0 .. MaxCrashes
    BY <1>2, <1>3, <2>1 DEF TypeOK
  <2> QED
    BY <1>1, <1>2, <1>3, <1>4, <2>1, <2>2, ReleaseOnly
<1>5. Pending' = {} /\ \A k \in Keys : (Exists(k)' <=> Exists(k)) /\ (Done(k)' <=> Done(k))
  BY <1>2, <1>3, Zenon DEF Pending, Exists, Done
<1>6. ASSUME commits < MaxCommits, db' = Bump(job.kind), commits' = commits + 1,
             faults' \in 0 .. MaxFaults, crashes' = crashes, reported' \subseteq Parts,
             job' \in Jobs \cup {Idle}, job' = Idle <=> holder' = "nobody",
             holder' \in {"nobody", "request", "worker", "start"},
             JobOK',
             \A p \in Touches(job.kind) : p \in reported' \/ (job'.pc = "publish" /\ p \in job'.left),
             reported \subseteq reported'
      PROVE  Inv'
  <2>1. /\ db' \in [Parts -> 0 .. MaxCommits]
        /\ \A p \in Parts : /\ db'[p] = IF p \in Touches(job.kind) THEN db[p] + 1 ELSE db[p]
                            /\ db[p] <= db'[p] /\ db'[p] <= commits + 1 /\ mem[p] <= db'[p]
        /\ commits + 1 \in 0 .. MaxCommits
    BY <1>2, <1>6, BumpFacts
  <2>2. TypeOK'
    BY <1>2, <1>3, <1>6, <2>1, Zenon DEF TypeOK
  <2>3. Bounded'
    BY <1>3, <1>6, <2>1, Zenon DEF Bounded
  <2>4. ASSUME NEW k \in Keys
        PROVE  RowOK(k)'
    <3>1. CASE Exists(k)
      <4>1. RowOK(k) /\ row[k].ver \in [Parts -> 0 .. MaxCommits]
        BY <1>2, <3>1, RowFacts, Zenon DEF Inv
      <4>2. db \in [Parts -> 0 .. MaxCommits] /\ \A p \in Parts : row[k].ver[p] <= db[p]
        BY <1>2, <3>1, <4>1, Zenon DEF TypeOK, RowOK
      <4>3. \A p \in Parts : row[k].ver[p] <= db'[p]
        BY <2>1, <4>1, <4>2, VersionsGrow, ZenonT(40)
      <4> QED
        BY <1>3, <3>1, <4>1, <4>3, Zenon DEF RowOK
    <3>2. CASE ~Exists(k)
      BY <1>5, <3>2 DEF RowOK
    <3> QED
      BY <3>1, <3>2
  <2>5. Once' /\ Single'
    BY <1>3, <1>5, ZenonT(40) DEF Inv, Once, Single
  <2>6. Answers'
    <3>1. \A a \in answered : a[1] \in Keys
      BY <1>2 DEF TypeOK
    <3> QED
      BY <1>3, <1>5, <3>1, Zenon DEF Inv, Answers
  <2>7. Divergence'
    <3>1. \A p \in Parts : mem[p] = db[p] \/ p \in reported
      BY <1>1, <1>2, Zenon DEF Inv, Divergence, Excused
    <3>2. \A p \in Parts : mem'[p] = db'[p] \/ p \in reported' \/ (job'.pc = "publish" /\ p \in job'.left)
      BY <1>3, <1>6, <2>1, <3>1
    <3> QED
      BY <3>2, Zenon DEF Divergence, Excused
  <2> QED
    BY <1>6, <2>2, <2>3, <2>4, <2>5, <2>6, <2>7, ZenonT(40) DEF Inv
<1>7. CASE /\ commits < MaxCommits /\ commits' = commits + 1 /\ UNCHANGED <<faults, crashes>>
           /\ db' = Bump(job.kind) /\ UNCHANGED reported
           /\ Continue([job EXCEPT !.pc = "publish", !.left = Touches(job.kind)])
  <2> DEFINE j == [job EXCEPT !.pc = "publish", !.left = Touches(job.kind)]
  <2>1. /\ j \in Jobs /\ j.pc = "publish" /\ j.goal = "write" /\ j.kind = job.kind /\ j.left = Touches(job.kind)
    BY <1>2, Zenon DEF Jobs
  <2>2. job' = j /\ holder' = holder
    BY <1>7 DEF Continue
  <2> HIDE DEF j
  <2>3. Touches(job.kind) # {}
    BY <1>2, TouchesFacts, Zenon
  <2>4. JobGoal'
    BY <1>2, <2>1, <2>2, Zenon DEF JobGoal
  <2>5. JobPlace'
    BY <1>5, <2>1, <2>2, <2>3, Zenon DEF JobPlace
  <2>6. JobOK' /\ job' # Idle
    BY <1>2, <1>3, <2>1, <2>2, <2>4, <2>5 DEF JobOK, Idle
  <2>7. faults' \in 0 .. MaxFaults /\ reported' \subseteq Parts /\ holder' \in {"nobody", "request", "worker", "start"}
    BY <1>2, <1>7, <2>2, Zenon DEF TypeOK
  <2> QED
    BY <1>2, <1>6, <1>7, <2>1, <2>2, <2>6, <2>7
<1>8. CASE /\ commits < MaxCommits /\ commits' = commits + 1
           /\ faults < MaxFaults /\ faults' = faults + 1 /\ UNCHANGED crashes
           /\ db' = Bump(job.kind) /\ reported' = reported \cup Touches(job.kind) /\ Release
  <2>1. job' = Idle /\ holder' = "nobody" /\ JobOK'
    BY <1>8, Zenon DEF Release, JobOK, Idle
  <2>2. faults' \in 0 .. MaxFaults /\ reported' \subseteq Parts
    BY <1>2, <1>8, ConstantFacts DEF TypeOK
  <2> QED
    BY <1>6, <1>8, <2>1, <2>2, Zenon
<1> QED
  BY <1>4, <1>7, <1>8 DEF CommitWrite

\* The parts of a write reach memory one by one.
LEMMA PublishStep ==
  ASSUME ConstantsAssumption, Inv, Publish
  PROVE  Inv'
<1>1. job.pc = "publish"
  BY DEF Publish
<1>2. /\ job \in Jobs /\ job.goal = "write" /\ job.kind \in WriteKinds
      /\ Pending = {} /\ up # "down" /\ holder # "nobody" /\ TypeOK
      /\ Touches(job.kind) \subseteq Parts
  BY <1>1, WriteFacts, Zenon
<1>3. job.left \subseteq Touches(job.kind) /\ job.left # {}
  BY <1>1, JobFacts DEF JobPlace
<1>4. PICK p \in Parts : p = Next1(job.left) /\ p \in job.left
  BY <1>2, <1>3 DEF Next1, Parts
<1>5. /\ UNCHANGED <<row, db, wake, retry, up, mutated, answered, reported>>
      /\ \/ /\ mem' = [mem EXCEPT ![p] = db[p]] /\ NoFault
            /\ IF job.left = {p} THEN Release ELSE Continue([job EXCEPT !.left = @ \ {p}])
         \/ Fault /\ UNCHANGED mem /\ Continue([job EXCEPT !.pc = "repair"])
  BY <1>4 DEF Publish, durable, worker, history
<1>6. /\ commits' = commits /\ faults' \in 0 .. MaxFaults /\ crashes' \in 0 .. MaxCrashes
      /\ wake' \in BOOLEAN /\ retry' \in BOOLEAN /\ up' \in {"down", "loaded", "listening"} /\ reported' \subseteq Parts
  <2>1. Fault \/ NoFault
    BY <1>5
  <2> QED
    BY <1>2, <1>5, <2>1, CounterFacts DEF TypeOK
<1>7. Pending' = {}
  BY <1>2, <1>5 DEF Pending, Exists, Done
<1>8. /\ mem' \in [Parts -> 0 .. MaxCommits]
      /\ \A q \in Parts : mem'[q] = mem[q] \/ mem'[q] = db[q]
  BY <1>2, <1>5, Zenon DEF TypeOK
<1>9. \A q \in Parts : mem[q] = db[q] \/ q \in reported \/ q \in job.left
  BY <1>1, <1>2 DEF Inv, Divergence, Excused
<1>10. CASE mem' = [mem EXCEPT ![p] = db[p]] /\ NoFault /\ job.left = {p} /\ Release
  <2>1. job' = Idle /\ holder' = "nobody" /\ JobOK'
    BY <1>10 DEF Release, JobOK, Idle
  <2>2. \A q \in Parts : mem'[q] = db'[q] \/ q \in reported'
    BY <1>2, <1>5, <1>9, <1>10, Zenon DEF TypeOK
  <2>3. Divergence'
    BY <2>2 DEF Divergence, Excused
  <2> QED
    BY <1>5, <1>6, <1>8, <2>1, <2>3, MemoryStep, Zenon
<1>11. ASSUME NEW j \in Jobs, job' = j, holder' = holder, j.pc \in {"publish", "repair"}, j.goal = "write",
              j.kind = job.kind, j.left \subseteq job.left, j.pc = "publish" => j.left # {},
              \A q \in Parts : mem'[q] = db'[q] \/ q \in reported' \/ q \in j.left
       PROVE  Inv'
  <2>1. JobGoal'
    BY <1>2, <1>11, Zenon DEF JobGoal
  <2>2. JobPlace'
    BY <1>3, <1>7, <1>11 DEF JobPlace
  <2>3. JobOK' /\ job' # Idle
    BY <1>2, <1>5, <1>11, <2>1, <2>2 DEF JobOK, Idle
  <2>4. \A q \in j.left : q \in Touches(j.kind)
    BY <1>3, <1>11, Zenon
  <2>5. Divergence'
    BY <1>11, <2>4, Zenon DEF Divergence, Excused
  <2>6. holder' \in {"nobody", "request", "worker", "start"}
    BY <1>2, <1>11, Zenon DEF TypeOK
  <2> QED
    BY <1>2, <1>5, <1>6, <1>8, <1>11, <2>3, <2>5, <2>6, MemoryStep, Zenon
<1>12. CASE mem' = [mem EXCEPT ![p] = db[p]] /\ NoFault /\ job.left # {p} /\ Continue([job EXCEPT !.left = @ \ {p}])
  <2> DEFINE j == [job EXCEPT !.left = @ \ {p}]
  <2>1. j \in Jobs /\ j.pc = "publish" /\ j.goal = "write" /\ j.kind = job.kind /\ j.left = job.left \ {p}
    BY <1>1, <1>2 DEF Jobs
  <2>2. job' = j /\ holder' = holder
    BY <1>12 DEF Continue
  <2> HIDE DEF j
  <2>3. j.left # {} /\ j.left \subseteq job.left
    BY <1>4, <1>12, <2>1
  <2>4. \A q \in Parts : mem'[q] = db'[q] \/ q \in reported' \/ q \in j.left
    BY <1>2, <1>5, <1>9, <1>12, <2>1, Zenon DEF TypeOK
  <2> QED
    BY <1>11, <2>1, <2>2, <2>3, <2>4, Zenon
<1>13. CASE Fault /\ UNCHANGED mem /\ Continue([job EXCEPT !.pc = "repair"])
  <2> DEFINE j == [job EXCEPT !.pc = "repair"]
  <2>1. j \in Jobs /\ j.pc = "repair" /\ j.goal = "write" /\ j.kind = job.kind /\ j.left = job.left
    BY <1>1, <1>2 DEF Jobs
  <2>2. job' = j /\ holder' = holder
    BY <1>13 DEF Continue
  <2> HIDE DEF j
  <2>3. \A q \in Parts : mem'[q] = db'[q] \/ q \in reported' \/ q \in j.left
    BY <1>5, <1>9, <1>13, <2>1, Zenon
  <2> QED
    BY <1>11, <2>1, <2>2, <2>3
<1> QED
  BY <1>5, <1>10, <1>12, <1>13

\* The repair reloads what it can and names the rest.
LEMMA RepairStep ==
  ASSUME ConstantsAssumption, Inv, Repair
  PROVE  Inv'
<1>1. job.pc = "repair"
  BY DEF Repair
<1>2. /\ job \in Jobs /\ Pending = {} /\ up # "down" /\ holder # "nobody" /\ TypeOK
      /\ Touches(job.kind) \subseteq Parts
  BY <1>1, WriteFacts, Zenon
<1>3. PICK done \in {{}, {"prices"}, {"prices", "registry"}, Parts} :
         /\ mem' = [p \in Parts |-> IF p \in done \cap Touches(job.kind) THEN db[p] ELSE mem[p]]
         /\ IF done \cap Touches(job.kind) = Touches(job.kind) THEN NoFault ELSE Fault
         /\ reported' = reported \cup (Touches(job.kind) \ (done \cap Touches(job.kind)))
  BY Zenon DEF Repair
<1>4. UNCHANGED <<row, db, wake, retry, up, mutated, answered>> /\ job' = Idle /\ holder' = "nobody" /\ JobOK'
  BY DEF Repair, durable, worker, Release, JobOK, Idle
<1>5. /\ commits' = commits /\ faults' \in 0 .. MaxFaults /\ crashes' \in 0 .. MaxCrashes
  <2>1. Fault \/ NoFault
    BY <1>3, Zenon
  <2> QED
    BY <1>2, <2>1, CounterFacts, Zenon
<1>6. wake' \in BOOLEAN /\ retry' \in BOOLEAN /\ up' \in {"down", "loaded", "listening"} /\ reported' \subseteq Parts
  BY <1>2, <1>3, <1>4, Zenon DEF TypeOK
<1>7. /\ mem' \in [Parts -> 0 .. MaxCommits]
      /\ \A p \in Parts : mem'[p] = mem[p] \/ mem'[p] = db[p]
  BY <1>2, <1>3, Zenon DEF TypeOK
<1>8. \A p \in Parts : mem[p] = db[p] \/ p \in reported \/ p \in Touches(job.kind)
  BY <1>1, <1>2, Zenon DEF Inv, Divergence, Excused
<1>9. \A p \in Parts : mem'[p] = db'[p] \/ p \in reported'
  BY <1>3, <1>4, <1>8
<1>10. Divergence'
  BY <1>9 DEF Divergence, Excused
<1> QED
  BY <1>4, <1>5, <1>6, <1>7, <1>10, MemoryStep, Zenon

-----------------------------------------------------------------------------
\* The hourly compaction drops a result; the comparator stays.
LEMMA CompactStep ==
  ASSUME ConstantsAssumption, Inv, NEW k \in Keys, Compact(k)
  PROVE  Inv'
<1>1. TypeOK /\ Exists(k) /\ Done(k) /\ row' = [row EXCEPT ![k].compacted = TRUE]
  BY DEF Inv, Compact, Done
<1>2. UNCHANGED <<db, mem, holder, job, wake, retry, up, commits, faults, crashes, mutated, answered, reported>>
  BY DEF Compact, NoFault, worker, history
<1>3. holder = "nobody" /\ job = Idle
  BY <1>1 DEF Compact, TypeOK
<1>4. row[k] \in Rows
  BY <1>1 DEF TypeOK, Exists
<1> DEFINE new == [row[k] EXCEPT !.compacted = TRUE]
<1>5. /\ new \in Rows /\ new.kind = row[k].kind /\ new.at = row[k].at /\ new.ver = row[k].ver
      /\ new.digest = row[k].digest
  BY <1>4, Zenon DEF Rows
<1>6. new # NoRow
  BY <1>5 DEF Rows, NoRow
<1>7. row' = [row EXCEPT ![k] = new]
  BY <1>1 DEF TypeOK
<1> HIDE DEF new
<1>8. /\ row' \in [Keys -> Rows \cup {NoRow}] /\ row'[k] = new
      /\ \A j \in Keys : j # k => row'[j] = row[j]
  BY <1>1, <1>5, <1>7, Zenon DEF TypeOK
<1>9. \A j \in Keys : Exists(j)' <=> Exists(j)
  BY <1>1, <1>6, <1>8, Zenon DEF Exists
<1>10. \A j \in Keys : Exists(j) => /\ row'[j].kind = row[j].kind /\ row'[j].at = row[j].at
                                    /\ row'[j].ver = row[j].ver /\ row'[j].digest = row[j].digest
  BY <1>5, <1>8
<1>11. \A j \in Keys : Done(j)' <=> Done(j)
  <2> SUFFICES ASSUME NEW j \in Keys
               PROVE  Done(j)' <=> Done(j)
    OBVIOUS
  <2>1. CASE ~Exists(j)
    BY <1>9, <2>1 DEF Done
  <2>2. CASE Exists(j)
    <3>1. PICK n : n = row[j].at /\ n = row'[j].at
      BY <1>10, <2>2, Zenon
    <3>2. PICK kd : kd = row[j].kind /\ kd = row'[j].kind
      BY <1>10, <2>2, Zenon
    <3>3. Done(j) <=> n = Len(Plan(kd))
      BY <2>2, <3>1, <3>2, Zenon DEF Done
    <3>4. Done(j)' <=> n = Len(Plan(kd))
      BY <1>9, <2>2, <3>1, <3>2 DEF Done
    <3> QED
      BY <3>3, <3>4, Zenon
  <2> QED
    BY <2>1, <2>2
<1>12. Pending' = Pending
  BY <1>9, <1>11 DEF Pending
<1>13. TypeOK' /\ Bounded' /\ Single' /\ JobOK'
  <2>1. TypeOK'
    BY <1>1, <1>2, <1>8, Zenon DEF TypeOK
  <2>2. Bounded' /\ Single'
    BY <1>2, <1>12, Zenon DEF Inv, Bounded, Single
  <2>3. JobOK'
    BY <1>2, <1>3 DEF JobOK, Idle
  <2> QED
    BY <2>1, <2>2, <2>3
<1>14. Once' /\ Answers'
  <2>1. Once'
    BY <1>2, <1>9 DEF Inv, Once
  <2>2. \A a \in answered : a[1] \in Keys /\ Done(a[1]) /\ Exists(a[1]) /\ row[a[1]].digest = a[2]
    BY <1>1, Zenon DEF Inv, Answers, TypeOK, Done
  <2>3. Answers'
    BY <1>2, <1>10, <1>11, <2>2 DEF Answers
  <2> QED
    BY <2>1, <2>3
<1>15. ASSUME NEW j \in Keys
       PROVE  RowOK(j)'
  <2>1. CASE ~Exists(j)
    BY <1>9, <2>1, Zenon DEF RowOK
  <2>2. CASE Exists(j)
    <3>1. PICK n : n = row[j].at /\ n = row'[j].at
      BY <1>10, <2>2
    <3>2. PICK kd : kd = row[j].kind /\ kd = row'[j].kind
      BY <1>10, <2>2
    <3>3. PICK v : v = row[j].ver /\ v = row'[j].ver
      BY <1>10, <2>2
    <3>4. /\ n <= Len(Plan(kd)) /\ \A p \in Parts : v[p] <= db[p]
          /\ \A p \in Touches(kd) : p \notin Rest(kd, n) => mem[p] >= v[p]
      BY <2>2, <3>1, <3>2, <3>3, Zenon DEF Inv, RowOK
    <3> QED
      BY <1>2, <3>1, <3>2, <3>3, <3>4, Zenon DEF RowOK
  <2> QED
    BY <2>1, <2>2, Zenon
<1>16. Divergence'
  <2>1. \A j \in Pending : j \in Keys /\ Exists(j)
    BY DEF Pending
  <2>2. ASSUME NEW p \in Parts, NEW j \in Pending, p \in Rest(row[j].kind, row[j].at)
        PROVE  p \in Rest(row'[j].kind, row'[j].at)
    <3>1. row'[j].kind = row[j].kind /\ row'[j].at = row[j].at
      BY <1>10, <2>1, Zenon
    <3> QED
      BY <2>2, <3>1, Zenon
  <2>3. up # "down" => \A p \in Parts : mem[p] = db[p] \/ p \in reported \/ \E j \in Pending : p \in Rest(row[j].kind, row[j].at)
    BY <1>3, Zenon DEF Inv, Divergence, Excused, Idle
  <2>4. up' # "down" => \A p \in Parts : mem'[p] = db'[p] \/ p \in reported' \/ \E j \in Pending' : p \in Rest(row'[j].kind, row'[j].at)
    BY <1>2, <1>12, <2>2, <2>3
  <2> QED
    BY <2>4 DEF Divergence, Excused
<1> QED
  BY <1>13, <1>14, <1>15, <1>16 DEF Inv

\* The process ends: memory is gone, the rows and the database stay.
LEMMA CrashStep ==
  ASSUME ConstantsAssumption, Inv, Crash
  PROVE  Inv'
<1>1. TypeOK /\ Release /\ up' = "down" /\ wake' = FALSE /\ retry' = FALSE
      /\ UNCHANGED <<row, db, mem, mutated, answered, reported, commits, faults>>
  BY Zenon DEF Inv, Crash, durable, history
<1>2. crashes' \in 0 .. MaxCrashes /\ faults' \in 0 .. MaxFaults
  BY <1>1, ConstantFacts DEF TypeOK, Crash
<1>3. UNCHANGED Rest1 /\ answered' \subseteq Keys \X Digests
  BY <1>1, Zenon DEF Rest1, TypeOK
<1> QED
  BY <1>1, <1>2, <1>3, ReleaseOnly, Zenon

\* The start reads every part again.
LEMMA StartStep ==
  ASSUME ConstantsAssumption, Inv, Start
  PROVE  Inv'
<1>1. TypeOK /\ up' = "loaded" /\ holder' = "start" /\ mem' = db /\ reported' = {}
      /\ UNCHANGED <<row, db, wake, retry, mutated, answered, commits, faults, crashes>>
  BY Zenon DEF Inv, Start, NoFault, durable, worker
<1>2. /\ job' \in Jobs /\ job'.pc = "list" /\ job'.goal = "drain"
  BY Zenon DEF Start, Job, Jobs
<1>3. JobOK' /\ job' # Idle
  BY <1>1, <1>2 DEF JobOK, JobGoal, JobPlace, Idle
<1>4. mem' \in [Parts -> 0 .. MaxCommits] /\ \A p \in Parts : mem'[p] = mem[p] \/ mem'[p] = db[p]
  BY <1>1 DEF TypeOK
<1>5. Divergence'
  BY <1>1, Zenon DEF Divergence
<1>6. wake' \in BOOLEAN /\ retry' \in BOOLEAN /\ faults' \in 0 .. MaxFaults /\ crashes' \in 0 .. MaxCrashes
  BY <1>1, Zenon DEF TypeOK
<1> QED
  BY <1>1, <1>2, <1>3, <1>4, <1>5, <1>6, MemoryStep, Zenon

-----------------------------------------------------------------------------
\* Every step of a request, of the worker or of the process keeps the invariant.
LEMMA NextInv ==
  ASSUME ConstantsAssumption, Inv, [Next]_vars
  PROVE  Inv'
<1>1. CASE \/ \E k \in Keys, d \in Digests, kind \in OpKinds : Request(k, d, kind)
           \/ \E kind \in WriteKinds : Write(kind)
           \/ Wake
  BY <1>1, TakeStep
<1>2. CASE Lookup
  BY <1>2, LookupStep
<1>3. CASE List
  BY <1>3, ListStep, Zenon
<1>4. CASE Stage
  BY <1>4, StageStep
<1>5. CASE Advance
  BY <1>5, AdvanceStep
<1>6. CASE Finished
  BY <1>6, FinishedStep
<1>7. CASE Mutate
  BY <1>7, MutateStep
<1>8. CASE CommitWrite
  BY <1>8, CommitWriteStep
<1>9. CASE Publish
  BY <1>9, PublishStep
<1>10. CASE Repair
  BY <1>10, RepairStep
<1>11. CASE \E k \in Keys : Compact(k)
  BY <1>11, CompactStep, Zenon
<1>12. CASE Crash
  BY <1>12, CrashStep
<1>13. CASE Start
  BY <1>13, StartStep
<1>14. CASE UNCHANGED vars
  <2>1. TypeOK' /\ Bounded'
    BY <1>14, Zenon DEF vars, history, Inv, TypeOK, Bounded
  <2>2. Pending' = Pending /\ \A k \in Keys : (Exists(k)' <=> Exists(k)) /\ (Done(k)' <=> Done(k))
    BY <1>14, Zenon DEF vars, Pending, Done, Exists
  <2>3. \A k \in Keys : RowOK(k)'
    BY <1>14, Zenon DEF vars, Inv, RowOK, Exists
  <2>4. Once' /\ Single'
    BY <1>14, <2>2, Zenon DEF vars, history, Inv, Once, Single
  <2>5. Answers'
    BY <1>14 DEF vars, history, Inv, Answers, Done, Exists
  <2>6. JobOK'
    BY <1>14, <2>2, Zenon DEF vars, Inv, JobOK, JobGoal, JobPlace, Exists
  <2>7. Divergence'
    BY <1>14, <2>2, Zenon DEF vars, history, Inv, Divergence, Excused
  <2> QED
    BY <2>1, <2>3, <2>4, <2>5, <2>6, <2>7, Zenon DEF Inv
<1> QED
  BY <1>1, <1>2, <1>3, <1>4, <1>5, <1>6, <1>7, <1>8, <1>9, <1>10, <1>11, <1>12, <1>13, <1>14, Zenon DEF Next, Step

\* The invariant holds in every reachable state.
THEOREM Invariance == ASSUME ConstantsAssumption PROVE Spec => []Inv
<1>1. Init => Inv
  BY InitInv
<1>2. Inv /\ [Next]_vars => Inv'
  BY NextInv
<1> QED
  BY <1>1, <1>2, PTL DEF Spec

\* The typing of rows, memory, holder and job.
THEOREM TypeCorrect == ASSUME ConstantsAssumption PROVE Spec => []TypeOK
<1>1. Inv => TypeOK
  BY Zenon DEF Inv
<1> QED
  BY <1>1, Invariance, PTL

\* A retried request changes the database at most once, and its result goes
\* only to requests with its body: for any number of keys, retries, failing
\* stages, ambiguous commits, compactions and crashes.
THEOREM RetriesAreSafe == ASSUME ConstantsAssumption PROVE Spec => []AtMostOnce
<1>1. Inv => AtMostOnce
  <2> SUFFICES ASSUME Inv PROVE AtMostOnce
    OBVIOUS
  <2>1. \A k \in Keys : mutated[k] <= 1
    BY DEF Inv, Once
  <2>2. \A a \in answered : row[a[1]] # NoRow /\ row[a[1]].digest = a[2]
    BY Zenon DEF Inv, Answers, Done, Exists
  <2> QED
    BY <2>1, <2>2 DEF AtMostOnce
<1> QED
  BY <1>1, Invariance, PTL

\* The barrier of finishPendingOperations holds: one operation at most is
\* unfinished in the database, whatever fails in between.
THEOREM BarrierHolds == ASSUME ConstantsAssumption PROVE Spec => []OneUnfinished
<1>1. Inv => OneUnfinished
  <2> SUFFICES ASSUME Inv PROVE OneUnfinished
    OBVIOUS
  <2>1. CASE Pending = {}
    <3>1. Cardinality(Pending) = 0
      BY <2>1, FS_EmptySet, Zenon
    <3> QED
      BY <3>1 DEF OneUnfinished
  <2>2. CASE Pending # {}
    <3>1. PICK k : k \in Pending
      BY <2>2
    <3>2. Pending = {k}
      BY <3>1 DEF Inv, Single
    <3>3. Cardinality({k}) = 1
      BY FS_Singleton
    <3>4. Cardinality(Pending) = 1
      BY <3>2, <3>3
    <3> QED
      BY <3>4 DEF OneUnfinished
  <2> QED
    BY <2>1, <2>2
<1> QED
  BY <1>1, Invariance, PTL

\* No part that a completed operation changed is older in memory than its
\* commit while the process is up: a stage is recorded only after memory has
\* it, and a restart loads no less.
THEOREM CompletionIsSeen == ASSUME ConstantsAssumption PROVE Spec => []CompletedIsVisible
<1>1. ASSUME ConstantsAssumption, Inv, NEW k \in Keys, Done(k), NEW p \in Touches(row[k].kind)
      PROVE  mem[p] >= row[k].ver[p]
  <2>1. Exists(k) /\ row[k].at = Len(Plan(row[k].kind)) /\ TypeOK
    BY <1>1, Zenon DEF Done, Inv
  <2>2. row[k].kind \in Kinds
    BY <1>1, <2>1, RowFacts, Zenon
  <2>3. Rest(row[k].kind, Len(Plan(row[k].kind))) = {}
    BY <2>2, PlanFacts
  <2>4. p \notin Rest(row[k].kind, row[k].at)
    BY <2>1, <2>3
  <2>5. RowOK(k)
    BY <1>1, Zenon DEF Inv
  <2> QED
    BY <1>1, <2>1, <2>4, <2>5, Zenon DEF RowOK
<1>2. ConstantsAssumption /\ Inv => CompletedIsVisible
  BY <1>1, Zenon DEF CompletedIsVisible
<1> QED
  BY <1>2, Invariance, PTL

\* A success that a client has read belongs to an operation of which every
\* stage is complete.
THEOREM SuccessIsWhole == ASSUME ConstantsAssumption PROVE Spec => []AnsweredIsDone
<1>1. Inv => AnsweredIsDone
  BY Zenon DEF Inv, Answers, AnsweredIsDone
<1> QED
  BY <1>1, Invariance, PTL

\* While nobody writes, memory that is older than the database has a cause
\* that recovery or an operator knows: an unfinished operation, or an error
\* its writer has received.
THEOREM NoSilentDivergence == ASSUME ConstantsAssumption PROVE Spec => []DivergenceIsReported
<1>1. ASSUME ConstantsAssumption, Inv, up = "listening", holder = "nobody", NEW p \in Parts
      PROVE  mem[p] = db[p] \/ p \in reported \/ \E k \in Pending : p \in Touches(row[k].kind)
  <2>1. TypeOK /\ job = Idle
    BY <1>1 DEF Inv, TypeOK
  <2>2. mem[p] = db[p] \/ p \in reported \/ \E k \in Pending : p \in Rest(row[k].kind, row[k].at)
    BY <1>1, <2>1, Zenon DEF Inv, Divergence, Excused, Idle
  <2>3. ASSUME NEW k \in Pending, p \in Rest(row[k].kind, row[k].at)
        PROVE  p \in Touches(row[k].kind)
    <3>1. k \in Keys /\ Exists(k)
      BY Zenon DEF Pending
    <3>2. row[k].kind \in Kinds /\ row[k].at \in 1 .. 5
      BY <1>1, <2>1, <3>1, RowFacts, Zenon
    <3>3. Rest(row[k].kind, row[k].at) \subseteq Touches(row[k].kind)
      BY <3>2, PlanFacts, Zenon
    <3> QED
      BY <2>3, <3>3
  <2> QED
    BY <2>2, <2>3, Zenon
<1>2. ConstantsAssumption /\ Inv => DivergenceIsReported
  BY <1>1 DEF DivergenceIsReported
<1> QED
  BY <1>2, Invariance, PTL
=============================================================================
