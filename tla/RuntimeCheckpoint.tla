-------------------------- MODULE RuntimeCheckpoint --------------------------
(***************************************************************************)
(* The checkpoint file a process writes when it stops and consumes when it *)
(* starts, and the ownership of upstream resources that passes through it. *)
(* A binding says which credential owns a response ID or a native resource *)
(* (a file, a batch job).  Response bindings live in memory and in the     *)
(* checkpoint only.  Native bindings are claimed in a table; those whose   *)
(* claim failed stay in memory, travel in the checkpoint, and are staged   *)
(* in a second file until the table has them.                              *)
(*                                                                         *)
(* Bindings do not expire here, and the index never reaches its capacity.  *)
(***************************************************************************)
EXTENDS Integers, FiniteSets

CONSTANTS
    Natives,     \* keys of native resources
    Responses,   \* response IDs
    Owners,      \* credential identities
    MaxStarts,   \* bound on the number of process starts
    MaxFaults,   \* bound on failing database claims
    MayFail      \* the stages that may fail: "start", "file"

NoOwner == "none"

ConstantsAssumption ==
    /\ Natives \cap Responses = {} /\ NoOwner \notin Owners
    /\ MaxStarts \in Nat /\ MaxFaults \in Nat /\ MayFail \subseteq {"start", "file"}

Bindings == (Natives \cup Responses) \X Owners
Native(B) == {b \in B : b[1] \in Natives}

VARIABLES
    file,      \* the checkpoint file: its state and the bindings in it
    pending,   \* the bindings in the pending file
    rows,      \* rows[k]: owner of native resource k in the table
    memory,    \* the bindings in memory
    pc,        \* where the process stands
    doc,       \* the bindings read from the checkpoint
    todo, failed, restored,   \* progress of the import into the table
    recording, \* claims answered and not yet remembered
    starts, faults,
    owed       \* native bindings that were durable once (history)

vars == <<file, pending, rows, memory, pc, doc, todo, failed, restored,
          recording, starts, faults, owed>>
import == <<doc, todo, failed, restored>>

NoFile == [state |-> "none", has |-> {}]
Saved(B) == [state |-> "ok", has |-> B]
Corrupt == [state |-> "corrupt", has |-> {}]

Durable(f, p, r) == Native(f.has) \cup p \cup {<<k, r[k]>> : k \in {n \in Natives : r[n] # NoOwner}}

(* The first start finds whatever an earlier version left in the checkpoint. *)
Init ==
    /\ file \in {NoFile} \cup {Saved({<<k, o>>}) : k \in Natives, o \in Owners}
    /\ pending = {} /\ rows = [k \in Natives |-> NoOwner]
    /\ memory = {} /\ pc = "down"
    /\ doc = {} /\ todo = {} /\ failed = {} /\ restored = {}
    /\ recording = {} /\ starts = 0 /\ faults = 0
    /\ owed = Native(file.has)

Owe(b) == owed' = owed \cup b
Fault == faults < MaxFaults /\ faults' = faults + 1

Boot ==
    /\ pc = "down" /\ starts < MaxStarts
    /\ pc' = "boot" /\ starts' = starts + 1
    /\ UNCHANGED <<file, pending, rows, memory, import, recording, faults, owed>>

(* Save: the bindings in memory go to the file. *)
Save == file' = Saved(memory) /\ Owe(Native(memory))

Halt ==
    /\ pc' = "down" /\ memory' = {} /\ recording' = {}
    /\ doc' = {} /\ todo' = {} /\ failed' = {} /\ restored' = {}

(* A stage of Start before the restore fails: managedRuntime.start calls   *)
(* Stop, and Stop saves a checkpoint.                                      *)
StartFails ==
    /\ "start" \in MayFail /\ pc = "boot"
    /\ Save /\ Halt
    /\ UNCHANGED <<pending, rows, starts, faults>>

GiveUp ==
    /\ pc' = "up" /\ UNCHANGED <<memory, import, recording>>

(* mergePendingResourceBindings *)
Staged == pending \cup Native(file.has)

(* Restore, until the native bindings of the checkpoint are staged in the  *)
(* pending file.  A checkpoint that cannot be decoded is removed.          *)
Restore ==
    /\ pc = "boot"
    /\ \/ /\ file.state = "corrupt" /\ file' = NoFile
          /\ GiveUp /\ UNCHANGED pending
       \/ /\ file.state = "ok" /\ UNCHANGED file
          /\ pending' = Staged
          /\ pc' = "consume" /\ doc' = file.has /\ todo' = pending'
          /\ failed' = {} /\ restored' = {} /\ UNCHANGED <<memory, recording>>
       \/ /\ "file" \in MayFail /\ file.state # "none"
          /\ GiveUp /\ UNCHANGED <<file, pending>>
       \/ /\ file.state = "none" /\ UNCHANGED <<file, pending>>
          /\ pc' = "import" /\ doc' = {} /\ todo' = pending
          /\ failed' = {} /\ restored' = {} /\ UNCHANGED <<memory, recording>>
    /\ UNCHANGED <<rows, starts, faults, owed>>

(* The checkpoint file is removed before anything of it is used. *)
Consume ==
    /\ pc = "consume"
    /\ \/ file' = NoFile /\ pc' = "import" /\ UNCHANGED <<memory, import, recording>>
       \/ "file" \in MayFail /\ GiveUp /\ UNCHANGED file
    /\ UNCHANGED <<pending, rows, starts, faults, owed>>

Claimed(b) == [rows EXCEPT ![b[1]] = b[2]]
Conflict(b) == rows[b[1]] \notin {NoOwner, b[2]}

(* persistResourceBindings, one claim: the first owner keeps the resource, *)
(* a claim that fails for another reason is kept for the next start.       *)
ImportClaim(b) ==
    /\ pc = "import" /\ b \in todo /\ todo' = todo \ {b}
    /\ \/ /\ ~Conflict(b) /\ rows' = Claimed(b)
          /\ restored' = restored \cup {b} /\ UNCHANGED <<failed, faults>>
       \/ /\ Conflict(b) /\ UNCHANGED <<rows, restored, failed, faults>>
       \/ /\ Fault /\ rows' \in {rows, IF Conflict(b) THEN rows ELSE Claimed(b)}
          /\ restored' = restored \cup {b} /\ failed' = failed \cup {b}
    /\ UNCHANGED <<file, pending, memory, pc, doc, recording, starts, owed>>

(* The deadline of the import: what is left counts as failed. *)
ImportTimeout ==
    /\ pc = "import" /\ todo # {} /\ Fault
    /\ failed' = failed \cup todo /\ restored' = restored \cup todo /\ todo' = {}
    /\ UNCHANGED <<file, pending, rows, memory, pc, doc, recording, starts, owed>>

Agree(B) == \A a, b \in B : a[1] = b[1] => a = b

\* Mutant: the pending file is removed although claims have failed.
LeftPendingNone == {}

LeftPending == failed

Restoring == {b \in doc : b[1] \in Responses} \cup restored

(* The pending file is rewritten or removed, and the bindings are put into *)
(* memory, all of them or, when two owners claim one resource, none.       *)
ImportDone ==
    /\ pc = "import" /\ todo = {}
    /\ pending' \in {LeftPending} \cup (IF "file" \in MayFail THEN {pending} ELSE {})
    /\ memory' = IF Agree(Restoring) THEN Restoring ELSE {}
    /\ pc' = "up" /\ doc' = {} /\ failed' = {} /\ restored' = {}
    /\ UNCHANGED <<file, rows, todo, recording, starts, faults, owed>>

-----------------------------------------------------------------------------
Fits(b) == \A a \in memory : a[1] = b[1] => a = b

(* recordResourceBinding up to its claim: a conflict refuses the response; *)
(* when the table is not available the binding is kept in memory only.     *)
Claim(b) ==
    /\ pc = "up" /\ b[1] \in Natives /\ Fits(b) /\ b \notin recording
    /\ \/ /\ ~Conflict(b) /\ rows' = Claimed(b) /\ Owe({b})
          /\ recording' = recording \cup {b} /\ UNCHANGED faults
       \/ /\ Fault /\ recording' = recording \cup {b}
          /\ \/ UNCHANGED <<rows, owed>>
             \/ ~Conflict(b) /\ rows' = Claimed(b) /\ Owe({b})
    /\ UNCHANGED <<file, pending, memory, pc, import, starts>>

(* Remember, after the claim or after a lookup found the row: an owner     *)
(* that is already in memory is not replaced.                              *)
Remember(b) ==
    /\ pc = "up" /\ b \in recording /\ recording' = recording \ {b}
    /\ memory' = IF Fits(b) THEN memory \cup {b} ELSE memory
    /\ UNCHANGED <<file, pending, rows, pc, import, starts, faults, owed>>

(* lookupResourceBinding that misses in memory. *)
Load(b) ==
    /\ pc = "up" /\ b[1] \in Natives /\ rows[b[1]] = b[2]
    /\ \A a \in memory : a[1] # b[1]
    /\ memory' = memory \cup {b}
    /\ UNCHANGED <<file, pending, rows, pc, import, recording, starts, faults, owed>>

(* Record: the owner of a response ID. *)
Record(b) ==
    /\ pc = "up" /\ b[1] \in Responses /\ Fits(b)
    /\ memory' = memory \cup {b}
    /\ UNCHANGED <<file, pending, rows, pc, import, recording, starts, faults, owed>>

(* Stop saves the checkpoint; os.WriteFile is not atomic, and a write that *)
(* fails removes the file.                                                 *)
Stop ==
    /\ pc = "up" /\ Halt
    /\ \/ Save
       \/ "file" \in MayFail /\ file' = NoFile /\ UNCHANGED owed
    /\ UNCHANGED <<pending, rows, starts, faults>>

CrashInSave ==
    /\ pc = "up" /\ Halt /\ file' = Corrupt
    /\ UNCHANGED <<pending, rows, starts, faults, owed>>

Crash ==
    /\ pc # "down" /\ Halt
    /\ UNCHANGED <<file, pending, rows, starts, faults, owed>>

Next ==
    \/ Boot \/ StartFails \/ Restore \/ Consume \/ ImportTimeout \/ ImportDone
    \/ \E b \in Bindings : ImportClaim(b) \/ Claim(b) \/ Remember(b) \/ Load(b) \/ Record(b)
    \/ Stop \/ CrashInSave \/ Crash

Spec == Init /\ [][Next]_vars

-----------------------------------------------------------------------------
TypeOK ==
    /\ file \in [state : {"none", "ok", "corrupt"}, has : SUBSET Bindings]
    /\ pending \subseteq Natives \X Owners
    /\ rows \in [Natives -> Owners \cup {NoOwner}]
    /\ memory \subseteq Bindings /\ recording \subseteq Natives \X Owners
    /\ pc \in {"down", "boot", "consume", "import", "up"}
    /\ doc \subseteq Bindings
    /\ todo \subseteq Natives \X Owners /\ failed \subseteq Natives \X Owners
    /\ restored \subseteq Natives \X Owners
    /\ starts \in 0..MaxStarts /\ faults \in 0..MaxFaults
    /\ owed \subseteq Natives \X Owners

(* Native ownership that was durable once stays durable: a crash at any    *)
(* point of the restore, a failing table and any number of restarts leave  *)
(* it in the checkpoint, in the pending file or in the table, unless the   *)
(* table has given the resource to another owner.                          *)
OwnershipSurvives ==
    \A b \in owed : b \in Durable(file, pending, rows) \/ Conflict(b)

(* What the import holds in its local variables covers what is staged, and *)
(* the checkpoint file is empty from its consumption until the stop: this  *)
(* is what makes the claim above inductive.                                *)
ImportCovers ==
    /\ pc = "consume" => Native(file.has) \subseteq pending /\ todo = pending
    /\ pc \in {"import", "up"} => file.has = {}
    /\ pc = "import" => \A b \in pending :
          b \in todo \cup failed \/ rows[b[1]] = b[2] \/ Conflict(b)

(* The table and the memory never name two owners of one resource, when    *)
(* the table can be reached: requests go to the credential that owns it.   *)
MemoryAgreesWithTable ==
    \A b \in memory : b[1] \in Natives /\ MaxFaults = 0 => rows[b[1]] = b[2]

(* A stop and the next start keep every response binding, though it passes *)
(* through a file that is consumed before it is used.                      *)
ResponsesReturn ==
    pc = "import" /\ pc' = "up" => doc \subseteq memory' \cup Native(doc)
=============================================================================
