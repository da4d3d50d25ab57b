--------------------------- MODULE ProviderRuntimes ---------------------------
(***************************************************************************)
(* The pool of provider runtimes: one runtime per provider configuration,  *)
(* created by the first caller that needs it, shared by leases, retired    *)
(* when the published configuration no longer names it, when its           *)
(* credential is retired or when the process stops, and shut down once the *)
(* last lease is back.                                                     *)
(*                                                                         *)
(* A configuration stands for its fingerprint.  A partitioned one belongs  *)
(* to a credential and is active when its base configuration is.           *)
(***************************************************************************)
EXTENDS Integers, FiniteSets, FiniteSetsExt

CONSTANTS
    Callers,      \* requests that execute attempts
    Configs,      \* provider configurations
    BaseOf,       \* BaseOf[c]: the configuration that decides if c is active
    Partitioned,  \* the configurations that belong to a credential
    MaxEntries,   \* bound on the entries ever created
    MaxReconciles \* bound on publications and credential retirements

ConstantsAssumption ==
    /\ BaseOf \in [Configs -> Configs] /\ Partitioned \subseteq Configs
    /\ MaxEntries \in Nat /\ MaxReconciles \in Nat /\ IsFiniteSet(Callers)

VARIABLES
    entries,      \* entries[c]: the entry of c in the map, or 0
    entry,        \* entry[e]: configuration, references, flags, runtime
    created,      \* number of entries created
    active,       \* the published configurations, or Unknown
    closed, shuttingDown, done,
    caller,       \* caller[p]: where it stands, what it wants, its entry
    reconciles,
    condemned     \* entries a credential retirement has marked (history)

vars == <<entries, entry, created, active, closed, shuttingDown, done, caller,
          reconciles, condemned>>
pool == <<entries, entry, created, active, closed, shuttingDown, done>>

Unknown == {"unknown"}
EntryIds == 1..MaxEntries
Idle == [at |-> "idle", want |-> "none", on |-> 0]
NoEntry == [config |-> "none", refs |-> 0, retiring |-> FALSE, runtime |-> "none"]

Init ==
    /\ entries = [c \in Configs |-> 0]
    /\ entry = [e \in EntryIds |-> NoEntry] /\ created = 0
    /\ active = Unknown /\ closed = FALSE /\ shuttingDown = 0 /\ done = FALSE
    /\ caller = [p \in Callers |-> Idle]
    /\ reconciles = 0 /\ condemned = {}

-----------------------------------------------------------------------------
IsActive(c, act) == BaseOf[c] \in act

\* Mutant: a retiring entry is shut down under its leases.
RetirableLeased(e, ent) == ent[e].retiring /\ ent[e].runtime = "running"

(* retireEntryLocked: an idle, initialized entry that is to go *)
Retirable(e, ent) ==
    /\ entries[ent[e].config] = e
    /\ ent[e].retiring /\ ent[e].refs = 0 /\ ent[e].runtime = "running"

Mapped == {e \in EntryIds : \E c \in Configs : entries[c] = e}

(* maybeCloseShutdownLocked *)
AllGone(shut, mapped, down) == shut /\ mapped = {} /\ down = 0

(* The entries of R leave the map and their runtimes begin to shut down. *)
Retire(R, ent) ==
    /\ entries' = [c \in Configs |-> IF entries[c] \in R THEN 0 ELSE entries[c]]
    /\ entry' = [e \in EntryIds |-> IF e \in R THEN [ent[e] EXCEPT !.runtime = "stopping"] ELSE ent[e]]
    /\ shuttingDown' = shuttingDown + Cardinality(R)

Want(p, c) ==
    /\ caller[p].at = "idle" /\ caller' = [caller EXCEPT ![p] = [at |-> "try", want |-> c, on |-> 0]]
    /\ UNCHANGED <<pool, reconciles, condemned>>

Become(p, at, e) == caller' = [caller EXCEPT ![p] = [at |-> at, want |-> caller[p].want, on |-> e]]
Refuse(p) == caller' = [caller EXCEPT ![p] = Idle]

Lease(e) == entry' = [entry EXCEPT ![e].refs = @ + 1]

(* One round of acquire's loop, up to the point where it waits, leases the *)
(* entry it found, or calls the factory for the entry it has put in.       *)
Acquire(p) ==
    LET c == caller[p].want
        e == entries[c]
    IN
    /\ caller[p].at = "try"
    /\ \/ closed /\ Refuse(p) /\ UNCHANGED pool
       \/ /\ ~closed /\ e # 0 /\ entry[e].runtime = "starting"
          /\ Become(p, "wait", e) /\ UNCHANGED pool
       \/ /\ ~closed /\ e # 0 /\ entry[e].runtime = "running"
          /\ Lease(e) /\ Become(p, "leased", e)
          /\ UNCHANGED <<entries, created, active, closed, shuttingDown, done>>
       \/ /\ ~closed /\ e = 0 /\ created < MaxEntries
          /\ created' = created + 1
          /\ entries' = [entries EXCEPT ![c] = created']
          /\ entry' = [entry EXCEPT ![created'] = [config |-> c, refs |-> 1, runtime |-> "starting",
                          retiring |-> active # Unknown /\ ~IsActive(c, active)]]
          /\ Become(p, "create", created')
          /\ UNCHANGED <<active, closed, shuttingDown, done>>
    /\ UNCHANGED <<reconciles, condemned>>

(* The factory returns to the caller that created the entry. *)
Created(p) ==
    LET e == caller[p].on IN
    /\ caller[p].at = "create"
    /\ \/ /\ entry' = [entry EXCEPT ![e].runtime = "running"]
          /\ Become(p, "leased", e) /\ UNCHANGED <<entries, done>>
       \/ /\ entry' = [entry EXCEPT ![e] = [config |-> entry[e].config, refs |-> 0,
                                              retiring |-> entry[e].retiring, runtime |-> "failed"]]
          /\ entries' = [entries EXCEPT ![entry[e].config] = 0]
          /\ done' = (done \/ AllGone(closed, Mapped \ {e}, shuttingDown))
          /\ Refuse(p)
    /\ UNCHANGED <<created, active, closed, shuttingDown, reconciles, condemned>>

(* A waiting caller tries again, shares the creator's error, or gives up   *)
(* because its own request was cancelled.                                  *)
Wait(p) ==
    LET e == caller[p].on IN
    /\ caller[p].at = "wait"
    /\ \/ entry[e].runtime \notin {"starting", "failed"} /\ Become(p, "try", 0)
       \/ Refuse(p)
    /\ UNCHANGED <<pool, reconciles, condemned>>

Returned(e) == [entry EXCEPT ![e].refs = @ - 1]

(* A lease is returned: the last one takes a retiring runtime down. *)
Release(p) ==
    LET e == caller[p].on
        ent == Returned(e)
    IN
    /\ caller[p].at = "leased" /\ Refuse(p)
    /\ Retire({x \in {e} : Retirable(x, ent)}, ent)
    /\ UNCHANGED <<created, active, closed, done, reconciles, condemned>>

Marked(R, flag) == [e \in EntryIds |-> IF e \in R THEN [entry[e] EXCEPT !.retiring = flag[e]] ELSE entry[e]]

Reconciled(act) == [e \in EntryIds |-> e \in Mapped /\ ~IsActive(entry[e].config, act)]

(* reconcile, from the publication of a configuration *)
Reconcile(act) ==
    LET ent == Marked(Mapped, Reconciled(act)) IN
    /\ ~closed /\ reconciles < MaxReconciles /\ reconciles' = reconciles + 1
    /\ active' = act
    /\ Retire({e \in Mapped : Retirable(e, ent)}, ent)
    /\ UNCHANGED <<created, closed, done, caller, condemned>>

(* retireCredential, for the credential the configuration c belongs to *)
RetireCredential(c) ==
    LET mine == {e \in Mapped : entry[e].config = c}
        ent == Marked(mine, [e \in EntryIds |-> TRUE])
    IN
    /\ c \in Partitioned /\ reconciles < MaxReconciles /\ reconciles' = reconciles + 1
    /\ Retire({e \in mine : Retirable(e, ent)}, ent)
    /\ condemned' = condemned \cup mine
    /\ UNCHANGED <<created, active, closed, done, caller>>

(* BeginShutdown and the pool's beginShutdown.  The context under every      *)
(* runtime is cancelled first: a leased attempt may end earlier for it, and  *)
(* a factory may fail, as either may at any time.                            *)
BeginShutdown ==
    LET ent == Marked(Mapped, [e \in EntryIds |-> TRUE])
        R == {e \in Mapped : Retirable(e, ent)}
    IN
    /\ ~closed /\ closed' = TRUE /\ active' = {}
    /\ Retire(R, ent)
    /\ done' = AllGone(TRUE, Mapped \ R, shuttingDown')
    /\ UNCHANGED <<created, caller, reconciles, condemned>>

(* The goroutine of startShutdown: a runtime has shut down. *)
Stopped(e) ==
    /\ entry[e].runtime = "stopping"
    /\ entry' = [entry EXCEPT ![e].runtime = "stopped"]
    /\ shuttingDown' = shuttingDown - 1
    /\ done' = (done \/ AllGone(closed, Mapped, shuttingDown'))
    /\ UNCHANGED <<entries, created, active, closed, caller, reconciles, condemned>>

Next ==
    \/ \E p \in Callers : (\E c \in Configs : Want(p, c)) \/ Acquire(p) \/ Created(p) \/ Wait(p) \/ Release(p)
    \/ \E act \in SUBSET {BaseOf[c] : c \in Configs} : Reconcile(act)
    \/ \E c \in Configs : RetireCredential(c)
    \/ BeginShutdown
    \/ \E e \in EntryIds : Stopped(e)

Spec == Init /\ [][Next]_vars

(* Attempts end, the factory and the shutdown of a runtime return, and an  *)
(* acquire takes its lock; nobody has to want a runtime or to publish.     *)
Fairness ==
    /\ \A p \in Callers : WF_vars(Acquire(p)) /\ WF_vars(Created(p)) /\ WF_vars(Wait(p)) /\ WF_vars(Release(p))
    /\ \A e \in EntryIds : WF_vars(Stopped(e))

FairSpec == Spec /\ Fairness

-----------------------------------------------------------------------------
Holders(e) == {p \in Callers : caller[p].on = e /\ caller[p].at \in {"create", "leased"}}

TypeOK ==
    /\ entries \in [Configs -> 0..MaxEntries]
    /\ \A e \in EntryIds : /\ entry[e].refs \in 0..Cardinality(Callers)
                           /\ entry[e].runtime \in {"none", "starting", "running", "stopping", "stopped", "failed"}
    /\ shuttingDown \in 0..MaxEntries /\ closed \in BOOLEAN /\ done \in BOOLEAN

(* A runtime that somebody holds a lease of is not shut down under the     *)
(* attempt, by no publication, credential retirement or process stop (which *)
(* does cancel the attempt's context).                                      *)
LeaseIsLive ==
    \A p \in Callers : caller[p].at = "leased" => entry[caller[p].on].runtime = "running"

(* The references of an entry are the callers that hold it. *)
RefsAreHolders == \A e \in EntryIds : entry[e].refs = Cardinality(Holders(e))

(* A runtime that nobody holds is gone once it is not wanted any more: it  *)
(* cannot wait for a release that never comes.                             *)
NoIdleRetiree ==
    \A e \in Mapped : /\ entry[e].retiring => Holders(e) # {}
                      /\ active # Unknown /\ ~IsActive(entry[e].config, active) => entry[e].retiring

(* The shutdown is reported when every runtime ever created is down, and   *)
(* by then nothing can be created any more.                                *)
DoneMeansDown ==
    done => \A e \in EntryIds : entry[e].runtime \in {"none", "failed", "stopped"}

(* Once the shutdown has begun it is reported: the pool drains.            *)
ShutdownCompletes == closed ~> done

(* RetireCredential's promise: a runtime that caches objects of a retired  *)
(* credential is shut down once its leases are back.                       *)
RetiredCredentialStops ==
    \A e \in EntryIds : e \in condemned ~> entry[e].runtime \in {"failed", "stopped"}
=============================================================================
