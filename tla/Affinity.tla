------------------------------ MODULE Affinity ------------------------------
(***************************************************************************)
(* The session affinity cache and its use by concurrent requests.  A       *)
(* request configures the cache with the snapshot it has pinned, looks up  *)
(* the credential that served its key last, runs, and records the          *)
(* credential that succeeded.  Each of the three takes the cache's lock    *)
(* once; snapshots are published, entries expire and are evicted between.  *)
(***************************************************************************)
EXTENDS Integers, Sequences, FiniteSets, SequencesExt

CONSTANTS
    Keys,       \* affinity keys (prompt prefixes)
    Targets,    \* credential identities (group, credential, generation)
    Requests,   \* requests in flight
    Capacity,   \* Capacity[v]: AffinityCapacity of configuration revision v
    Ttl,        \* Ttl[v]: AffinityTTL of configuration revision v
    Enabled,    \* Enabled[v]: targets whose group has affinity in revision v
    MaxNow,     \* bound on the clock
    MaxWrites   \* bound on the recorded successes

Revisions == DOMAIN Capacity

ConstantsAssumption ==
    /\ Revisions = 1..Cardinality(Revisions)
    /\ Capacity \in [Revisions -> Nat \ {0}] /\ Ttl \in [Revisions -> Nat \ {0}]
    /\ Enabled \in [Revisions -> SUBSET Targets] /\ MaxNow \in Nat /\ MaxWrites \in Nat

VARIABLES
    now,          \* the clock
    published,    \* revision of the published snapshot
    revision,     \* revision of the cache's configuration, 0 before the first
    recent,       \* the entries, the most recently used first
    nextVersion,  \* number of the last version given to an entry
    pc, req,      \* where each request stands; its snapshot and observation
    writes        \* writes[k]: how often a mapping of k was recorded (history)

vars == <<now, published, revision, recent, nextVersion, pc, req, writes>>
cache == <<revision, recent, nextVersion, writes>>

None == [found |-> FALSE]
NoRequest == [snap |-> 0, keyed |-> FALSE, key |-> "none", obs |-> None,
              rev |-> 0, seen |-> 0, prefers |-> {}]

Init ==
    /\ now = 0 /\ published = 1
    /\ revision = 0 /\ recent = <<>> /\ nextVersion = 0
    /\ pc = [r \in Requests |-> "idle"] /\ req = [r \in Requests |-> NoRequest]
    /\ writes = [k \in Keys |-> 0]

(* currentElementLocked: an expired entry is removed by whoever meets it. *)
Expired(e) == now >= e.expires
Current(k) == SelectSeq(recent, LAMBDA e : ~(e.key = k /\ Expired(e)))
Entries(es, k) == {e \in ToSet(es) : e.key = k}
Without(es, k) == SelectSeq(es, LAMBDA e : e.key # k)
ToFront(e, es) == <<e>> \o Without(es, e.key)

Arrive(r, k) ==
    /\ pc[r] = "idle"
    /\ pc' = [pc EXCEPT ![r] = "configure"]
    /\ req' = [req EXCEPT ![r] = [NoRequest EXCEPT !.snap = published, !.key = k]]
    /\ UNCHANGED <<now, published, cache>>

\* Mutant: the new configuration takes effect, the entries stay.
ConfigureKeeping(r) ==
    LET v == req[r].snap IN
    /\ pc[r] = "configure"
    /\ IF v < revision
       THEN pc' = [pc EXCEPT ![r] = "run"] /\ UNCHANGED <<req, cache>>
       ELSE /\ pc' = [pc EXCEPT ![r] = "lookup"]
            /\ req' = [req EXCEPT ![r].keyed = TRUE]
            /\ revision' = v /\ UNCHANGED <<recent, nextVersion, writes>>
    /\ UNCHANGED <<now, published>>

(* Configure with the pinned snapshot: an older one is refused and the     *)
(* request goes without affinity, a newer one empties the cache.           *)
Configure(r) ==
    LET v == req[r].snap IN
    /\ pc[r] = "configure"
    /\ IF v < revision
       THEN pc' = [pc EXCEPT ![r] = "run"] /\ UNCHANGED <<req, cache>>
       ELSE /\ pc' = [pc EXCEPT ![r] = "lookup"]
            /\ req' = [req EXCEPT ![r].keyed = TRUE]
            /\ revision' = v
            /\ recent' = IF v = revision THEN recent ELSE <<>>
            /\ UNCHANGED <<nextVersion, writes>>
    /\ UNCHANGED <<now, published>>

(* resolveRequestAffinity after Configure: the observation is versioned by *)
(* the cache's revision at this moment, the preference is checked against  *)
(* the pinned snapshot.                                                    *)
Lookup(r) ==
    LET k == req[r].key  live == Current(k)  found == Entries(live, k) IN
    /\ pc[r] = "lookup"
    /\ pc' = [pc EXCEPT ![r] = "run"]
    /\ \/ /\ found = {} /\ recent' = live
          /\ req' = [req EXCEPT ![r].rev = revision, ![r].seen = writes[k]]
       \/ \E e \in found :
             /\ recent' = ToFront(e, live)
             /\ req' = [req EXCEPT ![r].rev = revision, ![r].seen = writes[k],
                          ![r].obs = [found |-> TRUE, target |-> e.target, version |-> e.version],
                          ![r].prefers = {e.target} \cap Enabled[req[r].snap]]
    /\ UNCHANGED <<now, published, revision, nextVersion, writes>>

(* insertLocked: the least recently used entries give way. *)
MakeRoom(es) == IF Len(es) >= Capacity[revision] THEN SubSeq(es, 1, Capacity[revision] - 1) ELSE es

\* Mutant: the observed version and target are not compared.
MayRecordAnyway(r, found) == req[r].rev = revision /\ (found # {} => req[r].obs.found)

(* The conditions of RecordSuccess on the entry it finds now. *)
MayRecord(r, found) ==
    /\ req[r].rev = revision
    /\ \A e \in found : /\ req[r].obs.found
                        /\ e.version = req[r].obs.version /\ e.target = req[r].obs.target

Lifetime == now + Ttl[revision]

(* recordAffinitySuccess with the target that served the request; one of a *)
(* group without affinity is not recorded.                                 *)
Succeed(r, t) ==
    LET k == req[r].key  live == Current(k)  found == Entries(live, k)
        entry == [key |-> k, target |-> t, version |-> nextVersion + 1, expires |-> Lifetime] IN
    /\ pc[r] = "run" /\ req[r].keyed /\ nextVersion < MaxWrites
    /\ t \in Enabled[req[r].snap]
    /\ pc' = [pc EXCEPT ![r] = "idle"] /\ req' = [req EXCEPT ![r] = NoRequest]
    /\ \/ /\ req[r].rev # revision /\ UNCHANGED cache
       \/ /\ req[r].rev = revision /\ ~MayRecord(r, found)
          /\ recent' = live /\ UNCHANGED <<revision, nextVersion, writes>>
       \/ /\ MayRecord(r, found)
          /\ recent' = IF found = {} THEN <<entry>> \o MakeRoom(live) ELSE ToFront(entry, live)
          /\ nextVersion' = nextVersion + 1
          /\ writes' = [writes EXCEPT ![k] = @ + 1]
          /\ UNCHANGED revision
    /\ UNCHANGED <<now, published>>

(* A request that failed, or went without affinity. *)
Leave(r) ==
    /\ pc[r] = "run"
    /\ pc' = [pc EXCEPT ![r] = "idle"] /\ req' = [req EXCEPT ![r] = NoRequest]
    /\ UNCHANGED <<now, published, cache>>

Publish ==
    /\ published + 1 \in Revisions /\ published' = published + 1
    /\ UNCHANGED <<now, cache, pc, req>>

Tick == now < MaxNow /\ now' = now + 1 /\ UNCHANGED <<published, cache, pc, req>>

Next ==
    \/ \E r \in Requests : \/ \E k \in Keys : Arrive(r, k)
                           \/ Configure(r) \/ Lookup(r) \/ Leave(r)
                           \/ \E t \in Targets : Succeed(r, t)
    \/ Publish \/ Tick

Spec == Init /\ [][Next]_vars

-----------------------------------------------------------------------------
(* The cache obeys the configuration of its revision whatever order the    *)
(* requests of different snapshots come in: one entry per key, no more     *)
(* entries than the capacity, none that outlives the interval.             *)
ObeysItsRevision ==
    /\ \A i, j \in DOMAIN recent : recent[i].key = recent[j].key => i = j
    /\ recent # <<>> => Len(recent) <= Capacity[revision]
    /\ \A e \in ToSet(recent) : e.expires <= now + Ttl[revision]

(* A late success never overwrites what was learned since its lookup: the  *)
(* mapping a request replaces is the one it has observed, with no success  *)
(* recorded for the key in between, also when versions of other keys and   *)
(* of earlier configurations went by.                                      *)
NoLostLearning ==
    \A k \in Keys :
       writes'[k] # writes[k] /\ Entries(Current(k), k) # {}
           => \E r \in Requests : /\ pc[r] = "run" /\ pc'[r] = "idle"
                                  /\ req[r].key = k /\ req[r].seen = writes[k]

(* Group policy takes effect with the revision: the cache holds no target  *)
(* of a group that has no affinity in the cache's configuration.           *)
PolicyIsAtomic == \A e \in ToSet(recent) : e.target \in Enabled[revision]
=============================================================================
