-------------------------- MODULE CredentialScheduling --------------------------
(***************************************************************************)
(* The fair choice of upstream credentials: the scheduling ledger          *)
(* (state/scheduling.go), the registry operations that keep it in step     *)
(* (state/registry.go), the publication of group configuration             *)
(* (state/manager.go), the selection made for each attempt                 *)
(* (scheduler/fair.go, scheduler/scheduler.go) and the checkpoint that     *)
(* carries the ledger over a clean restart (state/scheduling_checkpoint.go *)
(* and app/runtime_checkpoint.go).                                         *)
(*                                                                         *)
(* A coordinate of progress (SchedulingProgress, 128 bits) is an integer   *)
(* in units of the fraction; Scale is 2^64. Every selection of a           *)
(* credential of weight w moves it by Scale \div w, and the credential     *)
(* with the least coordinate is served next.                               *)
(***************************************************************************)
EXTENDS Integers, FiniteSets

CONSTANTS
    Credentials,   \* credential IDs
    Groups,        \* group IDs
    GroupOf,       \* the group of each credential, fixed for its life
    Weights,       \* manual weights of a credential; 0 takes it out of service
    Configs,       \* the group configurations an operator may publish
    Requests,      \* concurrent requests, each with its iterator
    Pools,         \* candidate sets left by models, route modes and retries
    Refreshable,   \* credentials whose rejected token is refreshed and tried again
    Preferences,   \* credentials an affinity hit may prefer; 0 is none
    Obstacles,     \* the ways a credential can be taken out of service
    Scale,         \* 2^64, the progress of one unit of weight
    MaxProgress,   \* the largest coordinate
    MaxSequence,   \* ^uint64(0), where selection stops
    StreakStart,   \* 100, the length of run from which alternatives count
    MaxWeight,     \* state.MaxWeight
    MaxGeneration, \* bound on the identities of one credential
    MaxRevision,   \* bound on the publications of one process
    MaxTime        \* bound on the clock

\* What keeps a credential from being used. "refreshing" alone does not make
\* the ledger forget its turn: the subscription refresh is expected to be short.
AuthStates == {"auth", "refreshing"}
ObstacleKinds == {"disabled", "blacklisted"} \cup AuthStates

ASSUME CredentialsAssumption ==
    Credentials \subseteq Nat \ {0} /\ IsFiniteSet(Credentials) /\ Preferences \subseteq Nat
ASSUME GroupsAssumption == GroupOf \in [Credentials -> Groups] /\ Obstacles \subseteq ObstacleKinds
ASSUME ConfigsAssumption ==
    /\ Weights \subseteq 0 .. MaxWeight
    /\ Configs \subseteq [on : SUBSET Groups, priority : [Groups -> Int],
                          weight : [Groups -> 1 .. MaxWeight]]
    /\ Configs # {}
ASSUME PoolsAssumption == Pools \subseteq SUBSET Credentials /\ Refreshable \subseteq Credentials
ASSUME WidthAssumption ==
    /\ Scale \in Nat \ {0} /\ MaxProgress \in Nat /\ MaxSequence \in Nat
    /\ StreakStart \in Nat \ {0} /\ MaxWeight \in Nat \ {0}
ASSUME BoundsAssumption ==
    MaxGeneration \in Nat /\ MaxRevision \in Nat \ {0} /\ MaxTime \in Nat

VARIABLES
    now,        \* the wall clock
    identity,   \* the newest identity generation handed out per credential
    entry,      \* CredentialRegistry: generation 0 stands for "not registered"
    config,     \* the published snapshot, which the ledger's group facts mirror
    member,     \* SchedulingLedger.Members, generation 0 for "no member"
    started,    \* SchedulingLedger.Started
    watermark,  \* SchedulingLedger.Watermark
    sequence,   \* SchedulingLedger.Sequence
    streak,     \* SchedulingLedger.LastMember and Consecutive
    pinned,     \* the snapshot each request's iterator holds
    chosen      \* the refreshable credential each request uses, with its identity

registry == <<identity, entry>>
ledger == <<member, started, watermark, sequence, streak>>
requests == <<pinned, chosen>>
vars == <<now, registry, config, ledger, requests>>

-----------------------------------------------------------------------------
Entry == [gen : Nat, blocked : SUBSET ObstacleKinds, weight : 0 .. MaxWeight, until : Nat]
NoEntry == [gen |-> 0, blocked |-> {}, weight |-> 0, until |-> 0]
Member == [gen : Nat, progress : 0 .. MaxProgress, last : 0 .. MaxSequence,
           pending : BOOLEAN, suspended : BOOLEAN, until : Nat]
NoMember == [gen |-> 0, progress |-> 0, last |-> 0,
             pending |-> FALSE, suspended |-> FALSE, until |-> 0]
Snapshot == [revision : Nat, on : SUBSET Groups, priority : [Groups -> Int],
             weight : [Groups -> 1 .. MaxWeight]]
NoSnapshot == [revision |-> 0, on |-> {}, priority |-> [g \in Groups |-> 0],
               weight |-> [g \in Groups |-> 1]]
NoStreak == [member |-> 0, count |-> 0]
NoChoice == [id |-> 0, gen |-> 0, replayed |-> FALSE]
StreakCap == StreakStart - 1 + MaxWeight * MaxWeight

Published(revision, c) == [revision |-> revision, on |-> c.on,
                           priority |-> c.priority, weight |-> c.weight]

-----------------------------------------------------------------------------
(* SchedulingState: members follow the registry. *)

\* The "suspended" of syncCredentialLocked.
Suspended(e, t) == e.blocked \ {"refreshing"} # {} \/ e.weight = 0 \/ e.until > t

\* Mutant: the group of a newcomer is not looked at.
EntrantOfAnyGroup(c, e, begun, on) ==
    [gen |-> e.gen, progress |-> 0, last |-> 0, pending |-> begun,
     suspended |-> FALSE, until |-> 0]

\* A member that has just been created.
Entrant(c, e, begun, on) ==
    [gen |-> e.gen, progress |-> 0, last |-> 0,
     pending |-> begun \/ GroupOf[c] \notin on, suspended |-> FALSE, until |-> 0]

\* The rest of syncCredentialLocked: whatever was, is or becomes unavailable,
\* even for a cooldown nobody saw, must be calibrated before its next turn.
Followed(m, e, t) ==
    [gen |-> m.gen, progress |-> m.progress, last |-> m.last,
     pending |-> \/ m.pending \/ m.suspended \/ Suspended(e, t)
                 \/ (e.until # 0 /\ e.until # m.until),
     suspended |-> Suspended(e, t), until |-> e.until]

\* syncCredentialLocked, and removeLocked for a credential that is gone.
Synced(c, m, e, t, begun, on) ==
    CASE e.gen = 0 -> NoMember
      [] e.gen # 0 /\ m.gen = e.gen -> Followed(m, e, t)
      [] OTHER -> Followed(Entrant(c, e, begun, on), e, t)

\* A registry operation under its lock, which synchronises the credentials in
\* "touched" and ends the run of a member that is replaced or removed.
SyncCredentials(touched) ==
    /\ member' = [c \in Credentials |->
           IF c \in touched
           THEN Synced(c, member[c], entry'[c], now, started, config.on)
           ELSE member[c]]
    /\ streak' = IF \E c \in touched : c = streak.member /\ member[c].gen # entry'[c].gen
                 THEN NoStreak ELSE streak
    /\ UNCHANGED <<now, config, started, watermark, sequence, requests>>

-----------------------------------------------------------------------------
(* CredentialRegistry. *)

Loaded(gen, blocked, w) == [gen |-> gen, blocked |-> blocked, weight |-> w, until |-> 0]

\* ApplyCredentialImport: a new credential, a new account behind a known one, or
\* the same identity again.
ApplyCredentialImport(c, gen, w) ==
    /\ gen # 0 /\ gen \in {identity[c], identity[c] + 1} /\ gen <= MaxGeneration
    /\ identity' = [identity EXCEPT ![c] = gen]
    /\ entry' = [entry EXCEPT ![c] = Loaded(gen, {}, w)]
    /\ SyncCredentials({c})

\* RemoveCredential, RemoveGroupCredentials, RemoveGroup
RemoveCredential(c) ==
    /\ entry[c].gen # 0
    /\ entry' = [entry EXCEPT ![c] = NoEntry]
    /\ UNCHANGED identity
    /\ SyncCredentials({c})

\* What the database holds of an entry: health facts are runtime state.
Persistent(e) == Loaded(e.gen, e.blocked \ {"blacklisted"}, e.weight)

\* ReconcileGroup: entries that differ from the rows are reloaded and the whole
\* group is synchronised. With every credential of every group it is
\* ReplaceCredentials, the recovery after a failed publication.
ReloadCredentials(touched, reloaded) ==
    /\ touched # {} /\ reloaded \subseteq touched
    /\ entry' = [c \in Credentials |->
           IF c \in reloaded /\ entry[c].gen # 0 THEN Persistent(entry[c]) ELSE entry[c]]
    /\ UNCHANGED identity
    /\ SyncCredentials(touched)

\* SetCredentialStatus, SetBlacklistedWithChange, SetCredentialAuthState (which
\* replaces one auth state by another)
Block(c, obstacle) ==
    /\ entry[c].gen # 0 /\ obstacle \notin entry[c].blocked
    /\ entry' = [entry EXCEPT ![c].blocked =
           (IF obstacle \in AuthStates THEN @ \ AuthStates ELSE @) \cup {obstacle}]
    /\ UNCHANGED identity
    /\ SyncCredentials({c})

\* The reverse; Recover and RecoverIfMatch for the blacklist.
Unblock(c, obstacle) ==
    /\ entry[c].gen # 0 /\ obstacle \in entry[c].blocked
    /\ entry' = [entry EXCEPT ![c].blocked = @ \ {obstacle}]
    /\ UNCHANGED identity
    /\ SyncCredentials({c})

\* ReplaceCredentialSecretIfMatch makes the auth state ready and synchronises
\* nothing.
ReplaceSecret(c) ==
    /\ entry[c].gen # 0 /\ entry[c].blocked \cap AuthStates # {}
    /\ entry' = [entry EXCEPT ![c].blocked = @ \ AuthStates]
    /\ UNCHANGED <<now, identity, config, ledger, requests>>

\* UpdateCredentialConfig
UpdateWeight(c, w) ==
    /\ entry[c].gen # 0 /\ w # entry[c].weight
    /\ entry' = [entry EXCEPT ![c].weight = w]
    /\ UNCHANGED identity
    /\ SyncCredentials({c})

\* SetCooldownWithChange; a deadline computed before a pause may be in the past.
SetCooldown(c, until) ==
    /\ entry[c].gen # 0 /\ until > entry[c].until
    /\ entry' = [entry EXCEPT ![c].until = until]
    /\ UNCHANGED identity
    /\ SyncCredentials({c})

\* ClearCooldownIfMatch
ClearCooldown(c) ==
    /\ entry[c].gen # 0 /\ entry[c].until # 0
    /\ entry' = [entry EXCEPT ![c].until = 0]
    /\ UNCHANGED identity
    /\ SyncCredentials({c})

\* RestoreRuntimeState
RestoreRuntimeState(c) ==
    /\ entry[c].gen # 0
    /\ entry' = [entry EXCEPT ![c].until = 0, ![c].blocked = @ \ {"blacklisted"}]
    /\ UNCHANGED identity
    /\ SyncCredentials({c})

\* RestoreGroupCredentialEntriesExact: an edit, or the compensation of a failed
\* batch, puts back a copy of the entry taken earlier, health facts included.
RestoreExact(c, blocked, w, until) ==
    /\ identity[c] # 0
    /\ entry' = [entry EXCEPT ![c] =
           [gen |-> identity[c], blocked |-> blocked, weight |-> w, until |-> until]]
    /\ UNCHANGED identity
    /\ SyncCredentials({c})

-----------------------------------------------------------------------------
(* Configuration publication. *)

\* Manager.publishCompiledLocked and SyncGroups: members of groups that are off,
\* or all members when a priority changes, must be calibrated again.
Publish(c) ==
    LET priorityChanged == config.priority # c.priority
    IN  /\ config.revision < MaxRevision
        /\ config' = Published(config.revision + 1, c)
        /\ member' = [x \in Credentials |->
               IF member[x].gen # 0 /\ (priorityChanged \/ GroupOf[x] \notin c.on)
               THEN [member[x] EXCEPT !.pending = TRUE] ELSE member[x]]
        /\ UNCHANGED <<now, registry, started, watermark, sequence, streak, requests>>

-----------------------------------------------------------------------------
(* Requests. *)

\* scheduler.New: its SyncGroups finds nothing newer than what Publish synced.
BeginRequest(q) ==
    /\ pinned[q].revision = 0
    /\ pinned' = [pinned EXCEPT ![q] = config]
    /\ UNCHANGED <<now, registry, config, ledger, chosen>>

EndRequest(q) ==
    /\ pinned[q].revision # 0
    /\ pinned' = [pinned EXCEPT ![q] = NoSnapshot]
    /\ chosen' = [chosen EXCEPT ![q] = NoChoice]
    /\ UNCHANGED <<now, registry, config, ledger>>

\* collectCredentialCandidatesLocked
Available(c) ==
    entry[c].gen # 0 /\ entry[c].blocked = {} /\ entry[c].until <= now

\* effectiveWeight, with the group weight of the request's own snapshot.
EffectiveWeight(c, snapshot) == snapshot.weight[GroupOf[c]] * entry[c].weight

\* withWeightedPool and the identity filter of selectCredential.
Eligible(pool, snapshot) ==
    {c \in pool : /\ Available(c) /\ member[c].gen = entry[c].gen
                  /\ EffectiveWeight(c, snapshot) > 0}

\* The coordinate at which pending candidates join: that of the most advanced
\* settled candidate, or the watermark.
IsBaseline(S, b) ==
    LET settled == {c \in S : ~member[c].pending}
    IN  /\ settled = {} => b = watermark
        /\ settled # {} => \E c \in settled : b = member[c].progress
        /\ \A c \in settled : member[c].progress <= b

\* SchedulingMember.Admit
Admitted(m, baseline) ==
    [gen |-> m.gen, progress |-> IF m.progress < baseline THEN baseline ELSE m.progress,
     last |-> m.last, pending |-> FALSE, suspended |-> FALSE, until |-> m.until]

\* Mutant: a request with an outdated snapshot calibrates as well.
MayCalibrateAny(c, snapshot) == member[c].pending /\ GroupOf[c] \in config.on

\* A request may calibrate for the configuration it was routed by, no newer one.
MayCalibrate(c, snapshot) ==
    /\ member[c].pending
    /\ GroupOf[c] \in config.on
    /\ snapshot.revision >= config.revision

Calibrated(S, snapshot, baseline) ==
    [c \in Credentials |->
        IF c \in S /\ MayCalibrate(c, snapshot) THEN Admitted(member[c], baseline) ELSE member[c]]

\* The "less" of selectCredential, and the candidate it puts first.
Before(m, a, n, b) ==
    \/ m.progress < n.progress
    \/ m.progress = n.progress /\ m.last < n.last
    \/ m.progress = n.progress /\ m.last = n.last /\ a <= b

IsFirst(ms, S, c) == c \in S /\ \A d \in S : Before(ms[c], c, ms[d], d)

CeilDiv(a, b) == (a + b - 1) \div b

\* A run is cut in favour of the next candidate when it is longer than the
\* weights of the two explain.
RunTooLong(first, other, snapshot) ==
    /\ streak.member = first /\ streak.count >= StreakStart
    /\ streak.count >= StreakStart - 1
           + CeilDiv(EffectiveWeight(first, snapshot), EffectiveWeight(other, snapshot))

IsTurn(ms, S, c, snapshot) ==
    \/ /\ IsFirst(ms, S, c)
       /\ \A other \in S : IsFirst(ms, S \ {c}, other) => ~RunTooLong(c, other, snapshot)
    \/ \E first \in S : /\ IsFirst(ms, S, first) /\ IsFirst(ms, S \ {first}, c)
                        /\ RunTooLong(first, c, snapshot)

\* The candidate selectCredential takes: an affinity hit comes before the turn.
Takes(ms, S, preferred, c, snapshot) ==
    IF preferred \in S THEN c = preferred ELSE IsTurn(ms, S, c, snapshot)

\* Mutant: a turn costs the weight instead of its inverse.
AdvanceByWeight(p, weight) == p + Scale * weight

\* SchedulingProgress.Advance: floor(2^64 / weight), one whole for weight 1.
Advance(p, weight) == p + Scale \div weight

\* Mutant: the watermark follows the member that is charged.
Follows(mark, p) == p

HighWater(mark, p) == IF p > mark THEN p ELSE mark

NextStreak(c) ==
    CASE streak.member # c -> [member |-> c, count |-> 1]
      [] streak.member = c /\ streak.count < StreakCap -> [member |-> c, count |-> streak.count + 1]
      [] OTHER -> streak

\* The ledger after c was charged.
Charged(m, next) ==
    [gen |-> m.gen, progress |-> next, last |-> sequence + 1,
     pending |-> m.pending, suspended |-> m.suspended, until |-> m.until]

\* selectCredential for the candidates in S, under the registry's read lock.
\* When the coordinate would overflow, the calibration stays and nothing is chosen.
SelectCredential(q, S, preferred, replay) ==
    \E c \in S, baseline \in {watermark} \cup {member[d].progress : d \in S} :
        LET ms == Calibrated(S, pinned[q], baseline)
            next == Advance(ms[c].progress, EffectiveWeight(c, pinned[q]))
        IN  /\ sequence < MaxSequence
            /\ IsBaseline(S, baseline)
            /\ Takes(ms, S, preferred, c, pinned[q])
            /\ \/ /\ next <= MaxProgress
                  /\ sequence' = sequence + 1
                  /\ member' = [ms EXCEPT ![c] = Charged(ms[c], next)]
                  /\ started' = TRUE
                  /\ watermark' = HighWater(watermark, next)
                  /\ streak' = NextStreak(c)
                  /\ chosen' = [chosen EXCEPT ![q] =
                         [id |-> IF c \in Refreshable THEN c ELSE 0,
                          gen |-> IF c \in Refreshable THEN entry[c].gen ELSE 0,
                          replayed |-> replay]]
               \/ /\ next > MaxProgress
                  /\ member' = ms
                  /\ UNCHANGED <<started, watermark, sequence, streak, chosen>>
            /\ UNCHANGED <<now, registry, config, pinned>>

\* Iterator.Next on one pool of candidates.
NextCredential(q, pool, preferred) ==
    /\ pinned[q].revision # 0
    /\ SelectCredential(q, Eligible({c \in pool : GroupOf[c] \in pinned[q].on}, pinned[q]),
                        preferred, chosen[q].replayed)

\* Iterator.ChargeReplay: once per request, another attempt with the credential
\* already chosen, provided it still is the same account.
ChargeReplay(q) ==
    LET c == chosen[q].id
    IN  /\ c \in Refreshable /\ ~chosen[q].replayed
        /\ entry[c].gen = chosen[q].gen
        /\ SelectCredential(q, Eligible({c}, pinned[q]), c, TRUE)

-----------------------------------------------------------------------------
(* Time and restarts. *)

Tick ==
    /\ now < MaxTime
    /\ now' = now + 1
    /\ UNCHANGED <<registry, config, ledger, requests>>

\* A member after startup: groups are published, then the rows are loaded.
FreshMember(c, e, on) == Synced(c, NoMember, e, now', FALSE, on)

\* Any time may pass before the next process is up.
NewProcess ==
    /\ now' \in now .. MaxTime
    /\ pinned' = [q \in Requests |-> NoSnapshot]
    /\ chosen' = [q \in Requests |-> NoChoice]
    /\ config' = [config EXCEPT !.revision = 1]
    /\ UNCHANGED identity

\* A crash leaves no checkpoint: health facts and the ledger are lost.
Crash ==
    /\ NewProcess
    /\ entry' = [c \in Credentials |-> IF entry[c].gen = 0 THEN NoEntry ELSE Persistent(entry[c])]
    /\ member' = [c \in Credentials |-> FreshMember(c, entry'[c], config.on)]
    /\ started' = FALSE /\ watermark' = 0 /\ sequence' = 0 /\ streak' = NoStreak

\* SchedulingState.RestoreCheckpoint: a saved member of another identity, or one
\* that lies outside the saved bounds, is left a newcomer.
Restorable(saved, fresh) ==
    saved.gen = fresh.gen /\ saved.last <= sequence /\ saved.progress <= watermark

Restored(c, fresh, saved) ==
    IF Restorable(saved, fresh)
    THEN [gen |-> fresh.gen, progress |-> saved.progress, last |-> saved.last,
          pending |-> saved.pending \/ fresh.suspended \/ GroupOf[c] \notin config.on,
          suspended |-> fresh.suspended, until |-> fresh.until]
    ELSE [gen |-> fresh.gen, progress |-> fresh.progress, last |-> fresh.last, pending |-> TRUE,
          suspended |-> fresh.suspended, until |-> fresh.until]

\* A member after the rows are loaded and RestoreRuntimeCheckpoint has brought
\* back the health facts, each synchronised.
Reloaded(c) ==
    IF entry[c].gen = 0 THEN NoMember
    ELSE Followed(FreshMember(c, Persistent(entry[c]), config.on), entry[c], now')

\* FileRuntimeStateCheckpoint.Save at a clean shutdown and Restore at the next
\* start. A checkpoint at the end of the number range is not restored.
CleanRestart ==
    /\ NewProcess
    /\ UNCHANGED entry
    /\ \/ /\ sequence = MaxSequence \/ watermark + Scale > MaxProgress
          /\ member' = [c \in Credentials |-> Reloaded(c)]
          /\ started' = FALSE /\ watermark' = 0 /\ sequence' = 0 /\ streak' = NoStreak
       \/ /\ sequence # MaxSequence /\ watermark + Scale <= MaxProgress
          /\ member' = [c \in Credentials |->
                 IF entry[c].gen = 0 THEN NoMember ELSE Restored(c, Reloaded(c), member[c])]
          /\ started' = (sequence # 0)
          /\ streak' = IF \E c \in Credentials :
                             /\ c = streak.member /\ entry[c].gen # 0
                             /\ Restorable(member[c], Reloaded(c))
                       THEN streak ELSE NoStreak
          /\ UNCHANGED <<watermark, sequence>>

-----------------------------------------------------------------------------
Init ==
    /\ now = 0
    /\ identity = [c \in Credentials |-> 0]
    /\ entry = [c \in Credentials |-> NoEntry]
    /\ \E c \in Configs : config = Published(1, c)
    /\ member = [c \in Credentials |-> NoMember]
    /\ started = FALSE /\ watermark = 0 /\ sequence = 0
    /\ streak = NoStreak
    /\ pinned = [q \in Requests |-> NoSnapshot]
    /\ chosen = [q \in Requests |-> NoChoice]

Registry ==
    \/ \E c \in Credentials :
          \/ \E gen \in 1 .. MaxGeneration, w \in Weights : ApplyCredentialImport(c, gen, w)
          \/ RemoveCredential(c)
          \/ \E obstacle \in Obstacles : Block(c, obstacle) \/ Unblock(c, obstacle)
          \/ ReplaceSecret(c)
          \/ \E w \in Weights : UpdateWeight(c, w)
          \/ \E until \in 1 .. MaxTime : SetCooldown(c, until)
          \/ ClearCooldown(c)
          \/ RestoreRuntimeState(c)
          \/ \E blocked \in SUBSET Obstacles, w \in Weights, until \in 0 .. MaxTime :
                RestoreExact(c, blocked, w, until)
    \/ \E g \in Groups : \E reloaded \in SUBSET {c \in Credentials : GroupOf[c] = g} :
          ReloadCredentials({c \in Credentials : GroupOf[c] = g}, reloaded)
    \/ ReloadCredentials(Credentials, Credentials)

Iterators ==
    \E q \in Requests :
        \/ BeginRequest(q)
        \/ \E pool \in Pools, preferred \in Preferences : NextCredential(q, pool, preferred)
        \/ ChargeReplay(q)
        \/ EndRequest(q)

Next ==
    \/ Registry
    \/ \E c \in Configs : Publish(c)
    \/ Iterators
    \/ Tick
    \/ Crash
    \/ CleanRestart

Spec == Init /\ [][Next]_vars

-----------------------------------------------------------------------------
(* Properties. *)

\* Entries, members, snapshots and the counters of the ledger have their types;
\* no coordinate leaves its 128 bits and no sequence number its 64.
TypeOK ==
    /\ now \in Nat
    /\ identity \in [Credentials -> Nat]
    /\ entry \in [Credentials -> Entry]
    /\ config \in Snapshot
    /\ member \in [Credentials -> Member]
    /\ started \in BOOLEAN
    /\ watermark \in 0 .. MaxProgress
    /\ sequence \in 0 .. MaxSequence
    /\ streak \in [member : Credentials \cup {0}, count : 0 .. StreakCap]
    /\ pinned \in [Requests -> Snapshot]
    /\ chosen \in [Requests -> [id : Credentials \cup {0}, gen : Nat, replayed : BOOLEAN]]

\* The ledger is one history: no member is ahead of the watermark or was served
\* after the newest sequence number, and no two members were served by the same
\* selection, whatever is imported, removed, restored or restarted in between
\* (RestoreCheckpoint relies on it to tell a sound checkpoint from a broken one).
OneHistory ==
    /\ \A c \in Credentials : member[c].progress <= watermark /\ member[c].last <= sequence
    /\ \A c, d \in Credentials :
           c # d /\ member[c].gen # 0 /\ member[d].gen # 0 /\ member[c].last = member[d].last
           => member[c].last = 0

\* A credential that is out of service, or whose group is, has its calibration
\* due. Since only an admission at the baseline settles it, no credential comes
\* back with a backlog of turns to catch up (syncCredentialLocked, SyncGroups,
\* RestoreCheckpoint).
AwayIsPending ==
    \A c \in Credentials :
        /\ entry[c].gen # 0
        /\ Suspended(entry[c], now) \/ GroupOf[c] \notin config.on
        => member[c].pending

\* While the weights stay and every request may use every credential, no settled
\* credential gets ahead of another by more than two largest steps (one for its
\* own turn, one when a long run is cut in its favour): service is shared by
\* weight through outages, re-imports and restarts, without a backlog
\* (selectCredential, Admit). A weight edited within a run makes the cut come
\* early: the run is measured by the new weights, so each such edit may add a
\* step to the distance.
SharesAreFair ==
    \A c, d \in Credentials :
        /\ member[c].gen # 0 /\ member[d].gen # 0
        /\ ~member[c].pending /\ ~member[d].pending
        => member[c].progress <= member[d].progress + 2 * Scale

\* While every request may use every credential of its snapshot, a credential
\* that joins or comes back starts level with, or ahead of, every settled
\* credential in service under the published configuration: a request that is
\* still routed by an older snapshot, and sees fewer of them, does not settle it
\* (the revision check of selectCredential).
JoinsAtTheFront ==
    \A c, d \in Credentials :
       /\ member[c].pending /\ ~member'[c].pending /\ member'[c].gen = member[c].gen
       /\ sequence' >= sequence
       /\ Available(d) /\ entry[d].weight > 0 /\ GroupOf[d] \in config.on /\ ~member[d].pending
       => member'[c].progress >= member[d].progress

=============================================================================
