---------------------------- MODULE RegistryHealth ----------------------------
(***************************************************************************)
(* The health of credentials in the registry: what the outcome of an       *)
(* attempt does to it, the validation of blacklisted credentials, the      *)
(* administrator's test and restore, and the batch changes that keep the   *)
(* registry and the database in step.  Every change runs under the mutex   *)
(* of the credential's stripe, but an attempt, a probe or a test only      *)
(* holds what it saw of the credential when it began.                      *)
(***************************************************************************)
EXTENDS Integers, FiniteSets, FiniteSetsExt

CONSTANTS
    Creds,          \* credentials, all of one group
    Attempts,       \* requests in flight on the data plane
    Probes,         \* workers of the validation sweep and tests of administrators
    Threshold,      \* failures after which a credential is blacklisted; 0: never
    MaxTime,        \* bound: latest deadline of a cooldown
    MaxEvents,      \* bound: outcomes, changes and restores
    MaxFaults,      \* bound: failing transactions, applications and compensations
    Actions,        \* the administrator's actions in use
    MayReplace      \* a failed publication may reload the whole registry

VARIABLES
    entry,     \* entry[c]: the registry's entry, or Gone
    row,       \* row[c]: the status in the database's row, or "deleted"
    stored,    \* the group's target in the database
    attempt,   \* attempt[a]: the reference it holds, or Idle
    probe,     \* probe[p]: the state it tests, or Idle
    target,    \* the group's target in the published configuration
    events, faults,
    failures,  \* history: failure outcomes recorded for c
    blame,     \* history: identities whose outcomes are in c's health
    cleared,   \* history: explicit restores of c
    lost,      \* history: credentials whose last write was committed and reported as failed
    misfit     \* history: credentials whose compensation or reconciliation failed

control == <<row, stored, target, lost, misfit>>
history == <<failures, blame, cleared>>
vars == <<entry, row, stored, attempt, probe, target, events, faults, failures, blame, cleared, lost, misfit>>

Gone == [gone |-> TRUE]
Idle == [at |-> "idle"]
Present(c) == entry[c] # Gone

(* What configuration replacement leaves of the runtime state. *)
Fresh(ident, status) ==
    [ident |-> ident, status |-> status, cooldown |-> 0, black |-> FALSE, count |-> 0, fgen |-> 0,
     model |-> 0, mgen |-> 0]

Init ==
    /\ row = [c \in Creds |-> "active"] /\ stored = 0
    /\ entry = [c \in Creds |-> Fresh(0, "active")]
    /\ attempt = [a \in Attempts |-> Idle] /\ probe = [p \in Probes |-> Idle]
    /\ target = 0 /\ events = 0 /\ faults = 0
    /\ failures = [c \in Creds |-> 0] /\ blame = [c \in Creds |-> {}]
    /\ cleared = [c \in Creds |-> 0] /\ lost = {} /\ misfit = {}

Event == events < MaxEvents /\ events' = events + 1
Faults(n) == faults + n <= MaxFaults /\ faults' = faults + n

(* validateCredentialRuntimeRow: the entry is what the row says. *)
Matching(c) == Present(c) /\ row[c] = entry[c].status /\ stored = entry[c].ident

-----------------------------------------------------------------------------
(* CaptureActiveCredentialRefs: an attempt takes a reference. *)
Capture(a, c) ==
    /\ attempt[a] = Idle /\ Present(c) /\ entry[c].status = "active"
    /\ ~entry[c].black /\ entry[c].cooldown = 0
    /\ attempt' = [attempt EXCEPT ![a] =
          [at |-> "sent", cred |-> c, ident |-> entry[c].ident, mgen |-> entry[c].mgen, cleared |-> cleared[c]]]
    /\ UNCHANGED <<entry, control, probe, events, faults, history>>

(* mutateCredentialForTarget *)
SameTarget(r) == Present(r.cred) /\ entry[r.cred].ident = r.ident

\* Mutant: the generation of explicit restores is not compared.
AcceptsModelUnchecked(r) == TRUE

(* SetModelCooldown accepts results of the current recovery generation. *)
AcceptsModel(r) == entry[r.cred].mgen = r.mgen

Later(old, until) == IF until > old THEN until ELSE old

Failed(e) ==
    LET counted == [e EXCEPT !.count = @ + 1, !.fgen = @ + 1]
        listed == Threshold > 0 /\ counted.count >= Threshold /\ ~e.black
    IN IF listed THEN [counted EXCEPT !.black = TRUE, !.fgen = @ + 1] ELSE counted

Succeeded(e) == IF e.count # 0 THEN [e EXCEPT !.count = 0, !.fgen = @ + 1] ELSE e

(* applyDecisionEffectWithBlacklistPolicy and recordCredentialSuccess: the *)
(* outcome of the attempt, under the stripe.                               *)
Outcome(a) ==
    /\ attempt[a] # Idle /\ attempt' = [attempt EXCEPT ![a] = Idle] /\ Event
    /\ LET r == attempt[a]  c == r.cred  e == entry[c] IN
       IF ~SameTarget(r) THEN UNCHANGED <<entry, failures, blame>>
       ELSE \/ /\ entry' = [entry EXCEPT ![c] = Succeeded(e)] /\ UNCHANGED <<failures, blame>>
            \/ /\ entry' = [entry EXCEPT ![c] = Failed(e)]
               /\ failures' = [failures EXCEPT ![c] = @ + 1]
               /\ blame' = [blame EXCEPT ![c] = @ \cup {r.ident}]
            \/ \E until \in 1 .. MaxTime :
                  /\ entry' = [entry EXCEPT ![c].cooldown = Later(@, until)]
                  /\ blame' = [blame EXCEPT ![c] = @ \cup {r.ident}] /\ UNCHANGED failures
            \/ \E until \in 1 .. MaxTime :
                  /\ AcceptsModel(r) /\ entry' = [entry EXCEPT ![c].model = Later(@, until)]
                  /\ blame' = [blame EXCEPT ![c] = @ \cup {r.ident}] /\ UNCHANGED failures
    /\ UNCHANGED <<control, probe, faults, cleared>>

(* The deadline of a cooldown passes. *)
Elapse(c) ==
    /\ Present(c) /\ (entry[c].cooldown > 0 \/ entry[c].model > 0)
    /\ entry' = [entry EXCEPT ![c].cooldown = IF @ > 0 THEN @ - 1 ELSE 0,
                              ![c].model = IF @ > 0 THEN @ - 1 ELSE 0]
    /\ UNCHANGED <<control, attempt, probe, events, faults, history>>

-----------------------------------------------------------------------------
Seen(c, kind) ==
    [at |-> "testing", kind |-> kind, cred |-> c, ident |-> entry[c].ident, fgen |-> entry[c].fgen,
     cooldown |-> entry[c].cooldown, target |-> target, failures |-> failures[c], renewed |-> FALSE]

(* BlacklistedCredentials: the sweep of the validation worker. *)
Sweep(p, c) ==
    /\ probe[p] = Idle /\ Present(c) /\ entry[c].status = "active" /\ entry[c].black
    /\ probe' = [probe EXCEPT ![p] = Seen(c, "sweep")]
    /\ UNCHANGED <<entry, control, attempt, events, faults, history>>

(* captureCredentialProbe: the administrator tests a credential. *)
Test(p, c) ==
    /\ "test" \in Actions /\ probe[p] = Idle /\ Matching(c)
    /\ probe' = [probe EXCEPT ![p] = Seen(c, "test")]
    /\ UNCHANGED <<entry, control, attempt, events, faults, history>>

(* The comparison of restoreRuntimeStateIfMatch *)
StillAsSeen(s) ==
    /\ Present(s.cred)
    /\ LET e == entry[s.cred]
       IN e.status = "active" /\ e.black /\ e.ident = s.ident /\ e.fgen = s.fgen

Unlisted(e) == [e EXCEPT !.black = FALSE, !.count = 0, !.fgen = @ + 1]

(* The end of validateRef: the probe has failed, or it recovers the        *)
(* credential if nothing changed since the sweep.                          *)
SweepEnds(p) ==
    /\ probe[p] # Idle /\ probe[p].kind = "sweep"
    /\ LET s == probe[p] IN
       \/ probe' = [probe EXCEPT ![p] = Idle] /\ UNCHANGED <<entry, blame>>
       \/ /\ target = s.target /\ StillAsSeen(s)
          /\ entry' = [entry EXCEPT ![s.cred] = Unlisted(@)]
          /\ blame' = [blame EXCEPT ![s.cred] = {}]
          /\ probe' = [probe EXCEPT ![p] = [s EXCEPT !.at = "recovered"]]
    /\ probe[p].at = "testing"
    /\ UNCHANGED <<control, attempt, events, faults, failures, cleared>>

(* currentCredentialProbeRestoreProof: a passed test hands out a proof of  *)
(* the state it tested, if that is still the state.                        *)
TestEnds(p) ==
    /\ probe[p] # Idle /\ probe[p].kind = "test" /\ probe[p].at = "testing"
    /\ LET s == probe[p] IN
       \/ probe' = [probe EXCEPT ![p] = Idle]
       \/ /\ target = s.target /\ StillAsSeen(s) /\ entry[s.cred].cooldown = s.cooldown
          /\ probe' = [probe EXCEPT ![p] = [s EXCEPT !.at = "proof"]]
    /\ UNCHANGED <<entry, control, attempt, events, faults, history>>

(* RestoreTestedGroupCredential with the proof *)
RestoreTested(p) ==
    /\ probe[p] # Idle /\ probe[p].at = "proof"
    /\ LET s == probe[p] IN
       \/ /\ Matching(s.cred) /\ target = s.target /\ StillAsSeen(s)
          /\ entry[s.cred].cooldown = s.cooldown
          /\ entry' = [entry EXCEPT ![s.cred] = [Unlisted(@) EXCEPT !.cooldown = 0]]
          /\ blame' = [blame EXCEPT ![s.cred] = {}]
          /\ probe' = [probe EXCEPT ![p] = [s EXCEPT !.at = "recovered"]]
       \/ probe' = [probe EXCEPT ![p] = Idle] /\ UNCHANGED <<entry, blame>>
    /\ UNCHANGED <<control, attempt, events, faults, failures, cleared>>

Forget(p) ==
    /\ probe[p] # Idle /\ probe[p].at = "recovered" /\ probe' = [probe EXCEPT ![p] = Idle]
    /\ UNCHANGED <<entry, control, attempt, events, faults, history>>

Restored(e) == [e EXCEPT !.cooldown = 0, !.black = FALSE, !.count = 0, !.fgen = @ + 1, !.model = 0, !.mgen = @ + 1]

(* restoreGroupCredential without a proof, restoreCredentialBatchRuntime *)
Restore(c) ==
    /\ "restore" \in Actions /\ Matching(c) /\ Event
    /\ entry[c].black \/ entry[c].cooldown > 0 \/ entry[c].model > 0
    /\ LET listed == entry[c].black \/ entry[c].cooldown > 0
       IN entry' = [entry EXCEPT ![c] = IF listed THEN Restored(@)
                                        ELSE [@ EXCEPT !.model = 0, !.mgen = @ + 1]]
    /\ blame' = [blame EXCEPT ![c] = {}] /\ cleared' = [cleared EXCEPT ![c] = @ + 1]
    /\ UNCHANGED <<control, attempt, probe, faults, failures>>

(* restoreCredentialRuntimeAfterReset: a reset credit was consumed. *)
RestoreAfterReset(c) ==
    /\ "reset" \in Actions /\ Present(c) /\ Event
    /\ entry' = [entry EXCEPT ![c] = Restored(@)]
    /\ blame' = [blame EXCEPT ![c] = {}] /\ cleared' = [cleared EXCEPT ![c] = @ + 1]
    /\ UNCHANGED <<control, attempt, probe, faults, failures>>

-----------------------------------------------------------------------------
(* preserveModelCooldowns *)
Replaced(c, ident, status) ==
    IF Present(c) /\ entry[c].ident = ident
    THEN [Fresh(ident, status) EXCEPT !.model = entry[c].model, !.mgen = entry[c].mgen]
    ELSE [Fresh(ident, status) EXCEPT !.mgen = IF Present(c) THEN entry[c].mgen + 1 ELSE 0]

(* ReconcileGroup with the rows: unchanged entries keep their health. *)
Reconciled(rows, ident) ==
    [c \in Creds |->
       IF rows[c] = "deleted" THEN Gone
       ELSE IF Present(c) /\ entry[c].ident = ident /\ entry[c].status = rows[c]
            THEN entry[c] ELSE Replaced(c, ident, rows[c])]
BlameAfter(new) ==
    [c \in Creds |-> IF new[c] = Gone \/ ~Present(c) \/ new[c].ident # entry[c].ident THEN {} ELSE blame[c]]

(* The probes under way that have seen an entry that is now replaced. *)
Renew(cs) ==
    [p \in Probes |-> IF probe[p] # Idle /\ probe[p].cred \in cs
                      THEN [probe[p] EXCEPT !.renewed = TRUE] ELSE probe[p]]

(* A write of the group moves its credentials to another target, or back   *)
(* to the one they had: identities and signatures are hashes of the        *)
(* configuration.  It is committed and applied under all stripes; if its   *)
(* publication fails, the registry is reloaded.  A commit that is reported *)
(* as failed is not applied.                                               *)
Retarget ==
    /\ "retarget" \in Actions /\ Event /\ stored' = 1 - stored
    /\ \/ /\ target' = stored' /\ entry' = Reconciled(row, stored') /\ blame' = BlameAfter(entry')
          /\ probe' = Renew({c \in Creds : entry'[c] # entry[c]})
          /\ lost' = {} /\ misfit' = {} /\ UNCHANGED faults
       \/ /\ Faults(1) /\ lost' = Creds /\ UNCHANGED <<target, entry, blame, probe, misfit>>
    /\ UNCHANGED <<row, attempt, failures, cleared>>

(* A write that changes no credential fails to publish, and the recovery   *)
(* reloads the registry and the configuration.                             *)
Reload ==
    /\ MayReplace /\ Faults(1) /\ UNCHANGED events
    /\ entry' = [c \in Creds |-> IF row[c] = "deleted" THEN Gone ELSE Replaced(c, stored, row[c])]
    /\ target' = stored /\ blame' = BlameAfter(entry') /\ probe' = Renew(Creds)
    /\ lost' = {} /\ misfit' = {}
    /\ UNCHANGED <<row, stored, attempt, failures, cleared>>

With(rows, cs, status) == [c \in Creds |-> IF c \in cs THEN status ELSE rows[c]]
InStatus(cs, status) == [c \in Creds |-> IF c \in cs THEN [entry[c] EXCEPT !.status = status] ELSE entry[c]]

(* BatchGroupCredentials, enable: the database first.  The transaction     *)
(* fails, its answer is lost, or the registry cannot be changed and the    *)
(* group is reconciled with the rows, which may fail too.                  *)
Enable(cs) ==
    /\ "enable" \in Actions /\ Event
    /\ LET rows == With(row, cs, "active") IN
       \/ /\ row' = rows /\ entry' = InStatus(cs, "active")
          /\ UNCHANGED <<faults, probe, blame, lost, misfit>>
       \/ /\ Faults(1) /\ UNCHANGED <<row, entry, probe, blame, lost, misfit>>
       \/ /\ Faults(1) /\ row' = rows /\ lost' = lost \cup cs /\ UNCHANGED <<entry, probe, blame, misfit>>
       \/ /\ Faults(1) /\ row' = rows /\ entry' = Reconciled(rows, stored) /\ blame' = BlameAfter(entry')
          /\ probe' = Renew({c \in Creds : entry'[c] # entry[c]}) /\ lost' = {} /\ misfit' = {}
       \/ /\ Faults(2) /\ row' = rows /\ misfit' = misfit \cup cs /\ UNCHANGED <<entry, probe, blame, lost>>
    /\ UNCHANGED <<stored, attempt, target, failures, cleared>>

\* Mutant: a failed transaction is not compensated.
CompensatedNever(before, now) == now

(* compensateCredentialBatchRegistry *)
Compensated(before, now) == before

(* Disable and delete: the registry first.  Any error of the transaction   *)
(* is compensated by the exact entries, one that hides a commit included,  *)
(* and the compensation may fail too.                                      *)
Remove(cs, how) ==
    /\ how \in Actions /\ Event
    /\ LET now == IF how = "delete" THEN [c \in Creds |-> IF c \in cs THEN Gone ELSE entry[c]]
                  ELSE InStatus(cs, "disabled")
           rows == With(row, cs, IF how = "delete" THEN "deleted" ELSE "disabled")
       IN \/ entry' = now /\ row' = rows /\ blame' = BlameAfter(now) /\ UNCHANGED <<faults, lost, misfit>>
          \/ /\ Faults(1) /\ entry' = Compensated(entry, now) /\ UNCHANGED <<blame, misfit>>
             /\ \/ UNCHANGED <<row, lost>>
                \/ row' = rows /\ lost' = lost \cup cs
          \/ /\ Faults(2) /\ entry' = now /\ blame' = BlameAfter(now) /\ UNCHANGED lost
             /\ \/ UNCHANGED row /\ misfit' = misfit \cup cs
                \/ row' = rows /\ UNCHANGED misfit
    /\ UNCHANGED <<stored, attempt, probe, target, failures, cleared>>

(* Every credential of the batch has a row that its entry matches. *)
Batch ==
    \E cs \in SUBSET {c \in Creds : Matching(c)} :
       /\ cs # {}
       /\ Enable(cs) \/ Remove(cs, "disable") \/ Remove(cs, "delete")

Next ==
    \/ \E a \in Attempts : Outcome(a) \/ \E c \in Creds : Capture(a, c)
    \/ \E p \in Probes : SweepEnds(p) \/ TestEnds(p) \/ RestoreTested(p) \/ Forget(p)
                         \/ \E c \in Creds : Sweep(p, c) \/ Test(p, c)
    \/ \E c \in Creds : Elapse(c) \/ Restore(c) \/ RestoreAfterReset(c)
    \/ Retarget \/ Reload \/ Batch

Spec == Init /\ [][Next]_vars

-----------------------------------------------------------------------------
(* A probe or a test clears only what it tested: the target is the tested  *)
(* one, and no failure of the credential was recorded since it began, even *)
(* one that blacklisted it again after a restore.  The exception is an     *)
(* entry that was replaced meanwhile, by a reload or by a change of the    *)
(* target and back: its failure generation begins at 0 again and may have  *)
(* come to the tested value once more.                                     *)
RecoversWhatItTested ==
    \A p \in Probes :
      probe[p] # Idle /\ probe'[p] # Idle /\ probe[p].at # "recovered" /\ probe'[p].at = "recovered"
        => LET s == probe[p] IN
           /\ entry'[s.cred].ident = s.ident /\ target = s.target
           /\ failures[s.cred] = s.failures \/ s.renewed

(* The health of a credential stems from attempts at its present target:   *)
(* a late outcome of another target counts for nothing.                    *)
HealthIsOwn == \A c \in Creds : Present(c) => blame[c] \subseteq {entry[c].ident}

(* An explicit restore is final for the model cooldowns of attempts that   *)
(* began before it.                                                        *)
LateModelCooldowns ==
    \A a \in Attempts :
      attempt[a] # Idle /\ attempt'[a] = Idle /\ cleared[attempt[a].cred] # attempt[a].cleared
        => LET c == attempt[a].cred IN Present(c) => entry'[c].model <= entry[c].model

(* Between restores a cooldown is never shortened by an outcome.           *)
CooldownsExtend ==
    \A a \in Attempts :
      attempt[a] # Idle /\ attempt'[a] = Idle
        => LET c == attempt[a].cred IN
           Present(c) => entry'[c].cooldown >= entry[c].cooldown /\ entry'[c].model >= entry[c].model

(* The registry never has more credentials in service than the database:   *)
(* enabling is durable first, disabling takes effect first.  The exception *)
(* is a batch whose commit was reported as failed: it is compensated, and  *)
(* the registry serves what the database has disabled or deleted, until    *)
(* the group is written again.                                             *)
NeverMoreThanDurable ==
    \A c \in Creds : Present(c) /\ entry[c].status = "active" => row[c] = "active" \/ c \in lost

(* Both sides agree on every credential whose last write was not reported  *)
(* as failed after its commit and whose compensation succeeded; after a    *)
(* later write or reload of the group they agree on those as well.         *)
BothSidesAgree ==
    \A c \in Creds \ (lost \cup misfit) : (entry[c] = Gone <=> row[c] = "deleted") /\ (Present(c) => Matching(c))
=============================================================================
