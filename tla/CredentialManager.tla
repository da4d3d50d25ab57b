-------------------------- MODULE CredentialManager --------------------------
(***************************************************************************)
(* The subscription credential manager: how concurrent callers refresh the *)
(* rotating token of a subscription account, and how the database row and  *)
(* the in-memory registry entry of the account stay on one version while   *)
(* the row is also replaced by an operator's reconnection, database writes *)
(* fail, and the process crashes between any two steps.                    *)
(*                                                                         *)
(* One group of accounts Creds.  A token is the number of its issue.  The  *)
(* branches taken when the registry holds no entry for an account whose    *)
(* row exists are left out: every writer that removes an entry holds the   *)
(* account's stripe and has removed the row first.                         *)
(***************************************************************************)
EXTENDS Integers, FiniteSets

CONSTANTS
    Creds,       \* the subscription accounts of one group
    Callers,     \* concurrent calls into the manager
    CallKinds,   \* the entry points the callers use
    MaxVer,      \* bound on the secret version of an account
    MaxTarget,   \* bound on the number of target changes of the group
    MaxFaults    \* bound on the number of failing database operations

Kinds == {"prepare", "forced", "control", "controlForced", "recovery"}
Free == "free"

ConstantsAssumption ==
    /\ MaxVer \in Nat \ {0} /\ MaxTarget \in Nat /\ MaxFaults \in Nat
    /\ CallKinds \subseteq Kinds
    /\ Free \notin Creds /\ Free \notin Callers

VARIABLES
    db,       \* db[c]: the persisted row: ver, auth, tok
    reg,      \* reg[c]: the registry entry: ver, auth, tok, cool
    target,   \* generation of the group's persisted target (channel, params)
    stripe,   \* stripe[c]: the caller holding the mutation stripe of c
    pending,  \* a committed reconnection has not been applied to the registry
    issued,   \* issued[c]: number of tokens the provider issued for c
    valid,    \* valid[c]: the token the provider accepts for c
    spent,    \* spent[c]: tokens the provider may have redeemed
    pc,       \* pc[p]: where caller p stands
    call,     \* call[p]: the arguments and locals of p's call
    faults,   \* database operations that failed so far
    behind    \* history: accounts whose entry may be older than their row, after an
              \* error that hid a write or a reading under another account's stripe

vars == <<db, reg, target, stripe, pending, issued, valid, spent, pc, call, faults, behind>>

AuthStates == {"ready", "refreshing", "reauthorization_required", "outcome_unknown"}
NoRow == [ver |-> 0, auth |-> "ready", tok |-> 0]
NoCall == [kind |-> "prepare", cred |-> Free, snap |-> 0, gen |-> 0,
           row |-> NoRow, bypass |-> FALSE, newTok |-> 0,
           goal |-> "ready", goalVer |-> 0, loud |-> FALSE, entries |-> <<>>]

(* The entry points: Prepare by the gateway, PrepareForControl by operator *)
(* actions, each with or without forceRefresh, RefreshForManualRecovery.   *)
DataPlane == {"prepare", "forced"}
Forced(kind) == kind \in {"forced", "controlForced", "recovery"}
RespectsCooldown(kind) == kind \in DataPlane

\* Mutant: a refresh that ends without a new token always restores ready.
RestoreReady(auth) == "ready"

(* refreshRestoreState *)
RestoreState(auth) == IF auth = "refreshing" THEN "outcome_unknown" ELSE auth

\* Mutant: entries that exist are kept whatever their version.
ReconcileKeeps(entries) == reg

Agrees(c, entries) == reg[c].ver = entries[c].ver /\ reg[c].tok = entries[c].tok

(* ReconcileGroup: an entry whose persisted configuration already agrees   *)
(* keeps its runtime state; every other one is rebuilt from the row.       *)
ReconcileGroup(entries) ==
    [c \in Creds |->
        IF Agrees(c, entries) THEN reg[c]
        ELSE [ver |-> entries[c].ver, auth |-> entries[c].auth,
              tok |-> entries[c].tok, cool |-> FALSE]]

Return(p) ==
    /\ pc' = [pc EXCEPT ![p] = "idle"]
    /\ call' = [call EXCEPT ![p] = NoCall]
    /\ stripe' = [stripe EXCEPT ![call[p].cred] = Free]

Goto(p, label, locals) ==
    /\ pc' = [pc EXCEPT ![p] = label]
    /\ call' = [call EXCEPT ![p] = locals]
    /\ UNCHANGED stripe

CanFail == faults < MaxFaults
Fault == CanFail /\ faults' = faults + 1
NoFault == UNCHANGED faults

provider == <<issued, valid, spent>>

TypeOK ==
    /\ db \in [Creds -> [ver : 1..MaxVer, auth : AuthStates, tok : 1..2 * MaxVer]]
    /\ reg \in [Creds -> [ver : 1..MaxVer, auth : AuthStates, tok : 1..2 * MaxVer, cool : BOOLEAN]]
    /\ target \in 0..MaxTarget
    /\ stripe \in [Creds -> Callers \cup {Free}]
    /\ pending \in BOOLEAN
    /\ issued \in [Creds -> 1..2 * MaxVer] /\ valid \in [Creds -> 0..2 * MaxVer]
    /\ spent \in [Creds -> SUBSET (1..2 * MaxVer)]
    /\ pc \in [Callers -> {"idle", "wait", "begin", "undo", "exchange", "store",
                           "publish", "load", "apply", "settle"}]
    /\ \A p \in Callers : call[p].kind \in Kinds /\ call[p].cred \in Creds \cup {Free}
    /\ faults \in 0..MaxFaults

Init ==
    /\ db = [c \in Creds |-> [ver |-> 1, auth |-> "ready", tok |-> 1]]
    /\ reg = [c \in Creds |-> [ver |-> 1, auth |-> "ready", tok |-> 1, cool |-> FALSE]]
    /\ target = 0
    /\ stripe = [c \in Creds |-> Free]
    /\ pending = FALSE
    /\ issued = [c \in Creds |-> 1] /\ valid = [c \in Creds |-> 1]
    /\ spent = [c \in Creds |-> {}]
    /\ pc = [p \in Callers |-> "idle"]
    /\ call = [p \in Callers |-> NoCall]
    /\ faults = 0 /\ behind = {}

-----------------------------------------------------------------------------
(* A caller takes a snapshot of the account: the gateway of a registry     *)
(* entry that is ready, an operator action of the row, which must be ready *)
(* except for the recovery.                                                *)
Capture(p, c, kind) ==
    /\ pc[p] = "idle"
    /\ kind \in DataPlane => reg[c].auth = "ready"
    /\ kind \notin DataPlane \cup {"recovery"} => db[c].auth = "ready"
    /\ pc' = [pc EXCEPT ![p] = "wait"]
    /\ call' = [call EXCEPT ![p] =
            [NoCall EXCEPT !.kind = kind, !.cred = c, !.gen = target,
                           !.snap = IF kind \in DataPlane THEN reg[c].ver ELSE db[c].ver]]
    /\ UNCHANGED <<db, reg, target, stripe, pending, provider, faults, behind>>

(* prepare with a token that is not near its expiry: no refresh is needed. *)
Unneeded(p) ==
    /\ pc[p] = "wait" /\ ~Forced(call[p].kind)
    /\ pc' = [pc EXCEPT ![p] = "idle"] /\ call' = [call EXCEPT ![p] = NoCall]
    /\ UNCHANGED <<db, reg, target, stripe, pending, provider, faults, behind>>

\* Mutant: the auth state of the row is not looked at.
RefusedByTarget(k, row) == k.gen # target
(* The early returns of refreshCredentialLocked, in the order of the code. *)
Refused(k, row) ==
    \/ k.gen # target
    \/ row.auth # "ready" /\ k.kind # "recovery"
Superseded(k, row) ==
    Forced(k.kind) /\ row.ver > k.snap /\ row.auth = "ready"
(* An unforced call has found the token of its snapshot near its expiry; a  *)
(* token stored since then is not.                                         *)
StillFresh(k, row) == ~Forced(k.kind) /\ row.ver # k.snap
CoolingDown(k) == RespectsCooldown(k.kind) /\ reg[k.cred].cool

(* refreshCredentialLocked up to its first write: the stripe is taken, the *)
(* row and the group are read, and the call returns at once, hands out the *)
(* token a concurrent refresh already stored, or goes on to refresh.       *)
Enter(p) ==
    LET k == call[p]  c == k.cred  row == db[c] IN
    /\ pc[p] = "wait" /\ stripe[c] = Free
    /\ \/ /\ Refused(k, row)
          /\ Return(p) /\ UNCHANGED reg
       \/ /\ ~Refused(k, row) /\ Superseded(k, row)
          /\ IF reg[c].ver = row.ver
             THEN /\ reg' = [reg EXCEPT ![c].auth = "ready"] /\ Return(p)
             ELSE /\ pc' = [pc EXCEPT ![p] = "load"]
                  /\ call' = [call EXCEPT ![p].row = row]
                  /\ stripe' = [stripe EXCEPT ![c] = p] /\ UNCHANGED reg
       \/ /\ ~Refused(k, row) /\ ~Superseded(k, row)
          /\ StillFresh(k, row) \/ CoolingDown(k)
          /\ Return(p) /\ UNCHANGED reg
       \/ /\ ~Refused(k, row) /\ ~Superseded(k, row)
          /\ ~StillFresh(k, row) /\ ~CoolingDown(k)
          /\ pc' = [pc EXCEPT ![p] = "begin"]
          /\ call' = [call EXCEPT ![p] = [k EXCEPT !.row = row,
                                  !.bypass = ~RespectsCooldown(k.kind) /\ reg[c].cool]]
          /\ stripe' = [stripe EXCEPT ![c] = p] /\ UNCHANGED reg
    /\ UNCHANGED <<db, target, pending, provider, faults, behind>>

(* setAuthState: a compare-and-set on the version that was read. *)
Matches(c, ver) == db[c].ver = ver
SetAuth(c, auth) ==
    /\ db' = [db EXCEPT ![c].auth = auth]
    /\ reg' = [reg EXCEPT ![c].auth = auth]

(* transitionAuthState(refreshing): the row and then the entry are marked. *)
Begin(p) ==
    LET k == call[p]  c == k.cred IN
    /\ pc[p] = "begin"
    /\ \/ /\ Matches(c, k.row.ver) /\ NoFault
          /\ SetAuth(c, "refreshing") /\ Goto(p, "exchange", k)
       \/ /\ ~Matches(c, k.row.ver) /\ NoFault
          /\ Goto(p, "undo", k) /\ UNCHANGED <<db, reg>>
       \/ /\ Fault
          /\ Goto(p, "undo", k) /\ UNCHANGED reg
          /\ db' \in {db, IF Matches(c, k.row.ver)
                          THEN [db EXCEPT ![c].auth = "refreshing"] ELSE db}
    /\ UNCHANGED <<target, pending, provider, behind>>

(* The refresh could not start: the state read before it is put back. *)
Undo(p) ==
    LET k == call[p]  c == k.cred IN
    /\ pc[p] = "undo"
    /\ \/ /\ Matches(c, k.row.ver) /\ NoFault
          /\ SetAuth(c, RestoreState(k.row.auth))
       \/ /\ (~Matches(c, k.row.ver) /\ NoFault) \/ Fault
          /\ reg' = [reg EXCEPT ![c].auth = "outcome_unknown"]
          /\ db' \in {db, IF Matches(c, k.row.ver)
                          THEN [db EXCEPT ![c].auth = RestoreState(k.row.auth)] ELSE db}
    /\ Return(p)
    /\ UNCHANGED <<target, pending, provider, behind>>

Settle(p, auth, ver, loud) ==
    Goto(p, "settle", [call[p] EXCEPT !.goal = auth, !.goalVer = ver, !.loud = loud])

Redeem(c, tok) ==
    /\ spent' = [spent EXCEPT ![c] = @ \cup {tok}]
    /\ issued' = [issued EXCEPT ![c] = @ + 1]
    /\ valid' = [valid EXCEPT ![c] = issued[c] + 1]

(* The provider's token endpoint.  It redeems a token once and issues the  *)
(* next one.  It rejects explicitly, retryably (the token was not used) or *)
(* for good, or the answer is lost after the token may have been redeemed. *)
Exchange(p) ==
    LET k == call[p]  c == k.cred  tok == k.row.tok
        before == RestoreState(k.row.auth) IN
    /\ pc[p] = "exchange"
    /\ \/ \* a new token arrives, and is usable
          /\ tok = valid[c] /\ k.row.ver < MaxVer /\ Redeem(c, tok)
          /\ Goto(p, "store", [k EXCEPT !.newTok = issued[c] + 1])
          /\ UNCHANGED reg
       \/ \* a new token arrives, of another identity
          /\ tok = valid[c] /\ Redeem(c, tok)
          /\ Settle(p, "reauthorization_required", k.row.ver, TRUE)
          /\ UNCHANGED reg
       \/ \* a new token arrives, and cannot be encoded or encrypted
          /\ tok = valid[c] /\ Redeem(c, tok)
          /\ Settle(p, "outcome_unknown", k.row.ver, FALSE)
          /\ UNCHANGED reg
       \/ \* RefreshFailureRetryable: SetCooldown, then the earlier state
          /\ reg' = [reg EXCEPT ![c].cool = TRUE]
          /\ Settle(p, before, k.row.ver, TRUE)
          /\ UNCHANGED provider
       \/ \* RefreshFailureReauthorizationRequired, RefreshFailureIdentityChanged
          /\ Settle(p, "reauthorization_required", k.row.ver, TRUE)
          /\ UNCHANGED <<provider, reg>>
       \/ \* RefreshFailureOutcomeUnknown: the token may be redeemed or not
          /\ \/ tok = valid[c] /\ Redeem(c, tok)
             \/ spent' = [spent EXCEPT ![c] = @ \cup {tok}] /\ UNCHANGED <<issued, valid>>
          /\ Settle(p, IF before # "ready" THEN before ELSE "outcome_unknown", k.row.ver, TRUE)
          /\ UNCHANGED reg
    /\ UNCHANGED <<db, target, pending, faults, behind>>

(* transitionAuthState at the end of a refresh that produced no new token. *)
(* When the row cannot be written, most callers at least take the entry    *)
(* out of service.                                                         *)
Finish(p) ==
    LET k == call[p]  c == k.cred IN
    /\ pc[p] = "settle"
    /\ \/ /\ Matches(c, k.goalVer) /\ NoFault
          /\ SetAuth(c, k.goal)
       \/ /\ (~Matches(c, k.goalVer) /\ NoFault) \/ Fault
          /\ reg' = IF k.loud THEN [reg EXCEPT ![c].auth = "outcome_unknown"] ELSE reg
          /\ db' \in {db, IF Matches(c, k.goalVer)
                          THEN [db EXCEPT ![c].auth = k.goal] ELSE db}
    /\ Return(p)
    /\ UNCHANGED <<target, pending, provider, behind>>

(* The new token is stored, only over the version that was refreshed.  An  *)
(* error may hide a write that took effect.                                *)
Store(p) ==
    LET k == call[p]  c == k.cred
        matches == Matches(c, k.row.ver) /\ db[c].auth = "refreshing"
        stored == [db EXCEPT ![c] = [ver |-> k.row.ver + 1, auth |-> "ready", tok |-> k.newTok]] IN
    /\ pc[p] = "store"
    /\ \/ /\ matches /\ NoFault /\ db' = stored /\ UNCHANGED behind
          /\ Goto(p, "publish", k)
       \/ /\ ~matches /\ NoFault /\ UNCHANGED <<db, behind>>
          /\ Settle(p, "outcome_unknown", k.row.ver, FALSE)
       \/ /\ Fault /\ db' \in {db, IF matches THEN stored ELSE db}
          /\ behind' = IF db' = db THEN behind ELSE behind \cup {c}
          /\ Settle(p, "outcome_unknown", k.row.ver, FALSE)
    /\ UNCHANGED <<reg, target, pending, provider>>

(* ClearCooldownIfMatch: the cooldown an operator's refresh went around.   *)
ClearCooldown(r, k) == [r EXCEPT ![k.cred].cool = @ /\ ~k.bypass]

(* ReplaceCredentialSecretIfMatch; on a mismatch the group is reconciled.  *)
Publish(p) ==
    LET k == call[p]  c == k.cred IN
    /\ pc[p] = "publish"
    /\ \/ /\ reg[c].ver = k.row.ver
          /\ reg' = ClearCooldown([reg EXCEPT ![c] = [ver |-> k.row.ver + 1, auth |-> "ready",
                                                      tok |-> k.newTok, cool |-> reg[c].cool]], k)
          /\ behind' = behind \ {c} /\ Return(p)
       \/ /\ reg[c].ver # k.row.ver
          /\ Goto(p, "load", k) /\ UNCHANGED <<reg, behind>>
    /\ UNCHANGED <<db, target, pending, provider, faults>>

(* BuildGroupCredentialEntriesWithProxy: the rows of the WHOLE group are   *)
(* read, though only the stripe of one account is held.                    *)
Load(p) ==
    LET k == call[p]  c == k.cred IN
    /\ pc[p] = "load"
    /\ \/ /\ NoFault /\ Goto(p, "apply", [k EXCEPT !.entries = db])
       \/ /\ Fault /\ k.newTok # 0
          /\ Settle(p, "outcome_unknown", k.row.ver + 1, TRUE)
       \/ /\ Fault /\ k.newTok = 0 /\ Return(p)
    /\ UNCHANGED <<db, reg, target, pending, provider, behind>>

Apply(p) ==
    LET k == call[p] IN
    /\ pc[p] = "apply"
    /\ reg' = ClearCooldown(ReconcileGroup(k.entries), k)
    /\ behind' = {c \in Creds : k.entries[c] # db[c] \/ (c \in behind /\ Agrees(c, k.entries))}
    /\ Return(p)
    /\ UNCHANGED <<db, target, pending, provider, faults>>

-----------------------------------------------------------------------------
(* consumeCredentialStages inside the idempotent connect operation: a new  *)
(* authorization replaces the secret of an account that needs one.  The    *)
(* transaction takes no stripe.                                            *)
Connect(c) ==
    /\ ~pending /\ db[c].ver < MaxVer
    /\ db[c].auth \in {"reauthorization_required", "outcome_unknown"}
    /\ db' = [db EXCEPT ![c] = [ver |-> @.ver + 1, auth |-> "ready", tok |-> issued[c] + 1]]
    /\ issued' = [issued EXCEPT ![c] = @ + 1]
    /\ valid' = [valid EXCEPT ![c] = issued[c] + 1]
    /\ pending' = TRUE
    /\ UNCHANGED <<reg, target, stripe, spent, pc, call, faults, behind>>

(* recoverRegistryOperation: the rows are read and applied under all the   *)
(* stripes of the group.                                                   *)
ConnectApply ==
    /\ pending /\ \A c \in Creds : stripe[c] = Free
    /\ reg' = ReconcileGroup(db)
    /\ behind' = {c \in behind : Agrees(c, db)}
    /\ pending' = FALSE
    /\ UNCHANGED <<db, target, stripe, provider, pc, call, faults>>

(* updateGroupSettings with other params: under all the stripes.  The new  *)
(* identity generation rebuilds every entry.                               *)
ChangeTarget ==
    /\ ~pending /\ target < MaxTarget /\ \A c \in Creds : stripe[c] = Free
    /\ target' = target + 1 /\ behind' = {}
    /\ reg' = [c \in Creds |-> [ver |-> db[c].ver, auth |-> db[c].auth,
                                tok |-> db[c].tok, cool |-> FALSE]]
    /\ UNCHANGED <<db, stripe, pending, provider, pc, call, faults>>

(* The gateway's health decision under the stripe, and the passing of time. *)
SetCooldown(c) ==
    /\ stripe[c] = Free /\ reg[c].auth = "ready" /\ ~reg[c].cool
    /\ reg' = [reg EXCEPT ![c].cool = TRUE]
    /\ UNCHANGED <<db, target, stripe, pending, provider, pc, call, faults, behind>>

CooldownPasses(c) ==
    /\ reg[c].cool /\ reg' = [reg EXCEPT ![c].cool = FALSE]
    /\ UNCHANGED <<db, target, stripe, pending, provider, pc, call, faults, behind>>

(* A crash, and the next start: EnsureInitialState, then the registry is   *)
(* loaded from the rows, then the committed operations are drained.        *)
Interrupted == [c \in Creds |-> [db[c] EXCEPT !.auth = RestoreState(@)]]
Restart ==
    /\ db' = Interrupted
    /\ reg' = [c \in Creds |-> [ver |-> db[c].ver, auth |-> Interrupted[c].auth,
                                tok |-> db[c].tok, cool |-> FALSE]]
    /\ stripe' = [c \in Creds |-> Free]
    /\ pending' = FALSE /\ behind' = {}
    /\ pc' = [p \in Callers |-> "idle"]
    /\ call' = [p \in Callers |-> NoCall]
    /\ UNCHANGED <<target, provider, faults>>

Step(p) ==
    \/ Enter(p) \/ Begin(p) \/ Undo(p) \/ Exchange(p) \/ Finish(p)
    \/ Store(p) \/ Publish(p) \/ Load(p) \/ Apply(p)

Next ==
    \/ \E p \in Callers : \/ \E c \in Creds, kind \in CallKinds : Capture(p, c, kind)
                          \/ Unneeded(p) \/ Step(p)
    \/ \E c \in Creds : Connect(c) \/ SetCooldown(c) \/ CooldownPasses(c)
    \/ ConnectApply \/ ChangeTarget \/ Restart

Spec == Init /\ [][Next]_vars

(* The Go mutexes of the stripes do not starve a waiter, the provider call *)
(* and the database calls have deadlines, and the recovery loop retries a  *)
(* committed operation until it is applied.                                *)
Fairness ==
    /\ \A p \in Callers : /\ SF_vars(Enter(p))
                          /\ WF_vars((Unneeded(p) \/ Begin(p) \/ Undo(p) \/ Exchange(p) \/ Finish(p)
                                     \/ Store(p) \/ Publish(p) \/ Load(p) \/ Apply(p)))
    /\ SF_vars(ConnectApply)

FairSpec == Spec /\ Fairness

-----------------------------------------------------------------------------
(* A row is ready only while its token cannot have been redeemed: whatever *)
(* fails, crashes or races, an account whose token may be used up is not   *)
(* put back in service, so one transient failure never clears a real       *)
(* authorization problem.                                                  *)
ReadyIsUnspent ==
    \A c \in Creds : db[c].auth = "ready" => db[c].tok \notin spent[c]

(* No automatic path presents a token to the provider again once an        *)
(* exchange with it may have taken effect: Prepare sends nothing after an  *)
(* uncertain outcome; only the operator's recovery may try.                *)
NoAutomaticReplay ==
    \A p \in Callers :
        pc[p] = "exchange" /\ call[p].kind # "recovery"
            => call[p].row.tok \notin spent[call[p].cred]

(* The gateway serves the durable secret: once no call works on an account *)
(* and no committed reconnection is still to be applied, a ready registry  *)
(* entry holds the version and the token of the row, and the row is ready. *)
(* It may be older than the row in two cases: an error hid the success of  *)
(* the write of a new token, and a later refresh that was refused for now  *)
(* put the old entry back to ready; or the call of another account read    *)
(* the rows of the group before the account changed and applied them       *)
(* afterwards, so that even a row that needs a new authorization is served *)
(* as ready.  It is never newer than the row.                              *)
ServedIsDurable ==
    \A c \in Creds :
        stripe[c] = Free /\ ~pending /\ reg[c].auth = "ready"
            => \/ Agrees(c, db) /\ db[c].auth = "ready"
               \/ c \in behind /\ reg[c].ver <= db[c].ver

(* The registry never goes back to an older version of an account: what is *)
(* published is at least as new as what was served before.                 *)
RegistryNeverRegresses == \A c \in Creds : reg'[c].ver >= reg[c].ver

(* A refresh goes to the target its caller saw: the group's target cannot  *)
(* change between the check of the identity generation and the exchange.   *)
SameTarget ==
    \A p \in Callers :
        pc[p] \in {"exchange", "store", "publish"} => call[p].gen = target

(* Every call returns: no path out of a refresh keeps the stripe.          *)
EveryCallReturns ==
    \A p \in Callers : pc[p] = "wait" ~> pc[p] = "idle"

(* A committed reconnection reaches the registry. *)
ConnectIsApplied == pending ~> ~pending
=============================================================================
