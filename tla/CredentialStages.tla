-------------------------- MODULE CredentialStages --------------------------
(***************************************************************************)
(* Staging of subscription credentials (control/credential_stages.go).       *)
(*                                                                         *)
(* A stage is a row that an authorization fills: a browser callback brings a  *)
(* one-shot code, a device authorization is polled, a file is imported ready. *)
(* Discovery may refresh the token of a ready stage; connecting consumes       *)
(* stages into credentials of a group.  Handlers run concurrently and talk to  *)
(* the provider without a transaction: they claim the row with a conditional   *)
(* UPDATE to "exchanging", call the provider and finish with another one.      *)
(*                                                                         *)
(* The process may restart and single statements may fail, with or without     *)
(* having been applied.  A payload is a token number; tokens redeemed at the   *)
(* provider are spent.  Times are small integers.                              *)
(***************************************************************************)
EXTENDS Integers, FiniteSets

CONSTANTS Stages,       \* stage IDs, numbers: rows are handled in this order
          Procs,        \* handlers running at the same time
          Accounts, Groups,
          Methods,      \* the authorization methods in use
          AuthTTL, ReadyTTL, ExchangeTTL, Interval, TombstoneTTL,
          MaxTime,      \* bound: the clock
          MaxTokens,    \* bound: tokens the provider issues
          MaxFaults,    \* bound: failing statements
          MaxRestarts   \* bound: restarts

StagesAssumption ==
    /\ Stages \subseteq Nat /\ Methods \subseteq {"browser", "device", "file"}
    /\ {AuthTTL, ReadyTTL, ExchangeTTL, Interval, TombstoneTTL} \subseteq Nat \ {0}
    /\ {MaxTime, MaxTokens, MaxFaults, MaxRestarts} \subseteq Nat

VARIABLES rows,     \* the table of stages
          creds,    \* the credentials of every group and account
          procs,    \* the handlers
          now, issued, faults, restarts,
          spent,    \* tokens redeemed at the provider
          granted,  \* stages whose one-shot grant the provider has answered
          bad       \* history: what must not happen has happened

vars == <<rows, creds, procs, now, issued, faults, restarts, spent, granted, bad>>

Terminal == {"consumed", "failed", "cancelled", "expired", "unknown"}
Live == {"pending", "exchanging", "ready"}

NoRow == [status |-> "none", method |-> "none", payload |-> 0, hash |-> FALSE,
          account |-> {}, expires |-> 0, nextPoll |-> 0, updated |-> 0]
Deleted == [NoRow EXCEPT !.status = "deleted"]    \* IDs are not reused
NoCred == [auth |-> "none", token |-> 0, version |-> 0]
Idle == [pc |-> "idle", kind |-> "none", stage |-> CHOOSE s \in Stages : TRUE, row |-> NoRow,
         at |-> 0, answer |-> "none", token |-> 0]

Row == [status : {"none", "deleted"} \cup Live \cup Terminal, method : Methods \cup {"none"}, payload : 0..MaxTokens,
        hash : BOOLEAN, account : SUBSET Accounts, expires : Nat, nextPoll : Nat, updated : 0..MaxTime]

TypeOK ==
    /\ rows \in [Stages -> Row]
    /\ creds \in [Groups -> [Accounts -> [auth : {"none", "ready", "reauthorize"}, token : 0..MaxTokens, version : Nat]]]
    /\ procs \in [Procs -> [pc : {"idle", "read", "call", "finish", "mark"},
                            kind : {"none", "code", "poll", "refresh", "get"}, stage : Stages, row : Row,
                            at : 0..MaxTime, token : 0..MaxTokens,
                            answer : {"none", "ok", "pending", "retry", "denied", "expired", "unknown"}]]
    /\ now \in 0..MaxTime /\ issued \in 0..MaxTokens /\ faults \in 0..MaxFaults /\ restarts \in 0..MaxRestarts
    /\ spent \subseteq 1..MaxTokens /\ granted \subseteq Stages

Init ==
    /\ rows = [s \in Stages |-> NoRow]
    /\ creds = [g \in Groups |-> [a \in Accounts |-> NoCred]]
    /\ procs = [p \in Procs |-> Idle]
    /\ now = 0 /\ issued = 0 /\ faults = 0 /\ restarts = 0
    /\ spent = {} /\ granted = {} /\ bad = {}

-----------------------------------------------------------------------------
(* Creating a stage.                                                        *)

\* The payload of a pending stage (verifier or driver state) is a token too:
\* it is as secret as the credential.
Create(s, row) ==
    /\ rows[s].status = "none" /\ issued < MaxTokens
    /\ issued' = issued + 1
    /\ rows' = [rows EXCEPT ![s] = row]
    /\ UNCHANGED <<creds, procs, now, faults, restarts, spent, granted, bad>>

beginBrowserCredentialAuthorization(s) ==
    /\ "browser" \in Methods
    /\ Create(s, [NoRow EXCEPT !.status = "pending", !.method = "browser", !.payload = issued + 1,
                               !.hash = TRUE, !.expires = now + AuthTTL, !.updated = now])

beginDeviceCredentialAuthorization(s) ==
    /\ "device" \in Methods
    /\ Create(s, [NoRow EXCEPT !.status = "pending", !.method = "device", !.payload = issued + 1,
                               !.expires = now + AuthTTL, !.nextPoll = now + Interval, !.updated = now])

persistReadyCredentialStage(s, a) ==
    /\ "file" \in Methods
    /\ Create(s, [NoRow EXCEPT !.status = "ready", !.method = "file", !.payload = issued + 1,
                               !.account = {a}, !.expires = now + ReadyTTL, !.updated = now])

-----------------------------------------------------------------------------
(* The end of a stage: its secrets go.                                       *)

Ended(row, status) == [row EXCEPT !.status = status, !.payload = 0, !.hash = FALSE, !.updated = now]

\* FailCredentialAuthorization: the provider's callback reports an error.
failCredentialAuthorization(s) ==
    /\ rows[s].status = "pending" /\ rows[s].hash /\ now < rows[s].expires
    /\ rows' = [rows EXCEPT ![s] = Ended(@, "failed")]
    /\ UNCHANGED <<creds, procs, now, issued, faults, restarts, spent, granted, bad>>

CancelCredentialStage(s) ==
    /\ rows[s].status \in {"pending", "ready"}
    /\ rows' = [rows EXCEPT ![s] = Ended(@, "cancelled")]
    /\ UNCHANGED <<creds, procs, now, issued, faults, restarts, spent, granted, bad>>

Expired(row) == Ended(row, IF row.status = "exchanging" THEN "unknown" ELSE "expired")

Late(s) == rows[s].status \in Live /\ rows[s].expires <= now

CleanupCredentialStages ==
    LET old(s) == rows[s].status \in Terminal /\ rows[s].updated + TombstoneTTL < now
    IN  /\ \E s \in Stages : Late(s) \/ old(s)
        /\ rows' = [s \in Stages |-> IF Late(s) THEN Expired(rows[s]) ELSE IF old(s) THEN Deleted ELSE rows[s]]
        /\ UNCHANGED <<creds, procs, now, issued, faults, restarts, spent, granted, bad>>

-----------------------------------------------------------------------------
(* Handlers.                                                                *)

Run(p, kind, s) == [Idle EXCEPT !.kind = kind, !.stage = s, !.row = rows[s], !.at = now]

Exchanging(row, from) == [row EXCEPT !.status = "exchanging", !.hash = FALSE, !.expires = from + ExchangeTTL, !.updated = now]

StateMatches(s) == rows[s].status = "pending" /\ rows[s].hash /\ now < rows[s].expires

\* completeCredentialAuthorization: find by state and claim in one transaction.
CompleteAuthorization(p, s) ==
    /\ procs[p].pc = "idle" /\ StateMatches(s)
    /\ procs' = [procs EXCEPT ![p] = [Run(p, "code", s) EXCEPT !.pc = "call"]]
    /\ rows' = [rows EXCEPT ![s] = Exchanging(@, now)]
    /\ UNCHANGED <<creds, now, issued, faults, restarts, spent, granted, bad>>

Load(p, kind, s) ==
    /\ procs[p].pc = "idle"
    /\ procs' = [procs EXCEPT ![p] = [Run(p, kind, s) EXCEPT !.pc = "read"]]
    /\ UNCHANGED <<rows, creds, now, issued, faults, restarts, spent, granted, bad>>

\* PollCredentialDeviceAuthorization up to the claim: too early is no poll.
LoadPoll(p, s) ==
    /\ rows[s].method = "device" /\ rows[s].status = "pending"
    /\ now < rows[s].expires /\ rows[s].nextPoll <= now
    /\ Load(p, "poll", s)

\* prepareReadySubscriptionStageCredential for discovery.
LoadRefresh(p, s) ==
    /\ rows[s].status = "ready" /\ now < rows[s].expires
    /\ Load(p, "refresh", s)

\* GetCredentialStage, where it finds the stage expired.
LoadGet(p, s) ==
    /\ rows[s].status \in Live /\ rows[s].expires <= now
    /\ Load(p, "get", s)

\* The WHERE clauses of the claims.
Claimable(q) ==
    LET row == rows[q.stage] IN
    CASE q.kind = "poll" -> row.method = "device" /\ row.status = "pending" /\ q.at < row.expires
      [] q.kind = "refresh" -> row.status = "ready" /\ row.payload = q.row.payload /\ now < row.expires
      [] OTHER -> FALSE

Claim(p) ==
    LET q == procs[p] IN
    /\ q.pc = "read" /\ q.kind \in {"poll", "refresh"}
    /\ IF Claimable(q)
       THEN /\ rows' = [rows EXCEPT ![q.stage] = Exchanging(@, IF q.kind = "poll" THEN q.at ELSE now)]
            /\ procs' = [procs EXCEPT ![p].pc = "call"]
       ELSE procs' = [procs EXCEPT ![p] = Idle] /\ UNCHANGED rows
    /\ bad' = IF Claimable(q) /\ q.kind = "poll" /\ now < rows[q.stage].nextPoll THEN bad \cup {"early poll"} ELSE bad
    /\ UNCHANGED <<creds, now, issued, faults, restarts, spent, granted>>

\* expireCredentialStage: only if the status is still the one that was read.
ExpireRead(p) ==
    LET q == procs[p] IN
    /\ q.pc = "read" /\ q.kind = "get"
    /\ rows' = IF rows[q.stage].status = q.row.status THEN [rows EXCEPT ![q.stage] = Expired(@)] ELSE rows
    /\ procs' = [procs EXCEPT ![p] = Idle]
    /\ UNCHANGED <<creds, now, issued, faults, restarts, spent, granted, bad>>

Answers(kind) ==
    CASE kind = "code" -> {"ok", "denied", "unknown"}
      [] kind = "poll" -> {"ok", "pending", "denied", "expired", "unknown"}
      [] kind = "refresh" -> {"ok", "retry", "denied", "unknown"}

\* The provider: a code works once, a device state until it is answered, a
\* refresh token is redeemed unless the failure was a retryable one.
Call(p) ==
    LET q == procs[p] IN
    /\ q.pc = "call"
    /\ \E answer \in Answers(q.kind), keep \in BOOLEAN :       \* a pending poll may keep the driver state
         /\ keep => answer = "pending"
         /\ answer \in {"ok", "pending"} /\ ~keep => issued < MaxTokens
         /\ issued' = IF answer \in {"ok", "pending"} /\ ~keep THEN issued + 1 ELSE issued
         /\ procs' = [procs EXCEPT ![p].pc = "finish", ![p].answer = answer,
                                   ![p].token = IF keep THEN q.row.payload ELSE issued']
         /\ spent' = IF q.kind = "refresh" /\ answer # "retry" THEN spent \cup {q.row.payload} ELSE spent
         /\ granted' = IF q.kind # "refresh" /\ answer # "pending" THEN granted \cup {q.stage} ELSE granted
    /\ bad' = bad \cup (IF q.kind # "refresh" /\ q.stage \in granted THEN {"grant used again"} ELSE {})
                  \cup (IF q.kind = "refresh" /\ q.row.payload \in spent THEN {"token redeemed again"} ELSE {})
    /\ UNCHANGED <<rows, creds, now, faults, restarts>>

\* What the row becomes: finishCredentialStageExchange, ...Refresh,
\* ...RefreshRetryable, finishPendingDeviceAuthorization and the failures.
Finished(q, row, a) ==
    CASE q.answer = "ok" /\ q.kind # "refresh" ->
             [row EXCEPT !.status = "ready", !.payload = q.token, !.account = {a}, !.expires = now + ReadyTTL, !.updated = now]
      [] q.answer = "ok" /\ q.kind = "refresh" ->
             [row EXCEPT !.status = "ready", !.payload = q.token, !.expires = q.row.expires, !.updated = now]
      [] q.answer = "pending" ->
             [row EXCEPT !.status = "pending", !.payload = q.token, !.expires = q.row.expires,
                         !.nextPoll = now + Interval, !.updated = now]
      [] q.answer = "retry" -> [row EXCEPT !.status = "ready", !.expires = q.row.expires, !.updated = now]
      [] q.answer = "denied" -> Ended(row, "failed")
      [] q.answer = "expired" -> Ended(row, "expired")
      [] q.answer = "unknown" -> Ended(row, "unknown")

\* An outcome that could not be stored is marked unknown by some callers.
MarksAfterFailure(q) == q.answer = "ok" /\ q.kind \in {"code", "refresh"}

Owned(s) == rows[s].status = "exchanging"

Finish(p) ==
    LET q == procs[p]
        leave(ok) == procs' = [procs EXCEPT ![p] = IF ~ok /\ MarksAfterFailure(q) THEN [q EXCEPT !.pc = "mark"] ELSE Idle]
    IN  /\ q.pc = "finish"
        /\ \/ /\ \E a \in Accounts :
                   rows' = IF Owned(q.stage) THEN [rows EXCEPT ![q.stage] = Finished(q, @, a)] ELSE rows
              /\ leave(Owned(q.stage)) /\ UNCHANGED faults
           \/ /\ faults < MaxFaults /\ faults' = faults + 1       \* reported as failed
              /\ \/ UNCHANGED rows
                 \/ Owned(q.stage) /\ \E a \in Accounts : rows' = [rows EXCEPT ![q.stage] = Finished(q, @, a)]
              /\ leave(FALSE)
        /\ UNCHANGED <<creds, now, issued, restarts, spent, granted, bad>>

\* markCredentialStageOutcomeUnknown, finishCredentialStageRefreshFailure.
Mark(p) ==
    LET q == procs[p] IN
    /\ q.pc = "mark"
    /\ rows' = IF rows[q.stage].status = "exchanging" THEN [rows EXCEPT ![q.stage] = Ended(@, "unknown")] ELSE rows
    /\ procs' = [procs EXCEPT ![p] = Idle]
    /\ UNCHANGED <<creds, now, issued, faults, restarts, spent, granted, bad>>

-----------------------------------------------------------------------------
(* Connecting.                                                              *)

\* loadConsumableCredentialStages.
\* Mutant: a stage is consumed although an exchange is under way.
ConsumableAnyLive(s) == rows[s].status \in {"ready", "exchanging"} /\ rows[s].account # {} /\ now < rows[s].expires

Consumable(s) == rows[s].status = "ready" /\ now < rows[s].expires

\* classifyCredentialStages: healthy accounts and repeated ones are skipped.
\* Mutant: an existing credential is replaced whatever its state.
TakesAnyAccount(S, s, g) == \A t \in S : t < s => rows[t].account # rows[s].account

Takes(S, s, g) ==
    /\ \A a \in rows[s].account : creds[g][a].auth \in {"none", "reauthorize"}
    /\ \A t \in S : t < s => rows[t].account # rows[s].account

Consumed(S, s, g) == Ended(rows[s], "consumed")

\* consumeCredentialStages, one transaction.
consumeCredentialStages(S, g) ==
    /\ \A s \in S : Consumable(s)
    /\ creds' = [creds EXCEPT ![g] = [a \in Accounts |->
           IF \E s \in S : rows[s].account = {a} /\ Takes(S, s, g)
           THEN [auth |-> "ready", version |-> creds[g][a].version + 1,
                 token |-> rows[CHOOSE s \in S : rows[s].account = {a} /\ Takes(S, s, g)].payload]
           ELSE creds[g][a]]]
    /\ rows' = [s \in Stages |-> IF s \in S THEN Consumed(S, s, g) ELSE rows[s]]
    /\ UNCHANGED <<procs, now, issued, faults, restarts, spent, granted, bad>>

\* The account stops working: a new stage may repair it.
NeedsReauthorization(g, a) ==
    /\ creds[g][a].auth = "ready" /\ creds[g][a].version < 2
    /\ creds' = [creds EXCEPT ![g][a].auth = "reauthorize"]
    /\ UNCHANGED <<rows, procs, now, issued, faults, restarts, spent, granted, bad>>

-----------------------------------------------------------------------------
\* EnsureInitialState: what was under way is of unknown outcome.
Restarted(row) == IF row.status = "exchanging" THEN Ended(row, "unknown") ELSE row

Restart ==
    /\ restarts < MaxRestarts
    /\ restarts' = restarts + 1
    /\ procs' = [p \in Procs |-> Idle]
    /\ rows' = [s \in Stages |-> Restarted(rows[s])]
    /\ UNCHANGED <<creds, now, issued, faults, spent, granted, bad>>

Tick == now < MaxTime /\ now' = now + 1 /\ UNCHANGED <<rows, creds, procs, issued, faults, restarts, spent, granted, bad>>

Handler(p) == Claim(p) \/ ExpireRead(p) \/ Call(p) \/ Finish(p) \/ Mark(p)

Start(p, s) == CompleteAuthorization(p, s) \/ LoadPoll(p, s) \/ LoadRefresh(p, s) \/ LoadGet(p, s)

Next ==
    \/ \E s \in Stages :
          \/ beginBrowserCredentialAuthorization(s) \/ beginDeviceCredentialAuthorization(s)
          \/ \E a \in Accounts : persistReadyCredentialStage(s, a)
          \/ failCredentialAuthorization(s) \/ CancelCredentialStage(s)
    \/ CleanupCredentialStages
    \/ \E p \in Procs : Handler(p) \/ \E s \in Stages : Start(p, s)
    \/ \E S \in SUBSET Stages \ {{}}, g \in Groups : consumeCredentialStages(S, g)
    \/ \E g \in Groups, a \in Accounts : NeedsReauthorization(g, a)
    \/ Restart \/ Tick

Spec == Init /\ [][Next]_vars

\* The cleaner runs every minute.
Fairness == WF_vars(CleanupCredentialStages) /\ WF_vars(Tick)

FairSpec == Spec /\ Fairness

-----------------------------------------------------------------------------
(* Properties.                                                              *)

(* A one-shot authorization is presented to the provider once, and a token    *)
(* that was redeemed is not redeemed again: whatever handlers overlap, fail    *)
(* or are cut off by a restart.                                                *)
OneShot == bad \cap {"grant used again", "token redeemed again"} = {}

(* A stage that can be connected holds a token the provider has not taken back; *)
(* so does every credential made from a stage.                                  *)
ReadyIsUnspent ==
    /\ \A s \in Stages : rows[s].status = "ready" => rows[s].payload # 0 /\ rows[s].payload \notin spent
    /\ \A g \in Groups, a \in Accounts : creds[g][a].token \notin spent

(* A token is in one place: it is staged or belongs to one credential.          *)
TokensAreNotShared ==
    /\ \A s, t \in Stages : s # t /\ rows[s].payload # 0 => rows[s].payload # rows[t].payload
    /\ \A s \in Stages, g \in Groups, a \in Accounts : rows[s].payload # 0 => rows[s].payload # creds[g][a].token
    /\ \A g, h \in Groups, a, b \in Accounts :
          <<g, a>> # <<h, b>> /\ creds[g][a].token # 0 => creds[g][a].token # creds[h][b].token

(* A stage that ended keeps no secret.                                          *)
EndedIsEmpty == \A s \in Stages : rows[s].status \in Terminal => rows[s].payload = 0 /\ ~rows[s].hash

(* Connecting never takes the token of a credential that works.                 *)
HealthyIsKept ==
    \A g \in Groups, a \in Accounts : creds[g][a].auth = "ready" => creds'[g][a].token = creds[g][a].token

(* The secret of a stage does not stay: it is consumed, cancelled or removed     *)
(* some time after it expired (if that is before the end of the modelled time).   *)
SecretsGo ==
    \A s \in Stages : rows[s].payload # 0 ~> rows[s].payload = 0 \/ rows[s].expires > MaxTime

(* Calling PollCredentialDeviceAuthorization before the interval the stage        *)
(* advertises does not ask the provider (comment at credential_stages.go:996).     *)
PollsKeepTheInterval == "early poll" \notin bad
=============================================================================
