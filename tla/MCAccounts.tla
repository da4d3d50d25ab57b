----------------------------- MODULE MCAccounts -----------------------------
(* The instances of the credential manager and of the authorization stages *)
(* that TLC checks. They share no state: Init chooses a part, every step   *)
(* is one of that part, and the variables of the other stay Off.           *)
EXTENDS Integers, TLC

CONSTANTS c1, c2, c3, p1, p2, p3, a1, a2, g1, g2, Off

VARIABLE part     \* the part Init chose

-----------------------------------------------------------------------------
(* CredentialManager: two callers that refresh one account, of every kind, *)
(* with two faults and a change of target; two callers in a group of two   *)
(* accounts, with a fault.                                                 *)
VARIABLES db, reg, target, stripe, pending, issued, valid, spent, pc, call, faults, behind

Faults == INSTANCE CredentialManager WITH Creds <- {c3}, Callers <- {p1, p2},
        CallKinds <- {"prepare", "forced", "control", "controlForced", "recovery"},
        MaxVer <- 2, MaxTarget <- 1, MaxFaults <- 2
Group == INSTANCE CredentialManager WITH Creds <- {c1, c2}, Callers <- {p1, p2},
        CallKinds <- {"controlForced"}, MaxVer <- 2, MaxTarget <- 0, MaxFaults <- 1

-----------------------------------------------------------------------------
(* CredentialStages: one stage of any method and two processes that handle *)
(* it, one of which may fail; two stages of files that are consumed into   *)
(* two groups.                                                             *)
VARIABLES rows, creds, procs, now, granted2, stageFaults, restarts, stageSpent, granted,
          bad

Stage == INSTANCE CredentialStages WITH Stages <- {1}, Procs <- {p1, p2}, Accounts <- {a1},
        Groups <- {g1}, Methods <- {"browser", "device", "file"}, MaxTime <- 3,
        MaxFaults <- 1, AuthTTL <- 2, ReadyTTL <- 2, ExchangeTTL <- 1, Interval <- 1,
        TombstoneTTL <- 1, MaxTokens <- 4, MaxRestarts <- 1, issued <- granted2,
        faults <- stageFaults, spent <- stageSpent
Connect == INSTANCE CredentialStages WITH Stages <- {1, 2}, Procs <- {p3},
        Accounts <- {a1, a2}, Groups <- {g1, g2}, Methods <- {"file"}, MaxTime <- 2,
        MaxFaults <- 0, AuthTTL <- 2, ReadyTTL <- 1, ExchangeTTL <- 1, Interval <- 1,
        TombstoneTTL <- 1, MaxTokens <- 4, MaxRestarts <- 1, issued <- granted2,
        faults <- stageFaults, spent <- stageSpent

-----------------------------------------------------------------------------
credentialManagerVars == <<db, reg, target, stripe, pending, issued, valid, spent, pc,
                           call, faults, behind>>
credentialStagesVars == <<rows, creds, procs, now, granted2, stageFaults, restarts,
                          stageSpent, granted, bad>>
NoCredentialManager ==
  /\ db = Off /\ reg = Off /\ target = Off /\ stripe = Off /\ pending = Off
  /\ issued = Off /\ valid = Off /\ spent = Off /\ pc = Off /\ call = Off /\ faults = Off
  /\ behind = Off
NoCredentialStages ==
  /\ rows = Off /\ creds = Off /\ procs = Off /\ now = Off /\ granted2 = Off
  /\ stageFaults = Off /\ restarts = Off /\ stageSpent = Off /\ granted = Off
  /\ bad = Off

suiteVars == <<part, credentialManagerVars, credentialStagesVars>>

ASSUME
  /\ Faults!ConstantsAssumption
  /\ Group!ConstantsAssumption
  /\ Stage!StagesAssumption
  /\ Connect!StagesAssumption

Init ==
  \/ part = "faults" /\ Faults!Init /\ NoCredentialStages
  \/ part = "group" /\ Group!Init /\ NoCredentialStages
  \/ part = "stage" /\ Stage!Init /\ NoCredentialManager
  \/ part = "connect" /\ Connect!Init /\ NoCredentialManager

Next ==
  \/ part = "faults" /\ Faults!Next /\ UNCHANGED <<part, credentialStagesVars>>
  \/ part = "group" /\ Group!Next /\ UNCHANGED <<part, credentialStagesVars>>
  \/ part = "stage" /\ Stage!Next /\ UNCHANGED <<part, credentialManagerVars>>
  \/ part = "connect" /\ Connect!Next /\ UNCHANGED <<part, credentialManagerVars>>

Spec == Init /\ [][Next]_suiteVars

Symmetric == Permutations({c1, c2}) \cup Permutations({p1, p2})

-----------------------------------------------------------------------------
\* CredentialManager: the refresh token of an account that counts as ready was not spent.
ReadyIsUnspent == part = "faults" => Faults!ReadyIsUnspent

\* A token goes to the provider once, and to the target its refresh was begun for.
NoAutomaticReplay ==
    \* CredentialManager: only an explicit recovery exchanges a token whose fate is
    \*   unknown.
    /\ part = "faults" => Faults!NoAutomaticReplay
    \* CredentialManager: an exchange goes to the target it was begun for.
    /\ part = "faults" => Faults!SameTarget

\* CredentialManager: what the gateway serves is what the database holds.
ServedIsDurable ==
  /\ (part = "faults") => Faults!ServedIsDurable
  /\ (part = "group") => Group!ServedIsDurable

\* CredentialStages: connecting never takes the token of a credential that works.
HealthyIsKept == [][part = "connect" => Connect!HealthyIsKept]_suiteVars

\* What a stage obtained is used once and kept no longer than needed, whoever polls,
\* consumes, cancels or restarts meanwhile.
StagesAreUsedOnce ==
    \* CredentialStages: every variable has its type.
    /\ part = "stage" => Stage!TypeOK
    \* CredentialStages: a code, a device grant and a stage are used at most once.
    /\ part = "stage" => Stage!OneShot
    \* CredentialStages: what a ready stage holds was not given to a credential.
    /\ part = "stage" => Stage!ReadyIsUnspent
    /\ part = "connect" => Connect!ReadyIsUnspent
    \* CredentialStages: a stage that ended keeps no secret.
    /\ part = "stage" => Stage!EndedIsEmpty
    /\ part = "connect" => Connect!EndedIsEmpty
    \* CredentialStages: no two credentials hold the same token.
    /\ part = "connect" => Connect!TokensAreNotShared
=============================================================================
