---------------------------- MODULE MCScheduling ----------------------------
(* The instances of CredentialScheduling that TLC checks. Part "ledger" is *)
(* the module with the constants of the configuration: two groups that are *)
(* switched on, off and ranked, any pool, a credential that can be         *)
(* refreshed. The other parts are instances over a second copy of the      *)
(* variables: two credentials of groups with the weights 1 and 2, which    *)
(* stay, and three credentials of two groups that come back while two      *)
(* requests are routed, one by an older snapshot.                          *)
EXTENDS CredentialScheduling, TLC

CONSTANTS q1, q2, Off

VARIABLE part     \* the part Init chose

OwnGroup == [c \in Credentials |-> c]
Plain(on, all) == [on |-> on, priority |-> [g \in all |-> 0], weight |-> [g \in all |-> 1]]
Ranked == [on |-> Groups, priority |-> [g \in Groups |-> g], weight |-> [g \in Groups |-> 1]]
OneAndTwo == [on |-> {1, 2}, priority |-> <<0, 0>>, weight |-> <<1, 2>>]
OnOffOrRanked == {Plain({1}, Groups), Plain(Groups, Groups), Ranked}
AnyPool == SUBSET Credentials \ {{}}
LedgerIdle == Init /\ config.on = Groups /\ config.priority = [g \in Groups |-> 0]

-----------------------------------------------------------------------------
(* The second copy of the variables.                                       *)
VARIABLES now2, identity2, entry2, config2, member2, started2, watermark2, sequence2,
          streak2, pinned2, chosen2

Fair == INSTANCE CredentialScheduling WITH Credentials <- {1, 2}, Groups <- {1, 2},
        GroupOf <- <<1, 2>>, Weights <- {0, 1}, Configs <- {OneAndTwo},
        Requests <- {q1}, Pools <- {{1, 2}}, Refreshable <- {}, Preferences <- {0},
        Obstacles <- {"blacklisted"}, Scale <- 2, MaxProgress <- 10, MaxSequence <- 4,
        StreakStart <- 1, MaxWeight <- 2, MaxGeneration <- 1, MaxRevision <- 1,
        MaxTime <- 1, now <- now2, identity <- identity2, entry <- entry2,
        config <- config2, member <- member2, started <- started2, watermark <- watermark2,
        sequence <- sequence2, streak <- streak2, pinned <- pinned2, chosen <- chosen2
Join == INSTANCE CredentialScheduling WITH Credentials <- {1, 2, 3}, Groups <- {1, 2},
        GroupOf <- <<2, 1, 1>>, Weights <- {1},
        Configs <- {Plain({1}, {1, 2}), Plain({1, 2}, {1, 2})}, Requests <- {q1, q2},
        Pools <- {{1, 2, 3}}, Refreshable <- {}, Preferences <- {0},
        Obstacles <- {"refreshing"}, Scale <- 1, MaxProgress <- 2, MaxSequence <- 2,
        StreakStart <- 2, MaxWeight <- 1, MaxGeneration <- 1, MaxRevision <- 2,
        MaxTime <- 0, now <- now2, identity <- identity2, entry <- entry2,
        config <- config2, member <- member2, started <- started2, watermark <- watermark2,
        sequence <- sequence2, streak <- streak2, pinned <- pinned2, chosen <- chosen2

-----------------------------------------------------------------------------
credentialSchedulingVars == <<now2, identity2, entry2, config2, member2, started2,
                              watermark2, sequence2, streak2, pinned2, chosen2>>
NoCredentialScheduling ==
  /\ now2 = Off /\ identity2 = Off /\ entry2 = Off /\ config2 = Off /\ member2 = Off
  /\ started2 = Off /\ watermark2 = Off /\ sequence2 = Off /\ streak2 = Off
  /\ pinned2 = Off /\ chosen2 = Off

suiteVars == <<part, vars, credentialSchedulingVars>>

SuiteInit ==
  \/ part = "ledger" /\ Init /\ NoCredentialScheduling
  \/ part = "fair" /\ Fair!Init /\ LedgerIdle
  \/ part = "join" /\ Join!Init /\ LedgerIdle

SuiteNext ==
  \/ part = "ledger" /\ Next /\ UNCHANGED <<part, credentialSchedulingVars>>
  \/ part = "fair" /\ Fair!Next /\ UNCHANGED <<part, vars>>
  \/ part = "join" /\ Join!Next /\ UNCHANGED <<part, vars>>

SuiteSpec == SuiteInit /\ [][SuiteNext]_suiteVars

-----------------------------------------------------------------------------
\* SharesAreFair of two credentials of weights 1 and 2: both get what their weights say,
\* also after long runs were cut and one of them was away.
FairShares == part = "fair" => Fair!SharesAreFair

\* JoinsAtTheFront of three credentials and two requests: who comes back is not behind
\* those in service.
JoinsInFront == [][part = "join" => Join!JoinsAtTheFront]_suiteVars
=============================================================================
