------------------------------ MODULE MCQuota -------------------------------
(* The instances of AccessQuota that TLC checks. Part "restore" is the     *)
(* module with the constants of the configuration: one rule with two       *)
(* periods, through restarts and saturated generations. The other parts    *)
(* are instances over a second copy of the variables: two requests at the  *)
(* boundary of a window, a rule that lasts for ever, and two periodic      *)
(* rules of one key that block together (there the checkpoint worker       *)
(* rests).                                                                 *)
EXTENDS AccessQuota, TLC

CONSTANTS q1, q2, Off

VARIABLE part     \* the part Init chose

OneKey == [r \in Rules |-> 1]
BothOfOneKey == <<1, 1>>
SomeCosts == {-1, 1}

-----------------------------------------------------------------------------
(* The second copy of the variables.                                       *)
VARIABLES now2, ruleRow2, stateRow2, created2, publishing2, entry2, req2, wpc2, scan2,
          batch2, wake2

Boundary == INSTANCE AccessQuota WITH Keys <- {1}, Rules <- {1}, Owner <- <<1>>,
        PeriodicRules <- {1}, Limits <- {1}, Periods <- {1}, Costs <- {1},
        Requests <- {q1, q2}, MaxInt64 <- 1, MaxUint64 <- 3, BatchLimit <- 1, MaxTime <- 1,
        now <- now2, ruleRow <- ruleRow2, stateRow <- stateRow2, created <- created2,
        publishing <- publishing2, entry <- entry2, req <- req2, wpc <- wpc2,
        scan <- scan2, batch <- batch2, wake <- wake2
Kinds == INSTANCE AccessQuota WITH Keys <- {1}, Rules <- {1}, Owner <- <<1>>,
        PeriodicRules <- {}, Limits <- {1}, Periods <- {1}, Costs <- {1}, Requests <- {q1},
        MaxInt64 <- 2, MaxUint64 <- 2, BatchLimit <- 1, MaxTime <- 1, now <- now2,
        ruleRow <- ruleRow2, stateRow <- stateRow2, created <- created2,
        publishing <- publishing2, entry <- entry2, req <- req2, wpc <- wpc2,
        scan <- scan2, batch <- batch2, wake <- wake2
Retry == INSTANCE AccessQuota WITH Keys <- {1}, Rules <- {1, 2}, Owner <- BothOfOneKey,
        PeriodicRules <- {1, 2}, Limits <- {1}, Periods <- {1, 2}, Costs <- {1},
        Requests <- {q1}, MaxInt64 <- 1, MaxUint64 <- 2, BatchLimit <- 1, MaxTime <- 2,
        now <- now2, ruleRow <- ruleRow2, stateRow <- stateRow2, created <- created2,
        publishing <- publishing2, entry <- entry2, req <- req2, wpc <- wpc2,
        scan <- scan2, batch <- batch2, wake <- wake2

-----------------------------------------------------------------------------
accessQuotaVars == <<now2, ruleRow2, stateRow2, created2, publishing2, entry2, req2, wpc2,
                     scan2, batch2, wake2>>
NoAccessQuota ==
  /\ now2 = Off /\ ruleRow2 = Off /\ stateRow2 = Off /\ created2 = Off
  /\ publishing2 = Off /\ entry2 = Off /\ req2 = Off /\ wpc2 = Off /\ scan2 = Off
  /\ batch2 = Off /\ wake2 = Off

suiteVars == <<part, vars, accessQuotaVars>>

SuiteInit ==
  \/ part = "restore" /\ Init /\ NoAccessQuota
  \/ part = "window" /\ Boundary!Init /\ Init
  \/ part = "kinds" /\ Kinds!Init /\ Init
  \/ part = "retry" /\ Retry!Init /\ Init

SuiteNext ==
  \/ part = "restore" /\ Next /\ UNCHANGED <<part, accessQuotaVars>>
  \/ part = "window" /\ Boundary!Next /\ UNCHANGED <<part, vars>>
  \/ part = "kinds" /\ Kinds!Next /\ UNCHANGED <<part, vars>>
  \/ part = "retry" /\ Retry!Next /\ wpc2' = wpc2 /\ UNCHANGED <<part, vars>>

SuiteSpec == SuiteInit /\ [][SuiteNext]_suiteVars

-----------------------------------------------------------------------------
\* NextAvailableIsExact of two periodic rules: a refused key is told the first time at
\* which it is admitted.
RetryTimeIsExact == part = "retry" => Retry!NextAvailableIsExact

\* Usage grows and shrinks only with the window and the revision it belongs to.
SpendingIsHonest == [][
    \* ChargesOwnWindow of two requests: usage grows only by a request admitted into the
    \*   very window and revision.
    /\ part = "window" => Boundary!ChargesOwnWindow
    \* SpendingIsKept: short of a crash, spending is forgotten only with its window or
    \*   revision.
    /\ part = "kinds" => Kinds!SpendingIsKept
    /\ part = "retry" => Retry!SpendingIsKept
    ]_suiteVars
=============================================================================
