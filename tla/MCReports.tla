----------------------------- MODULE MCReports ------------------------------
(* The instances of the usage reports and the request log queries that TLC *)
(* checks. They share no state: Init chooses a part, every step is one of  *)
(* that part, and the variables of the others stay Off.                    *)
EXTENDS Integers, Sequences

CONSTANTS Off

VARIABLE part     \* the part Init chose

-----------------------------------------------------------------------------
(* UsageReports: rows of every kind in two groups, attempts on one         *)
(* credential, windows that a sweep overtakes.                             *)
VARIABLES now, keep, written, logs, audits, stats, attemptStats, sweep, reader, reach,
          overtaken

Kind(status, usage, cost, comp, unit, group, dec, audit, out) ==
  [status |-> status, attempts |-> TRUE, search |-> FALSE, usage |-> usage, cost |-> cost,
   comp |-> comp, unit |-> unit, group |-> group, dec |-> dec, dgroup |-> 1,
   audit |-> audit, out |-> out]

Priced   == Kind("success", "complete", "priced", "partial", "token", 1, "not_applicable", <<>>, "ok")
Unpriced == Kind("success", "partial", "unpriced", "unavailable", "token", 2, "unavailable", <<"partial", "unavailable">>, "ok")
Missing  == Kind("error", "missing", "unpriced", "unavailable", "token", 1, "partial", <<"unavailable">>, "failed")
Charged  == Kind("success", "missing", "priced", "complete", "request", 1, "not_applicable", <<>>, "ok")
Uncharged == Kind("success", "missing", "unpriced", "unavailable", "request", 1, "unavailable", <<"unavailable">>, "ok")
Search   == [Priced EXCEPT !.search = TRUE]
Unbound  == [Kind("error", "not_applicable", "not_applicable", "not_applicable", "token", 0,
                  "complete", <<>>, "local") EXCEPT !.attempts = FALSE]
Canceled == [Missing EXCEPT !.out = "cancel"]

Exact == INSTANCE UsageReports WITH Hour <- 2, MinuteSpan <- 2, Steps <- <<<<3, 2>>>>,
        Day <- 4, MonthSpan <- 4, Retentions <- {1},
        Kinds <- {Priced, Unpriced, Missing, Charged, Uncharged, Search, Unbound},
        Groups <- {1, 2}, Earlier <- {}, Windows <- {}, MaxRows <- 2, MaxTime <- 4
Wide == INSTANCE UsageReports WITH Hour <- 2, MinuteSpan <- 2,
        Steps <- <<<<3, 2>>, <<5, 4>>>>, Day <- 6, MonthSpan <- 6, Retentions <- {3},
        Kinds <- {Uncharged}, Groups <- {1}, Earlier <- {}, Windows <- {}, MaxRows <- 2,
        MaxTime <- 7
Tries == INSTANCE UsageReports WITH Hour <- 2, MinuteSpan <- 2, Steps <- <<<<3, 2>>>>,
        Day <- 4, MonthSpan <- 4, Retentions <- {1}, Kinds <- {Priced, Canceled, Search},
        Groups <- {1}, Earlier <- {"failed", "local"}, Windows <- {}, MaxRows <- 2,
        MaxTime <- 4
Complete == INSTANCE UsageReports WITH Hour <- 2, MinuteSpan <- 2, Steps <- <<<<3, 2>>>>,
        Day <- 4, MonthSpan <- 4, Retentions <- {2, 4}, Kinds <- {Missing, Uncharged},
        Groups <- {1}, Earlier <- {}, Windows <- {<<0, 4>>, <<1, 4>>, <<0, 3>>},
        MaxRows <- 2, MaxTime <- 4

-----------------------------------------------------------------------------
(* LogQueries: full events for single rows, plain events for walks, two    *)
(* keys for scoped views.                                                  *)
VARIABLES table, used, keys, r

Attempt(w, m) == [who |-> w, mode |-> "direct", model |-> m]
Converted(w, m) == [who |-> w, mode |-> "converted", model |-> m]

\* A plain successful request with n attempts on one identity.
Plain(n) ==
  [status |-> "success", model |-> "m", reported |-> "m", cons |-> "match",
   usage |-> "complete", unit |-> "token", cost |-> "priced", comp |-> "complete", amt |-> 1,
   bound |-> 1, receipt |-> TRUE, dec |-> {}, audit |-> {},
   attempts |-> [i \in 1..n |-> IF i = 1 THEN Attempt("a", "m") ELSE Converted("a", "m")]]

Prices == {[cost |-> "priced", comp |-> "complete", amt |-> 1],
           [cost |-> "priced", comp |-> "partial", amt |-> 1],
           [cost |-> "unpriced", comp |-> "unavailable", amt |-> 0],
           [cost |-> "not_applicable", comp |-> "not_applicable", amt |-> 0]}

\* Audit calls that are priced, unpriced, both, or none.
CallSeqs == {<<>>} \cup {<<p>> : p \in Prices} \cup {<<p, q>> : p \in Prices, q \in Prices}

Audit(s, why, m, c) == [status |-> s, reason |-> why, mode |-> m, calls |-> c]

Reviews == {Audit(s, "", "", <<>>) : s \in {"passed", "warned", "blocked"}}
           \cup {Audit("incomplete", why, "", <<>>) : why \in {"content_truncated", "timeout"}}
           \cup {Audit(s, "", m, <<>>) : s \in {"matched", "passed", "incomplete"}, m \in {"observe", "enforce"}}

\* Every price of the answer, the decision and up to two audit calls.
PriceEvents ==
  {[Plain(1) EXCEPT !.usage = IF p.cost = "not_applicable" THEN "not_applicable" ELSE "complete",
                    !.cost = p.cost, !.comp = p.comp, !.amt = p.amt, !.receipt = FALSE,
                    !.dec = d, !.audit = a] :
     p \in Prices, d \in {{}} \cup {{x} : x \in Prices},
     a \in {{}} \cup {{Audit("passed", "", "", c)} : c \in CallSeqs}}

ReviewEvents == {[Plain(1) EXCEPT !.audit = {a}] : a \in Reviews}

Shapes(m) == {<<Attempt("b", m), Attempt("a", m)>>,
              <<Attempt("a", m), Converted("a", m), Attempt("b", m)>>}

\* Every model observation, with attempts of two identities.
ModelEvents(models) ==
  {[Plain(1) EXCEPT !.status = s, !.model = m, !.reported = p, !.cons = c, !.bound = b, !.receipt = rc,
                    !.usage = u, !.cost = IF u = "complete" /\ rc THEN "priced"
                                          ELSE IF u = "not_applicable" THEN u ELSE "unpriced",
                    !.comp = IF u = "complete" /\ rc THEN "complete"
                             ELSE IF u = "not_applicable" THEN u ELSE "unavailable",
                    !.amt = IF u = "complete" /\ rc THEN 1 ELSE 0,
                    !.attempts = as] :
     s \in {"success", "error"}, m \in models, p \in models, c \in {"not_applicable", "unknown", "match", "mismatch"},
     b \in {0, 1, 3}, rc \in BOOLEAN, u \in {"complete", "missing", "not_applicable"},
     as \in UNION {Shapes(x) : x \in models}}

\* Every answer with a price per request.
UnitEvents ==
  {[Plain(1) EXCEPT !.unit = "request", !.status = s, !.usage = u, !.receipt = rc,
                    !.cost = p.cost, !.comp = p.comp, !.amt = p.amt] :
     s \in {"success", "error"}, u \in {"complete", "partial", "missing", "not_applicable"},
     rc \in BOOLEAN, p \in Prices}

RowEvents == PriceEvents \cup ReviewEvents \cup UnitEvents \cup ModelEvents({"", "m", "sk"})

BlindEvents == {Plain(1), Plain(2), [Plain(1) EXCEPT !.attempts = <<Attempt("b", "m")>>],
                [Plain(1) EXCEPT !.reported = "n", !.cons = "mismatch"]}

NoFilter == [from |-> {}, to |-> {}, who |-> {}, cons |-> {}, key |-> {}, retried |-> {},
             cost |-> {}, comp |-> {}, audit |-> {}, cmin |-> {}, cmax |-> {},
             limit |-> {}, page |-> {}, size |-> {}]

OneByOne == [NoFilter EXCEPT !.limit = {1}]

WalkQueries == {OneByOne, NoFilter, [OneByOne EXCEPT !.from = {1}, !.to = {2}],
                [NoFilter EXCEPT !.page = {2}, !.size = {1}]}

BlindQueries == {NoFilter, [NoFilter EXCEPT !.retried = {TRUE}], [NoFilter EXCEPT !.who = {"a"}],
                 [NoFilter EXCEPT !.cons = {"match"}], [NoFilter EXCEPT !.cost = {"priced"}],
                 [NoFilter EXCEPT !.comp = {"complete"}], [NoFilter EXCEPT !.cmin = {1}, !.cmax = {2}]}

Rows == INSTANCE LogQueries WITH Secretlike <- {"sk"}, Ids <- {1}, Times <- {1},
        Keys <- {1}, Events <- RowEvents, Queries <- {NoFilter}, Scopes <- {{}}
Walk == INSTANCE LogQueries WITH Secretlike <- {"sk"}, Ids <- {1, 2, 3}, Times <- {1, 2},
        Keys <- {1}, Events <- {Plain(2)}, Queries <- WalkQueries, Scopes <- {{}}
Scoped == INSTANCE LogQueries WITH Secretlike <- {"sk"}, Ids <- {1, 2}, Times <- {1},
        Keys <- {1, 2}, Events <- BlindEvents, Queries <- BlindQueries,
        Scopes <- {{}, {1}, {2}}

-----------------------------------------------------------------------------
usageReportsVars == <<now, keep, written, logs, audits, stats, attemptStats, sweep, reader,
                      reach, overtaken>>
logQueriesVars == <<table, used, keys, r>>
NoUsageReports ==
  /\ now = Off /\ keep = Off /\ written = Off /\ logs = Off /\ audits = Off
  /\ stats = Off /\ attemptStats = Off /\ sweep = Off /\ reader = Off /\ reach = Off
  /\ overtaken = Off
NoLogQueries ==
  /\ table = Off /\ used = Off /\ keys = Off /\ r = Off

suiteVars == <<part, usageReportsVars, logQueriesVars>>

ASSUME
  /\ Exact!KindsAssumption
  /\ Wide!KindsAssumption
  /\ Tries!KindsAssumption
  /\ Complete!KindsAssumption
  /\ Rows!OrderedAssumption
  /\ Walk!OrderedAssumption
  /\ Scoped!OrderedAssumption

Init ==
  \/ part = "exact" /\ Exact!Init /\ NoLogQueries
  \/ part = "wide" /\ Wide!Init /\ NoLogQueries
  \/ part = "tries" /\ Tries!Init /\ NoLogQueries
  \/ part = "complete" /\ Complete!Init /\ NoLogQueries
  \/ part = "rows" /\ Rows!Init /\ NoUsageReports
  \/ part = "walk" /\ Walk!Init /\ NoUsageReports
  \/ part = "scoped" /\ Scoped!Init /\ NoUsageReports

Next ==
  \/ part = "exact" /\ Exact!Next /\ UNCHANGED <<part, logQueriesVars>>
  \/ part = "wide" /\ Wide!Next /\ UNCHANGED <<part, logQueriesVars>>
  \/ part = "tries" /\ Tries!Next /\ UNCHANGED <<part, logQueriesVars>>
  \/ part = "complete" /\ Complete!Next /\ UNCHANGED <<part, logQueriesVars>>
  \/ part = "rows" /\ Rows!Next /\ UNCHANGED <<part, usageReportsVars>>
  \/ part = "walk" /\ Walk!Next /\ UNCHANGED <<part, usageReportsVars>>
  \/ part = "scoped" /\ Scoped!Next /\ UNCHANGED <<part, usageReportsVars>>

Spec == Init /\ [][Next]_suiteVars

-----------------------------------------------------------------------------
\* What a report says is what a scan of all requests would say, or it says that it is
\* incomplete.
ReportsAreExact ==
    \* UsageReports: every variable has its type.
    /\ part = "exact" => Exact!TypeOK
    \* UsageReports: a window counts the requests written in it.
    /\ part = "exact" => Exact!WindowIsExact
    /\ part = "wide" => Wide!WindowIsExact
    \* UsageReports: the points of a series add up to its total.
    /\ part = "exact" => Exact!SeriesIsTrue
    /\ part = "wide" => Wide!SeriesIsTrue
    \* UsageReports: the overview counts what was written.
    /\ part = "exact" => Exact!HomeIsExact
    /\ part = "wide" => Wide!HomeIsExact
    \* UsageReports: a request counts once in every group that took part.
    /\ part = "exact" => Exact!CountedOncePerRequest
    \* UsageReports: the activity of an account counts its attempts.
    /\ part = "tries" => Tries!ActivityIsExact
    \* UsageReports: a window called complete has lost no row.
    /\ part = "complete" => Complete!CompleteIsTrue
    \* UsageReports: an account card called complete has lost no row.
    /\ part = "complete" => Complete!ActivityCompleteIsTrue

\* What is written can be read, found by its filters and walked page by page, and an
\* access key sees its own rows only.
QueriesAreExact ==
    \* LogQueries: every variable has its type.
    /\ part = "walk" => Walk!TypeOK
    \* LogQueries: every row that is written can be read.
    /\ part = "rows" => Rows!WrittenIsReadable
    \* LogQueries: a row that can be read gives its receipt back.
    /\ part = "rows" => Rows!GetReturnsTheReceipt
    \* LogQueries: the cost filter selects the rows that show that cost.
    /\ part = "rows" => Rows!CostFilterAgrees
    \* LogQueries: the audit filter selects the rows that show that audit.
    /\ part = "rows" => Rows!AuditFilterAgrees
    \* LogQueries: the list and the single row agree.
    /\ part = "rows" => Rows!ListAgreesWithGet
    \* LogQueries: a cursor walk returns no row twice.
    /\ part = "walk" => Walk!WalkNeverRepeats
    \* LogQueries: a cursor walk misses no row that was there all along.
    /\ part = "walk" => Walk!WalkMissesNothing
    \* LogQueries: the number of pages fits the total.
    /\ part = "walk" => Walk!PagesCover
    \* LogQueries: a scoped view does not depend on the rows of others.
    /\ part = "scoped" => Scoped!ScopedIsBlind
    \* LogQueries: a scoped view shows the rows of its key.
    /\ part = "scoped" => Scoped!ScopedSeesOwn
=============================================================================
