------------------------------ MODULE MCStores ------------------------------
(* The instances of the request log, the admission limits, the request-    *)
(* per-minute store, the affinity cache and the bifrost executor that TLC  *)
(* checks. They share no state: SuiteInit chooses a part, every step is    *)
(* one of that part, the variables of the other parts stay Off and those   *)
(* of the request log, when it is not the part, at their initial value.    *)
(* The log has a channel of one for two events, batches of two, three      *)
(* rules of which a batch leaves one behind, and two callers of Stop.      *)
EXTENDS RequestLog, TLC

CONSTANTS r1, r2, r3, t1, t2, Off

VARIABLE part     \* the part Init chose
VARIABLES pc     \* used by several parts

LogIdle == Init /\ dirty = {}

-----------------------------------------------------------------------------
(* RateLimits: g1 changes its account, g2 shares it with another rate and  *)
(* then disappears; one key whose rate is raised, lowered and lifted.      *)
VARIABLES now, cfg, global, keys, groups, accounts, windows, swept, held, rates, cleaned,
          admitted, refusal

Group(limit, pool, concurrency, rpm) ==
    [limit |-> limit, pool |-> pool, concurrency |-> concurrency, rpm |-> rpm]
SharedPools ==
    {[global |-> 3, key |-> ("k1" :> 2), rpm |-> <<>>,
      group |-> ("g1" :> Group(2, "a1", 2, 2)) @@ ("g2" :> Group(0, "a1", 0, 1))],
     [global |-> 2, key |-> ("k1" :> 0) @@ ("k2" :> 1), rpm |-> <<>>,
      group |-> ("g1" :> Group(1, "a2", 1, 0))]}
ChangingRates ==
    {[global |-> 0, key |-> <<>>, group |-> <<>>, rpm |-> ("k1" :> n) @@ ("k2" :> 1)] : n \in 0..2}

Permits == INSTANCE RateLimits WITH Requests <- {r1, r2, r3}, Accounts <- {"a1", "a2"},
        Configs <- SharedPools, Second <- 1, Minute <- 2, MaxNow <- 4
Rates == INSTANCE RateLimits WITH Requests <- {}, Accounts <- {}, Configs <- ChangingRates,
        Second <- 2, Minute <- 4, MaxNow <- 6

-----------------------------------------------------------------------------
(* RpmStore: the sliding window of three seconds; rows that are written    *)
(* late, pruned and written again; two sessions of the process and a query *)
(* beside the writer.                                                      *)
VARIABLES clock, w, buckets, rows, session, writer, purge, query, answer, log

Window == INSTANCE RpmStore WITH W <- 3, MaxNow <- 8, MaxLag <- 2, MaxRequests <- 3,
        MaxBuckets <- 4, MaxSessions <- 1, Retention <- 99, Queries <- FALSE, now <- clock
Rows == INSTANCE RpmStore WITH W <- 2, MaxNow <- 7, MaxLag <- 1, MaxRequests <- 3,
        MaxBuckets <- 4, MaxSessions <- 1, Retention <- 5, Queries <- FALSE, now <- clock
Query == INSTANCE RpmStore WITH W <- 2, MaxNow <- 3, MaxLag <- 1, MaxRequests <- 2,
        MaxBuckets <- 1, MaxSessions <- 2, Retention <- 2, Queries <- TRUE, now <- clock

-----------------------------------------------------------------------------
(* Affinity: two revisions; the second has less room, a shorter life and   *)
(* one group less.                                                         *)
VARIABLES cacheNow, published, revision, recent, nextVersion, req, writes

Cache == INSTANCE Affinity WITH Keys <- {"k1", "k2"}, Targets <- {t1, t2},
        Requests <- {r1, r2}, Capacity <- <<2, 1>>, Ttl <- <<2, 1>>,
        Enabled <- <<{t1, t2}, {t1}>>, MaxNow <- 3, MaxWrites <- 3, now <- cacheNow

-----------------------------------------------------------------------------
(* BifrostExecutor: plain and failing statuses, every error of the SDK, a  *)
(* sink that may fail, an upstream that may break its pieces.              *)
VARIABLES spec, parent, gate, stopped, raced, idle, sdk, sent, out, next, endOK, cur, nat,
          started, seqno, cl, events, sinkFailed, got, framed, passed, chunks, result

A(lane, alias, conv) == [lane |-> lane, alias |-> alias, conv |-> conv]
P(e, t) == [e |-> e, t |-> t]

NativeAttempts == {A("native", FALSE, FALSE)}
TypedAttempts == {A("chat", FALSE, FALSE), A("chat", FALSE, TRUE), A("resp", FALSE, TRUE)}
UnaryAttempts == {A("unary", FALSE, FALSE), A("unary", FALSE, TRUE), A("head", FALSE, FALSE),
                  A("typed", FALSE, FALSE), A("typed", FALSE, TRUE)}
AliasAttempts == {A("native", TRUE, FALSE), A("cline", TRUE, FALSE)}
ClineAttempts == {A("cline", FALSE, FALSE), A("cline", FALSE, TRUE)}

TypedPieces == {P("lf", "text"), P("lf", "bad"), P("lf", "delta")}
AllErrors == {"http", "canceled", "timedout", "dial", "preflight", "sdk", "capacity", "busy", "idleguard"}

Native == INSTANCE BifrostExecutor WITH Statuses <- {200, 429}, SdkErrors <- AllErrors,
        SinkMayFail <- TRUE, MayPart <- TRUE, MaxChunks <- 3, MaxBody <- 2,
        Attempts <- NativeAttempts,
        Pieces <- {P("no", "text"), P("lf", "text"), P("cr", "text"), P("lf", "comment"), P("lf", "huge")}
Alias == INSTANCE BifrostExecutor WITH Statuses <- {200, 429}, SdkErrors <- AllErrors,
        SinkMayFail <- TRUE, MayPart <- TRUE, MaxChunks <- 3, MaxBody <- 2,
        Attempts <- AliasAttempts,
        Pieces <- {P("no", "text"), P("lf", "text"), P("cr", "text"), P("lf", "comment"), P("lf", "bad")}
Typed == INSTANCE BifrostExecutor WITH Statuses <- {200, 429}, SdkErrors <- AllErrors,
        SinkMayFail <- TRUE, MayPart <- TRUE, MaxChunks <- 3, MaxBody <- 2,
        Attempts <- TypedAttempts, Pieces <- TypedPieces
Unary == INSTANCE BifrostExecutor WITH Statuses <- {200, 429}, SdkErrors <- AllErrors,
        SinkMayFail <- TRUE, MayPart <- TRUE, MaxChunks <- 3, MaxBody <- 2,
        Attempts <- UnaryAttempts, Pieces <- TypedPieces \cup {P("no", "encoded")}
Cline == INSTANCE BifrostExecutor WITH Statuses <- {200, 429}, SdkErrors <- AllErrors,
        SinkMayFail <- TRUE, MayPart <- TRUE, MaxChunks <- 2, MaxBody <- 2,
        Attempts <- ClineAttempts,
        Pieces <- {P("lf", "text"), P("no", "done"), P("lf", "done"), P("lf", "fin"), P("lf", "error"), P("lf", "bad")}

-----------------------------------------------------------------------------
rateLimitsVars == <<now, cfg, global, keys, groups, accounts, windows, swept, held, rates,
                    cleaned, admitted, refusal>>
rpmStoreVars == <<clock, w, buckets, rows, session, writer, purge, query, answer, log>>
affinityVars == <<cacheNow, published, revision, recent, nextVersion, req, writes>>
affibifrVars == <<pc>>
bifrostExecutorVars == <<spec, parent, gate, stopped, raced, idle, sdk, sent, out, next,
                         endOK, cur, nat, started, seqno, cl, events, sinkFailed, got,
                         framed, passed, chunks, result>>
NoRateLimits ==
  /\ now = Off /\ cfg = Off /\ global = Off /\ keys = Off /\ groups = Off
  /\ accounts = Off /\ windows = Off /\ swept = Off /\ held = Off /\ rates = Off
  /\ cleaned = Off /\ admitted = Off /\ refusal = Off
NoRpmStore ==
  /\ clock = Off /\ w = Off /\ buckets = Off /\ rows = Off /\ session = Off
  /\ writer = Off /\ purge = Off /\ query = Off /\ answer = Off /\ log = Off
NoAffinity ==
  /\ cacheNow = Off /\ published = Off /\ revision = Off /\ recent = Off
  /\ nextVersion = Off /\ req = Off /\ writes = Off
NoAffibifr ==
  /\ pc = Off
NoBifrostExecutor ==
  /\ spec = Off /\ parent = Off /\ gate = Off /\ stopped = Off /\ raced = Off
  /\ idle = Off /\ sdk = Off /\ sent = Off /\ out = Off /\ next = Off /\ endOK = Off
  /\ cur = Off /\ nat = Off /\ started = Off /\ seqno = Off /\ cl = Off /\ events = Off
  /\ sinkFailed = Off /\ got = Off /\ framed = Off /\ passed = Off /\ chunks = Off
  /\ result = Off

suiteVars == <<part, vars, rateLimitsVars, rpmStoreVars, affinityVars, affibifrVars, bifrostExecutorVars>>

ASSUME
  /\ Permits!ConstantsAssumption
  /\ Rates!ConstantsAssumption
  /\ Window!ConstantsAssumption
  /\ Rows!ConstantsAssumption
  /\ Query!ConstantsAssumption
  /\ Cache!ConstantsAssumption

SuiteInit ==
  \/ part = "log" /\ Init /\ NoRateLimits /\ NoRpmStore /\ NoAffinity /\ NoAffibifr
      /\ NoBifrostExecutor
  \/ part = "permits" /\ Permits!Init /\ LogIdle /\ NoRpmStore /\ NoAffinity /\ NoAffibifr
      /\ NoBifrostExecutor
  \/ part = "rates" /\ Rates!Init /\ LogIdle /\ NoRpmStore /\ NoAffinity /\ NoAffibifr
      /\ NoBifrostExecutor
  \/ part = "window" /\ Window!Init /\ LogIdle /\ NoRateLimits /\ NoAffinity /\ NoAffibifr
      /\ NoBifrostExecutor
  \/ part = "rows" /\ Rows!Init /\ LogIdle /\ NoRateLimits /\ NoAffinity /\ NoAffibifr
      /\ NoBifrostExecutor
  \/ part = "query" /\ Query!Init /\ LogIdle /\ NoRateLimits /\ NoAffinity /\ NoAffibifr
      /\ NoBifrostExecutor
  \/ part = "cache" /\ Cache!Init /\ LogIdle /\ NoRateLimits /\ NoRpmStore /\ NoBifrostExecutor
  \/ part = "native" /\ Native!Init /\ LogIdle /\ NoRateLimits /\ NoRpmStore /\ NoAffinity
  \/ part = "alias" /\ Alias!Init /\ LogIdle /\ NoRateLimits /\ NoRpmStore /\ NoAffinity
  \/ part = "typed" /\ Typed!Init /\ LogIdle /\ NoRateLimits /\ NoRpmStore /\ NoAffinity
  \/ part = "unary" /\ Unary!Init /\ LogIdle /\ NoRateLimits /\ NoRpmStore /\ NoAffinity
  \/ part = "cline" /\ Cline!Init /\ LogIdle /\ NoRateLimits /\ NoRpmStore /\ NoAffinity

SuiteNext ==
  \/ part = "log" /\ Next
      /\ UNCHANGED <<part, rateLimitsVars, rpmStoreVars, affinityVars, affibifrVars, bifrostExecutorVars>>
  \/ part = "permits" /\ Permits!PermitNext
      /\ UNCHANGED <<part, vars, rpmStoreVars, affinityVars, affibifrVars, bifrostExecutorVars>>
  \/ part = "rates" /\ Rates!RateNext
      /\ UNCHANGED <<part, vars, rpmStoreVars, affinityVars, affibifrVars, bifrostExecutorVars>>
  \/ part = "window" /\ Window!Next
      /\ UNCHANGED <<part, vars, rateLimitsVars, affinityVars, affibifrVars, bifrostExecutorVars>>
  \/ part = "rows" /\ Rows!Next
      /\ UNCHANGED <<part, vars, rateLimitsVars, affinityVars, affibifrVars, bifrostExecutorVars>>
  \/ part = "query" /\ Query!Next
      /\ UNCHANGED <<part, vars, rateLimitsVars, affinityVars, affibifrVars, bifrostExecutorVars>>
  \/ part = "cache" /\ Cache!Next
      /\ UNCHANGED <<part, vars, rateLimitsVars, rpmStoreVars, bifrostExecutorVars>>
  \/ part = "native" /\ Native!Next
      /\ UNCHANGED <<part, vars, rateLimitsVars, rpmStoreVars, affinityVars>>
  \/ part = "alias" /\ Alias!Next
      /\ UNCHANGED <<part, vars, rateLimitsVars, rpmStoreVars, affinityVars>>
  \/ part = "typed" /\ Typed!Next
      /\ UNCHANGED <<part, vars, rateLimitsVars, rpmStoreVars, affinityVars>>
  \/ part = "unary" /\ Unary!Next
      /\ UNCHANGED <<part, vars, rateLimitsVars, rpmStoreVars, affinityVars>>
  \/ part = "cline" /\ Cline!Next
      /\ UNCHANGED <<part, vars, rateLimitsVars, rpmStoreVars, affinityVars>>

SuiteSpec == SuiteInit /\ [][SuiteNext]_suiteVars

-----------------------------------------------------------------------------
\* The counters of admission, of the request rate and of the log are those of the
\* requests and rows themselves, whatever is published, swept, written late or queried in
\* between.
CountersAreExact ==
    /\ StoreAgrees
    \* RateLimits: every counter is the number of permits outstanding, across
    \*   publications.
    /\ part = "permits" => Permits!CountsAreHeld
    \* RateLimits: the windows hold every admission of the last minute, whatever is swept.
    /\ part = "permits" => Permits!NothingForgotten
    /\ part = "rates" => Rates!NothingForgotten
    \* RateLimits: groups that share an account do not add up their rates.
    /\ part = "permits" => Permits!SharedRate
    \* RateLimits: the Retry-After of a refusal is long enough, and not a second too long.
    /\ part = "rates" => Rates!RetryAfterIsExact
    \* RpmStore: the ring is the sliding window, in whatever order requests are recorded.
    /\ part = "window" => Window!WindowIsExact
    \* RpmStore: the peak of a minute is that of the seconds of the minute.
    /\ part = "window" => Window!PeakIsExact
    \* RpmStore: what counts as persisted is in its row.
    /\ part = "rows" => Rows!CleanIsStored
    \* RpmStore: what was recorded is in a bucket or in a row while it is retained.
    /\ part = "rows" => Rows!NothingLost
    \* RpmStore: a query beside the writer counts no request twice.
    /\ part = "query" => Query!NoDoubleCount

\* Affinity: the cache obeys the configuration of its revision.
ObeysItsRevision == part = "cache" => Cache!ObeysItsRevision

\* A step that comes too late changes nothing: a late row, a late success, an event after
\* the sink has failed.
LateIsHarmless == [][
    \* RpmStore: a row that stays never shrinks, whatever is written late or again.
    /\ part = "query" => Query!RowsNeverShrink
    \* Affinity: a late success overwrites no newer mapping.
    /\ part = "cache" => Cache!NoLostLearning
    \* BifrostExecutor: nothing is sent to a sink that failed.
    /\ part = "native" => Native!NothingAfterTheSinkStopped
    ]_suiteVars

\* What the executor tells its sink and its caller is what happened upstream, whichever
\* of its timers, its context and the SDK comes first.
ExecutorIsHonest ==
    \* BifrostExecutor: every variable has its type.
    /\ part = "native" => Native!TypeOK
    /\ part = "alias" => Alias!TypeOK
    /\ part = "typed" => Typed!TypeOK
    /\ part = "unary" => Unary!TypeOK
    /\ part = "cline" => Cline!TypeOK
    \* BifrostExecutor: the sink sees one Ready, then numbered data, but for an alias
    \*   stream without a delimiter.
    /\ part = "native" => Native!EventsAreWellFormed
    /\ part = "alias" => Alias!EventsAreWellFormed
    /\ part = "typed" => Typed!EventsAreWellFormed
    /\ part = "cline" => Cline!EventsAreWellFormed
    \* BifrostExecutor: the result repeats the status the sink was told.
    /\ part = "native" => Native!ReadyBindsTheResult
    /\ part = "alias" => Alias!ReadyBindsTheResult
    /\ part = "typed" => Typed!ReadyBindsTheResult
    /\ part = "cline" => Cline!ReadyBindsTheResult
    \* BifrostExecutor: a stream reported complete was passed on to its end.
    /\ part = "native" => Native!CompleteIsComplete
    /\ part = "alias" => Alias!CompleteIsComplete
    /\ part = "typed" => Typed!CompleteIsComplete
    /\ part = "cline" => Cline!CompleteIsComplete
    \* BifrostExecutor: a stream that has begun is not ended by the first-byte timeout.
    /\ part = "native" => Native!NoFirstByteTimeoutAfterReady
    /\ part = "alias" => Alias!NoFirstByteTimeoutAfterReady
    \* BifrostExecutor: an attempt is reported canceled only when somebody canceled it.
    /\ part = "native" => Native!CanceledHasACause
    /\ part = "alias" => Alias!CanceledHasACause
    \* BifrostExecutor: an attempt reported as not sent was not sent.
    /\ part = "typed" => Typed!NotSentIsTrue
    /\ part = "native" => Native!NotSentIsTrue
    \* BifrostExecutor: a replay is allowed only while the client has seen nothing.
    /\ part = "typed" => Typed!ReplayOnlyUnseen
    \* BifrostExecutor: the result passes the validation of the attempt runtime, but for
    \*   an error inside a Cline stream.
    /\ part = "native" => Native!ResultIsAccepted
    /\ part = "alias" => Alias!ResultIsAccepted
    /\ part = "typed" => Typed!ResultIsAccepted
    /\ part = "cline" => Cline!ResultIsAccepted
    /\ part = "unary" => Unary!ResultIsAccepted
=============================================================================
