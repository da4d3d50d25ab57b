---------------------------- MODULE UsageReports ----------------------------
(***************************************************************************)
(* What the control plane reports about usage: internal/requestlog's       *)
(* usage queries over two sources that must tell the same story.           *)
(*                                                                         *)
(* One transaction stores the rows of a batch and adds them to hourly      *)
(* tables (worker.go); the hourly tables are kept for ever, the rows only  *)
(* for the configured days (retention.go).  A report over an exact time    *)
(* window takes its full hours from the hourly tables and its first and    *)
(* last part from the rows (usage_query_window.go, credential_*usage.go).  *)
(*                                                                         *)
(* A row is its completion time, its kind and the attempts before the last *)
(* one.  A kind holds what the queries tell apart: status, the states of   *)
(* usage and cost, billing unit, group, the automatic decision and the     *)
(* audit calls.  Tokens and money are counted in units of one.  The rows   *)
(* of one group use one credential, so a group also names its credential.  *)
(***************************************************************************)
EXTENDS Integers, Sequences, FiniteSetsExt

CONSTANTS Kinds,        \* kinds of rows written, all of them valid
          Groups,       \* groups; 0 is a request bound to no group and no model
          Hour,         \* milliseconds per hour, in ticks; a five-minute bucket is a tick
          MinuteSpan,   \* the longest window shown in five-minute buckets (six hours)
          Steps,        \* longer windows and their buckets: pairs <<span, width>>, by span
          Day,          \* the unit of the buckets beyond the last step
          MonthSpan,    \* a bucket widens by a day per such span
          Retentions,   \* request_log_retention_days, in ticks
          Earlier,      \* outcomes of an attempt before the last one
          Windows,      \* bound: windows the readers ask for
          MaxRows,      \* bound: rows written
          MaxTime       \* bound: the clock

VARIABLES now, keep, written, logs, audits, stats, attemptStats, sweep, reader,
          reach,        \* history: the latest cutoff of any sweep
          overtaken     \* history: reach when the retention was last raised

vars == <<now, keep, written, logs, audits, stats, attemptStats, sweep, reader, reach, overtaken>>
past == <<reach, overtaken>>
tables == <<written, logs, audits, stats, attemptStats>>

-----------------------------------------------------------------------------
(* Rows and what one of them adds.                                         *)

Zero == [req |-> 0, ok |-> 0, fail |-> 0, tok |-> 0, cost |-> 0,
         missing |-> 0, partial |-> 0, unpriced |-> 0, ppartial |-> 0]

One(b) == IF b THEN 1 ELSE 0

\* addUsageAggregates.
Plus(a, b) == [f \in DOMAIN Zero |-> a[f] + b[f]]

SumOf(Amount(_), S) ==
  FoldSet(LAMBDA x, acc : Plus(Amount(x), acc), Zero, S)

Counted(k) == k.usage \in {"complete", "partial"}

validateFrozenPricingState(k) ==
  CASE k.usage = "not_applicable" -> k.cost = "not_applicable" /\ k.comp = "not_applicable"
    [] k.usage = "missing" -> k.cost = "unpriced" /\ k.comp = "unavailable"
    [] OTHER -> \/ k.cost = "unpriced" /\ k.comp = "unavailable"
                \/ k.cost = "priced" /\ k.comp \in {"complete", "partial"}

ValidateBillingUsageCostState(k) ==
  IF k.unit = "token" THEN validateFrozenPricingState(k)
  ELSE \/ k.cost = "priced" /\ k.comp = "complete" /\ k.status = "success"
       \/ k.cost = "unpriced" /\ k.comp = "unavailable"
       \/ k.cost = "not_applicable" /\ k.comp = "not_applicable"

\* validateFrozenObservation: usage needs an attempt that is bound to a group.
validateFrozenObservation(k) ==
  /\ ValidateBillingUsageCostState(k)
  /\ k.group = 0 => k.usage = "not_applicable" /\ k.cost # "priced"
  /\ k.group # 0 => k.attempts

AllKinds == {k \in [status : {"success", "error"}, attempts : BOOLEAN, search : BOOLEAN,
                    usage : {"complete", "partial", "missing", "not_applicable"},
                    cost : {"priced", "unpriced", "not_applicable"},
                    comp : {"complete", "partial", "unavailable", "not_applicable"},
                    unit : {"token", "request"}, group : Groups \cup {0},
                    dec : {"complete", "partial", "unavailable", "not_applicable"},
                    dgroup : Groups,
                    audit : {<<>>, <<"unavailable">>, <<"partial", "unavailable">>},
                    out : {"ok", "failed", "cancel", "local"}] :
              validateFrozenObservation(k)}

KindsAssumption == Kinds \subseteq AllKinds

\* Whether a row becomes a usage journal.
Journaled(k) == k.attempts /\ ~k.search

\* usageStatDelta.addRow.
addRow(k) ==
  [req |-> 1, ok |-> One(k.status = "success"), fail |-> One(k.status # "success"),
   tok |-> One(Counted(k)), cost |-> One(k.cost = "priced"),
   missing |-> One(k.usage = "missing"), partial |-> One(k.usage = "partial"),
   unpriced |-> One((Counted(k) \/ k.unit = "request") /\ k.cost = "unpriced"),
   ppartial |-> One(k.cost = "priced" /\ k.comp = "partial")]

\* usageRequestLogProjection: the same columns, computed from a row in SQL.
usageRequestLogProjection(k) ==
  [req |-> 1, ok |-> One(k.status = "success"), fail |-> One(k.status # "success"),
   tok |-> One(Counted(k)), cost |-> One(k.cost = "priced"),
   missing |-> One(k.usage = "missing"), partial |-> One(k.usage = "partial"),
   unpriced |-> One(Counted(k) /\ k.cost = "unpriced"),
   ppartial |-> One(k.cost = "priced" /\ k.comp = "partial")]

\* writeAutoDecisionUsage and decisionRequestProjection: one request is counted
\* at most once as unpriced and once as partly priced.
decisionUsage(k) ==
  [Zero EXCEPT !.cost = One(k.dec \in {"complete", "partial"}),
               !.unpriced = One(k.dec = "unavailable" /\ ~(k.cost = "unpriced" /\ Counted(k))),
               !.ppartial = One(k.dec = "partial" /\ k.comp # "partial")]

\* mapEvent's loop over the audit calls: the first one of its sort is counted,
\* unless the answer or the decision was.
auditUsage(k, i) ==
  LET First(c) == ~\E j \in 1 .. i - 1 : k.audit[j] = c
      unpricedRecorded == k.dec = "unavailable" \/ (k.cost = "unpriced" /\ Counted(k))
      partialRecorded == k.dec = "partial" \/ k.comp = "partial"
  IN [Zero EXCEPT !.cost = One(k.audit[i] # "unavailable"),
        !.unpriced = One(k.audit[i] = "unavailable" /\ ~unpricedRecorded /\ First("unavailable")),
        !.ppartial = One(k.audit[i] = "partial" /\ ~partialRecorded /\ First("partial"))]

-----------------------------------------------------------------------------
(* Time.                                                                   *)

AlignDown(t, width) == t - (t % width)
alignHourUp(t) == IF t % Hour = 0 THEN t ELSE AlignDown(t, Hour) + Hour
Max2(a, b) == IF a > b THEN a ELSE b
Min2(a, b) == IF a < b THEN a ELSE b
In(t, from, to) == from <= t /\ t < to

ResolveUsageTimeBucket(from, to) ==
  LET span == to - from IN
  IF span <= MinuteSpan THEN 1
  ELSE LET fits == {i \in DOMAIN Steps : span <= Steps[i][1]} IN
       IF fits # {} THEN Steps[Min(fits)][2] ELSE ((span - 1) \div MonthSpan + 1) * Day

retentionCutoffMS(t, days) == IF days > t THEN 0 ELSE t - days

requestLogWindowRetained(from) == from >= retentionCutoffMS(now, keep)

-----------------------------------------------------------------------------
(* Writing and sweeping.                                                   *)

Buckets == {b \in 0 .. MaxTime : b % Hour = 0}
Outcome(out) == [ok |-> One(out = "ok"), fail |-> One(out = "failed")]

\* The attempts of a row: those before, and the last at the row's own time.
AttemptsOf(r) == r.before \cup {[at |-> r.at, out |-> r.kind.out]}

\* Mutant: an attempt is added to the hour in which its request completed.
attemptHourOfRequest(r, b, out) == One(AlignDown(r.at, Hour) = b) *
  Cardinality({a \in AttemptsOf(r) : a.out = out})

\* buildCredentialAttemptStatDeltas: a local attempt and a cancelled one count
\* for nothing, the others in the hour they completed in.
attemptHour(r, b, out) ==
  Cardinality({a \in AttemptsOf(r) : a.out = out /\ AlignDown(a.at, Hour) = b})

\* WriteBatch: row, audit calls, hourly tables and attempt counts in one transaction.
WriteBatch(at, k, before) ==
  LET r == [id |-> Cardinality(written) + 1, at |-> at, kind |-> k, before |-> before]
      b == AlignDown(at, Hour)
      answer(g) == IF Journaled(k) /\ k.group = g THEN addRow(k) ELSE Zero
      decision(g) == IF k.dec # "not_applicable" /\ k.dgroup = g THEN decisionUsage(k) ELSE Zero
      audited(g) == IF k.dgroup = g THEN SumOf(LAMBDA i : auditUsage(k, i), DOMAIN k.audit) ELSE Zero
  IN
  /\ Cardinality(written) < MaxRows
  /\ written' = written \cup {r}
  /\ logs' = logs \cup {r}
  /\ audits' = IF k.audit = <<>> THEN audits ELSE audits \cup {r}
  /\ stats' = [stats EXCEPT
       !.answers = [@ EXCEPT ![b] = [g \in Groups \cup {0} |-> Plus(@[g], answer(g))]],
       !.decisions = [@ EXCEPT ![b] =
           [g \in Groups \cup {0} |-> Plus(@[g], Plus(decision(g), audited(g)))]]]
  /\ attemptStats' = IF ~Journaled(k) \/ k.group = 0 THEN attemptStats
       ELSE [attemptStats EXCEPT ![k.group] = [h \in Buckets |->
               [ok |-> @[h].ok + attemptHour(r, h, "ok"),
                fail |-> @[h].fail + attemptHour(r, h, "failed")]]]
  /\ UNCHANGED <<now, keep, sweep, reader, past>>

\* Sweep computes its cutoff once; -1 stands for no sweep.
BeginSweep ==
  /\ sweep = -1
  /\ sweep' = retentionCutoffMS(now, keep)
  /\ reach' = Max2(reach, sweep')
  /\ UNCHANGED <<now, keep, tables, reader, overtaken>>

\* One batch of deleteExpiredRequestLogs, with a batch size of one; attempts go
\* with their row.  The sweep ends when it finds none, or on an error.
DeleteExpired ==
  /\ sweep >= 0
  /\ \/ \E r \in logs :
          /\ r.at < sweep
          /\ \A s \in logs : r.at < s.at \/ (r.at = s.at /\ r.id <= s.id)
          /\ logs' = logs \ {r} /\ UNCHANGED sweep
     \/ sweep' = -1 /\ UNCHANGED logs
  /\ UNCHANGED <<now, keep, written, audits, stats, attemptStats, reader, past>>

SetRetention ==
  /\ \E days \in Retentions \ {keep} : keep' = days
  /\ overtaken' = IF keep' > keep THEN reach ELSE overtaken
  /\ UNCHANGED <<now, tables, sweep, reader, reach>>

Tick ==
  /\ now < MaxTime
  /\ now' = now + 1
  /\ UNCHANGED <<keep, tables, sweep, reader, past>>

-----------------------------------------------------------------------------
(* Sources of a report: sets of rows [of, bucket, group, sum].  Every      *)
(* report is read in one snapshot transaction.                             *)

\* answers, decisions and audit calls of the rows completed in [from, to).
usageRequestLogScope(from, to) ==
  {[of |-> <<"answer", r.id>>, bucket |-> r.at, group |-> r.kind.group,
    sum |-> usageRequestLogProjection(r.kind)] :
     r \in {x \in logs : In(x.at, from, to) /\ Journaled(x.kind) /\ x.kind.group # 0}}
  \cup
  {[of |-> <<"decision", r.id>>, bucket |-> r.at, group |-> r.kind.dgroup,
    sum |-> decisionUsage(r.kind)] :
     r \in {x \in logs : In(x.at, from, to) /\ x.kind.dec # "not_applicable"}}
  \cup
  {[of |-> <<"audit", r.id>>, bucket |-> r.at, group |-> r.kind.dgroup,
    sum |-> SumOf(LAMBDA i : auditUsage(r.kind, i), DOMAIN r.kind.audit)] :
     r \in {x \in audits : In(x.at, from, to)}}

\* The hourly tables; what was counted for no group and no model stays hidden.
usageStatScope(from, to) ==
  {[of |-> <<"hour", b, g>>, bucket |-> b, group |-> g, sum |-> stats.answers[b][g]] :
     b \in {x \in Buckets : In(x, from, to)}, g \in Groups}
  \cup
  {[of |-> <<"decisions", b, g>>, bucket |-> b, group |-> g, sum |-> stats.decisions[b][g]] :
     b \in {x \in Buckets : In(x, from, to)}, g \in Groups \cup {0}}

\* Full hours from the tables, both ends from the rows.
usageWindowScope(from, to) ==
  IF to - from <= Hour THEN usageRequestLogScope(from, to)
  ELSE usageStatScope(alignHourUp(from), AlignDown(to, Hour))
       \cup usageRequestLogScope(from, alignHourUp(from))
       \cup usageRequestLogScope(AlignDown(to, Hour), to)

\* QueryUsage's source.
usageScope(from, to) ==
  IF ResolveUsageTimeBucket(from, to) = 1 THEN usageRequestLogScope(from, to)
  ELSE usageWindowScope(from, to)

queryUsageSummary(rows) == SumOf(LAMBDA x : x.sum, rows)

seriesEnd(b, width, to) == IF to - b > width THEN b + width ELSE to

queryUsageWindowSeries(from, to) ==
  LET width == ResolveUsageTimeBucket(from, to)
      rows == usageScope(from, to)
  IN {[start |-> Max2(b, from), end |-> seriesEnd(b, width, to),
       sum |-> SumOf(LAMBDA x : x.sum, {x \in rows : AlignDown(x.bucket, width) = b})] :
       b \in {AlignDown(x.bucket, width) : x \in rows}}

\* QueryHomeStatistics: count full buckets of the hourly tables, the last one
\* being the bucket that is still open, each a point of a dense series.
homeWindow(width, count) ==
  [from |-> AlignDown(now, width) + width - count * width, to |-> AlignDown(now, width) + width]

denseHomeStatisticsSeries(width, count) ==
  LET w == homeWindow(width, count) IN
  [i \in 1 .. count |->
     LET start == w.from + (i - 1) * width
     IN SumOf(LAMBDA x : x.sum, {x \in usageStatScope(w.from, w.to) : AlignDown(x.bucket, width) = start})]

\* queryCredentialRequestLogUsage: the credential's rows, without decisions.
credentialRows(g, from, to) ==
  {r \in logs : r.kind.group = g /\ ~r.kind.search /\ In(r.at, from, to)}

\* credentialRequestLogUsageSelect: like the projection, but every unpriced row
\* counts as unpriced, also one whose usage is missing.
credentialRequestLogUsageSelect(k) ==
  [usageRequestLogProjection(k) EXCEPT !.unpriced = One(k.cost = "unpriced"),
                                       !.ppartial = One(k.comp = "partial")]

\* queryCredentialHourlyUsage: full hours, and the boundaries merged in.
queryCredentialHourlyUsage(g, from, to) ==
  LET first == alignHourUp(from)
      last == AlignDown(to, Hour)
      startTo == Min2(first, to)
      endFrom == Max2(last, startTo)
      Rows(a, b) == SumOf(LAMBDA r : credentialRequestLogUsageSelect(r.kind), credentialRows(g, a, b))
  IN Plus(SumOf(LAMBDA b : stats.answers[b][g], {b \in Buckets : In(b, first, last)}),
          Plus(Rows(from, startTo), Rows(endFrom, to)))

\* Whether the parts read from rows begin inside the retention.
credentialWindowComplete(from, to) ==
  LET first == alignHourUp(from)
      startTo == Min2(first, to)
      endFrom == Max2(AlignDown(to, Hour), startTo)
  IN /\ from < startTo => requestLogWindowRetained(from)
     /\ endFrom < to => requestLogWindowRetained(endFrom)

\* QueryCredentialActivity: hours from the first full one to the end of the last,
\* the oldest partial hour from the attempts of the rows.
queryCredentialActivity(g, from, to) ==
  LET first == alignHourUp(from)
      Hours(out) == MapThenSumSet(LAMBDA b : attemptStats[g][b][out],
                                  {b \in Buckets : In(b, first, alignHourUp(to))})
      Bound(out) == MapThenSumSet(LAMBDA r : Cardinality({a \in AttemptsOf(r) :
                        a.out = out /\ In(a.at, from, Min2(first, to))}),
                        {r \in logs : r.kind.group = g})
  IN [ok |-> Hours("ok") + Bound("ok"), fail |-> Hours("fail") + Bound("failed")]

activityComplete(from, to) ==
  from < Min2(alignHourUp(from), to) => requestLogWindowRetained(from)

-----------------------------------------------------------------------------
(* Reference: the rows ever committed, as the hourly tables count them.     *)

TrueUsage(r, g) ==
  LET k == r.kind
      any == g = 0
  IN Plus(IF Journaled(k) /\ k.group # 0 /\ (any \/ k.group = g) THEN addRow(k) ELSE Zero,
          IF any \/ k.dgroup = g
          THEN Plus(IF k.dec # "not_applicable" THEN decisionUsage(k) ELSE Zero,
                    SumOf(LAMBDA i : auditUsage(k, i), DOMAIN k.audit))
          ELSE Zero)

Truth(g, from, to) == SumOf(LAMBDA r : TrueUsage(r, g), {r \in written : In(r.at, from, to)})

TrueCredential(g, from, to) ==
  SumOf(LAMBDA r : addRow(r.kind),
        {r \in written : r.kind.group = g /\ Journaled(r.kind) /\ In(r.at, from, to)})

\* The attempts of a search are in the rows only, so they count in the oldest,
\* partial hour and in no other.
TrueActivity(g, from, to) ==
  LET Until(r) == IF Journaled(r.kind) THEN alignHourUp(to) ELSE Min2(alignHourUp(from), to)
      N(out) == MapThenSumSet(LAMBDA r : Cardinality({a \in AttemptsOf(r) :
                     a.out = out /\ In(a.at, from, Until(r))}), {r \in written : r.kind.group = g})
  IN [ok |-> N("ok"), fail |-> N("failed")]

\* The parts of a window that are read from rows: all of a short one, else its ends.
Ends(from, to, short) ==
  IF to - from <= short \/ alignHourUp(from) > to THEN {<<from, to>>}
  ELSE {<<from, alignHourUp(from)>>, <<AlignDown(to, Hour), to>>}

RowsAt(ends) == {r \in written : \E e \in ends : In(r.at, e[1], e[2])}

\* The two sources disagree about an unpriced answer without usage.  One that has a
\* price per request is unpriced in its hour only; one charged by tokens is unpriced
\* in a credential's rows only.
Flat(k) == k.unit = "request" /\ k.cost = "unpriced" /\ ~Counted(k)
Tokenless(k) == k.unit = "token" /\ k.cost = "unpriced" /\ ~Counted(k)

FlatRows(g, ends) ==
  {r \in RowsAt(ends) : Flat(r.kind) /\ Journaled(r.kind) /\ r.kind.group \in (IF g = 0 THEN Groups ELSE {g})}

TokenlessRows(g, ends) ==
  {r \in RowsAt(ends) : Tokenless(r.kind) /\ Journaled(r.kind) /\ r.kind.group = g}

\* The truth, but for the requests whose rows are counted otherwise than their hour.
AsTold(sum, fewer, more) ==
  [sum EXCEPT !.unpriced = @ - Cardinality(fewer) + Cardinality(more)]

Gone(from, to) == \E r \in written \ logs : In(r.at, from, to)

-----------------------------------------------------------------------------
(* Readers that also say whether their numbers are complete.                *)

Idle == [pc |-> "idle", op |-> "", group |-> 0, from |-> 0, to |-> 0,
         got |-> Zero, truth |-> Zero, complete |-> FALSE,
         reach |-> 0, late |-> FALSE]

\* QueryGroupUsage and QueryCredentialWindowUsage read, then judge completeness.
ReadUsage(op, g, w) ==
  /\ reader.pc = "idle"
  /\ reader' = [Idle EXCEPT !.pc = "read", !.op = op, !.group = g, !.from = w[1], !.to = w[2],
       !.got = IF op = "group"
               THEN SumOf(LAMBDA x : x.sum, {x \in usageWindowScope(w[1], w[2]) : x.group = g})
               ELSE queryCredentialHourlyUsage(g, w[1], w[2]),
       !.truth = IF op = "group"
                 THEN AsTold(Truth(g, w[1], w[2]), FlatRows(g, Ends(w[1], w[2], Hour)), {})
                 ELSE AsTold(TrueCredential(g, w[1], w[2]), {}, TokenlessRows(g, Ends(w[1], w[2], 0)))]
  /\ UNCHANGED <<now, keep, tables, sweep, past>>

groupUsageComplete(from, to) ==
  \/ to - from > Hour /\ from % Hour = 0 /\ to % Hour = 0
  \/ requestLogWindowRetained(from)

FinishUsage ==
  /\ reader.pc = "read"
  /\ reader' = [reader EXCEPT !.pc = "done", !.complete =
       IF reader.op = "group" THEN groupUsageComplete(reader.from, reader.to)
       ELSE credentialWindowComplete(reader.from, reader.to)]
  /\ UNCHANGED <<now, keep, tables, sweep, past>>

\* QueryCredentialActivity judges completeness first, then reads.
BeginActivity(g, w) ==
  /\ reader.pc = "idle" /\ w[2] = now
  /\ reader' = [Idle EXCEPT !.pc = "asked", !.op = "activity", !.group = g, !.from = w[1],
                            !.to = w[2], !.complete = activityComplete(w[1], w[2]),
                            !.reach = reach]
  /\ UNCHANGED <<now, keep, tables, sweep, past>>

ReadActivity ==
  LET got == queryCredentialActivity(reader.group, reader.from, reader.to)
      truth == TrueActivity(reader.group, reader.from, reader.to)
  IN
  /\ reader.pc = "asked"
  /\ reader' = [reader EXCEPT !.pc = "done",
       !.late = reader.reach < reach /\ reader.from < reach,
       !.got = [Zero EXCEPT !.ok = got.ok, !.fail = got.fail],
       !.truth = [Zero EXCEPT !.ok = truth.ok, !.fail = truth.fail]]
  /\ UNCHANGED <<now, keep, tables, sweep, past>>

Deliver == reader.pc = "done" /\ reader' = Idle /\ UNCHANGED <<now, keep, tables, sweep, past>>

-----------------------------------------------------------------------------

Init ==
  /\ now = 0 /\ keep \in Retentions
  /\ written = {} /\ logs = {} /\ audits = {}
  /\ stats = [answers |-> [b \in Buckets |-> [g \in Groups \cup {0} |-> Zero]],
              decisions |-> [b \in Buckets |-> [g \in Groups \cup {0} |-> Zero]]]
  /\ attemptStats = [g \in Groups |-> [b \in Buckets |-> [ok |-> 0, fail |-> 0]]]
  /\ sweep = -1 /\ reach = 0 /\ overtaken = 0
  /\ reader = Idle

\* A request completes at most when its batch is written; an earlier attempt of it
\* completed before it.
Write ==
  \E at \in 0 .. now, k \in Kinds :
    \/ WriteBatch(at, k, {})
    \/ \E t \in 0 .. at - 1, out \in Earlier :
         k.attempts /\ WriteBatch(at, k, {[at |-> t, out |-> out]})

Next ==
  \/ Write \/ Tick \/ BeginSweep \/ DeleteExpired \/ SetRetention
  \/ \E op \in {"group", "credential"}, g \in Groups, w \in Windows : w[2] <= now /\ ReadUsage(op, g, w)
  \/ \E g \in Groups, w \in Windows : BeginActivity(g, w)
  \/ FinishUsage \/ ReadActivity \/ Deliver

Spec == Init /\ [][Next]_vars

-----------------------------------------------------------------------------
(* Properties                                                              *)

Aggregates == [DOMAIN Zero -> 0 .. 4 * MaxRows]

TypeOK ==
  /\ now \in 0 .. MaxTime /\ keep \in Retentions /\ sweep \in -1 .. MaxTime
  /\ logs \subseteq written /\ audits \subseteq written
  /\ \A b \in Buckets, g \in Groups \cup {0} :
       stats.answers[b][g] \in Aggregates /\ stats.decisions[b][g] \in Aggregates
  /\ reader.pc \in {"idle", "asked", "read", "done"}
  /\ reader.got \in Aggregates

Spans == {w \in (0 .. MaxTime) \X (1 .. MaxTime) : w[1] < w[2]}

FromRows(from, to) == Ends(from, to, Max2(Hour, MinuteSpan))

Kept(from, to) == \A p \in FromRows(from, to) : ~Gone(p[1], p[2])

\* The total of every window counts each committed row of the window exactly
\* once, wherever its ends lie, and also after the rows of its full hours were
\* swept: QueryUsage's summary over usageWindowScope.  One column is low, by the
\* requests with a price per request, no price and no usage that were read from
\* rows: usageRequestLogProjection leaves out what addRow counts.
WindowIsExact ==
  \A w \in Spans :
    Kept(w[1], w[2]) =>
      queryUsageSummary(usageScope(w[1], w[2])) =
        AsTold(Truth(0, w[1], w[2]), FlatRows(0, FromRows(w[1], w[2])), {})

\* Every point of QueryUsage's series shows what happened between its own two
\* times, and the points do not overlap: widths, cut ends and sources agree, but
\* for the column that is low as in WindowIsExact.
SeriesIsTrue ==
  \A w \in Spans :
    Kept(w[1], w[2]) =>
      LET points == queryUsageWindowSeries(w[1], w[2])
          flat(p) == FlatRows(0, FromRows(w[1], w[2])) \cap RowsAt({<<p.start, p.end>>})
      IN
      /\ \A p \in points : p.sum = AsTold(Truth(0, p.start, p.end), flat(p), {})
      /\ \A p, q \in points : p = q \/ p.end <= q.start \/ q.end <= p.start

\* The home page's dense series adds up to its window, for every bucket width,
\* whatever was swept.
HomeIsExact ==
  \A width \in {Hour, Day}, count \in 1 .. 3 :
    LET w == homeWindow(width, count) IN
    w.from >= 0 =>
      \A i \in 1 .. count :
        denseHomeStatisticsSeries(width, count)[i] =
          Truth(0, w.from + (i - 1) * width, w.from + i * width)

\* One request is counted at most once as unpriced and as partly priced, though its
\* answer, its decision and its audit calls are added separately.  The exception is
\* an answer with a price per request, no price and no usage: addRow counts it, and
\* writeAutoDecisionUsage and mapEvent do not know that when another part is
\* unpriced as well, which makes two.
CountedOncePerRequest ==
  \A r \in written :
    LET k == r.kind
        others == k.dec = "unavailable" \/ \E i \in DOMAIN k.audit : k.audit[i] = "unavailable"
    IN /\ TrueUsage(r, 0).ppartial <= 1
       /\ TrueUsage(r, 0).unpriced <= IF Flat(k) /\ others THEN 2 ELSE 1

\* The counts of an account card agree with the attempts that were made, each in
\* the hour it completed in, as long as the partial hour still has its rows:
\* QueryCredentialActivity.  Attempts of a search are counted while they are in the
\* partial hour, which is read from rows, and never in a full one, which holds what
\* was journaled.
ActivityIsExact ==
  \A g \in Groups, from \in 0 .. now - 1 :
    ~Gone(from, MaxTime + 1) =>
      queryCredentialActivity(g, from, now) = TrueActivity(g, from, now)

\* A group's or a credential's numbers that are reported as complete are complete,
\* though rows are swept and the retention is changed while the report is made.
\* Only a window that begins before what a sweep had reached when the retention was
\* raised is called complete without its rows: requestLogWindowRetained asks for
\* the retention of now, not for the one the sweeps ran with.
CompleteIsTrue ==
  reader.pc = "done" /\ reader.complete /\ reader.op # "activity" =>
    reader.got = reader.truth \/ reader.from < overtaken

\* The same of the account card.  It is judged before it is read, so a sweep that
\* begins in between and passes the start of the window also goes unnoticed.
ActivityCompleteIsTrue ==
  reader.pc = "done" /\ reader.complete /\ reader.op = "activity" =>
    reader.got = reader.truth \/ reader.from < overtaken \/ reader.late

=============================================================================
