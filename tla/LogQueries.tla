----------------------------- MODULE LogQueries -----------------------------
(***************************************************************************)
(* The request log as it is read: requestlog.Service.List and Get and the   *)
(* two control handlers over them, against the rows mapEvent writes, while  *)
(* the writer adds rows, the retention sweep deletes them and access keys   *)
(* are deleted.                                                             *)
(*                                                                          *)
(* List runs several statements outside any transaction: an optional COUNT, *)
(* the rows, the access keys, the attempts.  Each is a step here.  Get runs *)
(* in one transaction and is an operator.  A row carries its attempts       *)
(* because both are written and deleted together, but the reader looks them *)
(* up in the table again when the statement runs.  Ids are random, so a row *)
(* may take any unused place in the order of ids.                           *)
(***************************************************************************)
EXTENDS Integers, Sequences, FiniteSets, SequencesExt

CONSTANTS
  Ids,         \* row ids, ordered like the strings they stand for
  Times,       \* values of completed_at_ms
  Keys,        \* access keys
  Events,      \* what the gateway reports, without id, time and key
  Secretlike,  \* model names the redactor rewrites
  Queries,     \* query strings: {} or {v} for every parameter
  Scopes       \* {} for the administrator, {k} for the access key k

OrderedAssumption == Ids \subseteq Nat /\ Times \subseteq Nat

VARIABLES
  table,   \* rows of request_logs with their attempts
  used,    \* ids written so far
  keys,    \* access keys that exist
  r        \* the reader: one client walking through pages

vars == <<table, used, keys, r>>

Completeness == {"complete", "partial", "unavailable", "not_applicable"}

\* ---------------------------------------------------------------- writing

redactIdentityValue(m) == IF m \in Secretlike THEN "redacted" ELSE m

normalizeModelObservation(e) ==
  IF e.status # "success" \/ e.model = ""
  THEN [e EXCEPT !.reported = "", !.cons = "not_applicable"] ELSE e

validateModelObservation(e) ==
  LET modeled == e.status = "success" /\ e.model # ""
  IN CASE e.cons = "not_applicable" -> e.reported = "" /\ ~modeled
       [] e.cons = "unknown" -> modeled /\ e.reported = ""
       [] e.cons = "match" -> modeled /\ e.reported = e.model
       [] e.cons = "mismatch" -> modeled /\ e.reported \notin {"", e.model}

validateFrozenPricingState(x) ==
  CASE x.usage = "not_applicable" -> x.cost = "not_applicable" /\ x.comp = "not_applicable" /\ x.amt = 0
    [] x.usage = "missing" -> x.cost = "unpriced" /\ x.comp = "unavailable" /\ x.amt = 0
    [] OTHER -> \/ x.cost = "unpriced" /\ x.comp = "unavailable" /\ x.amt = 0
                \/ x.cost = "priced" /\ x.comp \in {"complete", "partial"}

\* ValidateBillingUsageCostState: a fixed price is charged only for a success, also
\* without usage.
PricedAs(x) ==
  IF x.unit = "token" THEN validateFrozenPricingState(x)
  ELSE \/ x.cost = "priced" /\ x.comp = "complete" /\ x.status = "success"
       \/ x.cost = "unpriced" /\ x.comp = "unavailable" /\ x.amt = 0
       \/ x.cost = "not_applicable" /\ x.comp = "not_applicable" /\ x.amt = 0

\* canonicalPricingReceipt: a fixed charge has a receipt, and a receipt names the
\* model of the attempt it is for.
canonicalPricingReceipt(e) ==
  IF e.receipt THEN e.bound # 0 /\ e.model # ""
  ELSE ~(e.unit = "request" /\ e.cost = "priced")

\* validateFrozenObservation: usage is attributed to one attempt whose model is
\* the request's.
Attributed(e) ==
  IF e.bound = 0 THEN e.usage = "not_applicable" /\ e.cost # "priced"
  ELSE /\ e.bound \in DOMAIN e.attempts
       /\ e.attempts[e.bound].model = e.model
       /\ e.cost = "priced" => e.model # ""

\* telemetry.TotalPricing of an observation and one decision.
AddPricing(a, d) ==
  LET known == a.cost = "priced" \/ d.cost = "priced"
      unknown == a.cost = "unpriced" \/ d.cost = "unpriced"
      partial == a.comp = "partial" \/ d.comp = "partial"
  IN [amt |-> a.amt + d.amt,
      cost |-> IF known THEN "priced" ELSE IF unknown THEN "unpriced" ELSE "not_applicable",
      comp |-> CASE known -> IF unknown \/ partial THEN "partial" ELSE "complete"
                 [] ~known /\ unknown -> "unavailable"
                 [] OTHER -> "not_applicable"]

Calls(audit) == IF audit = {} THEN <<>> ELSE (CHOOSE a \in audit : TRUE).calls

\* telemetry.TotalPricing: the audit's calls in order, then the decision.
TotalPricing(answer, dec, audit) ==
  LET withCalls == FoldLeft(AddPricing, answer, Calls(audit))
  IN IF dec = {} THEN withCalls ELSE AddPricing(withCalls, CHOOSE d \in dec : TRUE)

NoPricing == [cost |-> "not_applicable", comp |-> "not_applicable", amt |-> 0]

auditTotal(audit) == TotalPricing(NoPricing, {}, audit)

\* mapEvent: the stored row, or nothing when the event is refused.  The receipt
\* carries the raw model; the columns carry the redacted one.
mapEvent(e) ==
  LET n == normalizeModelObservation(e)
      dec == IF n.dec = {} THEN NoPricing ELSE CHOOSE d \in n.dec : TRUE
      aud == auditTotal(n.audit)
      attempt(i) == [who |-> n.attempts[i].who, mode |-> n.attempts[i].mode,
                     model |-> redactIdentityValue(n.attempts[i].model),
                     receipt |-> IF i = n.bound /\ n.receipt
                                 THEN {n.attempts[i].model} ELSE {}]
  IN IF validateModelObservation(n) /\ PricedAs(n) /\ Attributed(n) /\ canonicalPricingReceipt(n)
     THEN {[status |-> n.status, model |-> redactIdentityValue(n.model),
            reported |-> redactIdentityValue(n.reported), cons |-> n.cons,
            usage |-> n.usage, unit |-> n.unit, cost |-> n.cost, comp |-> n.comp, amt |-> n.amt,
            who |-> IF n.bound = 0 THEN "none" ELSE n.attempts[n.bound].who,
            attempts |-> [i \in DOMAIN n.attempts |-> attempt(i)],
            dec |-> n.dec, dcomp |-> dec.comp, damt |-> dec.amt,
            audit |-> n.audit, acomp |-> aud.comp, aamt |-> aud.amt]}
     ELSE {}

Stored(e, id, t, k) ==
  {[id |-> id, t |-> t, key |-> k, row |-> x] : x \in mapEvent(e)}

\* ---------------------------------------------------------------- decoding

validateStoredModelObservation(x) ==
  LET modeled == x.status = "success" /\ x.model # ""
  IN CASE x.cons = "not_applicable" -> x.reported = "" /\ ~modeled
       [] x.cons = "unknown" -> modeled /\ x.reported = ""
       [] OTHER -> modeled /\ x.reported # ""

decodeRequestLogRows(x) == validateStoredModelObservation(x) /\ PricedAs(x)

\* decodeAttemptPricingReceipt: the receipt must name the attempt's model.
decodeAttemptPricingReceipt(a) == \A m \in a.receipt : m = a.model

\* Result.UnmarshalJSON: results of the earlier experiment carry a mode.
Decoded(a) ==
  IF a.mode = "" THEN a
  ELSE [a EXCEPT !.mode = "",
                 !.status = IF a.status # "matched" THEN a.status
                            ELSE IF a.mode = "enforce" THEN "blocked" ELSE "warned"]

\* mapRequestAudit.
Outcome(audit) ==
  {LET d == Decoded(a)
   IN CASE d.status = "passed" -> "allowed"
        [] d.status \in {"warned", "blocked"} -> d.status
        [] d.status = "incomplete" /\ d.reason = "content_truncated" -> "allowed"
        [] OTHER -> "failed" : a \in audit}

\* The attempts of the request's final identity, by sequence.
Final(x) == {i \in DOMAIN x.attempts : x.attempts[i].who = x.who}

Highest(S) == CHOOSE i \in S : \A j \in S : j <= i

\* finalRouteMode and finalPricingReceipt, used by Get.
finalRouteMode(x) == IF Final(x) = {} THEN "" ELSE x.attempts[Highest(Final(x))].mode

finalPricingReceipt(x) ==
  LET priced == {i \in Final(x) : x.attempts[i].receipt # {}}
  IN IF priced = {} THEN {} ELSE x.attempts[Highest(priced)].receipt

\* loadFinalExecutionObservations: one pass over the attempts by descending
\* sequence; the mode comes from the first of the identity, the receipt from
\* the first that has one.
Observed(x) ==
  LET back == Reverse(x.attempts)
      step(acc, a) ==
        IF a.who # x.who THEN acc
        ELSE [mode |-> IF acc.mode = {} THEN {a.mode} ELSE acc.mode,
              receipt |-> IF acc.receipt = {} THEN a.receipt ELSE acc.receipt]
  IN FoldLeft(step, [mode |-> {}, receipt |-> {}], back)

loadFinalExecutionObservations(x) == Observed(x)

\* Get: the row, its attempts and its frozen receipt, in one transaction.
Get(x) ==
  IF decodeRequestLogRows(x) /\ \A i \in DOMAIN x.attempts : decodeAttemptPricingReceipt(x.attempts[i])
  THEN {[mode |-> finalRouteMode(x), receipt |-> finalPricingReceipt(x),
         total |-> TotalPricing([cost |-> x.cost, comp |-> x.comp, amt |-> x.amt], x.dec, x.audit),
         outcome |-> Outcome(x.audit)]}
  ELSE {}

\* --------------------------------------------------------------- filtering

\* requestTotalCostStateSQL.
requestTotalCostStateSQL(x) ==
  IF x.cost = "priced" \/ {x.dcomp, x.acomp} \cap {"complete", "partial"} # {} THEN "priced"
  ELSE IF x.cost = "unpriced" \/ "unavailable" \in {x.dcomp, x.acomp} THEN "unpriced"
  ELSE "not_applicable"

\* requestTotalCompletenessSQL.
requestTotalCompletenessSQL(x) ==
  CASE requestTotalCostStateSQL(x) = "priced" ->
         IF {x.comp, x.dcomp, x.acomp} \cap {"partial", "unavailable"} # {} THEN "partial" ELSE "complete"
    [] requestTotalCostStateSQL(x) = "unpriced" -> "unavailable"
    [] OTHER -> "not_applicable"

\* applyRequestAuditFilters: the outcome the SQL computes from the stored JSON.
auditFilter(x, want) ==
  \E a \in x.audit :
    LET old == IF a.mode # "" /\ a.status = "matched"
               THEN IF a.mode = "enforce" THEN "blocked" ELSE "warned" ELSE a.status
        final == IF old \in {"blocked", "warned"} THEN old
                 ELSE IF old = "passed" \/ (old = "incomplete" /\ a.reason = "content_truncated")
                 THEN "allowed" ELSE "failed"
    IN want = IF want \in {"allowed", "failed"} THEN final ELSE old

\* requestLogQueryUsesInternalFields.
requestLogQueryUsesInternalFields(q) ==
  q.who # {} \/ q.cons # {} \/ q.key # {} \/ q.retried # {}

PageMode(q) == q.page \cup q.size # {}

\* parseRequestLogInt64Range.
RangeOrdered(low, high) == \A a \in low, b \in high : a <= b

\* The two kinds of paging exclude each other.
PagingAccepted(q, cursor) ==
  /\ PageMode(q) => q.limit = {} /\ cursor = {}
  /\ \A n \in q.limit \cup q.page \cup q.size : n > 0

parseRequestLogQuery(q, cursor) ==
  /\ \A a \in q.from, b \in q.to : a < b
  /\ RangeOrdered(q.cmin, q.cmax)
  /\ PagingAccepted(q, cursor)

\* The WHERE clause of List without the cursor; scope overrides access_key_id.
Matches(s, q, scope) ==
  LET x == s.row
  IN /\ \A a \in q.from : s.t >= a
     /\ \A b \in q.to : s.t < b
     /\ \A k \in (IF scope # {} THEN scope ELSE q.key) : s.key = k
     /\ \A c \in q.cons : x.cons = c
     /\ \A c \in q.cost : requestTotalCostStateSQL(x) = c
     /\ \A c \in q.comp : requestTotalCompletenessSQL(x) = c
     /\ \A b \in q.retried : (Len(x.attempts) > 1) = b
     /\ \A n \in q.cmin : x.amt + x.damt + x.aamt >= n
     /\ \A n \in q.cmax : x.amt + x.damt + x.aamt <= n
     /\ \A a \in q.audit : auditFilter(x, a)
     /\ \A w \in q.who : \E i \in DOMAIN x.attempts : x.attempts[i].who = w

\* Mutant: rows of one millisecond are not told apart.
MutantTimeCursor(s, c) == s.t < c.t

afterCursor(s, c) == s.t < c.t \/ (s.t = c.t /\ s.id < c.id)

\* ORDER BY completed_at_ms DESC, id DESC.
Newer(a, b) == a.t > b.t \/ (a.t = b.t /\ a.id > b.id)

Ordered(S) == SetToSortSeq(S, Newer)

Take(s, n) == SubSeq(s, 1, IF n < Len(s) THEN n ELSE Len(s))

requestLogTotalPages(total, size) ==
  IF total = 0 THEN 0 ELSE total \div size + (IF total % size # 0 THEN 1 ELSE 0)

\* OFFSET and LIMIT of page n.
PageRows(s, n, size) ==
  IF (n - 1) * size >= Len(s) THEN <<>> ELSE Take(SubSeq(s, (n - 1) * size + 1, Len(s)), size)

\* ------------------------------------------------------------- the program

NoReader == [pc |-> "idle", q |-> {}, scope |-> {}, cursor |-> {}, total |-> 0,
             rows |-> <<>>, more |-> FALSE, seen |-> <<>>, base |-> {}, items |-> <<>>]

Init == table = {} /\ used = {} /\ keys = Keys /\ r = NoReader

\* The writer stores one event (requestlog worker).
Write(e, id, t, k) ==
  /\ id \notin used
  /\ mapEvent(e) # {}
  /\ table' = table \cup Stored(e, id, t, k)
  /\ used' = used \cup {id}
  /\ UNCHANGED <<keys, r>>

\* deleteExpiredRequestLogs: a batch of expired rows, oldest first; the attempts
\* go with them.
DeleteExpired(cut) ==
  LET expired == {s \in table : s.t < cut}
      oldest == CHOOSE s \in expired : \A o \in expired : o = s \/ Newer(o, s)
  IN /\ expired # {}
     /\ table' = table \ {oldest}
     /\ UNCHANGED <<used, keys, r>>

\* An access key is deleted; its rows stay.
DeleteKey(k) == k \in keys /\ keys' = keys \ {k} /\ UNCHANGED <<table, used, r>>

The(S) == CHOOSE v \in S : TRUE

\* handleListRequestLogs: the query is parsed and the key's scope applied.
Begin(q, scope) ==
  /\ r.pc = "idle"
  /\ scope # {} => ~requestLogQueryUsesInternalFields(q)
  /\ parseRequestLogQuery(q, {})
  /\ r' = [NoReader EXCEPT !.pc = IF PageMode(q) THEN "count" ELSE "rows",
                           !.q = {q}, !.scope = scope,
                           !.base = {s \in table : Matches(s, q, scope)}]
  /\ UNCHANGED <<table, used, keys>>

Matching == {s \in table : Matches(s, The(r.q), r.scope)}

\* List: the COUNT statement.
Count ==
  /\ r.pc = "count"
  /\ r' = [r EXCEPT !.pc = "rows", !.total = Cardinality(Matching)]
  /\ UNCHANGED <<table, used, keys>>

Limit(q) == IF q.limit = {} THEN 2 ELSE The(q.limit)

\* List: the rows, one more than the limit, or one page.
Find ==
  /\ r.pc = "rows"
  /\ LET q == The(r.q)
         left == Ordered({s \in Matching : \A c \in r.cursor : afterCursor(s, c)})
         size == IF q.size = {} THEN 2 ELSE The(q.size)
         got == IF PageMode(q) THEN PageRows(left, IF q.page = {} THEN 1 ELSE The(q.page), size)
                ELSE Take(left, Limit(q) + 1)
         more == ~PageMode(q) /\ Len(got) > Limit(q)
         rows == IF more THEN Take(got, Limit(q)) ELSE got
     IN r' = [r EXCEPT !.pc = IF \A i \in DOMAIN rows : decodeRequestLogRows(rows[i].row)
                              THEN "refs" ELSE "failed",
                       !.rows = rows, !.more = more]
  /\ UNCHANGED <<table, used, keys>>

\* sanitizeAccessKeyRequestLog.
sanitizeAccessKeyRequestLog(item) == [item EXCEPT !.mode = {}, !.who = "none"]

\* loadAccessKeyRefs: keys that no longer exist are marked deleted.
LoadAccessKeyRefs ==
  /\ r.pc = "refs"
  /\ r' = [r EXCEPT !.pc = "attempts",
                    !.items = [i \in DOMAIN r.rows |->
                                 [id |-> r.rows[i].id, key |-> r.rows[i].key, who |-> r.rows[i].row.who,
                                  deleted |-> r.rows[i].key \notin keys, mode |-> {}, receipt |-> {}]]]
  /\ UNCHANGED <<table, used, keys>>

\* loadFinalExecutionObservations and the answer: a row that was deleted in the
\* meantime keeps its place and has no observation.
LoadAttempts ==
  /\ r.pc = "attempts"
  /\ LET alive(i) == \E s \in table : s.id = r.items[i].id
         obs(i) == loadFinalExecutionObservations(r.rows[i].row)
         bad == \E i \in DOMAIN r.items : alive(i) /\
                  \E j \in Final(r.rows[i].row) :
                    ~decodeAttemptPricingReceipt(r.rows[i].row.attempts[j])
         item(i) == IF alive(i) THEN [r.items[i] EXCEPT !.mode = obs(i).mode, !.receipt = obs(i).receipt]
                    ELSE r.items[i]
         shown(i) == IF r.scope # {} THEN sanitizeAccessKeyRequestLog(item(i)) ELSE item(i)
         last == r.rows[Len(r.rows)]
     IN r' = IF bad THEN [r EXCEPT !.pc = "failed"]
             ELSE [r EXCEPT !.pc = IF r.more THEN "page" ELSE "end",
                            !.items = [i \in DOMAIN r.items |-> shown(i)],
                            !.seen = r.seen \o [i \in DOMAIN r.items |-> r.items[i].id],
                            !.cursor = IF r.more THEN {[t |-> last.t, id |-> last.id]} ELSE {}]
  /\ UNCHANGED <<table, used, keys>>

\* The client asks for the next page with the cursor it was given.
NextPage ==
  /\ r.pc = "page"
  /\ parseRequestLogQuery(The(r.q), r.cursor)
  /\ r' = [r EXCEPT !.pc = "rows", !.items = <<>>, !.rows = <<>>]
  /\ UNCHANGED <<table, used, keys>>

\* The client is done with this walk.
Leave ==
  /\ r.pc \in {"page", "end", "failed"}
  /\ r' = NoReader
  /\ UNCHANGED <<table, used, keys>>

Next ==
  \/ \E e \in Events, id \in Ids, t \in Times, k \in Keys : Write(e, id, t, k)
  \/ \E cut \in Times : DeleteExpired(cut)
  \/ \E k \in Keys : DeleteKey(k)
  \/ \E q \in Queries, s \in Scopes : Begin(q, s)
  \/ Count \/ Find \/ LoadAccessKeyRefs \/ LoadAttempts \/ NextPage \/ Leave

Spec == Init /\ [][Next]_vars

\* -------------------------------------------------------------- properties

\* Rows, the reader's program counter and its walk have their types.
TypeOK ==
  /\ used \subseteq Ids /\ keys \subseteq Keys
  /\ \A s \in table : s.id \in used /\ s.t \in Times /\ s.key \in Keys
  /\ r.pc \in {"idle", "count", "rows", "refs", "attempts", "page", "end", "failed"}
  /\ r.seen \in Seq(Ids) /\ r.total \in Nat

\* A walk by cursor (List, decodeRequestLogCursor) never shows a row twice, even
\* when rows are added, deleted or share a millisecond.
WalkNeverRepeats == IsInjective(r.seen)

\* A walk that reached its last page has shown every row that was there when it
\* began and still is.
WalkMissesNothing ==
  r.pc = "end" /\ ~PageMode(The(r.q)) =>
    \A s \in r.base \cap table : \E i \in DOMAIN r.seen : r.seen[i] = s.id

\* Numbered pages (Count, OFFSET and LIMIT): on a table at rest the pages up to
\* TotalPages are all non-empty and show every row.
PagesCover ==
  \A size \in 1..3 :
    LET s == Ordered(table)
        n == requestLogTotalPages(Len(s), size)
    IN /\ \A p \in 1..n : PageRows(s, p, size) # <<>>
       /\ UNION {Range(PageRows(s, p, size)) : p \in 1..n} = table

\* What a page shows of a row's final attempt is what Get shows: the two read
\* the attempts by different code.
ListAgreesWithGet ==
  r.pc \in {"page", "end"} /\ r.scope = {} =>
    \A i \in DOMAIN r.items : \A s \in table :
      s.id = r.items[i].id /\ r.items[i].mode # {} =>
        \A g \in Get(s.row) : r.items[i].mode = {g.mode} /\ r.items[i].receipt = g.receipt

\* A row whose receipt is for a model the redactor rewrites.
Unreadable(x) == \E i \in DOMAIN x.attempts : x.attempts[i].receipt \cap Secretlike # {}

\* Every row mapEvent writes can be read back, alone and on a page, but for one:
\* the attempt's model is redacted, its receipt keeps the raw name, and
\* decodeAttemptPricingReceipt refuses the two.  Get then fails for that row, and
\* no page fails for another reason.
WrittenIsReadable ==
  /\ \A s \in table : Get(s.row) # {} <=> ~Unreadable(s.row)
  /\ r.pc = "failed" => \E i \in DOMAIN r.rows : Unreadable(r.rows[i].row)

\* Get "returns one request with all retry attempts and its frozen pricing
\* receipt" (the comment of Get): a row that can be read and was written with a
\* receipt gives it back.
GetReturnsTheReceipt ==
  \A s \in table : (\E i \in DOMAIN s.row.attempts : s.row.attempts[i].receipt # {}) =>
    \A g \in Get(s.row) : g.receipt # {}

\* The SQL filters on total cost agree with the total the answer shows, which
\* TotalPricing computes from the decoded decision and audit.
CostFilterAgrees ==
  \A s \in table : \A g \in Get(s.row) :
    /\ requestTotalCostStateSQL(s.row) = g.total.cost
    /\ requestTotalCompletenessSQL(s.row) = g.total.comp
    /\ s.row.amt + s.row.damt + s.row.aamt = g.total.amt

\* The SQL filter on the audit's outcome selects the rows the answer shows with
\* that outcome (incomplete is asked for by its internal name).
AuditFilterAgrees ==
  \A s \in table : \A g \in Get(s.row) :
    \A want \in {"allowed", "failed", "warned", "blocked"} :
      auditFilter(s.row, want) <=> want \in g.outcome

\* Two rows an access key sees alike.
Alike(a, b) ==
  /\ a.t = b.t /\ a.key = b.key
  /\ a.row.status = b.row.status /\ a.row.cost = b.row.cost /\ a.row.comp = b.row.comp
  /\ a.row.amt = b.row.amt /\ a.row.dec = b.row.dec /\ a.row.audit = b.row.audit
  /\ a.row.usage = b.row.usage

\* What an access key may ask cannot tell apart rows it is shown alike: groups,
\* credentials, attempts and upstream models are hidden from the answer
\* (sanitizeAccessKeyRequestLog) and from the filters.
ScopedIsBlind ==
  \A q \in Queries, k \in Keys :
    ~requestLogQueryUsesInternalFields(q) =>
      \A a, b \in table : Alike(a, b) => (Matches(a, q, {k}) <=> Matches(b, q, {k}))

\* A key's page holds its own rows only and nothing internal.
ScopedSeesOwn ==
  r.pc \in {"page", "end"} =>
    \A k \in r.scope : \A i \in DOMAIN r.items :
      r.items[i].key = k /\ r.items[i].mode = {} /\ r.items[i].who = "none"
=============================================================================
