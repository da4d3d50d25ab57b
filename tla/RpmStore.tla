------------------------------ MODULE RpmStore ------------------------------
(***************************************************************************)
(* The request-rate statistics of one key: a sliding window of one minute  *)
(* kept as a ring of seconds, the totals and the peak of every calendar    *)
(* minute, and the rows the request-log worker writes from them.  Requests *)
(* are recorded after the limiter's lock is released, so their times may   *)
(* be out of order.  Rejections are counted like requests and left out.    *)
(***************************************************************************)
EXTENDS Integers, Sequences, FiniteSets, SequencesExt, TLC

CONSTANTS
    W,            \* seconds in a minute
    MaxNow,       \* bound on the clock, in seconds
    MaxLag,       \* how late a request may be recorded
    MaxRequests,  \* bound on the number of requests
    MaxBuckets,   \* maxBuckets
    MaxSessions,  \* bound on the number of process starts
    Retention,    \* age in seconds at which a minute is deleted
    Queries       \* whether queries run

ConstantsAssumption ==
    /\ {W, MaxBuckets, MaxSessions} \subseteq Nat \ {0}
    /\ {MaxNow, MaxLag, MaxRequests, Retention} \subseteq Nat
    /\ Queries \in BOOLEAN

VARIABLES
    now,      \* the clock
    w,        \* the window: ring of counters, their sum, its second, the last
              \* request, and (history) the number of its first request
    buckets,  \* minute -> totals, peak, version and the version persisted
    rows,     \* <<session, minute>> -> the persisted row
    session,  \* SessionID
    writer,   \* the snapshots the worker is writing, {} when idle
    purge,    \* the retention's cutoff while it deletes rows, -1 when idle
    query,    \* the rows a query has read, none when idle
    answer,   \* the result of the last query: minute -> requests
    log       \* seconds the requests were counted in, per session (history)

vars == <<now, w, buckets, rows, session, writer, purge, query, answer, log>>

NoWindow == [second |-> -1]
Minutes == {m \in 0..MaxNow : m % W = 0}
Minute(s) == (s \div W) * W
Zero == [i \in 0..W - 1 |-> 0]
Larger(a, b) == IF a < b THEN b ELSE a
Smaller(a, b) == IF a < b THEN a ELSE b
Count(n, P(_)) == Cardinality({i \in DOMAIN log[n] : P(log[n][i])})
CountSince(i, P(_)) == Cardinality({j \in DOMAIN log[session] : j >= i /\ P(log[session][j])})

Init ==
    /\ now = 0 /\ w = NoWindow /\ buckets = <<>> /\ rows = <<>> /\ session = 1
    /\ writer = {} /\ purge = -1 /\ query = {} /\ answer = <<>>
    /\ log = [n \in 1..MaxSessions |-> <<>>]

(* minute: the bucket of the second's minute, unless the store is full. *)
Touch(b, s) ==
    IF Minute(s) \notin DOMAIN b /\ Cardinality(DOMAIN b) < MaxBuckets
    THEN (Minute(s) :> [req |-> 0, peak |-> 0, ver |-> 1, persisted |-> 0]) @@ b ELSE b

(* The peak a minute inherits from the requests before its first second. *)
Boundary(b, s, current) ==
    LET t == Touch(b, s)  m == Minute(s) IN
    IF m \in DOMAIN t /\ t[m].peak < current
    THEN [t EXCEPT ![m].peak = current, ![m].ver = @ + 1] ELSE t

(* advance: every second that has passed leaves the window. *)
Advance(x, s) ==
    LET pass(acc, next) ==
            LET current == acc.w.current - acc.w.ring[next % W] IN
            [w |-> [acc.w EXCEPT !.ring[next % W] = 0, !.current = current],
             b |-> IF next % W = 0 THEN Boundary(acc.b, next, current) ELSE acc.b]
        end == Smaller(s, x.w.second + W)
        done == FoldLeft(pass, x, [i \in 1..end - x.w.second |-> x.w.second + i]) IN
    IF s <= x.w.second THEN x ELSE [done EXCEPT !.w.second = s]

Opened(at) == IF w = NoWindow THEN [ring |-> Zero, current |-> 0, second |-> at, last |-> at,
                                   first |-> Len(log[session]) + 1] ELSE w

\* A request that comes late is counted in the window's second.
CountedAt(at, x) == Larger(at, x.w.second)

(* Record with the time the limiter took. *)
Record(at) ==
    LET x == Advance([w |-> Opened(at), b |-> buckets], at)
        s == CountedAt(at, x)
        current == x.w.current + 1
        b == Touch(x.b, s)  m == Minute(s) IN
    /\ at \in now - MaxLag .. now /\ at >= 0 /\ Len(log[session]) < MaxRequests
    /\ w' = [x.w EXCEPT !.last = s, !.ring[s % W] = @ + 1, !.current = current]
    /\ buckets' = IF m \in DOMAIN b
                  THEN [b EXCEPT ![m] = [@ EXCEPT !.req = @ + 1, !.ver = @ + 1,
                                                  !.peak = Larger(@, current)]]
                  ELSE b
    /\ log' = [log EXCEPT ![session] = Append(@, s)]
    /\ UNCHANGED <<now, rows, session, writer, purge, query, answer>>

(* advanceAll: the window moves to the present and ends after an idle      *)
(* minute; old minutes that are persisted leave memory.                    *)
Forgotten(m, b) == b.persisted = b.ver /\ m < now - 2 * W
AdvanceAll ==
    LET x == IF w = NoWindow THEN [w |-> w, b |-> buckets]
             ELSE Advance([w |-> w, b |-> buckets], now)
        keep == {m \in DOMAIN x.b : ~Forgotten(m, x.b[m])} IN
    /\ w' = IF w # NoWindow /\ now - w.last >= W THEN NoWindow ELSE x.w
    /\ buckets' = [m \in keep |-> x.b[m]]

Snapshots(dirtyOnly) ==
    {[minute |-> m, req |-> buckets'[m].req, peak |-> buckets'[m].peak, ver |-> buckets'[m].ver] :
        m \in {n \in DOMAIN buckets' : dirtyOnly => buckets'[n].persisted # buckets'[n].ver}}

(* writeRPMCheckpoints, under rpmWriteMu: the dirty snapshots are taken,   *)
(* then written without the store's lock, then acknowledged.               *)
TakeSnapshots ==
    /\ writer = {} /\ AdvanceAll
    /\ writer' = Snapshots(TRUE)
    /\ UNCHANGED <<now, rows, session, purge, query, answer, log>>

Written(r) == [n \in {<<session, s.minute>> : s \in writer} |->
                  LET s == CHOOSE s \in writer : s.minute = n[2] IN
                  [req |-> s.req, peak |-> s.peak]] @@ r

Acked(b, s) == Larger(b.persisted, Smaller(s.ver, b.ver))

(* The rows are upserted and the snapshots acknowledged; after an error    *)
(* they are not, though the upsert may have taken effect.                  *)
Write ==
    /\ writer # {} /\ writer' = {}
    /\ \/ /\ rows' = Written(rows)
          /\ buckets' = [m \in DOMAIN buckets |->
                IF \E s \in writer : s.minute = m
                THEN [buckets[m] EXCEPT !.persisted =
                         Acked(buckets[m], CHOOSE s \in writer : s.minute = m)]
                ELSE buckets[m]]
       \/ rows' \in {rows, Written(rows)} /\ UNCHANGED buckets
    /\ UNCHANGED <<now, w, session, purge, query, answer, log>>

(* deleteExpiredRPM: old minutes leave memory under rpmWriteMu, then their *)
(* rows are deleted.                                                       *)
Discard ==
    /\ purge = -1 /\ writer = {} /\ now > Retention /\ purge' = now - Retention
    /\ buckets' = [m \in {n \in DOMAIN buckets : n >= now - Retention} |-> buckets[m]]
    /\ UNCHANGED <<now, w, rows, session, writer, query, answer, log>>
DeleteRows ==
    /\ purge # -1 /\ purge' = -1
    /\ rows' = [n \in {i \in DOMAIN rows : i[2] >= purge} |-> rows[n]]
    /\ UNCHANGED <<now, w, buckets, session, writer, query, answer, log>>

(* QueryRPM: the rows are read, then the store's snapshots replace or      *)
(* complete those of the running session.                                  *)
QueryRows ==
    /\ Queries /\ query = {} /\ query' = {rows} /\ answer' = <<>>
    /\ UNCHANGED <<now, w, buckets, rows, session, writer, purge, log>>

\* Mutant: the store's totals are added to the persisted ones.
MergedTwice(persisted, m) == persisted + (IF m \in DOMAIN buckets' THEN buckets'[m].req ELSE 0)

Merged(persisted, m) == IF m \in DOMAIN buckets' THEN Larger(persisted, buckets'[m].req) ELSE persisted

QueryStore ==
    LET persisted(n, m) == IF \E r \in query : <<n, m>> \in DOMAIN r
                           THEN (CHOOSE r \in query : TRUE)[<<n, m>>].req ELSE 0 IN
    /\ query # {} /\ query' = {} /\ AdvanceAll
    /\ answer' = [m \in Minutes |->
            FoldLeft(LAMBDA sum, n : sum + IF n = session THEN Merged(persisted(n, m), m)
                                           ELSE persisted(n, m),
                     0, [n \in 1..MaxSessions |-> n])]
    /\ UNCHANGED <<now, rows, session, writer, purge, log>>

(* A crash and a restart: the new process has another session. *)
Restart ==
    /\ session < MaxSessions /\ session' = session + 1
    /\ w' = NoWindow /\ buckets' = <<>> /\ writer' = {} /\ purge' = -1 /\ query' = {}
    /\ UNCHANGED <<now, rows, answer, log>>

Tick == now < MaxNow /\ now' = now + 1
        /\ UNCHANGED <<w, buckets, rows, session, writer, purge, query, answer, log>>

Next ==
    \/ \E at \in 0..MaxNow : Record(at)
    \/ TakeSnapshots \/ Write \/ Discard \/ DeleteRows \/ QueryRows \/ QueryStore \/ Restart \/ Tick

Spec == Init /\ [][Next]_vars

-----------------------------------------------------------------------------
(* The ring is the sliding window: its sum is the number of requests       *)
(* counted in the minute that ends with the window's second, in whatever   *)
(* order they came since the window was opened.                            *)
WindowIsExact ==
    w # NoWindow =>
        /\ w.current = CountSince(w.first, LAMBDA s : s > w.second - W)
        /\ \A i \in 0..W - 1 :
              w.ring[i] = CountSince(w.first, LAMBDA s : s > w.second - W /\ s % W = i)

(* The peak of a minute is the largest number of requests in the sixty     *)
(* seconds before any second of the minute, also when the minute itself    *)
(* had no request.                                                         *)
PeakIsExact ==
    w # NoWindow =>
        \A m \in DOMAIN buckets :
            LET seconds == {s \in m..m + W - 1 : s <= w.second}
                within(s, t) == t > s - W /\ t <= s IN
            /\ \A s \in seconds :
                  buckets[m].peak >= CountSince(w.first, LAMBDA t : within(s, t))
            /\ seconds # {} =>
                  \E s \in seconds : buckets[m].peak <= Count(session, LAMBDA t : within(s, t))

(* What the store believes to be persisted is: a row written late, over a  *)
(* bucket that counted on meanwhile, does not make the bucket clean.       *)
CleanIsStored ==
    \A m \in DOMAIN buckets :
        buckets[m].persisted = buckets[m].ver =>
            \/ m < now - Retention
            \/ /\ <<session, m>> \in DOMAIN rows
               /\ rows[<<session, m>>] = [req |-> buckets[m].req, peak |-> buckets[m].peak]

(* Nothing recorded is lost while the process runs: the requests of every  *)
(* minute that is still retained are in its bucket or in its row.          *)
NothingLost ==
    \A m \in Minutes :
        LET counted == Count(session, LAMBDA s : Minute(s) = m)
            stored == IF <<session, m>> \in DOMAIN rows THEN rows[<<session, m>>].req ELSE 0 IN
        m >= now - Retention =>
            counted = Larger(stored, IF m \in DOMAIN buckets THEN buckets[m].req ELSE 0)

(* A query running beside the writer counts no request twice. *)
NoDoubleCount ==
    \A m \in DOMAIN answer :
        answer[m] <= FoldLeft(LAMBDA sum, n : sum + Count(n, LAMBDA s : Minute(s) = m),
                              0, [n \in 1..MaxSessions |-> n])

(* A row that stays never shrinks, whatever is written late or again. *)
RowsNeverShrink ==
    \A n \in DOMAIN rows \cap DOMAIN rows' :
       rows'[n].req >= rows[n].req /\ rows'[n].peak >= rows[n].peak
=============================================================================
