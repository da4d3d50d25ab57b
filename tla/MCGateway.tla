----------------------------- MODULE MCGateway ------------------------------
(* The instances of the error judge, the stream forwarding and the attempt *)
(* loop that TLC checks. They share no state: Init chooses a part, every   *)
(* step is one of that part, and the variables of the others stay Off.     *)
EXTENDS Integers, Sequences

CONSTANTS Off

VARIABLE part     \* the part Init chose
VARIABLES ctx     \* used by several parts

-----------------------------------------------------------------------------
(* ErrorJudge: every combination the executors' result contract            *)
(* (execution/validation.go) admits, over the values the judge tells       *)
(* apart.                                                                  *)
VARIABLES attempt, context, verdict

NoEvidence == [kind |-> "none", origin |-> "", scope |-> "", hint |-> "", status |-> 0,
               code |-> "", replay |-> "", wait |-> ""]

Labels ==   \* a hint or a code, seldom both
    ({"", "invalid_credential", "refresh_required", "refresh_unavailable", "reauthorization_required",
      "rate_limited", "request_rejected", "candidate_unavailable", "model_unavailable", "host_error"} \X {""})
    \cup ({""} \X {"upstream_empty_response", "credential_decrypt_failed", "group_proxy_prepare_failed",
                   "server_is_overloaded", "rate_limit_exceeded", "upstream_protocol_error",
                   "context_length_exceeded", "model_not_found", "invalid_api_key"})
    \cup {<<"rate_limited", "rate_limit_exceeded">>, <<"host_error", "server_is_overloaded">>}

Evidence ==
    {[kind |-> k, origin |-> o, scope |-> sc, hint |-> l[1], status |-> 0, code |-> l[2],
      replay |-> r, wait |-> w] :
        k \in {"transport", "canceled", "http", "provider", "invalid_request",
               "conversion_unsupported", "internal"},
        o \in {"", "internal"}, sc \in {"", "request", "model", "credential", "group"},
        l \in Labels, r \in {"", "unknown", "rejected"}, w \in {"", "retry_after"}}

\* The empty answer is only ever reported by the gateway itself, for a stream
\* that ended without content: an upstream 2xx of a chat or a Responses request.
Contract(a) ==
    /\ a.ev.kind = "none" => a.status = 200 \/ a.down # "none"
    /\ a.dispatch = "not_sent" => a.status = 0 /\ ~a.committed
    /\ a.dispatch = "local" => a.status = 200
    /\ a.committed => a.status = 200
    /\ a.down # "none" => a.ev.origin = "" /\ a.ev.wait = ""     \* the judge does not look further
    /\ a.down = "failed" => a.status # 0
    /\ a.ev.code = "upstream_empty_response" =>
          a.ev.kind = "provider" /\ a.dispatch = "maybe_sent" /\ a.status = 200 /\ a.ev.replay = ""
    /\ a.ev.wait # "" => a.ev.hint \in {"rate_limited", "refresh_unavailable"} \/ a.status = 429
    /\ a.ev.code \in {"credential_decrypt_failed", "group_proxy_prepare_failed"} =>
          a.dispatch = "not_sent" /\ a.ev.kind = "internal"

JudgedAttempts ==
    {a \in [dispatch : {"not_sent", "maybe_sent", "local"}, status : {0, 100, 200, 401, 404, 429, 500},
            committed : BOOLEAN, down : {"none", "canceled", "failed"}, ev : Evidence \cup {NoEvidence}] : Contract(a)}
    \cup  \* a refused websocket upgrade: an HTTP answer although nothing was sent
    {[dispatch |-> "not_sent", status |-> 0, committed |-> FALSE, down |-> "none",
      ev |-> [e EXCEPT !.status = st]] :
        e \in {x \in Evidence : x.kind = "http" /\ x.wait = ""}, st \in {401, 429, 500}}

Rule(st, k, r, e) == [statuses |-> st, keywords |-> k, retry |-> r, effect |-> e]

RuleLists == {<<>>,
              <<Rule({429, 500}, {}, "next_candidate", "cooldown_credential"),
                Rule({}, {"model_not_found", "upstream_protocol_error"}, "next_candidate", "cooldown_model"),
                Rule({200, 401, 404}, {}, "next_candidate", "record_credential_failure")>>}

JudgedContexts ==
    {[op |-> o, read |-> FALSE, refreshable |-> o # "images_generate", rules |-> r] :
        o \in {"chat_completion", "responses_retrieve", "images_generate", "live_call", "responses_delete"},
        r \in RuleLists}

Judge == INSTANCE ErrorJudge WITH Attempts <- JudgedAttempts, Contexts <- JudgedContexts

-----------------------------------------------------------------------------
(* StreamForward: with and without the search for empty answers, byte-wise *)
(* or event-wise forwarding, restoring, a required terminal event; three   *)
(* chunks, or two chunks of every kind.                                    *)
VARIABLES mode, chunks, ready, obs, buf, out, timer, elapsed, up, result

StreamModes == {m \in [empty : BOOLEAN, whole : BOOLEAN, restore : BOOLEAN, required : BOOLEAN] :
                   m.restore => ~m.whole}

Stream == INSTANCE StreamForward WITH Modes <- StreamModes,
        Kinds <- {"half", "preamble", "content", "done", "incomplete", "error", "bad"},
        MaxChunks <- 3, PrereadEvents <- 2, PrereadBytes <- 3
Kinds == INSTANCE StreamForward WITH Modes <- StreamModes,
        Kinds <- {"half", "preamble", "content", "refusal", "done", "failed", "incomplete", "error", "bad", "garbled"},
        MaxChunks <- 2, PrereadEvents <- 2, PrereadBytes <- 3

-----------------------------------------------------------------------------
(* AttemptLoop: two groups of different priority, and one result for every *)
(* way the loop tells results apart; the overrides of the preferred group  *)
(* may fail.                                                               *)
VARIABLES reg, changes, pc, stream, broken, refs, it, sel, replay, log, pending, last,
          ticket, permits, end, blame

LoopGroupOf == [c \in {"a", "b", "c"} |-> IF c = "a" THEN "high" ELSE "low"]
LoopPriority == [g \in {"high", "low"} |-> IF g = "high" THEN 2 ELSE 1]
LoopContext == [op |-> "chat_completion", read |-> FALSE, refreshable |-> TRUE, rules |-> <<>>]

Ev(k, h, code, rep) == [kind |-> k, origin |-> "", scope |-> "", hint |-> h, status |-> 0, code |-> code,
                        replay |-> rep, wait |-> ""]
None == Ev("none", "", "", "")
Res(shape, streams, clean, dispatch, status, ev) ==
    [shape |-> shape, streams |-> streams, clean |-> clean,
     a |-> [dispatch |-> dispatch, status |-> status, committed |-> shape = "committed", down |-> "none", ev |-> ev]]

\* The loop treats a result alike whether a stream was asked or not; some are
\* tried with one form only.
LoopResults ==
    {Res("answer", {FALSE}, FALSE, "maybe_sent", 200, None),
     Res("committed", {TRUE}, TRUE, "maybe_sent", 200, None),
     Res("committed", {TRUE}, FALSE, "maybe_sent", 200, Ev("provider", "", "", "unknown")),
     Res("empty", {TRUE}, FALSE, "maybe_sent", 200, Ev("provider", "", "upstream_empty_response", "")),
     Res("provider", {TRUE}, FALSE, "maybe_sent", 200, Ev("provider", "rate_limited", "", "rejected")),
     Res("answer", BOOLEAN, FALSE, "maybe_sent", 401, Ev("http", "refresh_required", "", "rejected")),
     Res("answer", {FALSE}, FALSE, "maybe_sent", 401, Ev("http", "invalid_credential", "", "")),
     Res("answer", BOOLEAN, FALSE, "maybe_sent", 429, Ev("http", "rate_limited", "", "")),
     Res("answer", {TRUE}, FALSE, "maybe_sent", 500, Ev("http", "", "", "unknown")),
     Res("interim", {FALSE}, FALSE, "maybe_sent", 100, Ev("http", "", "", "")),
     Res("transport", BOOLEAN, FALSE, "not_sent", 0, Ev("transport", "", "", "")),
     Res("transport", {FALSE}, FALSE, "maybe_sent", 0, Ev("transport", "", "", "unknown")),
     Res("transport", {TRUE}, FALSE, "not_sent", 0, Ev("provider", "refresh_unavailable", "", "")),
     Res("conversion", {FALSE}, FALSE, "not_sent", 0, Ev("conversion_unsupported", "", "", "")),
     [Res("canceled", {FALSE}, FALSE, "maybe_sent", 0, Ev("canceled", "", "", "unknown")) EXCEPT !.a.down = "canceled"]}

Loop == INSTANCE AttemptLoop WITH Creds <- {"a", "b", "c"}, Groups <- {"high", "low"},
        GroupOf <- LoopGroupOf, Priority <- LoopPriority, Results <- LoopResults,
        Context <- LoopContext, Limit <- 3, Threshold <- 1, Cooling <- {"a"},
        MaxChanges <- 1

-----------------------------------------------------------------------------
errorJudgeVars == <<attempt, context, verdict>>
streamForwardVars == <<mode, chunks, ready, obs, buf, out, timer, elapsed, up, result>>
attestreVars == <<ctx>>
attemptLoopVars == <<reg, changes, pc, stream, broken, refs, it, sel, replay, log, pending,
                     last, ticket, permits, end, blame>>
NoErrorJudge ==
  /\ attempt = Off /\ context = Off /\ verdict = Off
NoStreamForward ==
  /\ mode = Off /\ chunks = Off /\ ready = Off /\ obs = Off /\ buf = Off /\ out = Off
  /\ timer = Off /\ elapsed = Off /\ up = Off /\ result = Off
NoAttestre ==
  /\ ctx = Off
NoAttemptLoop ==
  /\ reg = Off /\ changes = Off /\ pc = Off /\ stream = Off /\ broken = Off /\ refs = Off
  /\ it = Off /\ sel = Off /\ replay = Off /\ log = Off /\ pending = Off /\ last = Off
  /\ ticket = Off /\ permits = Off /\ end = Off /\ blame = Off

suiteVars == <<part, errorJudgeVars, streamForwardVars, attestreVars, attemptLoopVars>>

ASSUME
  /\ Loop!AttemptAssumption

Init ==
  \/ part = "judge" /\ Judge!Init /\ NoStreamForward /\ NoAttestre /\ NoAttemptLoop
  \/ part = "stream" /\ Stream!Init /\ NoErrorJudge /\ NoAttemptLoop
  \/ part = "kinds" /\ Kinds!Init /\ NoErrorJudge /\ NoAttemptLoop
  \/ part = "loop" /\ Loop!Init /\ broken \in {{}, {"high"}} /\ NoErrorJudge /\ NoStreamForward

Next ==
  \/ part = "judge" /\ Judge!Next
      /\ UNCHANGED <<part, streamForwardVars, attestreVars, attemptLoopVars>>
  \/ part = "stream" /\ Stream!Next /\ UNCHANGED <<part, errorJudgeVars, attemptLoopVars>>
  \/ part = "kinds" /\ Kinds!Next /\ UNCHANGED <<part, errorJudgeVars, attemptLoopVars>>
  \/ part = "loop" /\ Loop!Next /\ UNCHANGED <<part, errorJudgeVars, streamForwardVars>>

Spec == Init /\ [][Next]_suiteVars

-----------------------------------------------------------------------------
\* A verdict never repeats what may have had an effect, and harms only who is to blame.
VerdictIsSafe ==
    \* ErrorJudge: an operation with side effects is not sent again once it may have been
    \*   sent.
    /\ part = "judge" => Judge!StrictIsNeverReplayed
    \* ErrorJudge: a request whose outcome is unknown is not repeated.
    /\ part = "judge" => Judge!UnknownOutcomeIsFinal
    \* ErrorJudge: nothing follows an answer the client has begun to read.
    /\ part = "judge" => Judge!CommittedIsFinal
    \* ErrorJudge: a cooldown always has an end.
    /\ part = "judge" => Judge!CooldownsHaveDeadlines
    \* ErrorJudge: an attempt the client gave up harms no credential.
    /\ part = "judge" => Judge!CancelHurtsNobody
    \* ErrorJudge: a refresh is asked only of credentials that have one.
    /\ part = "judge" => Judge!RefreshIsJustified

\* AttemptLoop: "no candidate" is answered only when there is none.
NoCandidateIsTrue == [][part = "loop" => Loop!NoCandidateIsTrue]_suiteVars

\* What the client reads is what the upstream sent, and the verdict on the stream is
\* true.
StreamIsWhole ==
    \* StreamForward: every variable has its type.
    /\ part = "stream" => Stream!TypeOK
    /\ part = "kinds" => Kinds!TypeOK
    \* StreamForward: the client receives a prefix of what the upstream sent.
    /\ part = "stream" => Stream!Whole
    /\ part = "kinds" => Kinds!Whole
    \* StreamForward: an attempt that is not committed wrote nothing.
    /\ part = "stream" => Stream!UncommittedIsInvisible
    /\ part = "kinds" => Kinds!UncommittedIsInvisible
    \* StreamForward: an answer called empty had no content.
    /\ part = "stream" => Stream!EmptyIsEmpty
    /\ part = "kinds" => Kinds!EmptyIsEmpty
    \* StreamForward: the terminal event reaches the client.
    /\ part = "stream" => Stream!TerminalIsDelivered
    /\ part = "kinds" => Kinds!TerminalIsDelivered
    \* StreamForward: a clean end is a complete answer.
    /\ part = "stream" => Stream!CleanIsComplete
    /\ part = "kinds" => Kinds!CleanIsComplete
    \* StreamForward: an empty answer is noticed while it can still be replaced.
    /\ part = "stream" => Stream!EmptyIsNoticed
    /\ part = "kinds" => Kinds!EmptyIsNoticed

\* The loop tries each candidate once, at most one of them again, and leaves its books in
\* order.
LoopIsHonest ==
    \* AttemptLoop: every variable has its type.
    /\ part = "loop" => Loop!TypeOK
    \* AttemptLoop: a request is replayed at most once after a refresh.
    /\ part = "loop" => Loop!OneReplay
    \* AttemptLoop: no candidate is tried twice, but for that replay.
    /\ part = "loop" => Loop!NoRepeat
    \* AttemptLoop: an attempt marked as retried was followed by another.
    /\ part = "loop" => Loop!MarksAreTrue
    \* AttemptLoop: the permits and the ticket are returned.
    /\ part = "loop" => Loop!Balanced
    \* AttemptLoop: the final answer is that of the last attempt worth reporting.
    /\ part = "loop" => Loop!HonestNoCandidate
    \* AttemptLoop: an effect lands on the target that was called.
    /\ part = "loop" => Loop!EffectsHitTheirTarget
    \* AttemptLoop: the replay uses the account of the refused attempt.
    /\ part = "loop" => Loop!SameAccount
    \* AttemptLoop: priorities never rise within one request.
    /\ part = "loop" => Loop!NoClimb
=============================================================================
