----------------------------- MODULE MCDelivery -----------------------------
(* Liveness of the request path: every attempt, request, turn and session  *)
(* comes to its end under the fairness of each component. The parts share  *)
(* no state: Init chooses one, and the fairness conditions of the others   *)
(* are void.                                                               *)
EXTENDS Integers, Sequences

CONSTANTS c1, Off

VARIABLE part     \* the part Init chose
VARIABLES chunks, out, result, ctx, up, changes, log, pending, pc, next, stopped     \* used by several parts

-----------------------------------------------------------------------------
(* StreamForward: all modes; preambles up to the limits of the preread.    *)
VARIABLES mode, ready, obs, buf, timer, elapsed

StreamModes == {m \in [empty : BOOLEAN, whole : BOOLEAN, restore : BOOLEAN, required : BOOLEAN] :
                   m.restore => ~m.whole}

Stream == INSTANCE StreamForward WITH Modes <- StreamModes,
        Kinds <- {"half", "preamble", "content"}, MaxChunks <- 2, PrereadEvents <- 2,
        PrereadBytes <- 3

-----------------------------------------------------------------------------
(* AttemptLoop: a preferred and another credential, results after which    *)
(* the loop stops, refreshes, replays or goes on.                          *)
VARIABLES reg, stream, broken, refs, it, sel, replay, last, ticket, permits, end, blame

LoopGroupOf == [c \in {"a", "b"} |-> IF c = "a" THEN "high" ELSE "low"]
LoopPriority == [g \in {"high", "low"} |-> IF g = "high" THEN 2 ELSE 1]
LoopContext == [op |-> "chat_completion", read |-> FALSE, refreshable |-> TRUE, rules |-> <<>>]

Ev(k, h, rep) == [kind |-> k, origin |-> "", scope |-> "", hint |-> h, status |-> 0, code |-> "",
                  replay |-> rep, wait |-> ""]
Res(shape, streams, dispatch, status, ev) ==
    [shape |-> shape, streams |-> streams, clean |-> FALSE,
     a |-> [dispatch |-> dispatch, status |-> status, committed |-> shape = "committed", down |-> "none", ev |-> ev]]

LoopResults ==
    {Res("answer", {FALSE}, "maybe_sent", 200, Ev("none", "", "")),
     Res("committed", {TRUE}, "maybe_sent", 200, Ev("provider", "", "unknown")),
     Res("answer", {FALSE}, "maybe_sent", 401, Ev("http", "refresh_required", "rejected")),
     Res("transport", {TRUE}, "not_sent", 0, Ev("transport", "", ""))}

Loop == INSTANCE AttemptLoop WITH Creds <- {"a", "b"}, Groups <- {"high", "low"},
        GroupOf <- LoopGroupOf, Priority <- LoopPriority, Results <- LoopResults,
        Context <- LoopContext, Limit <- 2, Threshold <- 1, Cooling <- {"a"},
        MaxChanges <- 1

-----------------------------------------------------------------------------
(* WebsocketConnection: two messages that share a session and may try it   *)
(* again, while the registry changes.                                      *)
VARIABLES cfg, gone, reader, msg, alive, accepting, registered, input, closed, queues,
          lanes, busy, active, seen, loop, w, lock, binding, watch, signal, delivered

Connection == INSTANCE WebsocketConnection WITH Lanes <- {"a", "b"}, Creds <- {c1},
        AttemptLimit <- 2, ActiveLimit <- 2, N <- 2, LaneOf <- <<"a", "b">>, Bad <- {},
        Multiplex <- TRUE, PendingLimit <- 1, InputLimit <- 3, LaneLimit <- 1,
        MaxChanges <- 1

-----------------------------------------------------------------------------
(* BifrostExecutor: every way it runs an attempt, one piece.               *)
VARIABLES spec, parent, gate, raced, idle, sdk, sent, endOK, cur, nat, started, seqno, cl,
          events, sinkFailed, got, framed, passed

AllAttempts == {[lane |-> l, alias |-> FALSE, conv |-> v] :
                   l \in {"native", "chat", "resp", "unary", "head", "typed", "cline"}, v \in BOOLEAN}

Executor == INSTANCE BifrostExecutor WITH Statuses <- {200},
        SdkErrors <- {"http", "timedout", "dial"}, SinkMayFail <- FALSE, MayPart <- TRUE,
        MaxChunks <- 1, MaxBody <- 1, Attempts <- AllAttempts,
        Pieces <- {[e |-> "cr", t |-> "text"], [e |-> "lf", t |-> "text"]}

-----------------------------------------------------------------------------
streamForwardVars == <<mode, ready, obs, buf, timer, elapsed>>
bifrstreVars == <<chunks, out, result>>
attestreVars == <<ctx>>
strewebsVars == <<up>>
attemptLoopVars == <<reg, stream, broken, refs, it, sel, replay, last, ticket, permits,
                     end, blame>>
attewebsVars == <<changes, log, pending>>
attebifrVars == <<pc>>
websocketConnectionVars == <<cfg, gone, reader, msg, alive, accepting, registered, input,
                             closed, queues, lanes, busy, active, seen, loop, w, lock,
                             binding, watch, signal, delivered>>
bifrwebsVars == <<next, stopped>>
bifrostExecutorVars == <<spec, parent, gate, raced, idle, sdk, sent, endOK, cur, nat,
                         started, seqno, cl, events, sinkFailed, got, framed, passed>>
NoStreamForward ==
  /\ mode = Off /\ ready = Off /\ obs = Off /\ buf = Off /\ timer = Off /\ elapsed = Off
NoBifrstre ==
  /\ chunks = Off /\ out = Off /\ result = Off
NoAttestre ==
  /\ ctx = Off
NoStrewebs ==
  /\ up = Off
NoAttemptLoop ==
  /\ reg = Off /\ stream = Off /\ broken = Off /\ refs = Off /\ it = Off /\ sel = Off
  /\ replay = Off /\ last = Off /\ ticket = Off /\ permits = Off /\ end = Off
  /\ blame = Off
NoAttewebs ==
  /\ changes = Off /\ log = Off /\ pending = Off
NoAttebifr ==
  /\ pc = Off
NoWebsocketConnection ==
  /\ cfg = Off /\ gone = Off /\ reader = Off /\ msg = Off /\ alive = Off
  /\ accepting = Off /\ registered = Off /\ input = Off /\ closed = Off /\ queues = Off
  /\ lanes = Off /\ busy = Off /\ active = Off /\ seen = Off /\ loop = Off /\ w = Off
  /\ lock = Off /\ binding = Off /\ watch = Off /\ signal = Off /\ delivered = Off
NoBifrwebs ==
  /\ next = Off /\ stopped = Off
NoBifrostExecutor ==
  /\ spec = Off /\ parent = Off /\ gate = Off /\ raced = Off /\ idle = Off /\ sdk = Off
  /\ sent = Off /\ endOK = Off /\ cur = Off /\ nat = Off /\ started = Off /\ seqno = Off
  /\ cl = Off /\ events = Off /\ sinkFailed = Off /\ got = Off /\ framed = Off
  /\ passed = Off

suiteVars == <<part, streamForwardVars, bifrstreVars, attestreVars, strewebsVars, attemptLoopVars, attewebsVars, attebifrVars, websocketConnectionVars, bifrwebsVars, bifrostExecutorVars>>

ASSUME
  /\ Loop!AttemptAssumption
  /\ Connection!ConnectionAssumption

Init ==
  \/ part = "stream" /\ Stream!Init /\ NoAttemptLoop /\ NoAttewebs /\ NoAttebifr
      /\ NoWebsocketConnection /\ NoBifrwebs /\ NoBifrostExecutor
  \/ part = "loop" /\ Loop!Init /\ broken = {} /\ NoStreamForward /\ NoBifrstre /\ NoStrewebs
      /\ NoWebsocketConnection /\ NoBifrwebs /\ NoBifrostExecutor
  \/ part = "connection" /\ Connection!Init /\ NoStreamForward /\ NoBifrstre /\ NoAttestre
      /\ NoAttemptLoop /\ NoAttebifr /\ NoBifrostExecutor
  \/ part = "executor" /\ Executor!Init /\ NoStreamForward /\ NoAttestre /\ NoStrewebs
      /\ NoAttemptLoop /\ NoAttewebs /\ NoWebsocketConnection

Next ==
  \/ part = "stream" /\ Stream!Next
      /\ UNCHANGED <<part, attemptLoopVars, attewebsVars, attebifrVars, websocketConnectionVars, bifrwebsVars, bifrostExecutorVars>>
  \/ part = "loop" /\ Loop!Next
      /\ UNCHANGED <<part, streamForwardVars, bifrstreVars, strewebsVars, websocketConnectionVars, bifrwebsVars, bifrostExecutorVars>>
  \/ part = "connection" /\ Connection!Next
      /\ UNCHANGED <<part, streamForwardVars, bifrstreVars, attestreVars, attemptLoopVars, attebifrVars, bifrostExecutorVars>>
  \/ part = "executor" /\ Executor!Next
      /\ UNCHANGED <<part, streamForwardVars, attestreVars, strewebsVars, attemptLoopVars, attewebsVars, websocketConnectionVars>>

StreamFairness ==
  /\ WF_(Stream!vars)(part = "stream" /\ Stream!WindowElapses)
  /\ WF_(Stream!vars)(part = "stream" /\ Stream!TimerFires)
  /\ WF_(Stream!vars)(part = "stream" /\ Stream!Callback)

LoopFairness == WF_(Loop!vars)(part = "loop" /\ Loop!Request)

ConnectionFairness ==
  /\ WF_(Connection!vars)(part = "connection" /\ Connection!Read)
  /\ WF_(Connection!vars)(part = "connection" /\ Connection!ReadBody)
  /\ WF_(Connection!vars)(part = "connection" /\ Connection!Forget)
  /\ WF_(Connection!vars)(part = "connection" /\ Connection!Watcher)
  /\ WF_(Connection!vars)(part = "connection" /\ Connection!Receive)
  /\ WF_(Connection!vars)(part = "connection" /\ Connection!BindingStopped)
  /\ WF_(Connection!vars)(part = "connection" /\ Connection!Update)
  /\ WF_(Connection!vars)(part = "connection" /\ Connection!LoopSeesEnd)
  /\ \A m \in Connection!Msgs :
        /\ WF_(Connection!vars)(part = "connection" /\ Connection!Worker(m))
        /\ WF_(Connection!vars)(part = "connection" /\ Connection!Finished(m))
                     /\ SF_(Connection!vars)(part = "connection" /\ Connection!TakeLock(m))

ExecutorFairness ==
  /\ WF_(Executor!vars)(part = "executor" /\ Executor!Executor)
  /\ WF_(Executor!vars)(part = "executor" /\ Executor!Deadline)

Spec == Init /\ [][Next]_suiteVars
  /\ StreamFairness
  /\ LoopFairness
  /\ ConnectionFairness
  /\ ExecutorFairness

-----------------------------------------------------------------------------
\* Held data is released, requests and attempts end, and a connection that lost its right
\* or its upstream does.
EveryRequestEnds ==
    \* StreamForward: what the preread holds is released.
    /\ (part = "stream" /\ out.held # <<>>) ~> (part = "stream" => out.held = <<>>)
    \* AttemptLoop: every request is answered or given up.
    /\ (part = "loop") ~> (part = "loop" => pc = "gone")
    \* WebsocketConnection: a connection whose access was revoked ends.
    /\ (part = "connection" /\ (~cfg.auth \/ (binding # {} /\ ~(binding \subseteq cfg.enabled))))
        ~> (part = "connection" => (Connection!Done \/ Connection!Allowed(cfg)))
    \* WebsocketConnection: a dead upstream session ends its connection.
    /\ (part = "connection" /\ (\E c \in binding : up[c] = "dead"))
        ~> (part = "connection" => (Connection!Done \/ binding = {} \/ \E c \in binding : up[c] = "open"))
    \* BifrostExecutor: every attempt ends.
    /\ (part = "executor") ~> (part = "executor" => pc = "done")
=============================================================================
