-------------------------- MODULE BifrostExecutor --------------------------
(***************************************************************************)
(* One upstream attempt run by the Bifrost execution runtime: Execute and  *)
(* ExecuteStream of internal/execution/bifrost.  The executor goroutine    *)
(* races the SDK call, the first-byte gate (a timer that cancels the call  *)
(* context), the idle timer, the caller's context and a sink that may stop *)
(* the stream, and must report to the gateway what happened: whether the   *)
(* request may have been sent, whether a response had started, with which  *)
(* status, and why it failed.                                              *)
(*                                                                         *)
(* Lanes: "native" (executeNativeStream), "cline" (executeClineStream on   *)
(* top of it), "chat" (ExecuteStream), "resp"                              *)
(* (executeConvertedResponsesStream), "unary" (executePassthrough), "head" *)
(* (executeNativeHead) and "typed" (the typed unary calls).                *)
(*                                                                         *)
(* A response body arrives in pieces.  A piece ends an SSE event with LF   *)
(* LF or CRLF CRLF ("lf"), with another blank line the SSE grammar allows  *)
(* ("cr"), or not at all ("no"); its tag is what the event is: text, a     *)
(* comment without data, an unreadable payload (bad), one over the size    *)
(* limit (huge), an Anthropic message_delta read for its usage only        *)
(* (delta), bytes of an encoding the answer does not declare (encoded), and *)
(* for Cline a finish reason (fin), an error or [DONE].                    *)
(***************************************************************************)
EXTENDS Naturals, Sequences, FiniteSets, SequencesExt

CONSTANTS Attempts,     \* the attempts to run: [lane, alias, conv]
          Statuses,     \* HTTP statuses the upstream answers with
          Pieces,       \* body pieces the upstream sends: [e, t]
          SdkErrors,    \* classes of error the SDK reports
          SinkMayFail,  \* whether the sink may stop the stream
          MayPart,      \* whether the caller may cancel the request
          MaxChunks,    \* bound: chunks of one response
          MaxBody       \* the unary body limit, in pieces

VARIABLES spec,      \* the attempt
          pc,        \* where the executor goroutine is
          parent,    \* the request context: "live", "canceled", "deadline"
          gate,      \* first-byte timer: "off", "armed", "firing", "fired"
          stopped,   \* stopOne is closed
          raced,     \* the gate was stopped after its timer had begun to fire
          idle,      \* idle timer: "off", "armed", "fired", "paused"
          sdk,       \* the SDK call: "none", "calling", "streaming", "ended"
          sent,      \* the SDK has put the request on the wire
          out,       \* outcome channel (capacity 1)
          next,      \* the chunk offered on the stream channel
          endOK,     \* the SDK's stream end indicator
          cur,       \* the chunk being handled
          nat,       \* native stream: observed, status, ready, held, aheld
          started,   \* Ready has been offered to the sink
          seqno,     \* the executor's event counter
          cl,        \* Cline stream: done, up, prot, final, pend
          events,    \* what the sink was offered
          sinkFailed,
          got,       \* pieces of the answer received from the SDK
          framed,    \* history: one of them ended in LF LF or CRLF CRLF
          passed,    \* pieces handed to the sink
          chunks,
          result
exec == <<spec, pc, cur, nat, started, seqno, cl, events, sinkFailed, got, framed, passed, result>>
timers == <<parent, gate, stopped, raced, idle>>
sdkVars == <<sdk, sent, out, next, endOK, chunks>>
vars == <<exec, timers, sdkVars>>

Typed == spec.lane \in {"chat", "resp"}
Gated == spec.lane # "typed"
Passing == spec.lane \in {"native", "cline", "unary"}
OK2xx(st) == st \in 200..299

StatusNow == IF Typed THEN 200 ELSE nat.status
CallDone == parent # "live" \/ gate = "fired"
Expired == gate = "fired"

NoResult == [dispatch |-> "none"]
Fail(dispatch, st, kind, ev) ==
    [dispatch |-> dispatch, started |-> st # 0, status |-> st, kind |-> kind,
     evStatus |-> ev, replay |-> FALSE]
notSentFailure(kind) == Fail("notsent", 0, kind, 0)
attemptedFailure(kind) == Fail("maybe", 0, kind, 0)
startedFailure(st, kind) == Fail("maybe", st, kind, 0)
passthroughHTTPError(st) == Fail("maybe", st, "http", st)
Success(st) == Fail("maybe", st, "none", 0)

(***************************************************************************)
(* SDK errors: what errorEvidence, classifyError and sdkErrorDispatchState *)
(* make of one.                                                            *)
(***************************************************************************)
ErrStatus(e) == CASE e = "http" -> 500 [] e = "busy" -> 429 [] e = "canceled" -> 499 [] OTHER -> 0
Synthetic(e) == e \in {"canceled", "timedout", "dial"}
OfSdk(e) == e \in {"preflight", "sdk", "idleguard"}

classifyError(e, isStarted) ==
    CASE e = "timedout" -> "timeout"
      [] e = "idleguard" /\ (Typed \/ spec.lane \in {"native", "cline"}) -> "timeout"
      [] e = "canceled" -> "canceled"
      [] e = "dial" -> "transport"
      [] e = "preflight" /\ ~isStarted -> "invalid_request"
      [] isStarted /\ ErrStatus(e) >= 400 -> "http"
      [] OfSdk(e) -> "internal"
      [] OTHER -> "provider"

sdkErrorDispatchState(e, isStarted) ==
    IF ~isStarted /\ e = "dial" THEN "notsent" ELSE "maybe"

ErrorResult(e, already, initial) ==
    LET isStarted == already \/ (ErrStatus(e) > 0 /\ ~Synthetic(e) /\ ~OfSdk(e))
        st == IF already THEN initial ELSE IF isStarted THEN ErrStatus(e) ELSE 0
    IN  Fail(sdkErrorDispatchState(e, isStarted), st, classifyError(e, isStarted),
             IF ~isStarted \/ (already /\ ErrStatus(e) # initial) THEN 0 ELSE st)

\* convertedUnaryErrorResult, convertedStreamErrorResult: the SDK refused to
\* serialize the request before it was sent.
ConvertedError(e) ==
    LET r == ErrorResult(e, FALSE, 0)
    IN  IF spec.conv /\ ~r.started /\ e = "preflight"
        THEN notSentFailure("conversion") ELSE r

\* streamCapacityRejection: with ("busy") or without ("capacity") a status.
markPromotedStreamRejectionReplaySafe(r, e) ==
    [r EXCEPT !.replay = e \in {"capacity", "busy"}]

contextKind(expired) ==
    IF expired \/ parent = "deadline" THEN "timeout" ELSE "canceled"

(***************************************************************************)
(* The first-event gate and the alias rewriter of a native stream.         *)
(***************************************************************************)
HasData(p) == p.t # "comment"
Ends(p) == p.e # "no"

\* nativeFirstSSEEventGate.push: hold everything up to the first event with data.
GatePush(n, p) ==
    IF n.ready THEN [n |-> n, out |-> <<p>>, err |-> FALSE]
    ELSE IF p.t = "huge" THEN [n |-> n, out |-> <<>>, err |-> TRUE]
    ELSE IF Ends(p) /\ HasData(p)
    THEN [n |-> [n EXCEPT !.ready = TRUE, !.held = <<>>],
          out |-> Append(n.held, p), err |-> FALSE]
    ELSE [n |-> [n EXCEPT !.held = Append(@, p)], out |-> <<>>, err |-> FALSE]

\* Rewriting one LF-delimited event: its data lines must be one JSON value.
RewriteFails(ps) ==
    \/ \E i \in 1..Len(ps) : ps[i].t \in {"bad", "huge"}
    \/ Cardinality({i \in 1..Len(ps) : HasData(ps[i]) /\ (Ends(ps[i]) \/ i = Len(ps))}) > 1

\* nativeAliasSSERewriter.push: everything up to the last LF delimiter.
AliasPush(n, ps) ==
    LET all     == n.aheld \o ps
        lfs     == {i \in 1..Len(all) : all[i].e = "lf"}
        Before(i) == Max({0} \cup {j \in lfs : j < i})
        last    == Max({0} \cup lfs)
    IN  [n   |-> [n EXCEPT !.aheld = SubSeq(all, last + 1, Len(all))],
         out |-> SubSeq(all, 1, last),
         err |-> \/ \E i \in 1..Len(all) : all[i].t = "huge"
                 \/ \E i \in lfs : RewriteFails(SubSeq(all, Before(i) + 1, i))]

Filter(n, p) ==
    LET g == GatePush(n, p)
    IN  IF g.err \/ ~spec.alias \/ g.out = <<>> THEN g
        ELSE AliasPush(g.n, g.out)

(***************************************************************************)
(* Offering events to the sink.  The sink may refuse any of them; the      *)
(* refused event has still been offered and nothing follows it.            *)
(***************************************************************************)
Offered(kinds) ==
    {[k |-> Len(kinds), ok |-> TRUE]} \cup
    IF SinkMayFail THEN {[k |-> i, ok |-> FALSE] : i \in 1..Len(kinds)} ELSE {}

Number(kinds, from, st) ==
    [i \in 1..Len(kinds) |-> [kind |-> kinds[i], seq |-> from + i,
                              st |-> IF kinds[i] = "ready" THEN st ELSE 0]]

\* clineStream.event for one complete event with tag t.
ClineEvent(c, t) ==
    CASE t = "comment" -> [c |-> c, out |-> IF spec.conv THEN <<>> ELSE <<"data">>]
      [] t # "comment" /\ (c.done \/ t \in {"bad", "huge"}) ->
           [c |-> [c EXCEPT !.prot = TRUE], out |-> <<>>]
      [] t = "done" /\ ~c.done ->
           IF spec.conv /\ ~c.up /\ ~c.final
           THEN [c |-> [c EXCEPT !.done = TRUE, !.prot = TRUE], out |-> <<>>]
           ELSE [c |-> [c EXCEPT !.done = TRUE],
                 out |-> IF spec.conv /\ c.up THEN <<>> ELSE <<"data">>]
      [] t = "error" /\ ~c.done -> [c |-> [c EXCEPT !.up = TRUE], out |-> <<"data">>]
      [] t = "fin" /\ ~c.done -> [c |-> [c EXCEPT !.final = TRUE], out |-> <<"data">>]
      [] OTHER -> [c |-> c, out |-> <<"data">>]

\* clineStream.push for the pieces of one data event.
ClinePush(c0, ps) ==
    FoldLeft(LAMBDA acc, p :
               IF acc.c.prot THEN acc
               ELSE IF ~Ends(p) THEN [acc EXCEPT !.c.pend = <<p>>]
               ELSE LET r == ClineEvent([acc.c EXCEPT !.pend = <<>>], p.t)
                    IN  [c |-> r.c, out |-> acc.out \o r.out],
             [c |-> c0, out |-> <<>>], ps)

(***************************************************************************)
(* Steps of the executor.                                                  *)
(***************************************************************************)
Return(r) == result' = r /\ pc' = IF spec.lane = "cline" THEN "wrap" ELSE "done"

\* Offer kinds, then return the sink failure or what follows when all were taken.
Offer(kinds, st, after) ==
    \E o \in Offered(kinds) :
        /\ events' = events \o Number(SubSeq(kinds, 1, o.k), seqno, st)
        /\ seqno' = seqno + o.k
        /\ sinkFailed' = (sinkFailed \/ ~o.ok)
        /\ started' = (started \/ (o.k > 0 /\ kinds[1] = "ready"))
        /\ IF o.ok THEN after ELSE Return(startedFailure(st, "canceled"))

Quiet == UNCHANGED <<events, seqno, sinkFailed, started>>

\* Mutant: the gate is left armed.
StopGateKeep == UNCHANGED <<gate, stopped, raced>>

\* gate.stop(): a timer that has not begun to fire never will.
StopGate ==
    /\ stopped' = TRUE
    /\ gate' = IF gate = "armed" THEN "off" ELSE gate
    /\ raced' = (raced \/ gate \in {"firing", "fired"})

\* prepare: the runtime is closed, the attempt invalid or not convertible.
Refuse ==
    /\ pc = "prepare"
    /\ \E k \in {"internal", "invalid_request", "conversion"} : result' = notSentFailure(k)
    /\ pc' = "done"
    /\ Quiet /\ UNCHANGED <<spec, cur, nat, cl, got, framed, passed, timers, sdkVars>>

Dispatch ==
    /\ pc = "prepare"
    /\ pc' = "await"
    /\ gate' = IF Gated THEN "armed" ELSE "off"
    /\ sdk' = "calling"
    /\ Quiet /\ UNCHANGED <<spec, cur, nat, cl, got, framed, passed, result, parent, stopped, raced, idle,
                            sent, out, next, endOK, chunks>>

AwaitDone ==
    /\ pc = "await" /\ CallDone
    /\ Return(attemptedFailure(contextKind(Expired)))
    /\ Quiet /\ UNCHANGED <<spec, cur, nat, cl, got, framed, passed, timers, sdkVars>>

TakeOutcome ==
    /\ pc = "await" /\ out # {}
    /\ IF CallDone
       THEN Return(attemptedFailure(contextKind(Expired)))
       ELSE pc' = "outcome" /\ UNCHANGED result
    /\ Quiet /\ UNCHANGED <<spec, cur, nat, cl, got, framed, passed, timers, sdkVars>>

\* ExecuteStream and executeConvertedResponsesStream once the SDK answered.
ChatOutcome ==
    /\ pc = "outcome" /\ Typed
    /\ StopGate
    /\ LET o == CHOOSE x \in out : TRUE IN
       CASE o.k = "err" -> /\ Return(markPromotedStreamRejectionReplaySafe(ConvertedError(o.e), o.e))
                           /\ Quiet /\ UNCHANGED idle
         [] o.k = "nil" -> /\ Return(attemptedFailure("internal"))
                           /\ Quiet /\ UNCHANGED idle
         [] o.k = "stream" ->
              /\ Offer(<<"ready">>, 200, pc' = "loop" /\ UNCHANGED result)
              /\ idle' = IF sinkFailed' THEN idle ELSE "armed"
    /\ UNCHANGED <<spec, cur, nat, cl, got, framed, passed, parent, sdkVars>>

\* executeNativeStream and executePassthrough once the SDK answered.
PassOutcome ==
    /\ pc = "outcome" /\ Passing
    /\ LET o == CHOOSE x \in out : TRUE IN
       CASE o.k = "err" -> Return(ErrorResult(o.e, FALSE, 0)) /\ UNCHANGED idle
         [] o.k = "nil" -> Return(attemptedFailure("internal")) /\ UNCHANGED idle
         [] o.k = "stream" -> /\ pc' = "loop"
                              /\ idle' = IF spec.lane = "unary" THEN "off" ELSE "armed"
                              /\ UNCHANGED result
    /\ Quiet /\ UNCHANGED <<spec, cur, nat, cl, got, framed, passed, parent, gate, stopped, raced, sdkVars>>

\* executeNativeHead and the typed unary calls: the outcome is the answer.  An
\* answer to HEAD that has a body is a bad one.
UnaryOutcome ==
    /\ pc = "outcome" /\ spec.lane \in {"head", "typed"}
    /\ IF spec.lane = "head" THEN StopGate ELSE UNCHANGED <<gate, stopped, raced>>
    /\ LET o == CHOOSE x \in out : TRUE IN
       CASE o.k = "err" -> Return(IF spec.lane = "head" THEN ErrorResult(o.e, FALSE, 0)
                                  ELSE ConvertedError(o.e))
         [] o.k = "nil" -> Return(attemptedFailure("internal"))
         [] o.k = "answer" ->
              Return(IF o.t \in {"bad", "huge"} THEN startedFailure(o.st, "internal")
                     ELSE IF OK2xx(o.st) THEN Success(o.st)
                     ELSE passthroughHTTPError(o.st))
    /\ Quiet /\ UNCHANGED <<spec, cur, nat, cl, got, framed, passed, parent, idle, sdkVars>>

\* The select of the loop.  The typed stream watches the request context only,
\* the passing lanes watch the call context the gate cancels as well.
LoopDone ==
    /\ pc = "loop"
    /\ parent # "live" \/ (Passing /\ CallDone)
    /\ \E expired \in {Expired} \cup (IF parent # "live" /\ spec.lane # "unary" THEN {FALSE} ELSE {}) :
         LET kind == contextKind(IF Typed THEN FALSE ELSE expired)
         IN  Return(IF started THEN startedFailure(StatusNow, kind) ELSE attemptedFailure(kind))
    /\ Quiet /\ UNCHANGED <<spec, cur, nat, cl, got, framed, passed, timers, sdkVars>>

LoopIdle ==
    /\ pc = "loop" /\ idle = "fired"
    /\ Return(IF started THEN startedFailure(StatusNow, "timeout") ELSE attemptedFailure("timeout"))
    /\ Quiet /\ UNCHANGED <<spec, cur, nat, cl, got, framed, passed, timers, sdkVars>>

Receive ==
    /\ pc = "loop" /\ next # {}
    /\ next' = {}
    /\ idle' = IF idle = "off" THEN "off" ELSE "paused"
    /\ IF \/ spec.lane \in {"native", "cline"} /\ CallDone
          \/ Typed /\ parent # "live"
       THEN /\ LET kind == contextKind(~Typed /\ Expired)
               IN  Return(IF started THEN startedFailure(StatusNow, kind)
                          ELSE attemptedFailure(kind))
            /\ UNCHANGED <<cur, got, framed, passed>>
       ELSE /\ pc' = "chunk"
            /\ cur' = next
            /\ got' = got + Cardinality({c \in next : c.k = "body" /\ c.p # <<>>
                                                     /\ c.p[1].t # "delta"})
            /\ framed' = (framed \/ \E c \in next : c.k = "body" /\ c.p # <<>> /\ c.p[1].e = "lf")
            /\ UNCHANGED <<result, passed>>
    /\ Quiet /\ UNCHANGED <<spec, nat, cl, parent, gate, stopped, raced, sdk, sent, out, endOK, chunks>>

Resume == pc' = "loop" /\ idle' = (IF idle = "off" THEN "off" ELSE "armed") /\ UNCHANGED result
Usage(c) == IF c.u THEN <<"usage">> ELSE <<>>
Cur == CHOOSE c \in cur : TRUE

ChatChunk ==
    /\ pc = "chunk" /\ Typed
    /\ CASE Cur.k = "closed" ->
              /\ IF ~endOK THEN Quiet /\ Return(startedFailure(200, "transport"))
                 ELSE IF spec.lane = "chat"
                 THEN Offer(<<"data">>, 200, Return(Success(200)))
                 ELSE Quiet /\ Return(Success(200))
              /\ UNCHANGED <<idle, passed>>
         [] Cur.k = "nil" -> Quiet /\ Return(startedFailure(200, "internal")) /\ UNCHANGED <<idle, passed>>
         [] Cur.k = "err" -> Quiet /\ Return(ErrorResult(Cur.e, TRUE, 200)) /\ UNCHANGED <<idle, passed>>
         [] Cur.k = "body" /\ Cur.p # <<>> ->
              IF Cur.p[1].t = "delta" THEN Quiet /\ Resume /\ UNCHANGED passed
              ELSE IF Cur.p[1].t = "bad"
              THEN Quiet /\ Return(startedFailure(200, "internal")) /\ UNCHANGED <<idle, passed>>
              ELSE /\ Offer(<<"data">> \o Usage(Cur), 200, pc' = "loop" /\ UNCHANGED result)
                   /\ passed' = passed + 1
                   /\ idle' = IF sinkFailed' THEN idle ELSE "armed"
         [] Cur.k = "body" /\ Cur.p = <<>> ->
              /\ Offer(Usage(Cur), 200, pc' = "loop" /\ UNCHANGED result)
              /\ idle' = IF sinkFailed' THEN idle ELSE "armed"
              /\ UNCHANGED passed
    /\ cur' = (IF pc' = "loop" THEN {} ELSE cur)
    /\ UNCHANGED <<spec, nat, cl, got, framed, parent, gate, stopped, raced, sdkVars>>

\* A converted image or embedding answer that cannot be read.
ConversionFailure(st) == Fail("maybe", 502, "provider", 502)

\* executePassthrough: collect the body up to the limit, then answer.
UnaryChunk ==
    /\ pc = "chunk" /\ spec.lane = "unary"
    /\ IF Cur.k = "body" /\ nat.status = 0 THEN StopGate ELSE UNCHANGED <<gate, stopped, raced>>
    /\ CASE Cur.k = "closed" ->
              /\ \E r \in IF nat.status = 0 THEN {attemptedFailure("internal")}
                          ELSE IF nat.held # <<>> /\ nat.held[1].t = "encoded"
                          THEN {startedFailure(nat.status, "internal")}
                          ELSE IF ~OK2xx(nat.status) THEN {passthroughHTTPError(nat.status)}
                          ELSE IF \A i \in 1..Len(nat.held) : nat.held[i].t # "bad"
                          THEN {Success(nat.status)}
                          ELSE {startedFailure(nat.status, "internal")} \cup
                               IF spec.conv THEN {ConversionFailure(nat.status)} ELSE {} :
                   Return(r)
              /\ UNCHANGED nat
         [] Cur.k = "nil" -> Return(attemptedFailure("internal")) /\ UNCHANGED nat
         [] Cur.k = "err" -> Return(ErrorResult(Cur.e, FALSE, 0)) /\ UNCHANGED nat
         [] Cur.k = "body" ->
              IF \/ nat.status # 0 /\ nat.status # Cur.st
                 \/ Len(nat.held) + Len(Cur.p) > MaxBody
              THEN /\ Return(startedFailure(IF nat.status = 0 THEN Cur.st ELSE nat.status, "internal"))
                   /\ UNCHANGED nat
              ELSE /\ nat' = [nat EXCEPT !.status = Cur.st, !.held = @ \o Cur.p]
                   /\ pc' = "loop" /\ UNCHANGED result
    /\ cur' = (IF pc' = "loop" THEN {} ELSE cur)
    /\ Quiet /\ UNCHANGED <<spec, cl, got, framed, passed, parent, idle, sdkVars>>

\* What the pieces of one data event become on the client's side; told is the
\* status of the Ready event the Cline stream has seen, or 0.
Client(ps, told) ==
    IF spec.lane = "native" THEN [c |-> cl, out |-> IF ps = <<>> THEN <<>> ELSE <<"data">>]
    ELSE IF OK2xx(told) THEN ClinePush(cl, ps)
    ELSE [c |-> cl, out |-> <<>>]

\* Usage that arrives before Ready is kept, not offered.
UsageWhenReady(c, live) == IF live THEN Usage(c) ELSE <<>>

\* executeNativeStream: a chunk with a status, possibly a body and usage.
NativeBody ==
    /\ pc = "chunk" /\ spec.lane \in {"native", "cline"} /\ Cur.k = "body"
    /\ IF nat.status # 0 /\ nat.status # Cur.st
       THEN /\ Return(IF started THEN startedFailure(nat.status, "internal")
                      ELSE attemptedFailure("internal"))
            /\ Quiet /\ UNCHANGED <<nat, cl, idle, passed, gate, stopped, raced>>
       ELSE LET st  == Cur.st
                n0  == [nat EXCEPT !.status = st]
                f   == IF Cur.p = <<>> THEN [n |-> n0, out |-> <<>>, err |-> FALSE]
                       ELSE IF OK2xx(st) THEN Filter(n0, Cur.p[1])
                       ELSE [n |-> n0, out |-> Cur.p, err |-> FALSE]
                ready == ~started /\ ~f.err /\ (~OK2xx(st) \/ f.out # <<>>)
                c   == Client(f.out, st)
                live == started \/ ready
                kinds == (IF ready THEN <<"ready">> ELSE <<>>) \o c.out \o
                         (IF c.c.prot THEN <<>> ELSE UsageWhenReady(Cur, live))
            IN  /\ nat' = f.n
                /\ IF ready THEN StopGate ELSE UNCHANGED <<gate, stopped, raced>>
                /\ IF f.err
                   THEN /\ Return(IF started THEN startedFailure(st, "internal")
                                  ELSE attemptedFailure("internal"))
                        /\ Quiet /\ UNCHANGED <<cl, idle, passed>>
                   ELSE /\ cl' = c.c
                        /\ passed' = passed + Len(f.out)
                        /\ Offer(kinds, st, IF c.c.prot THEN Return(startedFailure(st, "canceled"))
                                            ELSE pc' = "loop" /\ UNCHANGED result)
                        /\ idle' = IF pc' = "loop" THEN "armed" ELSE idle
    /\ cur' = (IF pc' = "loop" THEN {} ELSE cur)
    /\ UNCHANGED <<spec, got, framed, parent, sdkVars>>

\* executeNativeStream: the channel is closed, or delivers an error.
NativeEnd ==
    /\ pc = "chunk" /\ spec.lane \in {"native", "cline"} /\ Cur.k # "body"
    /\ LET finish == IF OK2xx(nat.status) THEN Success(nat.status)
                     ELSE passthroughHTTPError(nat.status)
           tail == Client(nat.aheld, IF started THEN nat.status ELSE 0)
       IN
       CASE Cur.k = "err" -> /\ Return(ErrorResult(Cur.e, started, nat.status))
                             /\ Quiet /\ UNCHANGED <<nat, cl, passed>>
         [] Cur.k = "nil" -> /\ Return(IF started THEN startedFailure(nat.status, "internal")
                                       ELSE attemptedFailure("internal"))
                             /\ Quiet /\ UNCHANGED <<nat, cl, passed>>
         [] Cur.k = "closed" /\ (nat.status = 0 \/ (OK2xx(nat.status) /\ ~nat.ready)) ->
              /\ Return(attemptedFailure("internal"))
              /\ Quiet /\ UNCHANGED <<nat, cl, passed>>
         [] Cur.k = "closed" /\ nat.status # 0 /\ (OK2xx(nat.status) => nat.ready) ->
              IF nat.aheld = <<>>
              THEN Return(finish) /\ Quiet /\ UNCHANGED <<nat, cl, passed>>
              ELSE IF RewriteFails(nat.aheld)
              THEN Return(startedFailure(nat.status, "internal")) /\ Quiet /\ UNCHANGED <<nat, cl, passed>>
              ELSE /\ nat' = [nat EXCEPT !.aheld = <<>>]
                   /\ cl' = tail.c
                   /\ passed' = passed + Len(nat.aheld)
                   /\ Offer(tail.out, nat.status,
                            Return(IF tail.c.prot THEN startedFailure(nat.status, "canceled") ELSE finish))
    /\ cur' = (IF pc' = "loop" THEN {} ELSE cur)
    /\ UNCHANGED <<spec, got, framed, timers, sdkVars>>

\* clineStream.finish: a stream must have had [DONE] or an error.
ClineEnd(e) == [e EXCEPT !.c.prot = @ \/ (~e.c.done /\ ~e.c.up)]

\* A Cline answer that breaks the protocol; the evidence has no status.
invalidClineResponse(res) == [res EXCEPT !.kind = "provider", !.evStatus = 0]

\* executeClineStream after the native stream returned: clineStream.finish and
\* the choice of the error that is reported.
ClineWrap ==
    /\ pc = "wrap"
    /\ LET told == IF started THEN nat.status ELSE 0
           ends == result.kind \in {"none", "http"} /\ ~sinkFailed
           f == IF ~ends THEN [c |-> cl, out |-> <<>>]
                ELSE IF ~OK2xx(told) THEN [c |-> [cl EXCEPT !.up = TRUE], out |-> <<"data">>]
                ELSE LET e == IF cl.pend = <<>> THEN [c |-> cl, out |-> <<>>]
                              ELSE ClineEvent(cl, cl.pend[1].t)
                     IN  ClineEnd(e)
           Reported(fail) ==
             IF fail THEN [result EXCEPT !.kind = "canceled", !.evStatus = 0]
             ELSE IF f.c.prot THEN invalidClineResponse(result)
             ELSE IF f.c.up THEN IF OK2xx(told)
                                 THEN [result EXCEPT !.kind = "provider", !.evStatus = 502]
                                 ELSE [result EXCEPT !.kind = "http", !.evStatus = told]
             ELSE result
       IN  /\ cl' = f.c
           /\ \E o \in Offered(f.out) :
                /\ events' = events \o Number(SubSeq(f.out, 1, o.k), seqno, 0)
                /\ seqno' = seqno + o.k
                /\ sinkFailed' = (sinkFailed \/ ~o.ok)
                /\ result' = Reported(sinkFailed')
    /\ pc' = "done"
    /\ UNCHANGED <<spec, cur, nat, started, got, framed, passed, timers, sdkVars>>

(***************************************************************************)
(* Timers, the caller and the SDK.                                         *)
(***************************************************************************)
GateWakes ==
    /\ gate = "armed" /\ pc # "done"
    /\ gate' = "firing"
    /\ UNCHANGED <<parent, stopped, raced, idle, exec, sdkVars>>

GateFires ==
    /\ gate = "firing" /\ pc # "done"
    /\ gate' = "fired"
    /\ UNCHANGED <<parent, stopped, raced, idle, exec, sdkVars>>

IdleFires ==
    /\ idle = "armed" /\ pc = "loop"
    /\ idle' = "fired"
    /\ UNCHANGED <<parent, gate, stopped, raced, exec, sdkVars>>

\* boundedRequestContext: every attempt has a deadline.
Deadline ==
    /\ parent = "live" /\ pc \notin {"prepare", "done"}
    /\ parent' = "deadline"
    /\ UNCHANGED <<gate, stopped, raced, idle, exec, sdkVars>>

Cancel ==
    /\ MayPart /\ parent = "live" /\ pc \notin {"prepare", "done"}
    /\ parent' = "canceled"
    /\ UNCHANGED <<gate, stopped, raced, idle, exec, sdkVars>>

SdkSend ==
    /\ sdk = "calling" /\ ~sent
    /\ sent' = TRUE
    /\ UNCHANGED <<exec, timers, sdk, out, next, endOK, chunks>>

\* Errors the SDK reports instead of an answer.  A refused serialization or a
\* failed dial precede the send; the passing lanes relay HTTP errors as answers.
CallErrors == {e \in SdkErrors :
    /\ e \in {"preflight", "dial"} => ~sent
    /\ e \in {"http", "busy", "capacity", "timedout"} => sent
    /\ e \in {"http", "busy", "capacity"} => ~Passing
    /\ e = "canceled" => CallDone /\ parent # "deadline"
    /\ e # "idleguard"}

SdkAnswers ==
    /\ sdk = "calling"
    /\ \E o \in {[k |-> "err", e |-> e] : e \in CallErrors}
             \cup (IF sent THEN {[k |-> "nil"]} ELSE {})
             \cup (IF sent /\ (Typed \/ Passing) THEN {[k |-> "stream"]} ELSE {})
             \cup (IF sent /\ spec.lane = "head"
                   THEN {[k |-> "answer", st |-> st, t |-> t] : st \in Statuses, t \in {"text", "bad"}} ELSE {})
             \cup (IF sent /\ spec.lane = "typed"
                   THEN {[k |-> "answer", st |-> 200, t |-> t] : t \in {"text", "bad", "huge"}} ELSE {}) :
         /\ out' = {o}
         /\ sdk' = IF o.k = "stream" THEN "streaming" ELSE "ended"
    /\ UNCHANGED <<exec, timers, sent, next, endOK, chunks>>

ChunkErrors == {e \in SdkErrors : /\ e \notin {"preflight", "dial", "busy"}
                                  /\ e = "canceled" => CallDone /\ parent # "deadline"
                                  /\ e \in {"http", "capacity"} => ~Passing}

SdkChunk ==
    /\ sdk = "streaming" /\ next = {} /\ chunks < MaxChunks
    /\ \E c \in {[k |-> "err", e |-> e] : e \in ChunkErrors} \cup {[k |-> "nil"]}
             \cup {[k |-> "body", st |-> st, p |-> p, u |-> u] :
                     st \in Statuses, p \in {<<>>} \cup {<<x>> : x \in Pieces}, u \in BOOLEAN} :
         /\ c.k = "body" /\ Typed => c.p # <<>> \/ c.u
         /\ next' = {c}
         /\ chunks' = chunks + 1
         /\ sdk' = IF c.k = "body" THEN "streaming" ELSE "ended"
    /\ UNCHANGED <<exec, timers, sent, out, endOK>>

\* The stream ends.  A typed stream may be cut short without an error; the
\* passing lanes report a cut as an error unless their call was cancelled.
SdkClose ==
    /\ sdk = "streaming" /\ next = {}
    /\ endOK' \in BOOLEAN
    /\ Passing /\ ~endOK' => CallDone
    /\ next' = {[k |-> "closed"]}
    /\ sdk' = "ended"
    /\ UNCHANGED <<exec, timers, sent, out, chunks>>

Init ==
    /\ spec \in Attempts
    /\ pc = "prepare" /\ parent = "live" /\ gate = "off" /\ stopped = FALSE /\ raced = FALSE
    /\ idle = "off" /\ sdk = "none" /\ sent = FALSE /\ out = {} /\ next = {} /\ endOK = FALSE
    /\ cur = {} /\ nat = [status |-> 0, ready |-> FALSE, held |-> <<>>, aheld |-> <<>>]
    /\ started = FALSE /\ seqno = 0
    /\ cl = [done |-> FALSE, up |-> FALSE, prot |-> FALSE, final |-> FALSE, pend |-> <<>>]
    /\ events = <<>> /\ sinkFailed = FALSE /\ got = 0 /\ framed = FALSE /\ passed = 0 /\ chunks = 0
    /\ result = NoResult

Executor == \/ Refuse \/ Dispatch \/ AwaitDone \/ TakeOutcome
            \/ ChatOutcome \/ PassOutcome \/ UnaryOutcome
            \/ LoopDone \/ LoopIdle \/ Receive
            \/ ChatChunk \/ UnaryChunk \/ NativeBody \/ NativeEnd \/ ClineWrap

Done == pc = "done" /\ UNCHANGED vars
Next == \/ Executor
        \/ GateWakes \/ GateFires \/ IdleFires \/ Deadline \/ Cancel
        \/ SdkSend \/ SdkAnswers \/ SdkChunk \/ SdkClose
        \/ Done

Spec == Init /\ [][Next]_vars

\* The executor is scheduled, sinks return, and the request budget runs out.
Fairness == WF_vars(Executor) /\ WF_vars(Deadline)

FairSpec == Spec /\ Fairness

(***************************************************************************)
(* Properties.                                                             *)
(***************************************************************************)
TypeOK ==
    /\ spec \in Attempts
    /\ pc \in {"prepare", "await", "outcome", "loop", "chunk", "wrap", "done"}
    /\ parent \in {"live", "canceled", "deadline"}
    /\ gate \in {"off", "armed", "firing", "fired"} /\ stopped \in BOOLEAN /\ raced \in BOOLEAN
    /\ idle \in {"off", "armed", "fired", "paused"}
    /\ sdk \in {"none", "calling", "streaming", "ended"}
    /\ sent \in BOOLEAN /\ endOK \in BOOLEAN /\ started \in BOOLEAN /\ sinkFailed \in BOOLEAN
    /\ Cardinality(out) <= 1 /\ Cardinality(next) <= 1 /\ Cardinality(cur) <= 1
    /\ seqno = Len(events)
    /\ chunks \in 0..MaxChunks

Over == pc = "done"
ReadyOffered == \E i \in 1..Len(events) : events[i].kind = "ready"

\* StreamEvent.Validate (validation.go:226, "data must follow a ready event"):
\* the sink sees one Ready, first, and numbered data and usage after it, whatever
\* the gate, the timers and the rewriter do.  There is one exception: the gate
\* takes any blank line for the end of the first event, the alias rewriter only
\* LF LF and CRLF CRLF, and what the rewriter still holds when the stream ends is
\* offered without Ready (passthrough.go:659).  A stream with no such delimiter
\* in it is therefore one data event and nothing else.
EventsAreWellFormed ==
    /\ \A i \in 1..Len(events) : events[i].seq = i
    /\ \/ \A i \in 1..Len(events) : (events[i].kind = "ready") <=> (i = 1)
       \/ spec.alias /\ ~framed /\ Len(events) = 1 /\ events[1].kind = "data"

\* validateResultMetadata: the result handed to the gateway is one it accepts.
\* (A rejected result is replaced by an internal error, and the upstream's own
\* error is lost.)  There is one exception: an error event in a Cline stream is
\* given status 502 (cline_stream.go:179) beside the 200 of the stream, which
\* validation.go:313 refuses, "must match result status_code".
ResultIsAccepted ==
    Over => /\ result.dispatch = "notsent" => ~result.started
            /\ result.kind = "none" => result.started /\ OK2xx(result.status)
            /\ result.evStatus # 0 =>
                 /\ result.started
                 /\ \/ result.evStatus = result.status
                    \/ spec.lane = "cline" /\ cl.up /\ OK2xx(result.status) /\ result.evStatus = 502

\* Once Ready went to the sink, the result says the response had started, with
\* Ready's status, and never that the request was not sent: the attempt loop
\* must not replay a request whose answer the client has begun to see.
ReadyBindsTheResult ==
    Over /\ ReadyOffered =>
        /\ result.started /\ result.dispatch = "maybe"
        /\ result.status = events[1].st

\* "Not sent" is a promise: the SDK never put the request on the wire, so the
\* attempt loop may send it elsewhere.
NotSentIsTrue == Over /\ result.dispatch = "notsent" => ~sent

\* A rejection is marked replay safe (markPromotedStreamRejectionReplaySafe) only
\* when nothing reached the sink: the same rejection met later in a stream, whose
\* first events the client has seen, is not.
ReplayOnlyUnseen == Over /\ result.replay => events = <<>>

\* A stream reported as complete is complete: the SDK ended it normally, every
\* piece it delivered went to the sink (none is left behind in the first-event
\* gate or the alias rewriter), and a Cline stream had its [DONE].
CompleteIsComplete ==
    Over /\ spec.lane \in {"native", "cline", "chat", "resp"} /\ result.kind = "none" =>
        /\ endOK
        /\ passed = got
        /\ spec.lane = "cline" => cl.done

\* The first-byte timeout ends only attempts that had not begun: after Ready a
\* timeout comes from the deadline, the idle timer or the SDK, unless the timer
\* was already running its callback when the gate was stopped.
NoFirstByteTimeoutAfterReady ==
    Over /\ ReadyOffered /\ result.kind = "timeout" =>
        \/ parent = "deadline" \/ idle = "fired" \/ raced
        \/ \E c \in cur : c.k = "err" /\ c.e \in {"timedout", "idleguard"}

\* A cancellation is reported only when the caller or the sink stopped the
\* attempt (or the gate raced with its stop): it is never charged to a timeout.
CanceledHasACause ==
    Over /\ result.kind = "canceled" => parent = "canceled" \/ sinkFailed \/ raced

\* Nothing is offered to a sink that stopped the stream, nor after the result.
NothingAfterTheSinkStopped ==
    events' # events => ~sinkFailed /\ pc # "done"

\* Every attempt ends, however the SDK and the upstream behave: the request
\* budget cancels the context every wait of the executor also listens to.
EveryAttemptEnds == <>(pc = "done")
============================================================================
