---------------------------- MODULE StreamForward ----------------------------
(***************************************************************************)
(* Forwarding one streaming attempt (gateway.ForwardStream).                *)
(*                                                                         *)
(* Three parties share the response of the client under one mutex: the      *)
(* sink, which the executor calls for every chunk; the timer of the preread *)
(* window, which gives up holding when the upstream stays silent; and the   *)
(* end of the attempt, which decides whether the answer was empty.  Each     *)
(* holds the mutex for its whole length, so each is one step here.  The      *)
(* callback of the timer may be due and still wait for the mutex when the   *)
(* attempt has already returned.                                            *)
(*                                                                         *)
(* A chunk is the number of its arrival and a kind: a part of an event       *)
(* ("half") or the piece that completes one.  Time is whether the window     *)
(* has elapsed since the first hold.                                        *)
(***************************************************************************)
EXTENDS Integers, Sequences

CONSTANTS Modes,          \* the ways a request may be forwarded
          Kinds,          \* the chunks an upstream may send
          MaxChunks,      \* bound: chunks of one attempt
          PrereadEvents,  \* emptyResponsePrereadEvents
          PrereadBytes    \* emptyResponsePrereadBytes, in chunks

VARIABLES mode,     \* [empty, whole, restore, required]
          chunks,   \* the kinds of the chunks received so far
          ready,    \* the status of the response metadata, 0 before it
          obs,      \* streamEventObserver
          buf,      \* what the framing and the redaction keep back
          out,      \* the response of the client and what is held before it
          timer,    \* windowTimer
          elapsed,  \* the window has passed since the first hold
          ctx,      \* the context of the request
          up,       \* the executor
          result    \* what ForwardStream returned

vars == <<mode, chunks, ready, obs, buf, out, timer, elapsed, ctx, up, result>>

NoResult == [state |-> "none", exec |-> "", empty |-> FALSE, provider |-> FALSE, replay |-> "", end |-> "", body |-> <<>>]

\* How an executor ends: well or with the kind of its error.
Endings == {"ok", "canceled", "timeout", "provider", "internal", "transport"}

TypeOK ==
    /\ mode \in Modes
    /\ chunks \in Seq(Kinds) /\ Len(chunks) <= MaxChunks
    /\ ready \in {0, 200, 500}
    /\ obs \in [terminal : {"none", "completed", "incomplete", "failed"}, count : 0..MaxChunks,
                content : BOOLEAN, explained : BOOLEAN, firstErr : BOOLEAN, sawErr : BOOLEAN, sent : BOOLEAN]
    /\ buf \in [part : Seq(1..MaxChunks), queue : Seq(1..MaxChunks), blocked : BOOLEAN, released : BOOLEAN]
    /\ out \in [committed : BOOLEAN, commits : 0..2, err : {"none", "write", "protocol", "redaction"},
                broken : BOOLEAN, started : BOOLEAN, held : Seq(1..MaxChunks), heldTerminal : BOOLEAN,
                body : Seq(1..MaxChunks), wire : Seq(1..MaxChunks)]
    /\ timer \in {"off", "armed", "due", "over"} /\ elapsed \in BOOLEAN
    /\ ctx \in {"live", "canceled", "shutdown"} /\ up \in {"open", "stopped", "returned"}
    /\ result \in [state : {"none", "plain", "committed"}, exec : Endings \cup {""}, empty : BOOLEAN, provider : BOOLEAN,
                   replay : {"", "unknown"}, body : Seq(1..MaxChunks),
                   end : {"", "clean", "sse_error", "incomplete", "terminated", "protocol", "idle",
                          "write", "canceled", "shutdown", "redaction"}]

-----------------------------------------------------------------------------
(* streamEventObserver: the events of the stream.                           *)

Disposition(k) ==
    CASE k \in {"done", "refusal"} -> "completed"
      [] k = "incomplete" -> "incomplete"
      [] k = "failed" -> "failed"
      [] OTHER -> "none"

ProviderError(k) == k \in {"error", "failed"}

\* The first terminal event settles the observation; later data only passes.
classify(o, k) ==
    IF o.terminal # "none" \/ k = "half" THEN o
    ELSE [o EXCEPT !.terminal = Disposition(k),
                   !.content = o.content \/ (mode.empty /\ k = "content"),
                   !.explained = o.explained \/ (mode.empty /\ k = "refusal"),
                   !.count = @ + 1,
                   !.firstErr = IF o.count = 0 THEN ProviderError(k) ELSE @,
                   !.sawErr = @ \/ ProviderError(k)]

endedWithoutContent(o) ==
    o.terminal = "completed" /\ ~o.content /\ ~o.sawErr /\ ~o.explained

markTerminalForwarded(o) == IF o.terminal = "none" THEN o ELSE [o EXCEPT !.sent = TRUE]

endObservation(o) ==
    IF o.sawErr THEN "sse_error"
    ELSE IF o.terminal = "incomplete" THEN "incomplete" ELSE "clean"

\* A protocol that has a terminal event must have sent it.
EndsEarly(o) == mode.required /\ o.terminal = "none"

prioritizeStreamObservation(c, e, observation) ==
    CASE c = "shutdown" -> "shutdown"
      [] c = "canceled" \/ e = "canceled" -> "canceled"
      [] OTHER -> IF e = "none" THEN observation ELSE e

\* After the terminal event was delivered the client may go: that is a clean end.
observeStreamTermination(e, o) ==
    IF o.sent /\ e = "protocol" THEN prioritizeStreamObservation("live", e, endObservation(o))
    ELSE IF o.sent /\ (e = "canceled" \/ ctx # "live") THEN endObservation(o)
    ELSE prioritizeStreamObservation(ctx, e, endObservation(o))

executionStreamObservation(t, e, o) ==
    IF e # "none" THEN observeStreamTermination(e, o)
    ELSE CASE t = "ok" -> endObservation(o)
           [] t = "canceled" -> observeStreamTermination("canceled", o)
           [] t = "timeout" -> "idle"
           [] t = "provider" -> "sse_error"
           [] t = "internal" -> "protocol"
           [] OTHER -> "terminated"

-----------------------------------------------------------------------------
(* Framing and restoring.  The framing keeps the pieces of the event that is *)
(* not complete; the restoring of redacted text keeps whole events while a   *)
(* token may still continue, and lets all of them go together.               *)

Terminal(n) == chunks'[n] \in {"done", "refusal", "incomplete", "failed", "error"}

\* One chunk through both; open: a token is open after it.
pushed(n, k, open) ==
    LET events == IF k = "half" THEN <<>> ELSE buf.part \o <<n>>
        queue == buf.queue \o events
        blocked == IF k = "half" THEN buf.blocked ELSE open
        free == mode.restore /\ ~blocked
    IN  [part |-> IF k = "half" THEN Append(buf.part, n) ELSE <<>>,
         queue |-> IF mode.restore /\ blocked THEN queue ELSE <<>>,
         blocked |-> mode.restore /\ blocked,
         released |-> buf.released \/ (free /\ \E i \in DOMAIN queue : Terminal(queue[i]))]

forwardData(n, k, b) ==
    LET events == IF k = "half" THEN <<>> ELSE buf.part \o <<n>>
    IN  IF mode.restore THEN IF b.blocked THEN <<>> ELSE buf.queue \o events
        ELSE IF mode.whole THEN events ELSE <<n>>

terminalInChunk(o, b) ==
    IF mode.restore THEN b.released ELSE obs.terminal = "none" /\ o.terminal # "none"

-----------------------------------------------------------------------------
(* The response of the client.                                              *)

\* A write that failed once fails ever after: the connection keeps its error.
write(s, data, ok) ==
    IF ok /\ ~s.broken THEN [s EXCEPT !.wire = @ \o data]
    ELSE [s EXCEPT !.broken = TRUE, !.err = IF @ = "none" THEN "write" ELSE @]

flush(s) == [s EXCEPT !.held = <<>>, !.heldTerminal = FALSE]

\* commitStream: status and headers, then everything held and the new data.
commitStream(s, data, ok) ==
    write([flush(s) EXCEPT !.committed = TRUE, !.commits = @ + 1], s.held \o data, ok)

hold(s, o, data) ==
    /\ mode.empty
    /\ o.terminal # "none" \/ o.count < PrereadEvents
    /\ Len(s.held) + Len(data) < PrereadBytes
    /\ ~(s.started /\ elapsed)

commitHeld(s, ok) ==
    IF s.committed \/ ready = 0 \/ s.held = <<>> THEN s ELSE commitStream(s, <<>>, ok)

Holds(s, data, terminal) ==
    [s EXCEPT !.held = @ \o data, !.heldTerminal = @ \/ terminal, !.started = TRUE]

-----------------------------------------------------------------------------
Init ==
    /\ mode \in Modes
    /\ chunks = <<>> /\ ready = 0
    /\ obs = [terminal |-> "none", count |-> 0, content |-> FALSE, explained |-> FALSE,
              firstErr |-> FALSE, sawErr |-> FALSE, sent |-> FALSE]
    /\ buf = [part |-> <<>>, queue |-> <<>>, blocked |-> FALSE, released |-> FALSE]
    /\ out = [committed |-> FALSE, commits |-> 0, err |-> "none", broken |-> FALSE, started |-> FALSE,
              held |-> <<>>, heldTerminal |-> FALSE, body |-> <<>>, wire |-> <<>>]
    /\ timer = "off" /\ elapsed = FALSE /\ ctx = "live" /\ up = "open" /\ result = NoResult

\* StreamEventReady.
Ready(status) ==
    /\ up = "open" /\ ready = 0
    /\ ready' = status
    /\ UNCHANGED <<mode, chunks, obs, buf, out, timer, elapsed, ctx, up, result>>

\* The sink returns an error: the executor stops.
SinkFails(reason) ==
    /\ out' = [out EXCEPT !.err = reason]
    /\ up' = "stopped"

\* nativeFirstSSEEventGate: the first chunk of a stream holds a whole event.
\* Mutant: chunks pass before the first event is complete.
NoGate(k) == TRUE

firstEventGate(k) == k = "half" => obs.count > 0

armTimer(t) == IF t = "off" THEN "armed" ELSE t

\* Before the commit: the body of an error, a hold, or the commit itself.
BeforeCommit(o, b, data, ok) ==
    IF o.firstErr THEN
        /\ out' = [out EXCEPT !.body = @ \o data] /\ obs' = o
        /\ UNCHANGED <<timer, up>>
    ELSE IF ~o.content /\ hold(out, o, data) THEN
        /\ out' = Holds(out, data, terminalInChunk(o, b)) /\ obs' = o
        /\ timer' = armTimer(timer)
        /\ UNCHANGED up
    ELSE
        LET s == commitStream([out EXCEPT !.started = @ \/ (mode.empty /\ ~o.content)], data, ok) IN
        /\ out' = s
        /\ timer' = IF timer = "armed" THEN "over" ELSE timer
        /\ obs' = IF s.broken \/ ~(terminalInChunk(o, b) \/ out.heldTerminal) THEN o ELSE markTerminalForwarded(o)
        /\ up' = IF s.broken THEN "stopped" ELSE "open"

AfterCommit(o, b, data, ok) ==
    LET s == write(out, data, ok) IN
    /\ out' = s
    /\ obs' = IF s.broken \/ ~terminalInChunk(o, b) THEN o ELSE markTerminalForwarded(o)
    /\ up' = IF s.broken THEN "stopped" ELSE "open"
    /\ UNCHANGED timer

\* StreamEventData with a success status.
Forward(n, k, open, ok) ==
    LET o == classify(obs, k)
        b == pushed(n, k, open)
        data == forwardData(n, k, b)
    IN  /\ open => mode.restore /\ k \in {"preamble", "content"}
        /\ buf' = b
        /\ IF data = <<>> THEN obs' = o /\ UNCHANGED <<out, timer, up>>
           ELSE IF out.committed THEN AfterCommit(o, b, data, ok)
           ELSE BeforeCommit(o, b, data, ok)

Data(k) ==
    /\ up = "open" /\ Len(chunks) < MaxChunks /\ firstEventGate(k)
    /\ chunks' = Append(chunks, k)
    /\ LET n == Len(chunks) + 1 IN
       CASE ready = 0 -> SinkFails("protocol") /\ UNCHANGED <<obs, buf, timer>>
         [] ready = 500 -> /\ out' = [out EXCEPT !.body = Append(@, n)]
                           /\ UNCHANGED <<obs, buf, timer, up>>
         [] OTHER ->
              \/ /\ k = "bad" /\ obs.terminal = "none"
                 /\ SinkFails("protocol") /\ UNCHANGED <<obs, buf, timer>>
              \/ /\ k = "garbled" /\ mode.restore
                 /\ SinkFails("redaction") /\ obs' = classify(obs, k) /\ UNCHANGED <<buf, timer>>
              \/ /\ ~(k = "bad" /\ obs.terminal = "none") /\ ~(k = "garbled" /\ mode.restore)
                 /\ \E open, ok \in BOOLEAN : Forward(n, k, open, ok)
    /\ UNCHANGED <<mode, ready, elapsed, ctx, result>>

\* The window passes; the runtime makes the callback due; it gets the mutex.
WindowElapses ==
    /\ out.started /\ ~elapsed
    /\ elapsed' = TRUE
    /\ UNCHANGED <<mode, chunks, ready, obs, buf, out, timer, ctx, up, result>>

TimerFires ==
    /\ timer = "armed" /\ elapsed
    /\ timer' = "due"
    /\ UNCHANGED <<mode, chunks, ready, obs, buf, out, elapsed, ctx, up, result>>

Callback ==
    /\ timer = "due"
    /\ timer' = "over"
    /\ \E ok \in BOOLEAN :
         LET s == commitHeld(out, ok) IN
         /\ out' = s
         /\ obs' = IF s.commits > out.commits /\ ~s.broken /\ out.heldTerminal
                   THEN markTerminalForwarded(obs) ELSE obs
    /\ UNCHANGED <<mode, chunks, ready, buf, elapsed, ctx, up, result>>

ContextEnds(c) ==
    /\ ctx = "live" /\ up # "returned"
    /\ ctx' = c
    /\ UNCHANGED <<mode, chunks, ready, obs, buf, out, timer, elapsed, up, result>>

-----------------------------------------------------------------------------
(* The end of the attempt.                                                  *)

\* What the redaction still keeps goes out when the upstream ended well.
restoreTail(s, o, ok) ==
    LET tail == buf.queue
        released == buf.released \/ \E i \in DOMAIN tail : chunks[tail[i]] \in
                        {"done", "refusal", "incomplete", "failed", "error"}
        sent == CASE tail = <<>> -> s
                  [] ~s.committed /\ o.firstErr -> [s EXCEPT !.body = @ \o tail]
                  [] ~s.committed /\ ~o.firstErr /\ ~o.content /\ hold(s, o, tail) -> Holds(s, tail, released)
                  [] ~s.committed /\ ~o.firstErr /\ ~(~o.content /\ hold(s, o, tail)) -> commitStream(s, tail, ok)
                  [] OTHER -> write(s, tail, ok)
    IN  [out |-> sent,
         obs |-> IF sent.committed /\ sent.err = "none" /\ released THEN markTerminalForwarded(o) ELSE o]

\* What is held goes out after all unless the answer was empty.
Release(empty, s, ok) == IF empty THEN s ELSE commitHeld(s, ok)

\* The bytes of the empty answer move into the result.
TakeHeld(s) == flush(s)

\* t: how the executor ended; a result that is not
\* a success needs an error.
Finish(t) ==
    /\ up # "returned"
    /\ up = "stopped" => t # "ok"
    /\ up' = "returned"
    /\ timer' = IF timer = "armed" THEN "over" ELSE timer
    /\ \E ok, restored \in BOOLEAN :
         LET end == IF t = "ok" /\ ready # 200 THEN "internal" ELSE t
             well == out.err = "none" /\ end = "ok"
             broken == buf.part # <<>> \/ EndsEarly(obs)
             failed == [out EXCEPT !.err = IF broken THEN "protocol" ELSE "redaction"]
             t1 == IF ~well THEN [out |-> out, obs |-> obs]
                   ELSE IF broken \/ (mode.restore /\ ~restored) THEN [out |-> failed, obs |-> obs]
                   ELSE IF mode.restore THEN restoreTail(out, obs, ok)
                   ELSE [out |-> out, obs |-> obs]
             empty == /\ ~t1.out.committed /\ t1.out.err = "none" /\ end = "ok"
                      /\ mode.empty /\ endedWithoutContent(t1.obs)
             s == Release(empty, t1.out, ok)
             o == IF s.commits > t1.out.commits /\ ~s.broken /\ t1.out.heldTerminal
                  THEN markTerminalForwarded(t1.obs) ELSE t1.obs
             final == IF s.committed THEN executionStreamObservation(end, s.err, o) ELSE ""
             told == s.committed /\ final = "sse_error" /\ o.sawErr
         IN  /\ obs' = o
             /\ out' = IF empty THEN TakeHeld(s) ELSE s
             /\ result' = [state |-> IF s.committed THEN "committed" ELSE "plain",
                           exec |-> end,
                           empty |-> empty,
                           provider |-> ~s.committed /\ (o.firstErr \/ (end # "ok" /\ ready = 200)),
                           replay |-> IF told \/ s.err = "redaction" THEN "unknown" ELSE "",
                           end |-> final,
                           body |-> IF empty THEN s.held ELSE s.body]
    /\ UNCHANGED <<mode, chunks, ready, buf, elapsed, ctx>>

Done == up = "returned" /\ timer # "due" /\ UNCHANGED vars

Next ==
    \/ \E status \in {200, 500} : Ready(status)
    \/ \E k \in IF ready = 200 THEN Kinds ELSE {"content"} : Data(k)   \* else never parsed
    \/ WindowElapses
    \/ TimerFires
    \/ Callback
    \/ \E c \in {"canceled", "shutdown"} : ContextEnds(c)
    \/ \E t \in Endings : Finish(t)
    \/ Done

Spec == Init /\ [][Next]_vars

\* Time passes and goroutines run; nothing is assumed of the upstream.
Fairness ==
    WF_vars(WindowElapses) /\ WF_vars(TimerFires) /\ WF_vars(Callback)

FairSpec == Spec /\ Fairness

-----------------------------------------------------------------------------
(* Properties.                                                              *)

(* Nothing is lost, repeated or reordered on the way to the client: while    *)
(* no write and no event failed, what the client has, what is held back and  *)
(* what the framing keeps are together exactly what the upstream sent; when  *)
(* a committed stream ended well the client has all of it.                    *)
Whole ==
    LET all == [i \in 1..Len(chunks) |-> i]
        kept == buf.queue \o (IF mode.restore \/ mode.whole THEN buf.part ELSE <<>>)
    IN  /\ out.err = "none" /\ ready = 200 /\ up # "returned" => out.wire \o out.held \o out.body \o kept = all
        /\ out.err = "none" /\ result.state = "committed" /\ result.exec = "ok" => out.wire = all

(* An answer that may be tried again never reached the client: a result that *)
(* is not marked committed left the response of the client untouched, and     *)
(* leaves it so: the callback of a timer that comes after the attempt has      *)
(* returned, when the response may belong to the next attempt, writes nothing. *)
UncommittedIsInvisible ==
    /\ result.state = "plain" => out.wire = <<>> /\ out.commits = 0
    /\ out.commits <= 1 /\ (out.commits = 1 <=> out.committed)

(* An answer is called empty only if the upstream finished it, said nothing,  *)
(* reported no error and gave no reason, and all of its bytes are kept for    *)
(* the client in case no other candidate can answer.                          *)
EmptyIsEmpty ==
    result.empty =>
        /\ \A i \in DOMAIN chunks : chunks[i] \in {"content", "error", "failed", "refusal", "incomplete"} =>
               \E j \in 1..(i - 1) : chunks[j] = "done"
        /\ result.body = [i \in 1..Len(chunks) |-> i]

(* The mark that excuses a client who leaves is only set once the terminal    *)
(* event is on the wire.                                                      *)
TerminalIsDelivered ==
    obs.sent => \E i \in DOMAIN out.wire : chunks[out.wire[i]] \in {"done", "refusal", "incomplete", "failed"}

(* A stream recorded as cleanly ended delivered the terminal event of its     *)
(* protocol, if the protocol has one, and no error event.                     *)
CleanIsComplete ==
    result.end = "clean" =>
        /\ mode.required => \E i \in DOMAIN out.wire : chunks[out.wire[i]] \in {"done", "refusal"}
        /\ ~obs.sawErr

(* A finished answer without content is retried however many events preceded  *)
(* its end, unless the bytes or the time of the window ran out.                *)
EmptyIsNoticed ==
    /\ result.state = "committed" /\ result.exec = "ok" /\ mode.empty /\ ~mode.restore /\ ~elapsed /\ out.err = "none"
    /\ result.end = "clean" /\ endedWithoutContent(obs) /\ Len(chunks) < PrereadBytes
    => obs.count > PrereadEvents

(* A silent upstream cannot keep the client waiting: whatever is held is       *)
(* given to the client, or to the result, although nothing more arrives.        *)
HeldIsReleased == (out.held # <<>>) ~> (out.held = <<>>)
=============================================================================
