---------------------------- MODULE NativeSession ----------------------------
(***************************************************************************)
(* The upstream side of a WebSocket (execution/wsnative/session.go).          *)
(*                                                                         *)
(* One reader takes events off the socket and hands each to the turn of its   *)
(* lane over an unbuffered channel, waiting until the turn is done with it.     *)
(* Turns register, write their request under a write slot and handle events     *)
(* until a terminal one.  Any failure ends the whole session: it is recorded     *)
(* once, then the socket is closed, then the done channel.                       *)
(***************************************************************************)
EXTENDS Integers, Sequences, FiniteSets

CONSTANTS Turns, Lanes,
          LaneOf,        \* the lane of every turn
          MaxEvents      \* bound: events the upstream sends for a turn

SessionAssumption == LaneOf \in [Turns -> Lanes] /\ MaxEvents \in Nat

VARIABLES turn,      \* where every turn is
          result,    \* what it returned
          sent,      \* its dispatch state: maybe sent
          canceled,  \* turns whose context has ended
          armed,     \* turns whose context ends the session
          slots,     \* the turn registered in a lane
          write,     \* the holder of the write slot
          failure, done,
          reader, item,   \* the reader and the event it holds
          wire, hangup,   \* events on their way, and whether the upstream has closed
          upstream,       \* the upstream: what it does with every turn
          events,         \* events sent for every turn
          handled,        \* history: the events a turn has taken, in order
          refused         \* history: turns that refused an event

vars == <<turn, result, sent, canceled, armed, slots, write, failure, done, reader, item, wire, hangup, upstream,
          events, handled, refused>>

Failures == {"disconnected", "send failed", "canceled", "consumer", "protocol", "closed"}

\* An event: of which turn, its number, and whether it is one among others, the
\* terminal one, one the turn refuses (another response's ID, an incomplete
\* terminal event) or one the reader refuses (no event, no stream, the limit of
\* the connection).
Kinds == {"event", "last", "mismatch", "bad"}
NoEvent == [of |-> {}, n |-> 0, kind |-> "event"]
Event == [of : SUBSET Turns, n : 0..MaxEvents, kind : Kinds]

TypeOK ==
    /\ turn \in [Turns -> {"idle", "slot", "send", "wait", "handle", "consumer", "protocol", "leave", "end"}]
    /\ result \in [Turns -> {"none", "ok", "busy", "cancelled before", "session"} \cup Failures]
    /\ sent \in [Turns -> BOOLEAN] /\ canceled \subseteq Turns /\ armed \subseteq Turns
    /\ slots \in [Lanes -> SUBSET Turns] /\ write \subseteq Turns /\ Cardinality(write) <= 1
    /\ failure \in Failures \cup {"none"} /\ done \in BOOLEAN
    /\ reader \in {"read", "offer", "ack", "ended"} /\ item \in Event
    /\ wire \in Seq(Event) /\ hangup \in BOOLEAN
    /\ upstream \in [Turns -> {"none", "answering", "answered"}] /\ events \in [Turns -> 0..MaxEvents]
    /\ handled \in [Turns -> Seq(Event)] /\ refused \subseteq Turns

Init ==
    /\ turn = [t \in Turns |-> "idle"] /\ result = [t \in Turns |-> "none"] /\ sent = [t \in Turns |-> FALSE]
    /\ canceled = {} /\ armed = {} /\ slots = [l \in Lanes |-> {}] /\ write = {}
    /\ failure = "none" /\ done = FALSE /\ reader = "read" /\ item = NoEvent
    /\ wire = <<>> /\ hangup = FALSE /\ upstream = [t \in Turns |-> "none"] /\ events = [t \in Turns |-> 0]
    /\ handled = [t \in Turns |-> <<>>] /\ refused = {}

\* fail: once.
Fail(code) == failure' = IF failure = "none" THEN code ELSE failure

\* The socket and the done channel close after the failure is recorded.
Close ==
    /\ failure # "none" /\ ~done /\ done' = TRUE
    /\ UNCHANGED <<turn, result, sent, canceled, armed, slots, write, failure, reader, item, wire, hangup, upstream, events, handled, refused>>

\* Close by the connection.
CloseSession ==
    /\ failure = "none" /\ Fail("closed")
    /\ UNCHANGED <<turn, result, sent, canceled, armed, slots, write, done, reader, item, wire, hangup, upstream, events, handled, refused>>

-----------------------------------------------------------------------------
(* readLoop.                                                                *)

ReadError == Fail("disconnected")

Read ==
    /\ reader = "read"
    /\ \/ /\ wire = <<>> /\ (hangup \/ done)
          /\ reader' = "ended" /\ ReadError /\ UNCHANGED <<item, wire>>
       \/ /\ wire # <<>> /\ ~done
          /\ item' = Head(wire) /\ wire' = Tail(wire)
          /\ IF item'.kind # "bad" /\ \E t \in item'.of : slots[LaneOf[t]] # {}
             THEN reader' = "offer" /\ UNCHANGED failure
             ELSE reader' = "ended" /\ Fail("protocol")      \* not an event, or nobody runs in the lane
       \/ /\ wire # <<>> /\ done /\ reader' = "ended" /\ ReadError /\ UNCHANGED <<item, wire>>
    /\ UNCHANGED <<turn, result, sent, canceled, armed, slots, write, done, hangup, upstream, events, handled, refused>>

\* The reader's waits end with the session, or when the turn has left its lane.
AwaitEnds == reader \in {"offer", "ack"} /\ (done \/ (reader = "offer" /\ \A t \in item.of : slots[LaneOf[t]] = {}))

ReaderStops ==
    /\ AwaitEnds
    /\ reader' = IF done \/ \A t \in item.of : slots[LaneOf[t]] = {} THEN "ended" ELSE "read"
    /\ IF done THEN UNCHANGED failure ELSE IF reader' = "ended" THEN Fail("protocol") ELSE UNCHANGED failure
    /\ UNCHANGED <<turn, result, sent, canceled, armed, slots, write, done, item, wire, hangup, upstream, events, handled, refused>>

-----------------------------------------------------------------------------
(* ExecuteTurn.                                                             *)

Returns(t, r) == result' = [result EXCEPT ![t] = r] /\ turn' = [turn EXCEPT ![t] = "leave"]

Register(t) ==
    /\ turn[t] = "idle"
    /\ \/ failure # "none" /\ Returns(t, "session") /\ UNCHANGED slots
       \/ failure = "none" /\ slots[LaneOf[t]] # {} /\ Returns(t, "busy") /\ UNCHANGED slots
       \/ /\ failure = "none" /\ slots[LaneOf[t]] = {}
          /\ slots' = [slots EXCEPT ![LaneOf[t]] = {t}] /\ turn' = [turn EXCEPT ![t] = "slot"] /\ UNCHANGED result
    /\ UNCHANGED <<sent, canceled, armed, write, failure, done, reader, item, wire, hangup, upstream, events, handled, refused>>

WriteFree == write = {}

TakeWrite(t) ==
    /\ turn[t] = "slot"
    /\ \/ t \in canceled /\ Returns(t, "cancelled before") /\ UNCHANGED write
       \/ done /\ Returns(t, "session") /\ UNCHANGED write
       \/ t \notin canceled /\ WriteFree /\ write' = write \cup {t} /\ turn' = [turn EXCEPT ![t] = "send"] /\ UNCHANGED result
    /\ UNCHANGED <<sent, canceled, armed, slots, failure, done, reader, item, wire, hangup, upstream, events, handled, refused>>

\* Mutant: the state says "sent" once the message was written, not before.
SentIfWritten(t, written) == [sent EXCEPT ![t] = written]

Sent(t, written) == [sent EXCEPT ![t] = TRUE]

\* The write: the request may have reached the upstream although it failed.
Send(t) ==
    /\ turn[t] = "send" /\ write' = write \ {t}
    /\ \/ /\ t \in canceled /\ Returns(t, "cancelled before")
          /\ UNCHANGED <<sent, armed, failure, upstream>>
       \/ /\ t \notin canceled /\ turn' = [turn EXCEPT ![t] = "wait"]
          /\ armed' = armed \cup {t}
          /\ \E written \in BOOLEAN, arrives \in BOOLEAN :
               /\ (done \/ failure # "none") => ~written
               /\ arrives => ~done
               /\ written => arrives \/ hangup
               /\ sent' = Sent(t, written)
               /\ IF written THEN UNCHANGED failure ELSE Fail("send failed")
               /\ upstream' = IF arrives /\ ~hangup THEN [upstream EXCEPT ![t] = "answering"] ELSE upstream
          /\ UNCHANGED result
    /\ UNCHANGED <<canceled, slots, done, reader, item, wire, hangup, events, handled, refused>>

\* The turn registered in the lane takes the event the reader offers.
Take(t) ==
    /\ turn[t] = "wait" /\ reader = "offer" /\ \E u \in item.of : t \in slots[LaneOf[u]]
    /\ turn' = [turn EXCEPT ![t] = "handle"] /\ reader' = "ack"
    /\ UNCHANGED <<result, sent, canceled, armed, slots, write, failure, done, item, wire, hangup, upstream, events, handled, refused>>

\* The turn checks the event and gives it to the consumer.  An event that is
\* refused is acknowledged first and fails the session then; a terminal one
\* unregisters before it is acknowledged.
Handle(t) ==
    /\ turn[t] = "handle"
    /\ handled' = [handled EXCEPT ![t] = Append(@, item)]
    /\ reader' = IF reader = "ack" THEN "read" ELSE reader
    /\ \/ /\ item.kind = "mismatch" /\ turn' = [turn EXCEPT ![t] = "protocol"]
          /\ refused' = refused \cup {t} /\ UNCHANGED <<result, slots>>
       \/ /\ item.kind # "mismatch" /\ turn' = [turn EXCEPT ![t] = "consumer"]
          /\ refused' = refused \cup {t} /\ UNCHANGED <<result, slots>>
       \/ /\ item.kind = "event" /\ turn' = [turn EXCEPT ![t] = "wait"] /\ UNCHANGED <<result, slots, refused>>
       \/ /\ item.kind = "last" /\ Returns(t, "ok") /\ slots' = [slots EXCEPT ![LaneOf[t]] = {}] /\ UNCHANGED refused
    /\ UNCHANGED <<sent, canceled, armed, write, failure, done, item, wire, hangup, upstream, events>>

\* The failure of a refused event, after its acknowledgement.
FailRefused(t) ==
    /\ turn[t] \in {"consumer", "protocol"} /\ Fail(turn[t]) /\ turn' = [turn EXCEPT ![t] = "wait"]
    /\ UNCHANGED <<result, sent, canceled, armed, slots, write, done, reader, item, wire, hangup, upstream, events, handled, refused>>

SeeDone(t) ==
    /\ turn[t] = "wait" /\ done /\ Returns(t, failure)
    /\ UNCHANGED <<sent, canceled, armed, slots, write, failure, done, reader, item, wire, hangup, upstream, events, handled, refused>>

\* The deferred calls: stop the context's hook, unregister.
Leave(t) ==
    /\ turn[t] = "leave" /\ turn' = [turn EXCEPT ![t] = "end"]
    /\ armed' = armed \ {t}
    /\ slots' = [slots EXCEPT ![LaneOf[t]] = @ \ {t}]
    /\ UNCHANGED <<result, sent, canceled, write, failure, done, reader, item, wire, hangup, upstream, events, handled, refused>>

\* context.AfterFunc: the end of the turn's context fails the session.
ContextEnds(t) ==
    /\ t \in canceled /\ t \in armed /\ failure = "none" /\ Fail("canceled")
    /\ UNCHANGED <<turn, result, sent, canceled, armed, slots, write, done, reader, item, wire, hangup, upstream, events, handled, refused>>

Cancel(t) ==
    /\ t \notin canceled /\ turn[t] # "end" /\ canceled' = canceled \cup {t}
    /\ UNCHANGED <<turn, result, sent, armed, slots, write, failure, done, reader, item, wire, hangup, upstream, events, handled, refused>>

-----------------------------------------------------------------------------
(* The upstream answers every request with events up to a last one, and may   *)
(* close the socket.                                                         *)

Answers(t) ==
    /\ upstream[t] = "answering" /\ ~hangup
    /\ \E kind \in Kinds :
         /\ kind # "last" => events[t] + 1 < MaxEvents
         /\ wire' = Append(wire, [of |-> {t}, n |-> events[t] + 1, kind |-> kind])
         /\ events' = [events EXCEPT ![t] = @ + 1]
         /\ upstream' = IF kind = "last" THEN [upstream EXCEPT ![t] = "answered"] ELSE upstream
    /\ UNCHANGED <<turn, result, sent, canceled, armed, slots, write, failure, done, reader, item, hangup, handled, refused>>

HangsUp ==
    /\ ~hangup /\ hangup' = TRUE
    /\ UNCHANGED <<turn, result, sent, canceled, armed, slots, write, failure, done, reader, item, wire, upstream, events, handled, refused>>

Turn(t) == Register(t) \/ TakeWrite(t) \/ Send(t) \/ Take(t) \/ Handle(t) \/ FailRefused(t) \/ SeeDone(t) \/ Leave(t)

Next ==
    \/ Close \/ CloseSession \/ Read \/ ReaderStops \/ HangsUp
    \/ \E t \in Turns : Turn(t) \/ ContextEnds(t) \/ Cancel(t) \/ Answers(t)

Spec == Init /\ [][Next]_vars

\* The goroutines run, and the upstream answers or closes.
Fairness ==
    /\ WF_vars(Close) /\ WF_vars(Read) /\ WF_vars(ReaderStops)
    /\ \A t \in Turns : /\ WF_vars(Turn(t)) /\ SF_vars(TakeWrite(t))
                        /\ WF_vars(ContextEnds(t)) /\ WF_vars(Answers(t))

FairSpec == Spec /\ Fairness

-----------------------------------------------------------------------------
(* Properties.                                                              *)

(* A request that reached the upstream is never reported as not sent.           *)
HonestDispatch == \A t \in Turns : upstream[t] # "none" => sent[t]

(* A turn takes the events of its own request, each once and in the order they  *)
(* were sent, though lanes are used again, turns before it were cancelled and    *)
(* it may have refused an event before.                                          *)
EventsBelong ==
    \A t \in Turns : \A i \in DOMAIN handled[t] : handled[t][i].of = {t} /\ handled[t][i].n = i

(* The final event of a turn is not lost to the upstream closing right after it,  *)
(* unless the turn refused an event: the reader goes on once a refused event is    *)
(* acknowledged, and may record the disconnection before the turn its refusal.     *)
FinalEventArrives ==
    \A t \in Turns : result[t] = "disconnected" => upstream[t] # "answered" \/ t \in refused

(* Every turn ends.                                                                *)
TurnsEnd == \A t \in Turns : turn[t] # "idle" ~> turn[t] = "end"
=============================================================================
