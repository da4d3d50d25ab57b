----------------------------- MODULE MCSessions -----------------------------
(* The instances of the websocket connection, the native upstream session  *)
(* and the live sessions that TLC checks. They share no state: Init        *)
(* chooses a part, every step is one of that part, and the variables of    *)
(* the others stay Off.                                                    *)
EXTENDS Integers, Sequences, TLC

CONSTANTS c1, c2, c3, Off

VARIABLE part     \* the part Init chose
VARIABLES reader     \* used by several parts

-----------------------------------------------------------------------------
(* WebsocketConnection: three messages one after the other, the last       *)
(* malformed; two messages that may try both credentials; two messages     *)
(* that share a session while the registry changes.                        *)
VARIABLES cfg, changes, next, gone, msg, alive, accepting, registered, input, closed,
          queues, lanes, busy, active, pending, stopped, seen, loop, w, lock, binding, up,
          watch, signal, log, delivered

Serial == INSTANCE WebsocketConnection WITH Lanes <- {"a", "b"}, Creds <- {c3},
        AttemptLimit <- 2, ActiveLimit <- 2, N <- 3, LaneOf <- <<"a", "a", "b">>,
        Bad <- {3}, Multiplex <- FALSE, PendingLimit <- 2, InputLimit <- 2, LaneLimit <- 2,
        MaxChanges <- 0
Retried == INSTANCE WebsocketConnection WITH Lanes <- {"a", "b"}, Creds <- {c1, c2},
        AttemptLimit <- 2, ActiveLimit <- 2, N <- 2, LaneOf <- <<"a", "a">>, Bad <- {},
        Multiplex <- FALSE, PendingLimit <- 2, InputLimit <- 2, LaneLimit <- 2,
        MaxChanges <- 1
Shared == INSTANCE WebsocketConnection WITH Lanes <- {"a", "b"}, Creds <- {c1, c2},
        AttemptLimit <- 1, ActiveLimit <- 2, N <- 2, LaneOf <- <<"a", "b">>, Bad <- {},
        Multiplex <- TRUE, PendingLimit <- 1, InputLimit <- 3, LaneLimit <- 2,
        MaxChanges <- 1

-----------------------------------------------------------------------------
(* NativeSession: two turns in lanes of their own, or one after the other  *)
(* in the same; each has an event before the final one, which it or the    *)
(* reader may refuse.                                                      *)
VARIABLES turn, result, sent, canceled, armed, slots, write, failure, done, item, wire,
          hangup, upstream, events, handled, refused

Apart == INSTANCE NativeSession WITH Turns <- {1, 2}, Lanes <- {"a", "b"},
        LaneOf <- <<"a", "b">>, MaxEvents <- 2
Again == INSTANCE NativeSession WITH Turns <- {1, 2}, Lanes <- {"a"},
        LaneOf <- <<"a", "a">>, MaxEvents <- 2

-----------------------------------------------------------------------------
(* LiveSessions: two calls compete for one place; one call that several    *)
(* parties end, with retries.                                              *)
VARIABLES live, closing, finish

TwoCalls == INSTANCE LiveSessions WITH Calls <- {c1, c2}, Maximum <- 1, MaxAttempts <- 1,
        MaxClaims <- 1, MaxEnders <- 1, call <- live
OneCall == INSTANCE LiveSessions WITH Calls <- {c3}, Maximum <- 1, MaxAttempts <- 3,
        MaxClaims <- 2, MaxEnders <- 2, call <- live

-----------------------------------------------------------------------------
websocketConnectionVars == <<cfg, changes, next, gone, msg, alive, accepting, registered,
                             input, closed, queues, lanes, busy, active, pending, stopped,
                             seen, loop, w, lock, binding, up, watch, signal, log,
                             delivered>>
natiwebsVars == <<reader>>
nativeSessionVars == <<turn, result, sent, canceled, armed, slots, write, failure, done,
                       item, wire, hangup, upstream, events, handled, refused>>
liveSessionsVars == <<live, closing, finish>>
NoWebsocketConnection ==
  /\ cfg = Off /\ changes = Off /\ next = Off /\ gone = Off /\ msg = Off /\ alive = Off
  /\ accepting = Off /\ registered = Off /\ input = Off /\ closed = Off /\ queues = Off
  /\ lanes = Off /\ busy = Off /\ active = Off /\ pending = Off /\ stopped = Off
  /\ seen = Off /\ loop = Off /\ w = Off /\ lock = Off /\ binding = Off /\ up = Off
  /\ watch = Off /\ signal = Off /\ log = Off /\ delivered = Off
NoNatiwebs ==
  /\ reader = Off
NoNativeSession ==
  /\ turn = Off /\ result = Off /\ sent = Off /\ canceled = Off /\ armed = Off
  /\ slots = Off /\ write = Off /\ failure = Off /\ done = Off /\ item = Off
  /\ wire = Off /\ hangup = Off /\ upstream = Off /\ events = Off /\ handled = Off
  /\ refused = Off
NoLiveSessions ==
  /\ live = Off /\ closing = Off /\ finish = Off

suiteVars == <<part, websocketConnectionVars, natiwebsVars, nativeSessionVars, liveSessionsVars>>

ASSUME
  /\ Serial!ConnectionAssumption
  /\ Retried!ConnectionAssumption
  /\ Shared!ConnectionAssumption
  /\ Apart!SessionAssumption
  /\ Again!SessionAssumption
  /\ TwoCalls!ConstantsAssumption
  /\ OneCall!ConstantsAssumption

Init ==
  \/ part = "serial" /\ Serial!Init /\ NoNativeSession /\ NoLiveSessions
  \/ part = "retried" /\ Retried!Init /\ NoNativeSession /\ NoLiveSessions
  \/ part = "shared" /\ Shared!Init /\ NoNativeSession /\ NoLiveSessions
  \/ part = "turns" /\ Apart!Init /\ NoWebsocketConnection /\ NoLiveSessions
  \/ part = "again" /\ Again!Init /\ NoWebsocketConnection /\ NoLiveSessions
  \/ part = "calls" /\ TwoCalls!Init /\ NoWebsocketConnection /\ NoNatiwebs /\ NoNativeSession
  \/ part = "call" /\ OneCall!Init /\ NoWebsocketConnection /\ NoNatiwebs /\ NoNativeSession

Next ==
  \/ part = "serial" /\ Serial!Next /\ UNCHANGED <<part, nativeSessionVars, liveSessionsVars>>
  \/ part = "retried" /\ Retried!Next /\ UNCHANGED <<part, nativeSessionVars, liveSessionsVars>>
  \/ part = "shared" /\ Shared!Next /\ UNCHANGED <<part, nativeSessionVars, liveSessionsVars>>
  \/ part = "turns" /\ Apart!Next
      /\ UNCHANGED <<part, websocketConnectionVars, liveSessionsVars>>
  \/ part = "again" /\ Again!Next
      /\ UNCHANGED <<part, websocketConnectionVars, liveSessionsVars>>
  \/ part = "calls" /\ TwoCalls!Next
      /\ UNCHANGED <<part, websocketConnectionVars, natiwebsVars, nativeSessionVars>>
  \/ part = "call" /\ OneCall!Next
      /\ UNCHANGED <<part, websocketConnectionVars, natiwebsVars, nativeSessionVars>>

Spec == Init /\ [][Next]_suiteVars

Symmetric == Permutations({c1, c2})

-----------------------------------------------------------------------------
\* A realtime call is ended once, by whoever comes first, and always by somebody.
CallsSettleOnce ==
    \* LiveSessions: at most Maximum calls are open.
    /\ part = "calls" => TwoCalls!WithinMaximum
    \* LiveSessions: the permits of a call are returned exactly once.
    /\ part = "calls" => TwoCalls!PermitsReturnOnce
    /\ part = "call" => OneCall!PermitsReturnOnce
    \* LiveSessions: a call is logged exactly once.
    /\ part = "calls" => TwoCalls!LoggedOnce
    /\ part = "call" => OneCall!LoggedOnce
    \* LiveSessions: a call is not ended for a timeout after it was claimed.
    /\ part = "calls" => TwoCalls!NoStaleTimeout
    /\ part = "call" => OneCall!NoStaleTimeout
    \* LiveSessions: an open call is watched.
    /\ part = "calls" => TwoCalls!NotAbandoned
    /\ part = "call" => OneCall!NotAbandoned
    \* LiveSessions: a call that must end has somebody to end it.
    /\ part = "calls" => TwoCalls!EndingIsDriven
    /\ part = "call" => OneCall!EndingIsDriven

\* WebsocketConnection: a turn stays with the credential that began it.
NoSwitch == [][(part = "serial" => Serial!NoSwitch) /\ (part = "retried" => Retried!NoSwitch)]_suiteVars

\* The turns of a connection share a session and a budget without mixing, and say truly
\* what was sent and received.
TurnsAreSerial ==
    \* WebsocketConnection, NativeSession: every variable has its type.
    /\ part = "serial" => Serial!TypeOK
    /\ part = "turns" => Apart!TypeOK
    \* WebsocketConnection: the count of registered turns is the number of unfinished
    \*   ones.
    /\ part = "serial" => Serial!CountIsTrue
    \* WebsocketConnection: the upstream is replaced only when no other turn uses it.
    /\ part = "serial" => Serial!ReconnectIsAlone
    /\ part = "retried" => Retried!ReconnectIsAlone
    \* WebsocketConnection: the turns of a lane run one after the other.
    /\ part = "serial" => Serial!LaneSerial
    \* WebsocketConnection: the input budget of a finished turn is returned.
    /\ part = "serial" => Serial!BudgetReturns
    \* WebsocketConnection: concurrent turns share one upstream session.
    /\ part = "shared" => Shared!OneSession
    \* NativeSession: a turn reported as not sent was not written.
    /\ part = "turns" => Apart!HonestDispatch
    /\ part = "again" => Again!HonestDispatch
    \* NativeSession: a turn takes the events of its own request, each once and in order.
    /\ part = "turns" => Apart!EventsBelong
    /\ part = "again" => Again!EventsBelong
    \* NativeSession: the terminal event is not lost to the close after it, unless the
    \*   turn refused an event.
    /\ part = "turns" => Apart!FinalEventArrives
    /\ part = "again" => Again!FinalEventArrives
=============================================================================
