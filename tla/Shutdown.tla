------------------------------- MODULE Shutdown -------------------------------
(***************************************************************************)
(* The stop of the process, from the signal to the closed database: the    *)
(* coordinator that counts and cancels HTTP handlers, the HTTP server, the *)
(* control runtime, and the order in which Stop waits for them, saves the  *)
(* runtime checkpoint, stops the request log and closes the database.      *)
(* One deadline bounds all the waits; a second signal ends it early.       *)
(***************************************************************************)
EXTENDS Integers, FiniteSets

CONSTANTS
    Requests,    \* HTTP requests
    Data,        \* those of the data plane, which register a second time
    Hijacked,    \* those whose connection left the HTTP server (websockets)
    Stuck,       \* those whose handler ignores its cancellation
    MayExpire    \* the deadline may pass or the stop be forced

ConstantsAssumption ==
    /\ Data \subseteq Requests /\ Hijacked \subseteq Data /\ Stuck \subseteq Requests
    /\ IsFiniteSet(Requests) /\ MayExpire \in BOOLEAN

VARIABLES
    request,     \* request[r]: where its handler stands
    closing, active, allStop, dataStop,   \* the coordinator
    zero,        \* generation of the channel that is closed at zero
    closedZero,  \* the generations that are closed
    canceled,    \* requests whose context is cancelled
    listening,   \* the HTTP server takes requests
    runtime,     \* the control runtime
    pc,          \* where Stop stands
    stops,       \* cancellations BeginShutdown has still to deliver
    waitFor,     \* the channel Wait has read
    expired,     \* the context of Stop is done
    errs         \* Stop has recorded an error

coordinator == <<closing, active, allStop, dataStop, zero, closedZero>>
stopping == <<pc, stops, waitFor, expired, errs>>
vars == <<request, coordinator, canceled, listening, runtime, stopping>>

Init ==
    /\ request = [r \in Requests |-> "new"]
    /\ closing = FALSE /\ active = 0 /\ allStop = {} /\ dataStop = {}
    /\ zero = 0 /\ closedZero = {0}
    /\ canceled = {} /\ listening = TRUE /\ runtime = "running"
    /\ pc = "serving" /\ stops = {} /\ waitFor = 0 /\ expired = FALSE /\ errs = FALSE

-----------------------------------------------------------------------------
(* addActiveLocked *)
AddActive ==
    /\ active' = active + 1
    /\ zero' = IF active = 0 THEN zero + 1 ELSE zero
    /\ UNCHANGED closedZero

(* leaveLocked *)
LeaveActive ==
    /\ active' = active - 1
    /\ closedZero' = IF active = 1 THEN closedZero \cup {zero} ELSE closedZero
    /\ UNCHANGED zero

Goto(r, at) == request' = [request EXCEPT ![r] = at]

(* The HTTP server calls the first middleware. *)
Arrive(r) ==
    /\ listening /\ request[r] = "new" /\ Goto(r, "arrived")
    /\ UNCHANGED <<coordinator, canceled, listening, runtime, stopping>>

(* TrackAll, before the handler *)
TrackAll(r) ==
    /\ request[r] = "arrived"
    /\ \/ closing /\ Goto(r, "done") /\ UNCHANGED coordinator
       \/ /\ ~closing /\ Goto(r, "tracked")
          /\ AddActive /\ allStop' = allStop \cup {r} /\ UNCHANGED <<closing, dataStop>>
    /\ UNCHANGED <<canceled, listening, runtime, stopping>>

(* BindData, called by the middleware of the data plane *)
BindData(r) ==
    /\ request[r] = "tracked" /\ r \in Data
    /\ \/ closing /\ Goto(r, "leaving") /\ UNCHANGED coordinator
       \/ /\ ~closing /\ Goto(r, "bound")
          /\ AddActive /\ dataStop' = dataStop \cup {r} /\ UNCHANGED <<closing, allStop>>
    /\ UNCHANGED <<canceled, listening, runtime, stopping>>

(* release: the data-plane handler has returned; it has emitted its event. *)
Release(r) ==
    /\ request[r] = "bound" /\ Goto(r, "leaving")
    /\ LeaveActive /\ dataStop' = dataStop \ {r}
    /\ UNCHANGED <<closing, allStop, canceled, listening, runtime, stopping>>

(* TrackAll, after the handler *)
Leave(r) ==
    /\ \/ request[r] = "leaving"
       \/ request[r] = "tracked" /\ r \notin Data
    /\ Goto(r, "done")
    /\ LeaveActive /\ allStop' = allStop \ {r}
    /\ UNCHANGED <<closing, dataStop, canceled, listening, runtime, stopping>>

(* The control runtime returns once its context is cancelled. *)
RuntimeReturns ==
    /\ runtime = "canceled" /\ runtime' = "returned"
    /\ UNCHANGED <<request, coordinator, canceled, listening, stopping>>

-----------------------------------------------------------------------------
(* The deadline of Stop passes, or a second signal arrives. *)
Expire ==
    /\ MayExpire /\ pc \notin {"serving", "stopped"} /\ ~expired /\ expired' = TRUE
    /\ UNCHANGED <<request, coordinator, canceled, listening, runtime, pc, stops, waitFor, errs>>

StopsOfAll == dataStop \cup allStop

(* BeginShutdown, under its lock *)
BeginShutdown ==
    /\ pc = "serving" /\ pc' = "cancel"
    /\ closing' = TRUE /\ stops' = StopsOfAll
    /\ UNCHANGED <<request, active, allStop, dataStop, zero, closedZero, canceled,
                   listening, runtime, waitFor, expired, errs>>

(* BeginShutdown, after the unlock: the cancellations one by one *)
Cancel(r) ==
    /\ pc = "cancel" /\ r \in stops
    /\ stops' = stops \ {r} /\ canceled' = canceled \cup {r}
    /\ UNCHANGED <<request, coordinator, listening, runtime, pc, waitFor, expired, errs>>

(* cancelRuntime, and the start of the drain *)
CancelRuntime ==
    /\ pc = "cancel" /\ stops = {} /\ pc' = "drain" /\ runtime' = "canceled"
    /\ UNCHANGED <<request, coordinator, canceled, listening, stops, waitFor, expired, errs>>

OnServer(r) == r \notin Hijacked /\ request[r] \in {"arrived", "tracked", "bound", "leaving"}

(* server.Shutdown waits for the connections the server still owns; when   *)
(* the deadline passes, server.Close drops them and their handlers run on. *)
DrainServer ==
    /\ pc = "drain" /\ pc' = "runtime" /\ listening' = FALSE
    /\ \/ (\A r \in Requests : ~OnServer(r)) /\ UNCHANGED errs
       \/ expired /\ errs' = TRUE
    /\ UNCHANGED <<request, coordinator, canceled, runtime, stops, waitFor, expired>>

(* The select on runtimeDone; Wait then reads its channel under the lock. *)
WaitRuntime ==
    /\ pc = "runtime" /\ pc' = "wait" /\ waitFor' = zero
    /\ \/ runtime = "returned" /\ UNCHANGED errs
       \/ expired /\ errs' = TRUE
    /\ UNCHANGED <<request, coordinator, canceled, listening, runtime, stops, expired>>

\* Mutant: Stop does not wait for the handlers the server no longer owns.
WaitNothing ==
    /\ pc = "wait" /\ pc' = "save"
    /\ UNCHANGED <<request, coordinator, canceled, listening, runtime, stops, waitFor, expired, errs>>

(* Wait's select *)
Wait ==
    /\ pc = "wait" /\ pc' = "save"
    /\ \/ waitFor \in closedZero /\ UNCHANGED errs
       \/ expired /\ errs' = TRUE
    /\ UNCHANGED <<request, coordinator, canceled, listening, runtime, stops, waitFor, expired>>

(* The checkpoint is saved, the request log stopped, the database closed. *)
Close ==
    /\ \/ pc = "save" /\ pc' = "logs"
       \/ pc = "logs" /\ pc' = "database"
       \/ pc = "database" /\ pc' = "stopped"
    /\ UNCHANGED <<request, coordinator, canceled, listening, runtime, stops, waitFor, expired, errs>>

StopStep == (\E r \in Requests : Cancel(r)) \/ CancelRuntime \/ DrainServer \/ WaitRuntime \/ Wait \/ Close

Next ==
    \/ \E r \in Requests : Arrive(r) \/ TrackAll(r) \/ BindData(r) \/ Release(r) \/ Leave(r)
    \/ RuntimeReturns \/ BeginShutdown \/ Expire \/ StopStep

Spec == Init /\ [][Next]_vars

(* A handler moves through the middleware, and returns at the latest when  *)
(* it is cancelled, unless it is stuck.  The timer of the deadline fires.  *)
Returns(r) == r \in canceled \ Stuck /\ (Release(r) \/ Leave(r))
Fairness ==
    /\ WF_vars(StopStep) /\ WF_vars(RuntimeReturns) /\ WF_vars(Expire)
    /\ \A r \in Requests : WF_vars(TrackAll(r)) /\ WF_vars(BindData(r)) /\ WF_vars(Returns(r))

FairSpec == Spec /\ Fairness

-----------------------------------------------------------------------------
InHandler(r) == request[r] \in {"tracked", "bound", "leaving"}

(* The coordinator's count is its registrations, and the channel a waiter  *)
(* reads is closed exactly while nobody is registered.                     *)
CountIsRegistrations ==
    /\ active = Cardinality(allStop) + Cardinality(dataStop)
    /\ active = 0 <=> zero \in closedZero

(* Nobody escapes the shutdown: when BeginShutdown has returned, every     *)
(* handler that is still running has been cancelled, however its           *)
(* registrations interleaved with it, and no other handler starts.         *)
NobodyEscapes ==
    pc \notin {"serving", "cancel"} => \A r \in Requests : InHandler(r) => r \in canceled

(* A stop without errors saves, drains and closes when all is quiet: no    *)
(* handler can change runtime state after it was saved, emit an event to a *)
(* stopped log or use a closed database.                                   *)
CleanStopIsQuiet ==
    pc \in {"save", "logs", "database", "stopped"} /\ ~errs =>
       /\ \A r \in Requests : ~InHandler(r)
       /\ runtime = "returned"

(* A stop that has begun ends: with handlers that return when cancelled it *)
(* needs no deadline, and with a deadline it needs no handler.             *)
StopEnds == pc = "cancel" ~> pc = "stopped"
=============================================================================
