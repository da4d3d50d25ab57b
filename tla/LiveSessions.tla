---------------------------- MODULE LiveSessions ----------------------------
(***************************************************************************)
(* Long-lived voice calls of the gateway: a call is created by one HTTP    *)
(* request, controlled by others that attach and detach, and ended by a    *)
(* hang-up request, the upstream, a revoked key, a timer or the stop of    *)
(* the process, in any order and several at a time.  The concurrency       *)
(* permits of the creating request belong to the call until it is removed. *)
(*                                                                         *)
(* A registered call has a call ID of its own.  A timer that has fired     *)
(* cannot be stopped any more: its callback runs later.                    *)
(***************************************************************************)
EXTENDS Integers, FiniteSets

CONSTANTS
    Calls,          \* calls
    Maximum,        \* liveSessions.maximum
    MaxAttempts,    \* liveHangupMaxAttempts
    MaxClaims,      \* bound on the times a call is attached
    MaxEnders       \* bound on concurrent endings of a call

ConstantsAssumption ==
    /\ IsFiniteSet(Calls) /\ Maximum \in Nat \ {0}
    /\ MaxAttempts \in Nat \ {0} /\ MaxClaims \in Nat /\ MaxEnders \in Nat

VARIABLES
    call,      \* call[c]: the call session
    closing,   \* liveSessions.closing
    finish     \* finish[c]: the goroutines in or before attemptFinish

vars == <<call, closing, finish>>

NewCall == [at |-> "none",        \* none, reserved, opened, stored, gone
            slot |-> FALSE,       \* the creating request counts in pending
            terminating |-> FALSE, reason |-> "none",
            attached |-> FALSE, claims |-> 0,
            timer |-> "off", reconnect |-> FALSE,
            generation |-> 0, fired |-> {},   \* reconnect timers that fired
            attempts |-> 0, recorder |-> TRUE,
            unnamed |-> FALSE,    \* hung up without ever being registered
            relay |-> FALSE,      \* a relay has still to report the end
            upstream |-> "none",  \* none, live, ended
            released |-> 0, logged |-> 0]     \* history: releases, log events

NoFinish == [queue |-> 0, busy |-> FALSE, hangup |-> FALSE]

Init ==
    /\ call = [c \in Calls |-> NewCall] /\ closing = FALSE
    /\ finish = [c \in Calls |-> NoFinish]

-----------------------------------------------------------------------------
Stored == {c \in Calls : call[c].at = "stored"}
Pending == {c \in Calls : call[c].slot}
Set(c, r) == call' = [call EXCEPT ![c] = r]
Ended(reason) == reason \in {"upstream_session_ended", "upstream_session_error"}

HasRoom == Cardinality(Stored) + Cardinality(Pending) < Maximum

(* reserve, with the permits the request has taken before *)
Reserve(c) ==
    /\ call[c].at = "none" /\ ~closing /\ HasRoom
    /\ Set(c, [call[c] EXCEPT !.at = "reserved", !.slot = TRUE])
    /\ UNCHANGED <<closing, finish>>

(* No attempt opens a call: the request logs its failure and releases. *)
OpenFails(c) ==
    /\ call[c].at = "reserved"
    /\ Set(c, [call[c] EXCEPT !.at = "gone", !.slot = FALSE, !.released = @ + 1, !.logged = @ + 1])
    /\ UNCHANGED <<closing, finish>>

Opened(c) ==
    /\ call[c].at = "reserved"
    /\ Set(c, [call[c] EXCEPT !.at = "opened", !.upstream = "live"])
    /\ UNCHANGED <<closing, finish>>

(* put: the call is registered with its two timers. *)
Registered(k) == [k EXCEPT !.at = "stored", !.timer = "lifetime", !.reconnect = TRUE, !.generation = @ + 1]

Put(c) ==
    /\ call[c].at = "opened" /\ ~closing
    /\ Set(c, Registered(call[c]))
    /\ UNCHANGED <<closing, finish>>

(* The setup fails after the upstream has created the call: the request    *)
(* logs the failure, and the call is registered only to be hung up, or,    *)
(* when the process stops or the upstream gave no ID or one that another   *)
(* call is registered under, hung up at once and once only.                *)
SetupFails(c) ==
    /\ call[c].at = "opened"
    /\ \/ /\ ~closing
          /\ Set(c, [Registered(call[c]) EXCEPT !.recorder = FALSE, !.logged = @ + 1])
       \/ \E up \in {"live", "ended"} :
             Set(c, [call[c] EXCEPT !.at = "gone", !.slot = FALSE, !.attempts = @ + 1, !.upstream = up,
                                    !.released = @ + 1, !.logged = @ + 1, !.unnamed = ~closing])
    /\ UNCHANGED <<closing, finish>>

(* The creating request returns and gives its slot back. *)
Return(c) ==
    /\ call[c].slot /\ call[c].at \in {"stored", "gone"}
    /\ Set(c, [call[c] EXCEPT !.slot = FALSE])
    /\ UNCHANGED <<closing, finish>>

-----------------------------------------------------------------------------
(* claim *)
Claim(c) ==
    /\ c \in Stored /\ call[c].recorder /\ ~call[c].attached /\ ~call[c].terminating /\ call[c].claims < MaxClaims
    /\ Set(c, [call[c] EXCEPT !.attached = TRUE, !.reconnect = FALSE, !.generation = @ + 1, !.claims = @ + 1])
    /\ UNCHANGED <<closing, finish>>

(* unclaim *)
Unclaim(c) ==
    /\ call[c].attached /\ c \in Stored /\ ~call[c].terminating
    /\ Set(c, [call[c] EXCEPT !.attached = FALSE, !.reconnect = TRUE, !.generation = @ + 1])
    /\ UNCHANGED <<closing, finish>>

(* beginFinishLocked *)
Begun(k, reason) ==
    [k EXCEPT !.reason = IF ~k.terminating \/ Ended(reason) THEN reason ELSE @,
              !.terminating = TRUE, !.timer = "off", !.reconnect = FALSE]

Enqueue(c) == finish' = [finish EXCEPT ![c].queue = @ + 1]

(* finishCall: an ending that is under way accepts only a hang-up request  *)
(* and the confirmation of the upstream.                                   *)
FinishCall(c, reason) ==
    /\ c \in Stored /\ finish[c].queue < MaxEnders
    /\ ~call[c].terminating \/ reason = "client_hangup" \/ Ended(reason)
    /\ Set(c, [Begun(call[c], reason) EXCEPT !.relay = @ /\ ~Ended(reason)])
    /\ Enqueue(c) /\ UNCHANGED closing

(* The client asks to hang up. *)
HangUp(c) == call[c].recorder /\ FinishCall(c, "client_hangup")

(* The watcher, or a request of the client, finds the key revoked. *)
KeyRevoked(c) == call[c].recorder /\ FinishCall(c, "key_revoked")

(* The answer of the creating request cannot be written. *)
ClientGone(c) == call[c].recorder /\ call[c].slot /\ FinishCall(c, "client_disconnected")

(* The control connection relays the end of the session: the reason is     *)
(* noted under the lock, the ending begins after the message is forwarded. *)
UpstreamEnds(c) ==
    /\ c \in Stored /\ call[c].attached /\ call[c].upstream = "live"
    /\ Set(c, [Begun(call[c], "upstream_session_ended") EXCEPT !.upstream = "ended", !.relay = TRUE])
    /\ UNCHANGED <<closing, finish>>

RelayEnds(c) == call[c].relay /\ FinishCall(c, "upstream_session_ended")

(* The request that failed to set the call up finishes it. *)
FinishSetup(c) == ~call[c].recorder /\ FinishCall(c, "setup_failed")

(* The lifetime of the call is over. *)
LifetimeEnds(c) == call[c].timer = "lifetime" /\ FinishCall(c, "expired")

ReconnectFires(c) ==
    /\ c \in Stored /\ call[c].reconnect
    /\ Set(c, [call[c] EXCEPT !.reconnect = FALSE, !.fired = @ \cup {call[c].generation}])
    /\ UNCHANGED <<closing, finish>>

\* Mutant: the callback does not look whether the call is attached again.
StillDetachedUnchecked(k, g) == ~k.terminating

StillDetached(k, g) == ~k.attached /\ ~k.terminating /\ k.generation = g

(* expireReconnect, the callback of the timer of generation g *)
ExpireReconnect(c, g) ==
    /\ g \in call[c].fired
    /\ LET k == [call[c] EXCEPT !.fired = @ \ {g}] IN
       IF c \in Stored /\ StillDetached(k, g)
       THEN Set(c, Begun(k, "control_timeout")) /\ Enqueue(c)
       ELSE Set(c, k) /\ UNCHANGED finish
    /\ UNCHANGED closing

-----------------------------------------------------------------------------
(* attemptFinish under finishMu, until the hang-up request is sent *)
AttemptStarts(c) ==
    /\ finish[c].queue > 0 /\ ~finish[c].busy
    /\ IF c \notin Stored
       THEN /\ finish' = [finish EXCEPT ![c].queue = @ - 1] /\ UNCHANGED call
       ELSE LET hangup == ~Ended(call[c].reason) IN
            /\ finish' = [finish EXCEPT ![c].busy = TRUE, ![c].hangup = hangup]
            /\ Set(c, [call[c] EXCEPT !.timer = "off", !.attempts = IF hangup THEN @ + 1 ELSE @])
    /\ UNCHANGED closing

Releases(retry) == IF retry THEN 0 ELSE 1

Logs(k) == IF k.recorder /\ k.logged = 0 THEN 1 ELSE 0

Retries(k, failed) == failed /\ ~closing /\ k.attempts < MaxAttempts

(* The hang-up request has returned, or none was needed: the call is       *)
(* removed, or a timer is set for the next attempt.                        *)
AttemptEnds(c, ok) ==
    LET k == [call[c] EXCEPT !.upstream = IF finish[c].hangup /\ ok THEN "ended" ELSE @]
        failed == finish[c].hangup /\ ~ok /\ ~Ended(k.reason)
        retry == Retries(k, failed)
    IN
    /\ finish[c].busy
    /\ finish' = [finish EXCEPT ![c] = [queue |-> finish[c].queue - 1, busy |-> FALSE, hangup |-> FALSE]]
    /\ Set(c, [k EXCEPT !.timer = IF retry THEN "retry" ELSE @,
                        !.at = IF retry THEN @ ELSE "gone",
                        !.released = @ + Releases(retry), !.logged = @ + Logs(k)])
    /\ UNCHANGED closing

(* The timer of the next attempt fires. *)
RetryFires(c) ==
    /\ call[c].timer = "retry" /\ c \in Stored
    /\ Set(c, [call[c] EXCEPT !.timer = "off"]) /\ Enqueue(c)
    /\ UNCHANGED closing

(* closeAll, when the process stops *)
CloseAll ==
    /\ ~closing /\ closing' = TRUE
    /\ call' = [c \in Calls |-> IF c \in Stored THEN Begun(call[c], "server_shutdown") ELSE call[c]]
    /\ finish' = [c \in Calls |-> IF c \in Stored THEN [finish[c] EXCEPT !.queue = @ + 1] ELSE finish[c]]

Next ==
    \/ CloseAll
    \/ \E c \in Calls :
        \/ Reserve(c) \/ OpenFails(c) \/ Opened(c) \/ Put(c) \/ SetupFails(c) \/ Return(c)
        \/ Claim(c) \/ Unclaim(c)
        \/ HangUp(c) \/ KeyRevoked(c) \/ ClientGone(c) \/ UpstreamEnds(c) \/ RelayEnds(c) \/ FinishSetup(c) \/ LifetimeEnds(c) \/ ReconnectFires(c)
        \/ \E g \in call[c].fired : ExpireReconnect(c, g)
        \/ AttemptStarts(c) \/ (\E ok \in BOOLEAN : AttemptEnds(c, ok)) \/ RetryFires(c)

Spec == Init /\ [][Next]_vars

(* Timers fire, a hang-up returns by its own deadline (with any result),   *)
(* locks are granted, and a request that failed to set a call up goes on.  *)
Fairness ==
    \A c \in Calls :
        /\ WF_vars((OpenFails(c) \/ Opened(c))) /\ WF_vars((Put(c) \/ SetupFails(c))) /\ WF_vars(Return(c))
        /\ WF_vars(FinishSetup(c)) /\ WF_vars(RelayEnds(c)) /\ WF_vars(LifetimeEnds(c)) /\ WF_vars(RetryFires(c))
        /\ WF_vars(AttemptStarts(c)) /\ WF_vars(\E ok \in BOOLEAN : AttemptEnds(c, ok))

FairSpec == Spec /\ Fairness

-----------------------------------------------------------------------------
(* Calls and calls being created never exceed the configured maximum,      *)
(* although the check and the registration are far apart.                  *)
WithinMaximum == Cardinality({c \in Calls : call[c].at \in {"reserved", "opened", "stored"}}) <= Maximum

(* The permits of a call are given back exactly once, when it is gone,     *)
(* whoever ends it: the failing request, one of several concurrent         *)
(* endings, the last retry or the stop.                                    *)
PermitsReturnOnce == \A c \in Calls : call[c].released = IF call[c].at = "gone" THEN 1 ELSE 0

(* Every call writes one log event, however often its end is attempted.    *)
LoggedOnce == \A c \in Calls : call[c].logged <= 1 /\ (call[c].at = "gone" => call[c].logged = 1)

(* A call that was attached again is not ended by the reconnect timer of   *)
(* its earlier detachment, even when that timer had already fired.         *)
NoStaleTimeout == \A c \in Calls : call[c].attached => call[c].reason # "control_timeout"

(* A call is only given up while the upstream still runs it when all       *)
(* hang-up attempts have failed or the process stops, or when it could not *)
(* be registered: cleanupCodexLiveSetup then tries only once.              *)
NotAbandoned ==
    \A c \in Calls : call[c].at = "gone" /\ call[c].upstream = "live" =>
        closing \/ call[c].attempts >= MaxAttempts \/ call[c].unnamed

(* A call that is being ended has somebody to end it: an attempt that runs *)
(* or waits, a relay, or a timer; no ending stops the timer another one relies on.  *)
EndingIsDriven ==
    \A c \in Stored : call[c].terminating => finish[c].queue > 0 \/ call[c].timer = "retry" \/ call[c].relay

(* Every call comes to its end and frees its slot, even if the upstream    *)
(* never confirms a hang-up and the client never comes back.               *)
CallsEnd == \A c \in Calls : call[c].at = "reserved" ~> call[c].at = "gone" /\ ~call[c].slot
=============================================================================
