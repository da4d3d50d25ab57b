------------------------- MODULE WebsocketConnection -------------------------
(***************************************************************************)
(* One client WebSocket of the gateway (gateway/websocket.go and              *)
(* websocket_turn.go).                                                        *)
(*                                                                         *)
(* A reader registers the client's requests, a loop queues them per lane and    *)
(* starts a worker for each, and the workers share one upstream session, the     *)
(* binding.  Until the binding exists the workers pass one at a time through     *)
(* the bind lock; the first of them may try several credentials.  A watcher      *)
(* tells the loop that the session has ended; the configuration may withdraw      *)
(* the access key or the group at any moment.                                     *)
(*                                                                         *)
(* What a turn carries, prices and quotas are left out: an admission refuses or    *)
(* not, an attempt has one of the outcomes the retry rules tell apart.             *)
(***************************************************************************)
EXTENDS Integers, Sequences, FiniteSets

CONSTANTS N,             \* bound: requests the client sends, numbered in order
          Lanes, LaneOf, \* LaneOf[m]: the lane of request m
          Bad,           \* requests that may be no valid message
          Creds,         \* credentials, each in a group of its own
          Multiplex,     \* whether the upstream runs turns at the same time
          AttemptLimit, ActiveLimit, PendingLimit, InputLimit, LaneLimit,
          MaxChanges     \* bound: configuration changes

Msgs == 1..N

ConnectionAssumption ==
    /\ N \in Nat /\ LaneOf \in [Msgs -> Lanes] /\ Bad \subseteq Msgs /\ Multiplex \in BOOLEAN
    /\ {AttemptLimit, ActiveLimit, PendingLimit, InputLimit, LaneLimit} \subseteq Nat \ {0} /\ MaxChanges \in Nat

VARIABLES cfg,       \* the published configuration: key valid, groups enabled
          changes,
          next, gone,  \* the client: next request, and whether it has left
          reader, msg,
          alive,     \* the connection's context
          accepting, registered, input,
          closed,    \* the reason of the close frame, written once
          queues, lanes, busy, active, pending, stopped, seen, loop,
          w,         \* the workers
          lock, binding, up, watch, signal,
          log,       \* how the turn was recorded
          delivered  \* sessions the client has received a frame of

client == <<next, gone>>
readerVars == <<reader, msg>>
loopVars == <<queues, lanes, busy, active, pending, stopped, seen, loop>>
session == <<binding, up, watch, signal, delivered>>
vars == <<cfg, changes, next, gone, reader, msg, alive, accepting, registered, input, closed, queues, lanes, busy, active,
          pending, stopped, seen, loop, w, lock, binding, up, watch, signal, log, delivered>>

Configs == [auth : BOOLEAN, enabled : SUBSET Creds]
NoWork == [pc |-> "none", cred |-> {}, tried |-> {}, snap |-> [auth |-> FALSE, enabled |-> {}],
           bound |-> FALSE, result |-> "none", sent |-> FALSE, replay |-> "no"]

TypeOK ==
    /\ cfg \in Configs /\ seen \in Configs /\ changes \in 0..MaxChanges
    /\ next \in 1..(N + 1) /\ gone \in BOOLEAN
    /\ reader \in {"next", "body", "full", "refused", "ended"} /\ msg \in SUBSET Msgs /\ Cardinality(msg) <= 1
    /\ alive \in BOOLEAN /\ accepting \in BOOLEAN /\ registered \in 0..N /\ input \in 0..InputLimit
    /\ closed \in {"none", "invalid", "limit", "policy", "timeout", "reconnect"}
    /\ queues \in [Lanes -> Seq(Msgs)] /\ lanes \subseteq Lanes /\ busy \in [Lanes -> BOOLEAN] /\ active \in 0..ActiveLimit
    /\ pending \in 0..PendingLimit /\ stopped \in BOOLEAN /\ loop \in {"running", "ended"}
    /\ w \in [Msgs -> [pc : {"none", "bind", "admit", "attempt", "open", "recheck", "run", "judge", "reconnect",
                             "settle", "finish", "report", "reported", "done"},
                       cred : SUBSET Creds, tried : SUBSET Creds, snap : Configs, bound : BOOLEAN, sent : BOOLEAN,
                       replay : {"no", "wanted", "used"},
                       result : {"none", "not sent", "error event", "clean", "failed", "lost", "canceled"}]]
    /\ lock \in SUBSET Msgs /\ Cardinality(lock) <= 1 /\ binding \in SUBSET Creds /\ Cardinality(binding) <= 1
    /\ up \in [Creds -> {"none", "open", "dead"}] /\ watch \in {"no", "yes", "fired"} /\ signal \in BOOLEAN
    /\ log \in [Msgs -> {"none", "answered", "rejected", "canceled", "reconnect"}] /\ delivered \subseteq Creds

Init ==
    /\ cfg = [auth |-> TRUE, enabled |-> Creds] /\ seen = cfg /\ changes = 0
    /\ next = 1 /\ gone = FALSE /\ reader = "next" /\ msg = {}
    /\ alive = TRUE /\ accepting = TRUE /\ registered = 0 /\ input = 0 /\ closed = "none"
    /\ queues = [l \in Lanes |-> <<>>] /\ lanes = {} /\ busy = [l \in Lanes |-> FALSE]
    /\ active = 0 /\ pending = 0 /\ stopped = FALSE /\ loop = "running"
    /\ w = [m \in Msgs |-> NoWork]
    /\ lock = {} /\ binding = {} /\ up = [c \in Creds |-> "none"] /\ watch = "no" /\ signal = FALSE
    /\ log = [m \in Msgs |-> "none"] /\ delivered = {}

\* closeWith: the first close frame wins, and the connection is cancelled.
closeWith(reason) == closed' = (IF closed = "none" THEN reason ELSE closed) /\ alive' = FALSE

-----------------------------------------------------------------------------
(* The reader.                                                              *)

\* registerTurn.
Registers == accepting /\ alive

\* NextReader: a read error cancels the connection, a frozen one does not.
Read ==
    /\ reader = "next"
    /\ \/ /\ gone \/ ~alive
          /\ reader' = "ended" /\ alive' = FALSE
          /\ UNCHANGED <<next, msg, registered>>
       \/ /\ next <= N /\ ~gone
          /\ next' = next + 1
          /\ IF Registers
             THEN reader' = "body" /\ msg' = {next} /\ registered' = registered + 1
             ELSE reader' = "ended" /\ UNCHANGED <<msg, registered>>
          /\ UNCHANGED alive
    /\ UNCHANGED <<cfg, changes, gone, accepting, input, closed, loopVars, w, lock, session, log>>

\* reserveInput.
Fits == input < InputLimit

ReadBody ==
    /\ reader = "body"
    /\ \/ reader' = "refused" /\ ~Fits /\ closeWith("limit") /\ UNCHANGED input
       \/ reader' = "refused" /\ Fits /\ msg \subseteq Bad /\ closeWith("invalid") /\ UNCHANGED input
       \/ reader' = "refused" /\ gone /\ alive' = FALSE /\ UNCHANGED <<input, closed>>     \* in the middle of it
       \/ reader' = "full" /\ Fits /\ input' = input + 1 /\ UNCHANGED <<closed, alive>>
    /\ UNCHANGED <<cfg, changes, client, msg, accepting, registered, loopVars, w, lock, session, log>>

\* finishTurn of the reader, after the close.
Forget ==
    /\ \/ reader = "refused" /\ UNCHANGED input
       \/ reader = "full" /\ ~alive /\ input' = input - 1
    /\ reader' = "ended" /\ msg' = {} /\ registered' = registered - 1 /\ alive' = FALSE
    /\ UNCHANGED <<cfg, changes, client, accepting, closed, loopVars, w, lock, session, log>>

-----------------------------------------------------------------------------
(* The loop.                                                                *)

Queued == {m \in Msgs : \E l \in Lanes : \E i \in DOMAIN queues[l] : queues[l][i] = m}

\* The deferred cleanup of run.
Drop(k) == registered' = registered - k /\ input' = input - k

\* The end of the loop; extra requests are given up with the queued ones.
EndLoop(extra) ==
    /\ loop' = "ended"
    /\ queues' = [l \in Lanes |-> <<>>] /\ pending' = 0
    /\ log' = [m \in Msgs |-> IF m \in Queued THEN "canceled" ELSE log[m]]
    /\ Drop(Cardinality(Queued) + extra)

FreeLane(l) == ~busy[l] /\ active < ActiveLimit

\* dispatchTurn.
Dispatch(l) ==
    /\ loop = "running" /\ alive /\ ~stopped /\ accepting
    /\ queues[l] # <<>> /\ FreeLane(l)
    /\ w' = [w EXCEPT ![Head(queues[l])].pc = "bind"]
    /\ queues' = [queues EXCEPT ![l] = Tail(@)]
    /\ pending' = pending - 1 /\ active' = active + 1 /\ busy' = [busy EXCEPT ![l] = TRUE]
    /\ UNCHANGED <<cfg, changes, client, readerVars, alive, accepting, registered, input, closed, lanes, stopped, seen, loop,
                   lock, session, log>>

\* A request of a new lane beyond the limit is refused, one too many ends all.
Receive ==
    /\ loop = "running" /\ reader = "full"
    /\ reader' = "next" /\ msg' = {}
    /\ \E m \in msg :
         LET tooMany == LaneOf[m] \notin lanes /\ Cardinality(lanes) >= LaneLimit IN
         \/ /\ tooMany
            /\ log' = [log EXCEPT ![m] = "rejected"] /\ registered' = registered - 1 /\ input' = input - 1
            /\ alive' = (alive /\ cfg.auth)
            /\ UNCHANGED <<lanes, queues, pending, loop, closed>>
         \/ /\ ~tooMany /\ pending < PendingLimit
            /\ lanes' = lanes \cup {LaneOf[m]}
            /\ queues' = [queues EXCEPT ![LaneOf[m]] = Append(@, m)]
            /\ pending' = pending + 1
            /\ UNCHANGED <<registered, input, loop, log, closed, alive>>
         \/ /\ ~tooMany /\ pending = PendingLimit
            /\ lanes' = lanes \cup {LaneOf[m]}
            /\ EndLoop(1) /\ closeWith("limit")
    /\ UNCHANGED <<cfg, changes, client, accepting, busy, active, stopped, seen, w, lock, session>>

Finished(m) ==
    /\ loop = "running" /\ w[m].pc = "report"
    /\ w' = [w EXCEPT ![m].pc = "reported"]
    /\ active' = active - 1 /\ busy' = [busy EXCEPT ![LaneOf[m]] = FALSE]
    /\ IF stopped /\ active = 1
       THEN EndLoop(0) /\ alive' = FALSE
       ELSE UNCHANGED <<loop, queues, pending, log, registered, input, alive>>
    /\ UNCHANGED <<cfg, changes, client, readerVars, accepting, closed, lanes, stopped, seen, lock, session>>

BindingStopped ==
    /\ loop = "running" /\ signal /\ signal' = FALSE /\ stopped' = TRUE
    /\ IF active = 0
       THEN EndLoop(0) /\ alive' = FALSE
       ELSE UNCHANGED <<loop, queues, pending, log, registered, input, alive>>
    /\ UNCHANGED <<cfg, changes, client, readerVars, accepting, closed, lanes, busy, active, seen, w, lock, binding, up, watch, delivered>>

\* refreshConfiguration.
Allowed(c) == c.auth /\ IF binding # {} THEN binding \subseteq c.enabled ELSE c.enabled # {}

Update ==
    /\ loop = "running" /\ seen # cfg /\ seen' = cfg
    /\ IF Allowed(cfg)
       THEN UNCHANGED <<loop, queues, pending, log, registered, input, alive, closed>>
       ELSE EndLoop(0) /\ closeWith("policy")
    /\ UNCHANGED <<cfg, changes, client, readerVars, accepting, lanes, busy, active, stopped, w, lock, session>>

\* The timers: no first turn was admitted, or nothing is under way.
TimesOut ==
    /\ loop = "running"
    /\ \/ \A m \in Msgs : w[m].pc \in {"none", "bind", "admit", "attempt"}
       \/ active = 0 /\ pending = 0
    /\ EndLoop(0) /\ closeWith("timeout")
    /\ UNCHANGED <<cfg, changes, client, readerVars, accepting, lanes, busy, active, stopped, seen, w, lock, session>>

LoopSeesEnd ==
    /\ loop = "running" /\ ~alive
    /\ EndLoop(0)
    /\ UNCHANGED <<cfg, changes, client, readerVars, alive, accepting, closed, lanes, busy, active, stopped, seen, w, lock, session>>

-----------------------------------------------------------------------------
(* A worker: executeTurn.                                                   *)

Set(m, f) == w' = [w EXCEPT ![m] = f]
Unlock(m) == lock' = lock \ {m}
Records(m, how) == log' = [log EXCEPT ![m] = how]
connection == <<cfg, changes, client, readerVars, accepting, registered, input, loopVars>>

\* End of the turn without an upstream answer.
Ends(m, how) == Set(m, [w[m] EXCEPT !.pc = "finish"]) /\ Records(m, how) /\ Unlock(m)

TakeLock(m) ==
    /\ w[m].pc = "bind"
    /\ IF alive
       THEN lock = {} /\ lock' = {m} /\ Set(m, [w[m] EXCEPT !.pc = "admit"]) /\ UNCHANGED log
       ELSE Ends(m, "canceled")
    /\ UNCHANGED <<connection, alive, closed, session>>

\* The checks up to the choice of a credential: key, quota, rate, request, group.
Admit(m) ==
    /\ w[m].pc = "admit"
    /\ \/ /\ ~cfg.auth \/ ~(binding \subseteq cfg.enabled)
          /\ Ends(m, "rejected") /\ alive' = FALSE
       \/ Ends(m, "rejected") /\ UNCHANGED alive
       \/ /\ cfg.auth /\ binding \subseteq cfg.enabled
          /\ Set(m, [w[m] EXCEPT !.pc = "attempt", !.snap = cfg, !.bound = binding # {}, !.cred = binding])
          /\ UNCHANGED <<log, lock, alive>>
    /\ UNCHANGED <<connection, closed, session>>

\* What is left of the lock while the session is opened.
Holds(m) == lock

\* The choice of a credential, its preparation and the last admissions.  Where
\* the target, proxy or headers of a bound session have changed, the connection
\* is given up; a credential is tried again once after the refresh it asked for.
Attempt(m) ==
    /\ w[m].pc = "attempt"
    /\ \/ ~alive /\ Ends(m, "canceled") /\ UNCHANGED alive
       \/ alive /\ Ends(m, "rejected") /\ (UNCHANGED alive \/ (w[m].bound /\ alive' = FALSE))
       \/ /\ alive /\ w[m].bound /\ Unlock(m)
          /\ Set(m, [w[m] EXCEPT !.pc = "run"]) /\ UNCHANGED <<log, alive>>
       \/ /\ alive /\ ~w[m].bound /\ lock' = Holds(m) /\ UNCHANGED <<log, alive>>
          /\ IF w[m].replay = "wanted"
             THEN Set(m, [w[m] EXCEPT !.pc = "open", !.replay = "used"])
             ELSE \E c \in w[m].snap.enabled \ w[m].tried :
                    Set(m, [w[m] EXCEPT !.pc = "open", !.cred = {c}, !.tried = @ \cup {c}])
    /\ UNCHANGED <<connection, closed, session>>

\* OpenWebsocket; the binding is stored when the session exists.
Open(m) ==
    /\ w[m].pc = "open"
    /\ \/ Set(m, [w[m] EXCEPT !.pc = "judge", !.result = IF alive THEN "not sent" ELSE "canceled"]) /\ UNCHANGED session
       \/ /\ binding' = w[m].cred
          /\ up' = [c \in Creds |-> IF c \in w[m].cred THEN "open" ELSE up[c]]
          /\ Set(m, [w[m] EXCEPT !.pc = "recheck"])
          /\ UNCHANGED <<watch, signal, delivered>>
    /\ UNCHANGED <<connection, alive, closed, lock, log>>

StillAllowed(m) == cfg.auth /\ w[m].cred \subseteq cfg.enabled

Recheck(m) ==
    /\ w[m].pc = "recheck"
    /\ IF StillAllowed(m) THEN UNCHANGED <<closed, alive>> ELSE closeWith("policy")
    /\ IF Multiplex THEN Unlock(m) ELSE UNCHANGED lock
    /\ Set(m, [w[m] EXCEPT !.pc = "run"])
    /\ UNCHANGED <<connection, session, log>>

\* runWebsocketAttempt: a frame reaches the client.
Deliver(m) ==
    /\ w[m].pc = "run" /\ alive /\ \A c \in w[m].cred : up[c] = "open"
    /\ Set(m, [w[m] EXCEPT !.sent = TRUE]) /\ Unlock(m)
    /\ delivered' = delivered \cup w[m].cred
    /\ UNCHANGED <<connection, alive, closed, log, binding, up, watch, signal>>

\* An error event that comes first is kept back where the turn may be retried.
KeepsBack(m) == w[m].bound \/ ~Multiplex

RunEnds(m) ==
    /\ w[m].pc = "run"
    /\ \E result \in {"not sent", "error event", "clean", "failed", "lost", "canceled"} :
         /\ result = "canceled" <=> ~alive
         /\ result \in {"error event", "clean", "failed"} => \A c \in w[m].cred : up[c] = "open"
         /\ result = "error event" => KeepsBack(m) /\ ~w[m].sent
         /\ result \in {"clean", "failed"} => w[m].sent
         /\ result = "not sent" => ~w[m].sent
         /\ Set(m, [w[m] EXCEPT !.pc = "judge", !.result = result])
    /\ UNCHANGED <<connection, alive, closed, lock, session, log>>

\* Mutant: a turn that has delivered frames is retried too.
RetryableAlways(m) == w[m].result \in {"not sent", "error event", "lost", "failed"}

Retryable(m) == w[m].result \in {"not sent", "error event"} /\ ~w[m].sent

\* reserveReconnect.
Reserves(m) == registered = 1 /\ alive

forwardAttempts(m) == Cardinality(w[m].tried) + (IF w[m].replay = "used" THEN 1 ELSE 0)

\* The decision after an attempt; the error rules may or may not allow a retry,
\* or ask for a refresh first.
Retry(m) ==
    /\ Retryable(m) /\ ~w[m].bound /\ (binding = {} \/ ~Multiplex)
    /\ forwardAttempts(m) < AttemptLimit /\ alive
    /\ binding' = {}
    /\ up' = [c \in Creds |-> IF c \in binding THEN "dead" ELSE up[c]]
    /\ \/ Set(m, [w[m] EXCEPT !.pc = "attempt", !.cred = {}, !.result = "none"])
       \/ w[m].replay = "no" /\ Set(m, [w[m] EXCEPT !.pc = "attempt", !.result = "none", !.replay = "wanted"])
    /\ UNCHANGED <<connection, alive, closed, lock, log, watch, signal, delivered>>

Reconnect(m) ==
    /\ Retryable(m) /\ w[m].bound /\ alive /\ Reserves(m)
    /\ accepting' = FALSE
    /\ Unlock(m) /\ Records(m, "reconnect") /\ Set(m, [w[m] EXCEPT !.pc = "reconnect"])
    /\ UNCHANGED <<cfg, changes, client, readerVars, alive, registered, input, closed, loopVars, session>>

Answer(m) ==
    /\ Records(m, IF w[m].result = "canceled" \/ (~alive /\ ~w[m].sent) THEN "canceled" ELSE "answered")
    /\ IF w[m].result = "error event" THEN delivered' = delivered \cup w[m].cred /\ Unlock(m) ELSE UNCHANGED <<delivered, lock>>
    /\ Set(m, [w[m] EXCEPT !.pc = "settle"])
    /\ UNCHANGED <<connection, alive, closed, binding, up, watch, signal>>

Judge(m) == w[m].pc = "judge" /\ (Retry(m) \/ Reconnect(m) \/ Answer(m))

\* requestClientReconnect.
AskReconnect(m) ==
    /\ w[m].pc = "reconnect"
    /\ closeWith("reconnect") /\ Set(m, [w[m] EXCEPT !.pc = "finish"])
    /\ UNCHANGED <<connection, lock, session, log>>

Watched(m) == IF watch = "no" THEN "yes" ELSE watch

\* The end of the turn on a binding: watch it, and give up what is broken.
Settle(m) ==
    /\ w[m].pc = "settle"
    /\ Unlock(m) /\ Set(m, [w[m] EXCEPT !.pc = "finish"])
    /\ IF binding # {} /\ w[m].cred = binding
       THEN /\ watch' = Watched(m)
            /\ alive' = (alive /\ w[m].result # "lost" /\ \A c \in binding : up[c] = "open")
       ELSE UNCHANGED <<watch, alive>>
    /\ UNCHANGED <<connection, closed, binding, up, signal, delivered, log>>

Finish(m) ==
    /\ w[m].pc = "finish"
    /\ registered' = registered - 1 /\ Set(m, [NoWork EXCEPT !.pc = "report"])
    /\ UNCHANGED <<cfg, changes, client, readerVars, alive, accepting, input, closed, loopVars, lock, session, log>>

Report(m) ==
    /\ w[m].pc = "reported" \/ (w[m].pc = "report" /\ ~alive)
    /\ input' = input - 1 /\ Set(m, [w[m] EXCEPT !.pc = "done"])
    /\ UNCHANGED <<cfg, changes, client, readerVars, alive, accepting, registered, closed, loopVars, lock, session, log>>

Worker(m) ==
    \/ TakeLock(m) \/ Admit(m) \/ Attempt(m) \/ Open(m) \/ Recheck(m) \/ RunEnds(m) \/ Judge(m)
    \/ AskReconnect(m) \/ Settle(m) \/ Finish(m) \/ Report(m)

-----------------------------------------------------------------------------
(* The session, its watcher, the client and the configuration.               *)

\* The session ends by itself, or with the context of the connection.
SessionEnds(c) ==
    /\ up[c] = "open" /\ up' = [up EXCEPT ![c] = "dead"]
    /\ UNCHANGED <<connection, alive, closed, w, lock, binding, watch, signal, delivered, log>>

\* watchBinding, markBindingUnavailable.
Watcher ==
    /\ watch = "yes" /\ alive /\ \E c \in binding : up[c] = "dead"
    /\ watch' = "fired" /\ accepting' = FALSE /\ signal' = TRUE
    /\ UNCHANGED <<cfg, changes, client, readerVars, alive, registered, input, closed, loopVars, w, lock, binding, up,
                   delivered, log>>

ClientLeaves ==
    /\ ~gone /\ gone' = TRUE
    /\ UNCHANGED <<cfg, changes, next, readerVars, alive, accepting, registered, input, closed, loopVars, w, lock, session, log>>

Publish ==
    /\ changes < MaxChanges /\ changes' = changes + 1
    /\ \E c \in Configs \ {cfg} : cfg' = c
    /\ UNCHANGED <<client, readerVars, alive, accepting, registered, input, closed, loopVars, w, lock, session, log>>

Loop == Receive \/ BindingStopped \/ Update \/ LoopSeesEnd \/ (\E l \in Lanes : Dispatch(l)) \/ \E m \in Msgs : Finished(m)

Done == loop = "ended" /\ reader = "ended" /\ \A m \in Msgs : w[m].pc \in {"none", "done"}

Next ==
    \/ Read \/ ReadBody \/ Forget \/ Loop \/ TimesOut
    \/ \E m \in Msgs : Worker(m) \/ Deliver(m)
    \/ \E c \in Creds : SessionEnds(c)
    \/ Watcher \/ ClientLeaves \/ Publish

Spec == Init /\ [][Next]_vars

\* Goroutines run; the upstream answers or its deadline passes; the bind lock,
\* a channel, is granted to each worker in turn.
Fairness ==
    /\ WF_vars(Read) /\ WF_vars(ReadBody) /\ WF_vars(Forget)
    /\ WF_vars(Watcher) /\ WF_vars(Receive) /\ WF_vars(BindingStopped)
    /\ WF_vars(Update) /\ WF_vars(LoopSeesEnd)
    /\ \A m \in Msgs : /\ WF_vars(Worker(m)) /\ WF_vars(Finished(m))
                       /\ SF_vars(TakeLock(m))

FairSpec == Spec /\ Fairness

-----------------------------------------------------------------------------
(* Properties.                                                              *)

Unfinished == msg \cup Queued \cup {m \in Msgs : w[m].pc \notin {"none", "report", "reported", "done"}}

(* The number of requests the connection believes to be open is right: the       *)
(* decision to ask for a reconnect rests on it.                                   *)
CountIsTrue == registered = Cardinality(Unfinished)

(* The client is asked to reconnect and retry only when it has no other request   *)
(* on the connection, and none was dropped without an answer.                      *)
ReconnectIsAlone ==
    closed = "reconnect" => Cardinality(Unfinished) <= 1 /\ \A m \in Msgs : log[m] # "canceled"

(* The turns of a lane run one after the other, in the order they came.            *)
LaneSerial ==
    \A m, k \in Msgs : m < k /\ LaneOf[m] = LaneOf[k] /\ w[k].pc # "none" => w[m].pc \in {"report", "reported", "done", "none"}

(* The turns of a connection use one session: two workers never run on different   *)
(* sessions.                                                                        *)
OneSession ==
    \A m, k \in Msgs : w[m].pc = "run" /\ w[k].pc = "run" => w[m].cred = w[k].cred

(* When the handler returns, its share of the limits is given back.                 *)
BudgetReturns == Done => registered = 0 /\ input = 0 /\ lock = {}

(* A session the client has received something of is not replaced by another.        *)
NoSwitch == binding \cap delivered # {} => binding' = binding

(* A connection whose key or group is withdrawn ends.                                *)
RevokedEnds == (~cfg.auth \/ (binding # {} /\ ~(binding \subseteq cfg.enabled))) ~> (Done \/ Allowed(cfg))

(* A connection whose session has ended ends as well.                                *)
DeadSessionEnds == (\E c \in binding : up[c] = "dead") ~> (Done \/ binding = {} \/ \E c \in binding : up[c] = "open")
=============================================================================
