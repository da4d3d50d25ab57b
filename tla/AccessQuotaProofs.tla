--------------------------- MODULE AccessQuotaProofs ---------------------------
(***************************************************************************)
(* Proofs about AccessQuota: type correctness, and that the checkpoint     *)
(* rows stay consistent with the runtime through edits, failed             *)
(* publications, failed or repeated writes and crashes, for every set of   *)
(* keys, rules, requests, costs and every width of the counters.           *)
(***************************************************************************)
EXTENDS AccessQuota, FiniteSetTheorems, WellFoundedInduction, TLAPS

(* The inductive invariant, one part per reason. *)

\* The two tables agree, an ID without a row was never created or is gone for
\* good, and the runtime never knows a newer revision than the table.
RowsInv ==
    \A r \in Rules :
        /\ stateRow[r].revision = ruleRow[r].revision
        /\ r \notin created => ruleRow[r].revision = 0 /\ entry[r].def.revision = 0
        /\ ruleRow[r].revision # 0 => entry[r].def.revision <= ruleRow[r].revision
        /\ r \in PeriodicRules /\ ruleRow[r].revision # 0 => ruleRow[r].period > 0

\* A revision the runtime does not run yet has an untouched row; one it runs
\* has the same period, and a row that is a past state of the memory.
Past(old, mem) ==
    /\ old.version <= mem.version
    /\ old.version = mem.version /\ mem.version < MaxUint64 => old = mem
    /\ old.window.ends <= mem.window.ends
    /\ old.window = mem.window => old.used <= mem.used

RuntimeInv ==
    \A r \in Rules :
        /\ entry[r].def.revision # 0 =>
             /\ WellFormed(r, entry[r].state, entry[r].def.period)
             /\ r \in PeriodicRules => entry[r].def.period > 0
        /\ ruleRow[r].revision # 0 /\ entry[r].def.revision # ruleRow[r].revision
             => stateRow[r].state = FreshState
        /\ ruleRow[r].revision # 0 /\ entry[r].def.revision = ruleRow[r].revision
             => /\ entry[r].def.period = ruleRow[r].period
                /\ Past(stateRow[r].state, entry[r].state)
                /\ ~entry[r].dirty /\ entry[r].state.version < MaxUint64
                     => stateRow[r].state.version = entry[r].state.version
        /\ ruleRow[r].revision # 0
             => WellFormed(r, stateRow[r].state, ruleRow[r].period)

\* The worker's batch holds at most one snapshot of a rule, each a past state of
\* a revision that is not newer than the runtime's.
WorkerInv ==
    /\ wpc # "scan" => scan = {}
    /\ wpc \in {"idle", "delay", "recheck"} => batch = {}
    /\ \A b \in batch : Owner[b.rule] \notin scan
    /\ \A b, c \in batch : b.rule = c.rule => b = c

BatchInv ==
    \A b \in batch :
        /\ b.revision # 0
        /\ b.rule \in created
        /\ ruleRow[b.rule].revision # 0 => b.revision <= entry[b.rule].def.revision
        /\ b.revision = entry[b.rule].def.revision
             => /\ Past(b.state, entry[b.rule].state)
                /\ WellFormed(b.rule, b.state, entry[b.rule].def.period)
        /\ wpc = "ack" /\ b.revision = stateRow[b.rule].revision
             => b.state.version <= stateRow[b.rule].state.version

\* A ticket for a periodic rule names a window that was open.
TicketInv ==
    \A q \in Requests, r \in PeriodicRules :
        req[q].ticket[r].revision # 0 => req[q].ticket[r].generation # 0

Inv == TypeOK /\ RowsInv /\ RuntimeInv /\ WorkerInv /\ BatchInv /\ TicketInv

-----------------------------------------------------------------------------
(* Facts about the helpers. *)

\* A rule that was never charged has a state every check accepts.
LEMMA FreshFacts ==
    /\ FreshState \in State
    /\ \A r \in Rules, p \in Nat : WellFormed(r, FreshState, p)
    /\ NoRule \in Definition /\ NoRow \in StateRow /\ NoEntry \in RuntimeRule
BY WidthAssumption
   DEF FreshState, State, NoWindow, Window, WellFormed, NoRule, Definition, NoRow,
       StateRow, NoEntry, RuntimeRule

\* Every state is a past state of itself.
LEMMA PastReflexive == \A s \in State : Past(s, s)
BY WidthAssumption DEF Past, State, Window

\* Opening a window keeps the types and the definition, marks the rule dirty and
\* leaves every past state in the past.
LEMMA OpenWindowFacts ==
    ASSUME NEW rule \in RuntimeRule, NEW t \in Nat
    PROVE  LET new == OpenWindow(rule, t)
           IN  /\ new \in RuntimeRule
               /\ new.def = rule.def /\ new.dirty
               /\ new.state.generation # 0
               /\ new.state.window = [started |-> t, ends |-> t + rule.def.period]
               /\ rule.def.period > 0 /\ periodicInactive(rule.state, t)
                    => \A old \in State : Past(old, rule.state) => Past(old, new.state)
<1> DEFINE new == OpenWindow(rule, t)
<1>1. /\ new.def = rule.def
      /\ new.dirty = TRUE
      /\ new.state = [used |-> 0,
                      window |-> [started |-> t, ends |-> t + rule.def.period],
                      generation |-> Saturating(rule.state.generation),
                      version |-> Saturating(rule.state.version)]
      /\ new = [def |-> new.def, state |-> new.state, dirty |-> new.dirty]
  BY DEF OpenWindow
<1>2. /\ Saturating(rule.state.generation) \in 1 .. MaxUint64
      /\ Saturating(rule.state.version) \in 1 .. MaxUint64
      /\ rule.state.version < MaxUint64
           => Saturating(rule.state.version) = rule.state.version + 1
      /\ rule.state.version >= MaxUint64 => Saturating(rule.state.version) = MaxUint64
  BY WidthAssumption DEF Saturating, RuntimeRule, State
<1>3. new.state \in State
  BY <1>1, <1>2, WidthAssumption DEF State, Window, RuntimeRule, Definition
<1>4. new \in RuntimeRule
  BY <1>1, <1>3, Zenon DEF RuntimeRule
<1>5. ASSUME rule.def.period > 0, periodicInactive(rule.state, t),
             NEW old \in State, Past(old, rule.state)
      PROVE  Past(old, new.state)
  <2>1. rule.state.window.ends <= t
    BY <1>5 DEF periodicInactive, NoWindow, RuntimeRule, State, Window
  <2>2. old.window.ends < new.state.window.ends
    BY <2>1, <1>1, <1>5 DEF Past, RuntimeRule, State, Window, Definition
  <2>3. old.version < new.state.version \/ new.state.version = MaxUint64
    BY <1>1, <1>2, <1>5, WidthAssumption DEF Past, RuntimeRule, State
  <2> QED
    BY <2>2, <2>3, <1>3, WidthAssumption DEF Past, State, Window
<1> QED
  BY <1>1, <1>2, <1>4, <1>5, WidthAssumption

\* Complete charges the usage.
LEMMA ChargedUsage ==
    ASSUME NEW rule, NEW cost
    PROVE  Charged(rule, cost).state.used = Charge(rule.state.used, cost)
BY DEF Charged

\* Charging a cost keeps the past states past too, and never lowers the usage.
LEMMA ChargeFacts ==
    ASSUME NEW rule \in RuntimeRule, NEW cost \in Int
    PROVE  LET new == Charged(rule, cost)
           IN  /\ new \in RuntimeRule
               /\ new.def = rule.def /\ new.dirty
               /\ new.state.window = rule.state.window
               /\ new.state.generation = rule.state.generation
               /\ \A old \in State : Past(old, rule.state) => Past(old, new.state)
<1> DEFINE new == Charged(rule, cost)
           s == new.state
<1>1. /\ new.def = rule.def /\ new.dirty = TRUE
      /\ new = [def |-> new.def, state |-> new.state, dirty |-> new.dirty]
      /\ s = [used |-> Charge(rule.state.used, cost), window |-> rule.state.window,
              generation |-> rule.state.generation,
              version |-> Saturating(rule.state.version)]
  BY DEF Charged
<1>2. Charge(rule.state.used, cost) \in rule.state.used .. MaxInt64
  BY WidthAssumption DEF Charge, RuntimeRule, State
<1>3. /\ Saturating(rule.state.version) \in 1 .. MaxUint64
      /\ rule.state.version < MaxUint64
           => Saturating(rule.state.version) = rule.state.version + 1
      /\ rule.state.version >= MaxUint64 => Saturating(rule.state.version) = MaxUint64
  BY WidthAssumption DEF Saturating, RuntimeRule, State
<1>4. s \in State
  BY <1>1, <1>2, <1>3, WidthAssumption DEF State, RuntimeRule
<1>5. ASSUME NEW old \in State, Past(old, rule.state)
      PROVE  Past(old, s)
  <2>1. old.version < s.version \/ s.version = MaxUint64
    BY <1>1, <1>3, <1>5, WidthAssumption DEF Past, RuntimeRule, State
  <2>2. old.window.ends <= s.window.ends
    BY <1>1, <1>5 DEF Past
  <2>3. old.window = s.window => old.used <= s.used
    BY <1>1, <1>2, <1>5, WidthAssumption DEF Past, RuntimeRule, State
  <2> QED
    BY <2>1, <2>2, <2>3, <1>4, WidthAssumption DEF Past, State
<1>6. new \in RuntimeRule
  BY <1>1, <1>4, Zenon DEF RuntimeRule
<1> QED
  BY <1>1, <1>5, <1>6

-----------------------------------------------------------------------------
(* The steps that only change the runtime. *)

\* A step of the gateway that leaves the database and the worker alone, and that
\* moves each rule forward or not at all, keeps the parts about checkpoints.
Forward(r) ==
    \/ entry'[r] = entry[r]
    \/ /\ entry[r].def.revision # 0
       /\ entry'[r].def = entry[r].def
       /\ entry'[r].dirty
       /\ WellFormed(r, entry'[r].state, entry[r].def.period)
       /\ \A old \in State : Past(old, entry[r].state) => Past(old, entry'[r].state)

\* A step that only opens windows or charges costs (Admit, Complete) leaves every
\* row, snapshot and clean rule in agreement with the runtime.
LEMMA ForwardKeepsCheckpoints ==
    ASSUME Inv, UNCHANGED <<database, worker>>, entry' \in [Rules -> RuntimeRule],
           \A r \in Rules : Forward(r)
    PROVE  RowsInv' /\ RuntimeInv' /\ WorkerInv' /\ BatchInv'
<1> USE DEF Inv, database, worker
<1>1. \A r \in Rules : entry'[r].def = entry[r].def
  BY DEF Forward
<1>2. RowsInv'
  BY <1>1 DEF RowsInv
<1>3. RuntimeInv'
  <2> SUFFICES ASSUME NEW r \in Rules
               PROVE  RuntimeInv!(r)'
    BY DEF RuntimeInv
  <2>1. stateRow[r].state \in State
    BY DEF TypeOK, StateRow
  <2>2. CASE entry'[r] = entry[r]
    BY <2>2 DEF RuntimeInv
  <2>3. CASE entry'[r] # entry[r]
    BY <2>1, <2>3, <1>1 DEF RuntimeInv, Forward
  <2> QED
    BY <2>2, <2>3
<1>4. WorkerInv'
  BY DEF WorkerInv
<1>5. BatchInv'
  <2> SUFFICES ASSUME NEW b \in batch
               PROVE  BatchInv!(b)'
    BY DEF BatchInv
  <2>1. b.state \in State /\ b.rule \in Rules
    BY DEF TypeOK, Snapshot
  <2>2. b.revision = entry'[b.rule].def.revision => Past(b.state, entry'[b.rule].state)
    BY <2>1, <1>1 DEF BatchInv, Forward
  <2> QED
    BY <2>1, <2>2, <1>1 DEF BatchInv
<1> QED
  BY <1>2, <1>3, <1>4, <1>5

\* The steps of the requests (gateway/handler.go, Admit and Complete) keep the
\* invariant.
LEMMA GatewayKeepsInv == ASSUME Inv, Gateway PROVE Inv'
<1> USE DEF Inv
<1>0. PICK q \in Requests : \/ \E k \in Keys : Begin(q, k)
                            \/ AdmitRefused(q)
                            \/ Admit(q)
                            \/ \E cost \in Costs : Complete(q, cost)
                            \/ NotifyDirty(q)
  BY DEF Gateway
<1>a. req[q] \in Request /\ IdleRequest \in Request
  BY WidthAssumption
     DEF TypeOK, IdleRequest, Request, NoTicket, TicketRule, NoWindow, Window
<1>b. \A r \in Rules : IdleRequest.ticket[r].revision = 0
  BY DEF IdleRequest, NoTicket
<1>1. ASSUME NEW k \in Keys, Begin(q, k)
      PROVE  Inv'
  <2>1. TypeOK'
    BY <1>1, <1>a, Zenon DEF Begin, TypeOK, database, worker, Request
  <2>2. TicketInv'
    BY <1>1, <1>a, <1>b, RulesAssumption DEF Begin, TypeOK, TicketInv, Request
  <2>3. \A r \in Rules : Forward(r)
    BY <1>1 DEF Begin, Forward
  <2> QED
    BY <1>1, <2>1, <2>2, <2>3, ForwardKeepsCheckpoints DEF Begin, TypeOK
<1>2. ASSUME AdmitRefused(q)
      PROVE  Inv'
  <2>1. TypeOK'
    BY <1>2, <1>a DEF AdmitRefused, TypeOK, database, worker
  <2>2. TicketInv'
    BY <1>2, <1>b, RulesAssumption DEF AdmitRefused, TypeOK, TicketInv
  <2>3. \A r \in Rules : Forward(r)
    BY <1>2 DEF AdmitRefused, Forward
  <2> QED
    BY <1>2, <2>1, <2>2, <2>3, ForwardKeepsCheckpoints DEF AdmitRefused, TypeOK
<1>5. ASSUME NotifyDirty(q)
      PROVE  Inv'
  <2>1. TypeOK'
    BY <1>5, <1>a, Zenon DEF NotifyDirty, TypeOK, database, worker, Request
  <2>2. TicketInv'
    BY <1>5, <1>a, RulesAssumption DEF NotifyDirty, TypeOK, TicketInv, Request
  <2>3. \A r \in Rules : Forward(r)
    BY <1>5 DEF NotifyDirty, Forward
  <2> QED
    BY <1>5, <2>1, <2>2, <2>3, ForwardKeepsCheckpoints DEF NotifyDirty, TypeOK
<1>3. ASSUME Admit(q)
      PROVE  Inv'
  <2> DEFINE k == req[q].key
             t == req[q].at
             opened == {r \in RulesOf(k) \cap PeriodicRules :
                          entry[r].def.revision # 0 /\ periodicInactive(entry[r].state, t)}
             ticket == [r \in Rules |->
                            IF r \in RulesOf(k)
                            THEN [revision |-> entry'[r].def.revision,
                                  generation |-> entry'[r].state.generation]
                            ELSE NoTicket[r]]
             windows == [r \in Rules |-> entry'[r].state.window]
             pc == IF opened = {} THEN "admitted" ELSE "admitNotify"
  <2>1. /\ entry' = [r \in Rules |->
                        IF r \in opened THEN OpenWindow(entry[r], t) ELSE entry[r]]
        /\ req' = [req EXCEPT ![q] = [req[q] EXCEPT !.pc = pc, !.ticket = ticket,
                                                    !.windows = windows]]
        /\ UNCHANGED <<now, database, worker, wake>>
    BY <1>3, Zenon DEF Admit
  <2>2. t \in Nat /\ opened \subseteq Rules
    BY <1>a DEF Request, RulesOf
  <2>3. entry' \in [Rules -> RuntimeRule]
    BY <2>1, <2>2, OpenWindowFacts, Zenon DEF TypeOK
  <2>4. \A r \in Rules : Forward(r)
    <3> SUFFICES ASSUME NEW r \in opened PROVE Forward(r)
      BY <2>1, <2>2, Zenon DEF Forward
    <3>1. entry[r] \in RuntimeRule /\ r \in Rules /\ entry'[r] = OpenWindow(entry[r], t)
      BY <2>1, <2>2, Zenon DEF TypeOK
    <3>2. entry[r].def.period > 0 /\ entry[r].def.period \in Nat
      BY <3>1 DEF RuntimeInv, RuntimeRule, Definition
    <3>3. /\ entry'[r].def = entry[r].def
          /\ entry'[r].dirty
          /\ \A old \in State : Past(old, entry[r].state) => Past(old, entry'[r].state)
      BY ZenonT(60), <3>1, <3>2, <2>2, OpenWindowFacts
    <3>4. WellFormed(r, entry'[r].state, entry[r].def.period)
      <4>1. /\ entry'[r].state.window = [started |-> t, ends |-> t + entry[r].def.period]
            /\ entry'[r].state.generation # 0
        BY <3>1, <2>2, OpenWindowFacts
      <4>2. /\ entry'[r].state.window # NoWindow
            /\ entry'[r].state.window.ends - entry'[r].state.window.started
                 = entry[r].def.period
        BY <4>1, <3>2, <2>2 DEF NoWindow
      <4> QED
        BY <4>1, <4>2 DEF WellFormed
    <3> QED
      BY <3>3, <3>4 DEF Forward
  <2>5. ticket \in [Rules -> TicketRule] /\ windows \in [Rules -> Window]
    BY <2>3, WidthAssumption
       DEF NoTicket, TicketRule, RuntimeRule, Definition, State
  <2>6. req'[q] \in Request /\ req'[q].ticket = ticket
    BY <2>1, <2>5, <1>a, Zenon DEF TypeOK, Request
  <2>7. TypeOK'
    BY <2>1, <2>3, <2>6, Zenon DEF TypeOK, database, worker
  <2>8. RuntimeInv' /\ RowsInv' /\ WorkerInv' /\ BatchInv'
    BY <2>1, <2>3, <2>4, ForwardKeepsCheckpoints, Zenon
  <2>9. ASSUME NEW r \in PeriodicRules, ticket[r].revision # 0
        PROVE  ticket[r].generation # 0
    <3>1. r \in Rules /\ r \in RulesOf(k) /\ entry'[r].def.revision # 0
      BY <2>9, RulesAssumption DEF NoTicket
    <3>2. CASE r \in opened
      BY <3>1, <3>2, <2>1, <2>2, OpenWindowFacts, Zenon DEF TypeOK
    <3>3. CASE r \notin opened
      BY <3>1, <3>3, <2>1, Zenon DEF RuntimeInv, WellFormed, periodicInactive
    <3> QED
      BY <3>2, <3>3
  <2>10. TicketInv'
    BY <2>1, <2>6, <2>9, Zenon DEF TicketInv, TypeOK
  <2> QED
    BY <2>7, <2>8, <2>10
<1>4. ASSUME NEW cost \in Costs, Complete(q, cost)
      PROVE  Inv'
  <2> DEFINE charged == {r \in Rules :
                /\ Matches(entry[r], req[q].ticket[r], r \in PeriodicRules)
                /\ Charge(entry[r].state.used, cost) # entry[r].state.used}
             pc == IF charged = {} THEN "idle" ELSE "doneNotify"
  <2>1. /\ entry' = [r \in Rules |->
                        IF r \in charged THEN Charged(entry[r], cost) ELSE entry[r]]
        /\ req' = [req EXCEPT ![q] = [IdleRequest EXCEPT !.pc = pc]]
        /\ UNCHANGED <<now, database, worker, wake>>
    BY <1>4 DEF Complete
  <2>2. cost \in Int
    BY DefinitionsAssumption
  <2>3. entry' \in [Rules -> RuntimeRule]
    BY <2>1, <2>2, ChargeFacts, Zenon DEF TypeOK
  <2>4. \A r \in Rules : Forward(r)
    <3> SUFFICES ASSUME NEW r \in charged PROVE Forward(r)
      BY <2>1 DEF Forward
    <3>1. entry[r] \in RuntimeRule /\ r \in Rules /\ entry'[r] = Charged(entry[r], cost)
      BY <2>1 DEF TypeOK
    <3>2. entry[r].def.revision # 0
      BY DEF Matches
    <3>3. /\ entry'[r].def = entry[r].def
          /\ entry'[r].dirty
          /\ entry'[r].state.window = entry[r].state.window
          /\ entry'[r].state.generation = entry[r].state.generation
          /\ \A old \in State : Past(old, entry[r].state) => Past(old, entry'[r].state)
      BY <3>1, <2>2, ChargeFacts
    <3>4. r \in PeriodicRules => entry[r].state.generation # 0
      BY Zenon DEF TicketInv, Matches
    <3>5. WellFormed(r, entry'[r].state, entry[r].def.period)
      BY <3>1, <3>2, <3>3, <3>4 DEF RuntimeInv, WellFormed
    <3> QED
      BY <3>2, <3>3, <3>5, Zenon DEF Forward
  <2>5. req'[q] \in Request /\ req'[q].ticket = IdleRequest.ticket
    BY <2>1, <1>a, Zenon DEF TypeOK, Request
  <2>6. TypeOK'
    BY <2>1, <2>3, <2>5 DEF TypeOK, database, worker
  <2>7. TicketInv'
    BY <2>1, <2>5, <1>b, RulesAssumption DEF TypeOK, TicketInv
  <2> QED
    BY <2>1, <2>3, <2>4, <2>6, <2>7, ForwardKeepsCheckpoints
<1> QED
  BY <1>0, <1>1, <1>2, <1>3, <1>4, <1>5

-----------------------------------------------------------------------------
(* The worker. *)

\* The checkpoint steps of the request-log worker keep the invariant: what is
\* written is a past state of the rule, what is acknowledged is on disk.
LEMMA WorkerKeepsInv == ASSUME Inv, Worker PROVE Inv'
<1> USE DEF Inv
<1>1. ASSUME \/ WorkerWakes \/ WorkerTakesEvent \/ WorkerAbsorbsWake \/ Recheck
      PROVE  Inv'
  <2>1. /\ UNCHANGED <<now, database, entry, req, scan, batch>>
        /\ wpc' \in {"idle", "delay"} /\ wpc \in {"idle", "delay", "recheck"}
    BY <1>1 DEF WorkerWakes, WorkerTakesEvent, WorkerAbsorbsWake, Recheck, worker
  <2>2. wake' \in BOOLEAN
    BY <1>1, Zenon DEF WorkerWakes, WorkerTakesEvent, WorkerAbsorbsWake, Recheck, TypeOK
  <2>3. TypeOK'
    BY <2>1, <2>2, Zenon DEF TypeOK, database
  <2>4. RowsInv' /\ RuntimeInv' /\ TicketInv'
    BY <2>1, Zenon DEF RowsInv, RuntimeInv, TicketInv, database
  <2>5. WorkerInv' /\ BatchInv'
    BY <2>1, Zenon DEF WorkerInv, BatchInv, database
  <2> QED
    BY <2>3, <2>4, <2>5
<1>2. ASSUME FlushStarts
      PROVE  Inv'
  <2>1. TypeOK'
    BY <1>2, Zenon DEF FlushStarts, TypeOK, database
  <2>2. RowsInv' /\ RuntimeInv' /\ TicketInv'
    BY <1>2, Zenon DEF FlushStarts, RowsInv, RuntimeInv, TicketInv, database
  <2>3. WorkerInv' /\ BatchInv'
    BY <1>2 DEF FlushStarts, WorkerInv, BatchInv
  <2> QED
    BY <2>1, <2>2, <2>3
<1>3. ASSUME NEW k \in Keys, NEW picked \in SUBSET RulesOf(k), ScanKey(k, picked)
      PROVE  Inv'
  <2>1. /\ k \in scan /\ wpc = "scan"
        /\ batch' = batch \cup {SnapshotOf(r) : r \in picked}
        /\ scan' \subseteq scan \ {k}
        /\ \A r \in picked : /\ r \in Rules /\ Owner[r] = k
                             /\ entry[r].def.revision # 0
        /\ wpc' \in {"idle", "scan", "write"}
        /\ wpc' # "scan" => scan' = {}
        /\ wpc' = "idle" => batch' = {}
        /\ UNCHANGED <<now, database, entry, req, wake>>
    BY <1>3 DEF ScanKey, RulesOf
  <2>2. ASSUME NEW r \in picked
        PROVE  /\ SnapshotOf(r) \in Snapshot
               /\ SnapshotOf(r).rule = r
               /\ SnapshotOf(r).revision = entry[r].def.revision
               /\ SnapshotOf(r).state = entry[r].state
    BY <2>1 DEF SnapshotOf, Snapshot, TypeOK, RuntimeRule, Definition
  <2>3. TypeOK'
    BY <2>1, <2>2 DEF TypeOK, database
  <2>4. RowsInv' /\ RuntimeInv' /\ TicketInv'
    BY <2>1 DEF RowsInv, RuntimeInv, TicketInv, database
  <2>5. WorkerInv'
    <3>1. \A b \in batch' : \/ b \in batch /\ Owner[b.rule] # k
                            \/ \E r \in picked : b = SnapshotOf(r) /\ Owner[b.rule] = k
      BY <2>1, <2>2 DEF WorkerInv
    <3>2. \A b \in batch' : Owner[b.rule] \notin scan'
      BY <3>1, <2>1 DEF WorkerInv
    <3>3. \A b, c \in batch' : b.rule = c.rule => b = c
      BY <3>1, <2>2 DEF WorkerInv
    <3> QED
      BY <3>2, <3>3, <2>1 DEF WorkerInv
  <2>6. BatchInv'
    <3> SUFFICES ASSUME NEW b \in batch'
                 PROVE  BatchInv!(b)'
      BY Zenon DEF BatchInv
    <3>1. CASE b \in batch
      BY <3>1, <2>1, Zenon DEF BatchInv, database
    <3>2. ASSUME NEW r \in picked, b = SnapshotOf(r)
          PROVE  BatchInv!(b)'
      <4>1. entry[r].state \in State /\ entry[r].def.revision \in Nat
        BY <2>1 DEF TypeOK, RuntimeRule, Definition
      <4>2. r \in created /\ WellFormed(r, entry[r].state, entry[r].def.period)
        BY <2>1 DEF RowsInv, RuntimeInv
      <4> QED
        BY <3>2, <4>1, <4>2, <2>1, <2>2, PastReflexive DEF database
    <3> QED
      BY <3>1, <3>2, <2>1, Zenon
  <2> QED
    BY <2>3, <2>4, <2>5, <2>6
<1>4. ASSUME wpc = "write", stateRow' = [r \in Rules |-> Persisted(r)],
             UNCHANGED <<now, ruleRow, created, publishing, entry, req>>
      PROVE  /\ stateRow' \in [Rules -> StateRow]
             /\ RowsInv' /\ RuntimeInv' /\ TicketInv'
             /\ \A b \in batch :
                   /\ stateRow'[b.rule].revision = stateRow[b.rule].revision
                   /\ b.revision = stateRow[b.rule].revision
                        => b.state.version <= stateRow'[b.rule].state.version
  <2>1. ASSUME NEW r \in Rules
        PROVE  /\ stateRow'[r] \in StateRow
               /\ stateRow'[r].revision = stateRow[r].revision
               /\ \/ /\ stateRow'[r] = stateRow[r]
                     /\ \A b \in batch : b.rule = r => ~Overwrites(b, stateRow[r])
                  \/ \E b \in batch : /\ b.rule = r /\ Overwrites(b, stateRow[r])
                                      /\ stateRow'[r].state = b.state
    <3> DEFINE newer == {b \in batch : b.rule = r /\ Overwrites(b, stateRow[r])}
    <3>1. stateRow[r] \in StateRow
      BY DEF TypeOK
    <3>2. CASE newer = {}
      BY <3>1, <3>2, <1>4 DEF Persisted
    <3>3. CASE newer # {}
      <4>1. PICK b \in newer : b = CHOOSE c \in newer : TRUE
        BY <3>3
      <4>2. stateRow'[r] = [stateRow[r] EXCEPT !.state = b.state]
        BY <3>3, <4>1, <1>4 DEF Persisted
      <4>3. b.state \in State
        BY DEF TypeOK, Snapshot
      <4> QED
        BY <4>2, <4>3, <3>1 DEF StateRow
    <3> QED
      BY <3>2, <3>3
  <2>2. stateRow' \in [Rules -> StateRow]
    BY <2>1, <1>4, Zenon
  <2>3. RowsInv' /\ TicketInv'
    BY <2>1, <1>4, Zenon DEF RowsInv, TicketInv
  <2>4. RuntimeInv'
    <3> SUFFICES ASSUME NEW r \in Rules
                 PROVE  RuntimeInv!(r)'
      BY Zenon DEF RuntimeInv
    <3>1. CASE stateRow'[r] = stateRow[r]
      BY <3>1, <1>4, Zenon DEF RuntimeInv
    <3>2. ASSUME NEW b \in batch, b.rule = r, Overwrites(b, stateRow[r]),
                 stateRow'[r].state = b.state
          PROVE  RuntimeInv!(r)'
      <4>1. b.revision = ruleRow[r].revision /\ b.state.version > stateRow[r].state.version
        BY <3>2 DEF Overwrites, RowsInv
      <4>2. /\ ruleRow[r].revision \in Nat /\ entry[r].def.revision \in Nat
            /\ b.state \in State /\ entry[r].state \in State /\ stateRow[r].state \in State
        BY DEF TypeOK, Definition, RuntimeRule, Snapshot, StateRow
      <4>3. ruleRow[r].revision # 0 /\ entry[r].def.revision = ruleRow[r].revision
        BY SMTT(60), <3>2, <4>1, <4>2 DEF BatchInv, RowsInv
      <4>4. Past(b.state, entry[r].state) /\ WellFormed(r, b.state, entry[r].def.period)
        BY <3>2, <4>1, <4>3, Zenon DEF BatchInv
      <4>5. ~entry[r].dirty /\ entry[r].state.version < MaxUint64
              => b.state.version = entry[r].state.version
        BY SMTT(60), <4>1, <4>2, <4>3, <4>4 DEF RuntimeInv, Past, State
      <4> QED
        BY <3>2, <4>3, <4>4, <4>5, <1>4, Zenon DEF RuntimeInv
    <3> QED
      BY <3>1, <3>2, <2>1, Zenon
  <2>5. ASSUME NEW b \in batch
        PROVE  /\ stateRow'[b.rule].revision = stateRow[b.rule].revision
               /\ b.revision = stateRow[b.rule].revision
                    => b.state.version <= stateRow'[b.rule].state.version
    <3>1. b.rule \in Rules /\ b.state \in State /\ stateRow[b.rule].state \in State
      BY DEF TypeOK, Snapshot, StateRow
    <3>2. \A c \in batch : c.rule = b.rule => c = b
      BY Zenon DEF WorkerInv
    <3> QED
      BY <3>1, <3>2, <2>1 DEF Overwrites, State
  <2> QED
    BY <2>2, <2>3, <2>4, <2>5
<1>5. ASSUME WriteSnapshots
      PROVE  Inv'
  <2>1. TypeOK'
    BY <1>4, <1>5 DEF WriteSnapshots, TypeOK
  <2>2. WorkerInv'
    BY <1>5, Zenon DEF WriteSnapshots, WorkerInv
  <2>3. BatchInv'
    BY <1>4, <1>5 DEF WriteSnapshots, BatchInv
  <2> QED
    BY <1>4, <1>5, <2>1, <2>2, <2>3, Zenon DEF WriteSnapshots
<1>6. ASSUME WriteFails
      PROVE  Inv'
  <2>1. CASE stateRow' = stateRow
    <3>1. TypeOK'
      BY <1>6, <2>1, Zenon DEF WriteFails, TypeOK
    <3>2. RowsInv' /\ RuntimeInv' /\ TicketInv'
      BY <1>6, <2>1 DEF WriteFails, RowsInv, RuntimeInv, TicketInv
    <3>3. WorkerInv' /\ BatchInv'
      BY <1>6, Zenon DEF WriteFails, WorkerInv, BatchInv
    <3> QED
      BY <3>1, <3>2, <3>3
  <2>2. CASE stateRow' = [r \in Rules |-> Persisted(r)]
    <3>1. TypeOK'
      BY <1>4, <1>6, <2>2 DEF WriteFails, TypeOK
    <3>2. WorkerInv' /\ BatchInv'
      BY <1>6, Zenon DEF WriteFails, WorkerInv, BatchInv
    <3> QED
      BY <1>4, <1>6, <2>2, <3>1, <3>2, Zenon DEF WriteFails
  <2> QED
    BY <1>6, <2>1, <2>2 DEF WriteFails
<1>7. ASSUME NEW b \in batch, Ack(b)
      PROVE  Inv'
  <2>1. /\ wpc = "ack" /\ batch' = batch \ {b}
        /\ wpc' \in {"recheck", "ack"} /\ (wpc' = "recheck" => batch' = {})
        /\ UNCHANGED <<now, database, req, scan, wake>>
    BY <1>7 DEF Ack
  <2>2. b.rule \in Rules /\ b.state \in State
    BY Zenon DEF TypeOK, Snapshot
  <2>3. /\ entry' \in [Rules -> RuntimeRule]
        /\ \A r \in Rules : entry'[r].def = entry[r].def /\ entry'[r].state = entry[r].state
        /\ \A r \in Rules : (entry[r].dirty => entry'[r].dirty)
                              \/ (r = b.rule /\ Acknowledges(b, entry[r]))
    <3>1. CASE Acknowledges(b, entry[b.rule])
      <4> DEFINE new == [entry[b.rule] EXCEPT !.dirty = FALSE]
      <4>1. entry[b.rule] \in RuntimeRule
        BY <2>2 DEF TypeOK
      <4>2. new \in RuntimeRule /\ new.def = entry[b.rule].def
              /\ new.state = entry[b.rule].state
        BY <4>1, Zenon DEF RuntimeRule
      <4>3. entry' = [entry EXCEPT ![b.rule] = new]
        BY <1>7, <3>1 DEF Ack
      <4>4. entry' \in [Rules -> RuntimeRule]
        BY <4>2, <4>3, <2>2 DEF TypeOK
      <4>5. \A r \in Rules : r # b.rule => entry'[r] = entry[r]
        BY <4>3, <2>2 DEF TypeOK
      <4>6. entry'[b.rule] = new
        BY <4>3, <2>2, Zenon DEF TypeOK
      <4> QED
        BY <3>1, <4>2, <4>4, <4>5, <4>6, Zenon
    <3>2. CASE ~Acknowledges(b, entry[b.rule])
      <4>1. entry' = entry
        BY <1>7, <3>2 DEF Ack
      <4> QED
        BY <4>1 DEF TypeOK
    <3> QED
      BY <3>1, <3>2
  <2>4. TypeOK'
    BY <2>1, <2>3, Zenon DEF TypeOK, database
  <2>5. RowsInv' /\ TicketInv'
    BY <2>1, <2>3, Zenon DEF RowsInv, TicketInv, database
  <2>6. RuntimeInv'
    <3> SUFFICES ASSUME NEW r \in Rules
                 PROVE  RuntimeInv!(r)'
      BY Zenon DEF RuntimeInv
    <3>1. CASE entry[r].dirty => entry'[r].dirty
      BY <3>1, <2>1, <2>3, Zenon DEF RuntimeInv, database
    <3>2. CASE r = b.rule /\ Acknowledges(b, entry[r])
      <4>1. ruleRow[r].revision # 0 /\ entry[r].def.revision = ruleRow[r].revision
              => stateRow[r].state.version = entry[r].state.version
        <5>1. stateRow[r].state \in State /\ entry[r].state \in State
          BY Zenon DEF TypeOK, StateRow, RuntimeRule
        <5>2. b.revision = entry[r].def.revision /\ b.state.version = entry[r].state.version
          BY <3>2, Zenon DEF Acknowledges
        <5>3. ruleRow[r].revision # 0 /\ entry[r].def.revision = ruleRow[r].revision
                => b.state.version <= stateRow[r].state.version
          BY <3>2, <5>2, <2>1, Zenon DEF BatchInv, RowsInv
        <5>4. ruleRow[r].revision # 0 /\ entry[r].def.revision = ruleRow[r].revision
                => stateRow[r].state.version <= entry[r].state.version
          BY DEF RuntimeInv, Past
        <5> QED
          BY SMTT(60), <5>1, <5>2, <5>3, <5>4 DEF State
      <4> QED
        BY <4>1, <2>1, <2>3, Zenon DEF RuntimeInv, database
    <3> QED
      BY <3>1, <3>2, <2>3, Zenon
  <2>7. WorkerInv'
    BY <2>1, Zenon DEF WorkerInv
  <2>8. BatchInv'
    BY <2>1, <2>3 DEF BatchInv, database, TypeOK, Snapshot
  <2> QED
    BY <2>4, <2>5, <2>6, <2>7, <2>8
<1> QED
  BY <1>1, <1>2, <1>3, <1>5, <1>6, <1>7 DEF Worker

-----------------------------------------------------------------------------
(* The control plane, and a crash. *)

\* An edit writes rows only: of an existing rule it keeps the revision, the
\* period and the state row, or starts the next revision with a fresh row; a new
\* rule was never known to the runtime; a deleted one loses both rows.
Edited(r) ==
    \/ /\ ruleRow'[r].revision = ruleRow[r].revision
       /\ ruleRow[r].revision # 0 => ruleRow'[r].period = ruleRow[r].period
       /\ stateRow'[r] = stateRow[r]
    \/ ruleRow'[r].revision = 0 /\ stateRow'[r].revision = 0
    \/ /\ \/ r \notin created /\ ruleRow'[r].revision = 1
          \/ ruleRow[r].revision # 0 /\ ruleRow'[r].revision = ruleRow[r].revision + 1
       /\ stateRow'[r] = [revision |-> ruleRow'[r].revision, state |-> FreshState]
       /\ r \in created'
       /\ r \in PeriodicRules => ruleRow'[r].period > 0

\* A transaction that deletes, creates or renews rules and starts their state rows
\* afresh keeps the invariant: no runtime rule has the new revision yet.
LEMMA EditKeepsInv ==
    ASSUME Inv, TypeOK', UNCHANGED <<entry, req, worker>>, created \subseteq created',
           \A r \in Rules : Edited(r)
    PROVE  Inv'
<1> USE DEF Inv, worker
<1>0. ASSUME NEW r \in Rules
      PROVE  /\ ruleRow[r].revision \in Nat /\ ruleRow'[r].revision \in Nat
             /\ entry[r].def.revision \in Nat /\ ruleRow'[r].period \in Nat
  BY DEF TypeOK, Definition, RuntimeRule
<1>1. RowsInv'
  <2> SUFFICES ASSUME NEW r \in Rules
               PROVE  RowsInv!(r)'
    BY Zenon DEF RowsInv
  <2>1. CASE Edited(r)!1
    BY <2>1 DEF RowsInv
  <2>2. CASE Edited(r)!2
    BY <2>2, Zenon DEF RowsInv
  <2>3. CASE Edited(r)!3
    BY <2>3, <1>0 DEF RowsInv
  <2> QED
    BY <2>1, <2>2, <2>3, Zenon DEF Edited
<1>2. RuntimeInv'
  <2> SUFFICES ASSUME NEW r \in Rules
               PROVE  RuntimeInv!(r)'
    BY Zenon DEF RuntimeInv
  <2>1. CASE Edited(r)!1
    BY <2>1, Zenon DEF RuntimeInv
  <2>2. CASE Edited(r)!2
    BY <2>2, Zenon DEF RuntimeInv
  <2>3. CASE Edited(r)!3
    <3>1. stateRow'[r].state = FreshState
      BY SMTT(60), <2>3
    <3>2. entry[r].def.revision # ruleRow'[r].revision
      BY <2>3, <1>0 DEF RowsInv
    <3> QED
      BY <3>1, <3>2, <1>0, FreshFacts, Zenon DEF RuntimeInv
  <2> QED
    BY <2>1, <2>2, <2>3, Zenon DEF Edited
<1>3. WorkerInv' /\ TicketInv'
  BY Zenon DEF WorkerInv, TicketInv
<1>4. BatchInv'
  <2> SUFFICES ASSUME NEW b \in batch
               PROVE  BatchInv!(b)'
    BY DEF BatchInv
  <2>0. b \in Snapshot
    BY DEF TypeOK
  <2>1. b.rule \in Rules /\ b.rule \in created /\ b.revision \in Nat \ {0}
    <3>1. b.rule \in Rules /\ b.revision \in Nat
      BY <2>0 DEF Snapshot
    <3>2. b.rule \in created /\ b.revision # 0
      BY Zenon DEF BatchInv
    <3> QED
      BY <3>1, <3>2
  <2>2. CASE Edited(b.rule)!1
    BY <2>1, <2>2, Zenon DEF BatchInv
  <2>3. CASE Edited(b.rule)!2
    BY <2>1, <2>3, Zenon DEF BatchInv
  <2>4. CASE Edited(b.rule)!3
    BY SMTT(60), <2>1, <2>4, <1>0 DEF BatchInv, RowsInv
  <2> QED
    BY <2>1, <2>2, <2>3, <2>4, Zenon DEF Edited
<1> QED
  BY <1>1, <1>2, <1>3, <1>4

\* The limits and periods an operator can set are natural numbers.
LEMMA SettableValues ==
    (\A x \in Limits : x \in Nat) /\ (\A x \in Periods \cup {0} : x \in Nat)
BY DefinitionsAssumption

\* The edits of the control plane and their publication (Runtime.Reconcile) keep
\* the invariant.
LEMMA ControlKeepsInv == ASSUME Inv, Control PROVE Inv'
<1> USE DEF Inv
<1>1. ASSUME NEW k \in Keys, NEW desired \in Desired(k), EditRules(k, desired)
      PROVE  Inv'
  <2> DEFINE listed == {r \in RulesOf(k) : desired[r].limit # 0}
             renewed == {r \in listed : semanticsChanged(r, desired[r])}
             Row(r) == CASE r \notin RulesOf(k) -> ruleRow[r]
                         [] r \in RulesOf(k) \ listed -> NoRule
                         [] r \in listed \ created -> NewDefinition(1, desired[r])
                         [] r \in renewed -> NewDefinition(ruleRow[r].revision + 1, desired[r])
                         [] OTHER -> NewDefinition(ruleRow[r].revision, desired[r])
             SRow(r) == CASE r \in RulesOf(k) \ listed -> NoRow
                          [] r \in (listed \ created) \cup renewed ->
                                [revision |-> Row(r).revision, state |-> FreshState]
                          [] OTHER -> stateRow[r]
  <2>1. /\ ValidDesired(k, desired)
        /\ \A r \in renewed : ruleRow[r].revision < MaxUint64
        /\ ruleRow' = [r \in Rules |-> Row(r)]
        /\ stateRow' = [r \in Rules |-> SRow(r)]
        /\ created' = created \cup listed
        /\ publishing' = TRUE
        /\ UNCHANGED <<now, entry, req, worker, wake>>
    BY <1>1 DEF EditRules
  <2>2. RulesOf(k) \subseteq Rules
    BY Zenon DEF RulesOf
  <2>3. ASSUME NEW r \in listed
        PROVE  /\ desired[r].limit \in Nat /\ desired[r].period \in Nat
               /\ r \in PeriodicRules => desired[r].period > 0
               /\ r \in created => ruleRow[r].revision # 0
               /\ \A n : /\ NewDefinition(n, desired[r]).revision = n
                         /\ NewDefinition(n, desired[r]).period = desired[r].period
                         /\ n \in 0 .. MaxUint64 => NewDefinition(n, desired[r]) \in Definition
    <3>1. desired[r] \in [limit : Limits, period : Periods \cup {0}]
                            \cup {[limit |-> 0, period |-> 0]}
      BY Zenon DEF Desired
    <3>2. desired[r].limit \in Nat /\ desired[r].period \in Nat
      <4>1. CASE desired[r] \in [limit : Limits, period : Periods \cup {0}]
        <5>1. desired[r].limit \in Limits /\ desired[r].period \in Periods \cup {0}
          BY <4>1, Zenon
        <5> QED
          BY <5>1, SettableValues, Zenon
      <4>2. CASE desired[r] = [limit |-> 0, period |-> 0]
        BY <4>2
      <4> QED
        BY <3>1, <4>1, <4>2
    <3>3. /\ r \in PeriodicRules => desired[r].period # 0
          /\ r \in created => ruleRow[r].revision # 0
      BY <2>1 DEF ValidDesired
    <3> QED
      BY <3>2, <3>3 DEF NewDefinition, Definition
  <2>4. ASSUME NEW r \in Rules
        PROVE  /\ ruleRow[r] \in Definition /\ stateRow[r] \in StateRow
               /\ ruleRow[r].revision \in 0 .. MaxUint64
    BY DEF TypeOK, Definition
  <2>5. ASSUME NEW r \in Rules
        PROVE  Row(r) \in Definition /\ SRow(r) \in StateRow /\ Edited(r)
    <3>a. r \notin RulesOf(k) => Row(r) = ruleRow[r] /\ SRow(r) = stateRow[r]
      OBVIOUS
    <3>b. r \in RulesOf(k) \ listed => Row(r) = NoRule /\ SRow(r) = NoRow
      OBVIOUS
    <3>c. r \in listed \ created =>
             /\ Row(r) = NewDefinition(1, desired[r])
             /\ SRow(r) = [revision |-> Row(r).revision, state |-> FreshState]
      BY DEF semanticsChanged
    <3>d. r \in listed /\ r \in created /\ r \in renewed =>
             /\ Row(r) = NewDefinition(ruleRow[r].revision + 1, desired[r])
             /\ SRow(r) = [revision |-> Row(r).revision, state |-> FreshState]
      OBVIOUS
    <3>e. r \in listed /\ r \in created /\ r \notin renewed =>
             /\ Row(r) = NewDefinition(ruleRow[r].revision, desired[r])
             /\ SRow(r) = stateRow[r]
      OBVIOUS
    <3>f. ruleRow'[r] = Row(r) /\ stateRow'[r] = SRow(r)
      BY <2>1, Zenon
    <3>g. r \in listed => r \in created'
      BY <2>1, Zenon
    <3>h. r \in listed /\ r \notin renewed => ~semanticsChanged(r, desired[r])
      OBVIOUS
    <3>i. r \in renewed => ruleRow[r].revision < MaxUint64
      BY <2>1, Zenon
    <3>j. r \in listed =>
               /\ r \in PeriodicRules => desired[r].period > 0
               /\ r \in created => ruleRow[r].revision # 0
               /\ \A n : /\ NewDefinition(n, desired[r]).revision = n
                         /\ NewDefinition(n, desired[r]).period = desired[r].period
                         /\ n \in 0 .. MaxUint64 => NewDefinition(n, desired[r]) \in Definition
      BY <2>3, Zenon
    <3> HIDE DEF Row, SRow, listed, renewed
    <3>0. \A n \in 0 .. MaxUint64 : [revision |-> n, state |-> FreshState] \in StateRow
      BY FreshFacts DEF StateRow
    <3>1. CASE r \notin RulesOf(k)
      BY <3>1, <3>a, <3>f, <2>4, Zenon DEF Edited
    <3>2. CASE r \in RulesOf(k) \ listed
      <4>1. NoRule.revision = 0 /\ NoRow.revision = 0
        BY Zenon DEF NoRule, NoRow
      <4> QED
        BY <3>2, <3>b, <3>f, <4>1, FreshFacts, Zenon DEF Edited
    <3>3. CASE r \in listed \ created
      <4>1. 1 \in 0 .. MaxUint64
        BY WidthAssumption
      <4>2. /\ Row(r).revision = 1 /\ Row(r).period = desired[r].period
            /\ Row(r) \in Definition
            /\ SRow(r) = [revision |-> 1, state |-> FreshState]
        BY <3>3, <3>c, <3>j, <4>1, Zenon
      <4> QED
        BY <3>0, <3>3, <3>f, <3>g, <3>j, <4>1, <4>2 DEF Edited
    <3>4. CASE r \in listed /\ r \in created /\ r \in renewed
      <4>1. ruleRow[r].revision + 1 \in 0 .. MaxUint64
        BY <3>4, <3>i, <2>4, WidthAssumption
      <4>2. /\ Row(r).revision = ruleRow[r].revision + 1 /\ Row(r).period = desired[r].period
            /\ Row(r) \in Definition
            /\ SRow(r) = [revision |-> ruleRow[r].revision + 1, state |-> FreshState]
        BY <3>4, <3>d, <3>j, <4>1, Zenon
      <4> QED
        BY <3>0, <3>4, <3>f, <3>g, <3>j, <4>1, <4>2, Zenon DEF Edited
    <3>5. CASE r \in listed /\ r \in created /\ r \notin renewed
      <4>1. ruleRow[r].period = desired[r].period
        BY <3>5, <3>h, Zenon DEF semanticsChanged
      <4>2. /\ Row(r).revision = ruleRow[r].revision /\ Row(r).period = desired[r].period
            /\ Row(r) \in Definition
        BY <3>5, <3>e, <3>j, <2>4
      <4> QED
        BY <3>5, <3>e, <3>f, <4>1, <4>2, <2>4, Zenon DEF Edited
    <3> QED
      BY <3>1, <3>2, <3>3, <3>4, <3>5
  <2>6. TypeOK'
    BY <2>1, <2>2, <2>5, Zenon DEF TypeOK, worker
  <2> QED
    BY <2>1, <2>5, <2>6, EditKeepsInv, Zenon
<1>2. ASSUME NEW k \in Keys, NEW targets \in SUBSET RulesOf(k), ResetRules(k, targets)
      PROVE  Inv'
  <2>1. ASSUME NEW r \in Rules
        PROVE  ruleRow'[r] \in Definition /\ stateRow'[r] \in StateRow /\ Edited(r)
    <3>1. ruleRow[r] \in Definition /\ stateRow[r] \in StateRow
      BY DEF TypeOK
    <3>2. CASE r \in targets
      <4>1. /\ ruleRow'[r] = [ruleRow[r] EXCEPT !.revision = ruleRow[r].revision + 1]
            /\ stateRow'[r] = [revision |-> ruleRow[r].revision + 1, state |-> FreshState]
            /\ ruleRow[r].revision \in 1 .. MaxUint64 - 1
        BY <1>2, <3>2 DEF ResetRules
      <4>2. ruleRow[r].revision + 1 \in 0 .. MaxUint64
        BY <4>1, WidthAssumption
      <4>3. /\ ruleRow'[r] \in Definition
            /\ ruleRow'[r].revision = ruleRow[r].revision + 1
            /\ ruleRow'[r].period = ruleRow[r].period
        BY <3>1, <4>1, <4>2 DEF Definition
      <4>4. stateRow'[r] \in StateRow
        BY <4>1, <4>2, FreshFacts DEF StateRow
      <4>5. r \in created' /\ ruleRow[r].revision # 0
        BY <1>2, <4>1 DEF ResetRules, RowsInv
      <4> QED
        BY <4>1, <4>3, <4>4, <4>5 DEF Edited, RowsInv
    <3>3. CASE r \notin targets
      BY <1>2, <3>1, <3>3 DEF ResetRules, Edited
    <3> QED
      BY <3>2, <3>3
  <2>2. TypeOK'
    BY <1>2, <2>1, Zenon DEF ResetRules, TypeOK, worker
  <2> QED
    BY <1>2, <2>1, <2>2, EditKeepsInv, Zenon DEF ResetRules
<1>3. ASSUME Publish
      PROVE  Inv'
  <2>1. ASSUME NEW r \in Rules
        PROVE  /\ entry'[r] \in RuntimeRule
               /\ entry'[r].def = ruleRow[r]
               /\ entry[r].def.revision = ruleRow[r].revision
                    => entry'[r].state = entry[r].state /\ (entry[r].dirty => entry'[r].dirty)
               /\ entry[r].def.revision # ruleRow[r].revision
                    => entry'[r].state = FreshState
    <3>1. entry[r] \in RuntimeRule /\ ruleRow[r] \in Definition /\ entry'[r] = Reconciled(r)
      BY <1>3 DEF Publish, TypeOK
    <3>2. CASE entry[r].def.revision = ruleRow[r].revision
      <4>1. entry'[r] = [entry[r] EXCEPT !.def = ruleRow[r]]
        BY <3>1, <3>2, Zenon DEF Reconciled
      <4> QED
        BY <3>1, <3>2, <4>1 DEF RuntimeRule
    <3>3. CASE entry[r].def.revision # ruleRow[r].revision
      <4>1. entry'[r] = [def |-> ruleRow[r], state |-> FreshState, dirty |-> FALSE]
        BY <3>1, <3>3 DEF Reconciled
      <4> QED
        BY SMTT(60), <3>1, <3>3, <4>1, FreshFacts DEF RuntimeRule
    <3> QED
      BY <3>2, <3>3
  <2>2. entry' \in [Rules -> RuntimeRule]
    BY <2>1, <1>3 DEF Publish
  <2>3. req' \in [Requests -> Request] /\ \A q \in Requests : req'[q].ticket = req[q].ticket
    BY ZenonT(60), <1>3 DEF Publish, TypeOK, Request
  <2>4. TypeOK'
    BY <1>3, <2>2, <2>3, Zenon DEF Publish, TypeOK, worker
  <2>5. ASSUME NEW r \in Rules
        PROVE  /\ ruleRow[r].revision \in Nat /\ entry[r].def.revision \in Nat
               /\ ruleRow[r].period \in Nat
    BY DEF TypeOK, Definition, RuntimeRule
  <2>6. UNCHANGED <<ruleRow, stateRow, created, worker>>
    BY <1>3 DEF Publish
  <2>7. RowsInv'
    <3> SUFFICES ASSUME NEW r \in Rules
                 PROVE  RowsInv!(r)'
      BY DEF RowsInv
    <3>1. entry'[r].def.revision = ruleRow[r].revision
      BY <2>1
    <3> QED
      BY SMTT(60), <3>1, <2>5, <2>6 DEF RowsInv
  <2>8. RuntimeInv'
    <3> SUFFICES ASSUME NEW r \in Rules
                 PROVE  RuntimeInv!(r)'
      BY DEF RuntimeInv
    <3>1. CASE entry[r].def.revision = ruleRow[r].revision
      BY <3>1, <2>1, <2>6, Zenon DEF RuntimeInv
    <3>2. CASE entry[r].def.revision # ruleRow[r].revision
      <4>1. /\ WellFormed(r, FreshState, ruleRow[r].period)
            /\ Past(FreshState, FreshState)
        BY <2>5, FreshFacts, PastReflexive, Zenon
      <4> QED
        BY ZenonT(60), <3>2, <4>1, <2>1, <2>6 DEF RuntimeInv, RowsInv
    <3> QED
      BY <3>1, <3>2, Zenon
  <2>9. WorkerInv' /\ TicketInv'
    BY <2>3, <2>6 DEF WorkerInv, TicketInv, worker
  <2>10. BatchInv'
    <3> SUFFICES ASSUME NEW b \in batch
                 PROVE  BatchInv!(b)'
      BY <2>6 DEF BatchInv, worker
    <3>0. b \in Snapshot
      BY DEF TypeOK
    <3>1. b.rule \in Rules /\ b.revision \in Nat \ {0}
      <4>1. b.rule \in Rules /\ b.revision \in Nat
        BY <3>0 DEF Snapshot
      <4>2. b.revision # 0
        BY DEF BatchInv
      <4> QED
        BY <4>1, <4>2
    <3>2. CASE entry[b.rule].def.revision = ruleRow[b.rule].revision
      <4>1. ruleRow[b.rule].revision # 0
              => entry[b.rule].def.period = ruleRow[b.rule].period
        BY <3>1, <3>2 DEF RuntimeInv
      <4> QED
        BY <3>1, <3>2, <4>1, <2>1, <2>6, Zenon DEF BatchInv, worker
    <3>3. CASE entry[b.rule].def.revision # ruleRow[b.rule].revision
      <4>1. b.revision # ruleRow[b.rule].revision
        BY SMTT(60), <3>1, <3>3, <2>5 DEF BatchInv, RowsInv
      <4>2. ruleRow[b.rule].revision # 0 => b.revision <= ruleRow[b.rule].revision
        BY SMTT(60), <3>1, <2>5 DEF BatchInv, RowsInv
      <4> QED
        BY <3>1, <4>1, <4>2, <2>1, <2>6, Zenon DEF BatchInv, worker
    <3> QED
      BY <3>2, <3>3, Zenon
  <2> QED
    BY <2>4, <2>7, <2>8, <2>9, <2>10, Zenon
<1>4. ASSUME PublishFails
      PROVE  Inv'
  <2>1. TypeOK'
    BY <1>4, Zenon DEF PublishFails, TypeOK, worker
  <2>2. \A r \in Rules : Edited(r)
    BY <1>4 DEF PublishFails, Edited
  <2> QED
    BY <1>4, <2>1, <2>2, EditKeepsInv DEF PublishFails
<1> QED
  BY <1>1, <1>2, <1>3, <1>4 DEF Control

\* Startup (Runtime.Restore and the first Reconcile) establishes the invariant
\* from the rows alone.
LEMMA RestartKeepsInv == ASSUME Inv, Restart PROVE Inv'
<1> USE DEF Inv
<1>1. ASSUME NEW r \in Rules
      PROVE  /\ entry'[r] \in RuntimeRule
             /\ entry'[r].def = ruleRow[r] /\ entry'[r].state = stateRow[r].state
             /\ stateRow[r].state \in State /\ ruleRow[r].revision \in Nat
  BY DEF Restart, TypeOK, RuntimeRule, StateRow, Definition
<1>2. \A q \in Requests : req'[q] = IdleRequest
  BY Zenon DEF Restart
<1>3. IdleRequest \in Request /\ \A r \in Rules : IdleRequest.ticket[r].revision = 0
  BY WidthAssumption
     DEF IdleRequest, Request, NoTicket, TicketRule, NoWindow, Window
<1>4. TypeOK'
  BY <1>1, <1>2, <1>3, Zenon DEF Restart, TypeOK
<1>5. RowsInv'
  BY SMTT(60), <1>1 DEF Restart, RowsInv
<1>6. RuntimeInv'
  BY <1>1, PastReflexive, Zenon DEF Restart, RuntimeInv, RowsInv
<1>7. WorkerInv' /\ BatchInv'
  BY DEF Restart, WorkerInv, BatchInv
<1>8. TicketInv'
  BY <1>2, <1>3, RulesAssumption DEF TicketInv
<1> QED
  BY <1>4, <1>5, <1>6, <1>7, <1>8, Zenon

-----------------------------------------------------------------------------
(* The theorems. *)

\* The empty installation satisfies the invariant.
LEMMA InitInv == Init => Inv
<1> SUFFICES ASSUME Init PROVE Inv
  BY Zenon
<1>1. IdleRequest \in Request /\ \A r \in Rules : IdleRequest.ticket[r].revision = 0
  BY WidthAssumption
     DEF IdleRequest, Request, NoTicket, TicketRule, NoWindow, Window
<1>2. TypeOK
  BY <1>1, FreshFacts, Zenon DEF Init, TypeOK
<1>3. RowsInv /\ RuntimeInv
  BY Zenon DEF Init, RowsInv, RuntimeInv, NoRule, NoRow, NoEntry
<1>4. WorkerInv /\ BatchInv
  BY Zenon DEF Init, WorkerInv, BatchInv
<1>5. TicketInv
  BY <1>1, RulesAssumption DEF Init, TicketInv
<1> QED
  BY <1>2, <1>3, <1>4, <1>5 DEF Inv

\* Every step of the system keeps the invariant.
LEMMA NextInv == Inv /\ [Next]_vars => Inv'
<1> SUFFICES ASSUME Inv, [Next]_vars PROVE Inv'
  OBVIOUS
<1>1. CASE Tick
  <2>1. now' \in Nat
    BY <1>1 DEF Tick, Inv, TypeOK
  <2> QED
    BY <1>1, <2>1, Zenon DEF Tick, Inv, TypeOK, RowsInv, RuntimeInv, WorkerInv, BatchInv,
                      TicketInv, database, worker
<1>2. CASE UNCHANGED vars
  BY <1>2, ZenonT(40) DEF vars, Inv, TypeOK, RowsInv, RuntimeInv, WorkerInv, BatchInv, TicketInv,
              database, worker
<1> QED
  BY <1>1, <1>2, GatewayKeepsInv, WorkerKeepsInv, ControlKeepsInv, RestartKeepsInv
     DEF Next

\* The inductive invariant holds in every reachable state of the quota runtime,
\* its tables and the checkpoint worker.
THEOREM Invariance == Spec => []Inv
BY InitInv, NextInv, PTL DEF Spec

\* Every counter, row, ticket and snapshot keeps its type: usage saturates at
\* MaxInt64 and revisions, generations and versions at MaxUint64, they never
\* wrap (Runtime.Admit and Complete, accessquota/runtime.go).
THEOREM TypeCorrect == Spec => []TypeOK
BY Invariance, PTL DEF Inv

\* What the runtime holds as clean is exactly what the database holds, whatever
\* edit, write failure, late acknowledgement or crash came before (Runtime.Ack).
THEOREM Durability == Spec => []CleanIsDurable
<1>1. Inv => CleanIsDurable
  <2> SUFFICES ASSUME Inv, NEW r \in Rules,
                      entry[r].def.revision # 0,
                      stateRow[r].revision = entry[r].def.revision,
                      entry[r].state.version < MaxUint64, ~entry[r].dirty
               PROVE  stateRow[r].state = entry[r].state
    BY Zenon DEF CleanIsDurable
  <2> QED
    BY DEF Inv, RowsInv, RuntimeInv, Past
<1> QED
  BY <1>1, Invariance, PTL

\* The checkpoint rows never run ahead of memory (persistAccessQuotaSnapshot).
THEOREM NoInventedSpending == Spec => []StoredIsPast
<1>1. Inv => StoredIsPast
  BY Zenon DEF Inv, RowsInv, RuntimeInv, Past, StoredIsPast
<1> QED
  BY <1>1, Invariance, PTL

\* Runtime.Restore accepts the rows after every possible history.
THEOREM StartupAccepts == Spec => []RestartPossible
<1>1. Inv => RestartPossible
  BY ZenonT(40) DEF Inv, RowsInv, RuntimeInv, Restorable, RestartPossible
<1> QED
  BY <1>1, Invariance, PTL


-----------------------------------------------------------------------------
(* Who is charged, and what is forgotten: what a step does to the usage of a *)
(* rule.  A second invariant relates the tickets to the rules they name.    *)

\* What a ticket says of a rule while the rule runs the ticket's revision.
OwnTicket(q, r) ==
    LET t == req[q].ticket[r]
    IN  t.revision # 0 =>
          /\ r \in created
          /\ ruleRow[r].revision # 0 => t.revision <= entry[r].def.revision
          /\ t.revision = entry[r].def.revision =>
               IF r \in PeriodicRules
               THEN /\ t.generation <= entry[r].state.generation
                    /\ t.generation = entry[r].state.generation /\ entry[r].state.generation < MaxUint64
                         => req[q].windows[r] = entry[r].state.window
               ELSE req[q].windows[r] = NoWindow

\* Tickets are of the past, no request is from the future, and a rule without a
\* row has no usage.
Own ==
    /\ \A q \in Requests, r \in Rules : OwnTicket(q, r)
    /\ \A q \in Requests : req[q].at <= now
    /\ \A r \in Rules : ruleRow[r].revision = 0 => stateRow[r].state = FreshState

\* How a step may change a rule that tickets can name: revisions grow or the
\* rule is gone, and within a revision a new window has a new generation.
Evolves(r) ==
    /\ r \in created => r \in created'
    /\ r \in created /\ ruleRow'[r].revision # 0 =>
         ruleRow[r].revision # 0 /\ entry[r].def.revision <= entry'[r].def.revision
    /\ entry'[r].def.revision = entry[r].def.revision /\ entry[r].def.revision # 0 /\ r \in PeriodicRules =>
         /\ entry[r].state.generation <= entry'[r].state.generation
         /\ entry'[r].state.generation = entry[r].state.generation /\ entry'[r].state.generation < MaxUint64
              => entry'[r].state.window = entry[r].state.window
    /\ entry'[r].def.revision # entry[r].def.revision =>
         \/ entry'[r].def.revision = 0
         \/ ruleRow[r].revision # 0 /\ entry[r].def.revision < entry'[r].def.revision

\* A request drops its ticket for a rule, keeps it, or gets a good one.
Tickets(q, r) ==
    \/ req'[q].ticket[r].revision = 0
    \/ req'[q].ticket[r] = req[q].ticket[r] /\ req'[q].windows[r] = req[q].windows[r]
    \/ OwnTicket(q, r)'

\* The numbers that a ticket is compared with.
LEMMA TicketTypes ==
    ASSUME TypeOK, NEW q \in Requests, NEW r \in Rules
    PROVE  /\ req[q].ticket[r].revision \in Nat /\ req[q].ticket[r].generation \in Nat
           /\ entry[r].def.revision \in Nat /\ entry[r].state.generation \in Nat
           /\ entry[r].state.used \in Nat /\ req[q].at \in Nat
<1>1. req[q] \in Request /\ entry[r] \in RuntimeRule
  BY Zenon DEF TypeOK
<1>2. req[q].ticket[r] \in TicketRule /\ req[q].at \in Nat
  BY <1>1, Zenon DEF Request
<1>3. req[q].ticket[r].revision \in Nat /\ req[q].ticket[r].generation \in Nat
  BY <1>2, WidthAssumption DEF TicketRule
<1> QED
  BY <1>1, <1>2, <1>3, WidthAssumption DEF RuntimeRule, Definition, State

\* A ticket stays good while its rule evolves.
LEMMA TicketStep ==
    ASSUME TypeOK, TypeOK', NEW q \in Requests, NEW r \in Rules,
           OwnTicket(q, r), Evolves(r), Tickets(q, r)
    PROVE  OwnTicket(q, r)'
<1>1. CASE req'[q].ticket[r].revision = 0
  BY <1>1, Zenon DEF OwnTicket
<1>2. CASE /\ req'[q].ticket[r] = req[q].ticket[r] /\ req'[q].windows[r] = req[q].windows[r]
           /\ req[q].ticket[r].revision # 0
  <2> DEFINE t == req[q].ticket[r]
  <2>1. /\ t.revision \in Nat /\ t.generation \in Nat
        /\ entry[r].def.revision \in Nat /\ entry[r].state.generation \in Nat
    BY TicketTypes, Zenon
  <2>2. /\ entry'[r].def.revision \in Nat /\ entry'[r].state.generation \in Nat
    BY WidthAssumption DEF TypeOK, RuntimeRule, Definition, State
  <2>3. r \in created /\ r \in created'
    BY <1>2, ZenonT(40) DEF OwnTicket, Evolves
  <2>4. ruleRow'[r].revision # 0 => t.revision <= entry'[r].def.revision
    <3> SUFFICES ASSUME ruleRow'[r].revision # 0 PROVE t.revision <= entry'[r].def.revision
      BY Zenon
    <3>1. ruleRow[r].revision # 0 /\ entry[r].def.revision <= entry'[r].def.revision
      BY <2>3, Zenon DEF Evolves
    <3>2. t.revision <= entry[r].def.revision
      BY <1>2, <3>1, Zenon DEF OwnTicket
    <3> HIDE DEF t
    <3> QED
      BY <2>1, <2>2, <3>1, <3>2
  <2>5. t.revision = entry'[r].def.revision => entry'[r].def.revision = entry[r].def.revision
    <3> SUFFICES ASSUME t.revision = entry'[r].def.revision,
                        entry'[r].def.revision # entry[r].def.revision
                 PROVE  FALSE
      BY Zenon
    <3>1. ruleRow[r].revision # 0 /\ entry[r].def.revision < entry'[r].def.revision
      BY <1>2, Zenon DEF Evolves
    <3>2. t.revision <= entry[r].def.revision
      BY <1>2, <3>1, Zenon DEF OwnTicket
    <3> HIDE DEF t
    <3> QED
      BY <2>1, <2>2, <3>1, <3>2
  <2>6. ASSUME t.revision = entry'[r].def.revision, r \in PeriodicRules
        PROVE  /\ t.generation <= entry'[r].state.generation
               /\ t.generation = entry'[r].state.generation /\ entry'[r].state.generation < MaxUint64
                    => req[q].windows[r] = entry'[r].state.window
    <3>1. /\ t.generation <= entry[r].state.generation
          /\ t.generation = entry[r].state.generation /\ entry[r].state.generation < MaxUint64
               => req[q].windows[r] = entry[r].state.window
      BY <1>2, <2>5, <2>6, Zenon DEF OwnTicket
    <3>2. /\ entry[r].state.generation <= entry'[r].state.generation
          /\ entry'[r].state.generation = entry[r].state.generation /\ entry'[r].state.generation < MaxUint64
              => entry'[r].state.window = entry[r].state.window
      BY <1>2, <2>5, <2>6, Zenon DEF Evolves
    <3> QED
      BY <2>1, <2>2, <3>1, <3>2
  <2>7. ASSUME t.revision = entry'[r].def.revision, r \notin PeriodicRules
        PROVE  req[q].windows[r] = NoWindow
    BY <1>2, <2>5, <2>7, Zenon DEF OwnTicket
  <2> QED
    BY <1>2, <2>3, <2>4, <2>6, <2>7, Zenon DEF OwnTicket
<1> QED
  BY <1>1, <1>2, Zenon DEF Tickets

\* A step whose rules evolve and whose tickets are kept, dropped or good keeps Own.
LEMMA OwnStep ==
    ASSUME TypeOK, TypeOK', Own,
           \A r \in Rules : Evolves(r),
           \A q \in Requests, r \in Rules : Tickets(q, r),
           \A q \in Requests : req'[q].at <= now',
           \A r \in Rules : ruleRow'[r].revision = 0 => stateRow'[r].state = FreshState
    PROVE  Own'
<1>1. \A q \in Requests, r \in Rules : OwnTicket(q, r)'
  BY TicketStep, Zenon DEF Own
<1> QED
  BY <1>1, Zenon DEF Own

\* A step that leaves the definitions, the windows and the generations alone.
LEMMA SameRules ==
    ASSUME TypeOK, UNCHANGED <<ruleRow, created>>, NEW r \in Rules,
           entry'[r].def = entry[r].def,
           entry'[r].state.window = entry[r].state.window,
           entry'[r].state.generation = entry[r].state.generation
    PROVE  Evolves(r)
<1>1. entry[r].def.revision \in Nat /\ entry[r].state.generation \in Nat
  BY WidthAssumption DEF TypeOK, RuntimeRule, Definition, State
<1>2. ruleRow[r].revision # 0 => entry[r].def.revision <= entry'[r].def.revision
  BY <1>1
<1> QED
  BY <1>1, <1>2 DEF Evolves

\* A request without a ticket.
LEMMA IdleFacts ==
    /\ IdleRequest.at = 0
    /\ \A r \in Rules : IdleRequest.ticket[r].revision = 0
BY DEF IdleRequest, NoTicket

\* The requests keep the invariant of the tickets.
LEMMA GatewayOwn == ASSUME Inv, TypeOK', Own, Gateway PROVE Own'
<1>0. PICK q \in Requests : \/ \E k \in Keys : Begin(q, k)
                            \/ AdmitRefused(q)
                            \/ Admit(q)
                            \/ \E cost \in Costs : Complete(q, cost)
                            \/ NotifyDirty(q)
  BY DEF Gateway
<1>a. TypeOK /\ req[q] \in Request /\ now \in Nat
  BY DEF Inv, TypeOK
<1>b. UNCHANGED <<now, ruleRow, stateRow, created>>
  BY <1>0, Zenon DEF Begin, AdmitRefused, Admit, Complete, NotifyDirty, database
<1>c. \A r \in Rules : ruleRow'[r].revision = 0 => stateRow'[r].state = FreshState
  BY <1>b, Zenon DEF Own
<1>d. \A p \in Requests : req[p].at <= now /\ req[p].at \in Nat
  BY <1>a, Zenon DEF Own, TypeOK, Request
<1>1. ASSUME \A r \in Rules : Evolves(r),
             \A p \in Requests : p # q => req'[p] = req[p],
             \A r \in Rules : Tickets(q, r),
             req'[q].at <= now
      PROVE  Own'
  <2>1. \A p \in Requests, r \in Rules : Tickets(p, r)
    BY <1>1, Zenon DEF Tickets
  <2>2. \A p \in Requests : req'[p].at <= now'
    BY <1>1, <1>b, <1>d, Zenon
  <2> QED
    BY <1>a, <1>c, <1>1, <2>1, <2>2, OwnStep, Zenon
<1>2. ASSUME entry' = entry
      PROVE  \A r \in Rules : Evolves(r)
  BY <1>2, <1>a, <1>b, SameRules, ZenonT(40)
<1>3. ASSUME NEW k \in Keys, Begin(q, k)
      PROVE  Own'
  <2> DEFINE pinned == IF \E r \in RulesOf(k) : entry[r].def.revision # 0 THEN "current" ELSE "none"
             new == [IdleRequest EXCEPT !.pc = "timed", !.key = k, !.at = now, !.snapshot = pinned]
  <2>1. new.at = now /\ new.ticket = IdleRequest.ticket
    BY DEF IdleRequest
  <2>2. req' = [req EXCEPT ![q] = new] /\ entry' = entry
    BY <1>3, Zenon DEF Begin
  <2> HIDE DEF new
  <2>3. req'[q] = new /\ \A p \in Requests : p # q => req'[p] = req[p]
    BY <1>a, <2>2, Zenon DEF TypeOK
  <2> QED
    BY <1>1, <1>2, <1>a, <2>1, <2>2, <2>3, IdleFacts DEF Tickets
<1>4. CASE AdmitRefused(q)
  <2>1. entry' = entry /\ req'[q] = IdleRequest /\ \A p \in Requests : p # q => req'[p] = req[p]
    BY <1>4, <1>a, Zenon DEF AdmitRefused, TypeOK
  <2> QED
    BY <1>1, <1>2, <1>a, <2>1, IdleFacts DEF Tickets
<1>5. CASE NotifyDirty(q)
  <2> DEFINE new == [req[q] EXCEPT !.pc = IF @ = "admitNotify" THEN "admitted" ELSE "idle"]
  <2>1. new.at = req[q].at /\ new.ticket = req[q].ticket /\ new.windows = req[q].windows
    BY <1>a DEF Request
  <2>2. entry' = entry /\ req' = [req EXCEPT ![q] = new]
    BY <1>5, <1>a, Zenon DEF NotifyDirty, TypeOK
  <2> HIDE DEF new
  <2>3. req'[q] = new /\ \A p \in Requests : p # q => req'[p] = req[p]
    BY <1>a, <2>2, Zenon DEF TypeOK
  <2> QED
    BY <1>1, <1>2, <1>d, <2>1, <2>2, <2>3 DEF Tickets
<1>6. ASSUME NEW cost \in Costs, Complete(q, cost)
      PROVE  Own'
  <2> DEFINE charged == {r \in Rules :
                /\ Matches(entry[r], req[q].ticket[r], r \in PeriodicRules)
                /\ Charge(entry[r].state.used, cost) # entry[r].state.used}
             pc == IF charged = {} THEN "idle" ELSE "doneNotify"
             new == [IdleRequest EXCEPT !.pc = pc]
  <2>1. /\ entry' = [r \in Rules |->
                        IF r \in charged THEN Charged(entry[r], cost) ELSE entry[r]]
        /\ req' = [req EXCEPT ![q] = new]
    BY <1>6 DEF Complete
  <2>2. new.at = 0 /\ new.ticket = IdleRequest.ticket
    BY Zenon DEF IdleRequest
  <2> HIDE DEF new, charged
  <2>3. req'[q] = new /\ \A p \in Requests : p # q => req'[p] = req[p]
    BY <1>a, <2>1, Zenon DEF TypeOK
  <2>4. \A r \in Rules : Evolves(r)
    <3> SUFFICES ASSUME NEW r \in Rules PROVE Evolves(r)
      BY Zenon
    <3>1. /\ Charged(entry[r], cost).def = entry[r].def
          /\ Charged(entry[r], cost).state.window = entry[r].state.window
          /\ Charged(entry[r], cost).state.generation = entry[r].state.generation
      BY Zenon DEF Charged
    <3>2. /\ entry'[r].def = entry[r].def /\ entry'[r].state.window = entry[r].state.window
          /\ entry'[r].state.generation = entry[r].state.generation
      BY <2>1, <3>1, Zenon
    <3> QED
      BY <1>a, <1>b, <3>2, SameRules
  <2> QED
    BY <1>1, <1>a, <2>2, <2>3, <2>4, IdleFacts DEF Tickets
<1>7. CASE Admit(q)
  <2> DEFINE k == req[q].key
             t == req[q].at
             opened == {r \in RulesOf(k) \cap PeriodicRules :
                          entry[r].def.revision # 0 /\ periodicInactive(entry[r].state, t)}
             ticket == [r \in Rules |->
                            IF r \in RulesOf(k)
                            THEN [revision |-> entry'[r].def.revision,
                                  generation |-> entry'[r].state.generation]
                            ELSE NoTicket[r]]
             windows == [r \in Rules |-> entry'[r].state.window]
             pc == IF opened = {} THEN "admitted" ELSE "admitNotify"
             new == [req[q] EXCEPT !.pc = pc, !.ticket = ticket, !.windows = windows]
  <2>1. /\ entry' = [r \in Rules |->
                        IF r \in opened THEN OpenWindow(entry[r], t) ELSE entry[r]]
        /\ req' = [req EXCEPT ![q] = new]
    BY <1>7, Zenon DEF Admit
  <2>2. new.at = t /\ new.ticket = ticket /\ new.windows = windows
    BY <1>a DEF Request
  <2>3. req'[q] = new /\ \A p \in Requests : p # q => req'[p] = req[p]
    BY <1>a, <2>1, Zenon DEF TypeOK
  <2> HIDE DEF new
  <2>4. ASSUME NEW r \in Rules
        PROVE  /\ entry'[r].def = entry[r].def
               /\ entry'[r] = entry[r] \/ /\ r \in opened
                                          /\ entry'[r].state.generation = Saturating(entry[r].state.generation)
    <3>1. /\ OpenWindow(entry[r], t).def = entry[r].def
          /\ OpenWindow(entry[r], t).state.generation = Saturating(entry[r].state.generation)
      BY DEF OpenWindow
    <3>2. entry'[r] = IF r \in opened THEN OpenWindow(entry[r], t) ELSE entry[r]
      BY <2>1, Zenon
    <3> QED
      BY <3>1, <3>2, ZenonT(40)
  <2>5. \A r \in opened : r \in PeriodicRules
    BY Zenon
  <2> HIDE DEF opened
  <2>6. ASSUME NEW r \in Rules
        PROVE  Evolves(r)
    <3>1. entry[r].def.revision \in Nat /\ entry[r].state.generation \in 0 .. MaxUint64
      BY <1>a DEF TypeOK, RuntimeRule, Definition, State
    <3>2. CASE entry'[r] = entry[r]
      BY <1>a, <1>b, <3>2, SameRules, ZenonT(40)
    <3>3. CASE entry'[r].state.generation = Saturating(entry[r].state.generation)
      <4>1. /\ entry[r].state.generation <= entry'[r].state.generation
            /\ entry'[r].state.generation # entry[r].state.generation \/ entry'[r].state.generation = MaxUint64
        BY <3>1, <3>3, WidthAssumption DEF Saturating
      <4>2. entry'[r].def.revision = entry[r].def.revision /\ entry[r].def.revision <= entry'[r].def.revision
        BY <2>4, <3>1
      <4> QED
        <5>1. ~(MaxUint64 < MaxUint64)
          BY WidthAssumption
        <5> QED
          BY <1>b, <4>1, <4>2, <5>1, Zenon DEF Evolves
    <3> QED
      BY <2>4, <3>2, <3>3, Zenon
  <2>7. ASSUME NEW r \in Rules
        PROVE  Tickets(q, r)
    <3>1. /\ req'[q].ticket[r] = IF r \in RulesOf(k)
                                 THEN [revision |-> entry'[r].def.revision,
                                       generation |-> entry'[r].state.generation]
                                 ELSE NoTicket[r]
          /\ req'[q].windows[r] = entry'[r].state.window
      BY <2>2, <2>3, Zenon
    <3>2. CASE r \notin RulesOf(k)
      BY <3>1, <3>2 DEF NoTicket, Tickets
    <3>3. CASE r \in RulesOf(k)
      <4>1. /\ req'[q].ticket[r].revision = entry'[r].def.revision
            /\ req'[q].ticket[r].generation = entry'[r].state.generation
        BY <3>1, <3>3
      <4>2. entry'[r].def.revision \in Nat /\ entry'[r].state.generation \in Nat
        BY WidthAssumption DEF TypeOK, RuntimeRule, Definition, State
      <4>3. entry'[r].def.revision # 0 => r \in created'
        BY <1>b, <2>4 DEF Inv, RowsInv
      <4>4. entry'[r].def.revision # 0 /\ r \notin PeriodicRules => entry'[r].state.window = NoWindow
        BY <2>4, <2>5, ZenonT(40) DEF Inv, RuntimeInv, WellFormed
      <4>5. OwnTicket(q, r)'
        <5>1. /\ entry'[r].def.revision <= entry'[r].def.revision
              /\ entry'[r].state.generation <= entry'[r].state.generation
          BY <4>2
        <5> QED
          BY <3>1, <4>1, <4>3, <4>4, <5>1, Zenon DEF OwnTicket
      <4> QED
        BY <4>5, Zenon DEF Tickets
    <3> QED
      BY <3>2, <3>3, Zenon
  <2> QED
    BY <1>1, <1>d, <2>2, <2>3, <2>6, <2>7
<1> QED
  BY <1>0, <1>3, <1>4, <1>5, <1>6, <1>7, Zenon

\* The worker writes and acknowledges; it opens no window and frees no ticket.
LEMMA WorkerOwn == ASSUME Inv, TypeOK', Own, Worker PROVE Own'
<1>1. TypeOK /\ UNCHANGED <<now, ruleRow, created, req>>
  <2>1. CASE \E k \in Keys : \E picked \in SUBSET RulesOf(k) : ScanKey(k, picked)
    BY <2>1 DEF ScanKey, Inv, database
  <2>2. CASE \E b \in batch : Ack(b)
    BY <2>2, Zenon DEF Ack, Inv, database
  <2> QED
    BY <2>1, <2>2, Zenon DEF Worker, WorkerWakes, WorkerTakesEvent, WorkerAbsorbsWake, FlushStarts, WriteSnapshots,
                      WriteFails, Recheck, Inv, database
<1>2. \A r \in Rules : entry'[r].def = entry[r].def /\ entry'[r].state = entry[r].state
  <2>1. ASSUME NEW b \in batch, Ack(b), NEW r \in Rules
        PROVE  entry'[r].def = entry[r].def /\ entry'[r].state = entry[r].state
    <3>1. b.rule \in Rules
      BY <1>1, Zenon DEF TypeOK, Snapshot
    <3>2. entry[r] \in RuntimeRule
      BY <1>1 DEF TypeOK
    <3> DEFINE new == [entry[r] EXCEPT !.dirty = FALSE]
    <3>3. new.def = entry[r].def /\ new.state = entry[r].state
      BY <3>2 DEF RuntimeRule
    <3>4. entry'[r] = entry[r] \/ entry'[r] = new
      BY <1>1, <2>1, <3>1, Zenon DEF Ack, TypeOK
    <3> QED
      BY <3>3, <3>4, Zenon
  <2>2. CASE ~\E b \in batch : Ack(b)
    <3>1. CASE \E k \in Keys : \E picked \in SUBSET RulesOf(k) : ScanKey(k, picked)
      BY <3>1, Zenon DEF ScanKey
    <3> QED
      BY <2>2, <3>1, Zenon DEF Worker, WorkerWakes, WorkerTakesEvent, WorkerAbsorbsWake, FlushStarts, WriteSnapshots,
                        WriteFails, Recheck
  <2> QED
    BY <2>1, <2>2
<1>3. \A r \in Rules : Evolves(r)
  BY <1>1, <1>2, SameRules, Zenon
<1>4. ASSUME NEW r \in Rules, ruleRow'[r].revision = 0
      PROVE  stateRow'[r].state = FreshState
  <2>1. stateRow[r].state = FreshState /\ stateRow[r].revision = 0
    BY <1>1, <1>4, Zenon DEF Own, Inv, RowsInv
  <2>2. \A b \in batch : b.revision # 0
    BY Zenon DEF Inv, BatchInv
  <2>3. Persisted(r) = stateRow[r]
    BY <2>1, <2>2, Zenon DEF Persisted, Overwrites
  <2>4. stateRow' = stateRow \/ stateRow' = [s \in Rules |-> Persisted(s)]
    <3>1. CASE \E k \in Keys : \E picked \in SUBSET RulesOf(k) : ScanKey(k, picked)
      BY <3>1 DEF ScanKey, database
    <3>2. CASE \E b \in batch : Ack(b)
      BY <3>2 DEF Ack, database
    <3> QED
      BY <3>1, <3>2, Zenon DEF Worker, WorkerWakes, WorkerTakesEvent, WorkerAbsorbsWake, FlushStarts, WriteSnapshots,
                        WriteFails, Recheck, database
  <2>5. stateRow'[r] = stateRow[r]
    BY <2>3, <2>4, Zenon
  <2> QED
    BY <2>1, <2>5
<1>5. \A q \in Requests, r \in Rules : Tickets(q, r)
  BY <1>1, Zenon DEF Tickets
<1>6. \A q \in Requests : req'[q].at <= now'
  BY <1>1 DEF Own
<1> QED
  BY <1>1, <1>3, <1>4, <1>5, <1>6, OwnStep, Zenon

\* An edit creates a rule once, and a rule without a row has a fresh one.
LEMMA EditFacts ==
    ASSUME Inv, Own, NEW r \in Rules,
           \/ \E k \in Keys : \E desired \in Desired(k) : EditRules(k, desired)
           \/ \E k \in Keys : \E targets \in SUBSET RulesOf(k) : ResetRules(k, targets)
    PROVE  /\ r \in created => r \in created'
           /\ r \in created /\ ruleRow'[r].revision # 0 => ruleRow[r].revision # 0
           /\ ruleRow'[r].revision = 0 => stateRow'[r].state = FreshState
           /\ UNCHANGED <<now, entry, req>>
<1>0. TypeOK /\ ruleRow[r].revision \in Nat /\ (ruleRow[r].revision = 0 => stateRow[r].state = FreshState)
  BY DEF Inv, TypeOK, Definition, Own
<1>1. ASSUME NEW k \in Keys, NEW desired \in Desired(k), EditRules(k, desired)
      PROVE  /\ r \in created => r \in created'
             /\ r \in created /\ ruleRow'[r].revision # 0 => ruleRow[r].revision # 0
             /\ ruleRow'[r].revision = 0 => stateRow'[r].state = FreshState
             /\ UNCHANGED <<now, entry, req>>
  <2> DEFINE listed == {s \in RulesOf(k) : desired[s].limit # 0}
             renewed == {s \in listed : semanticsChanged(s, desired[s])}
             Row(s) == CASE s \notin RulesOf(k) -> ruleRow[s]
                         [] s \in RulesOf(k) \ listed -> NoRule
                         [] s \in listed \ created -> NewDefinition(1, desired[s])
                         [] s \in renewed -> NewDefinition(ruleRow[s].revision + 1, desired[s])
                         [] OTHER -> NewDefinition(ruleRow[s].revision, desired[s])
             SRow(s) == CASE s \in RulesOf(k) \ listed -> NoRow
                          [] s \in (listed \ created) \cup renewed ->
                                [revision |-> Row(s).revision, state |-> FreshState]
                          [] OTHER -> stateRow[s]
  <2>1. /\ ValidDesired(k, desired)
        /\ ruleRow' = [s \in Rules |-> Row(s)]
        /\ stateRow' = [s \in Rules |-> SRow(s)]
        /\ created' = created \cup listed
        /\ UNCHANGED <<now, entry, req>>
    BY <1>1, Zenon DEF EditRules
  <2>2. ruleRow'[r] = Row(r) /\ stateRow'[r] = SRow(r)
    BY <2>1, Zenon
  <2>3. r \in listed /\ r \in created => ruleRow[r].revision # 0
    BY <2>1, Zenon DEF ValidDesired
  <2>4. \A n : NewDefinition(n, desired[r]).revision = n
    BY DEF NewDefinition
  <2>5. r \notin RulesOf(k) => Row(r) = ruleRow[r] /\ SRow(r) = stateRow[r]
    OBVIOUS
  <2>6. r \in RulesOf(k) \ listed => Row(r) = NoRule /\ SRow(r) = NoRow
    OBVIOUS
  <2>7. r \in listed \ created => Row(r) = NewDefinition(1, desired[r])
    BY Zenon DEF semanticsChanged
  <2>8. listed \subseteq RulesOf(k)
    OBVIOUS
  <2>9. r \in listed /\ r \in created => \/ Row(r) = NewDefinition(ruleRow[r].revision + 1, desired[r])
                                         \/ Row(r) = NewDefinition(ruleRow[r].revision, desired[r])
    <3>1. CASE r \in renewed
      BY <2>8, <3>1
    <3>2. CASE r \notin renewed
      BY <2>8, <3>2, Zenon
    <3> QED
      BY <3>1, <3>2
  <2> HIDE DEF Row, SRow, listed, renewed
  <2>10. CASE r \notin RulesOf(k)
    BY <1>0, <2>1, <2>2, <2>5, <2>10, ZenonT(40)
  <2>11. CASE r \in RulesOf(k) \ listed
    <3>1. NoRule.revision = 0 /\ NoRow.state = FreshState
      BY DEF NoRule, NoRow
    <3> QED
      BY <2>1, <2>2, <2>6, <2>11, <3>1, Zenon
  <2>12. CASE r \in listed \ created
    <3>1. ruleRow'[r].revision = 1
      BY <2>2, <2>4, <2>7, <2>12, Zenon
    <3> QED
      BY <2>1, <2>12, <3>1, 1 # 0, Zenon
  <2>13. CASE r \in listed /\ r \in created
    <3>1. ruleRow'[r].revision = ruleRow[r].revision + 1 \/ ruleRow'[r].revision = ruleRow[r].revision
      BY <2>2, <2>4, <2>9, <2>13, Zenon
    <3> QED
      BY <1>0, <2>1, <2>3, <2>13, <3>1
  <2> QED
    BY <2>8, <2>10, <2>11, <2>12, <2>13, Zenon
<1>2. ASSUME NEW k \in Keys, NEW targets \in SUBSET RulesOf(k), ResetRules(k, targets)
      PROVE  /\ r \in created => r \in created'
             /\ r \in created /\ ruleRow'[r].revision # 0 => ruleRow[r].revision # 0
             /\ ruleRow'[r].revision = 0 => stateRow'[r].state = FreshState
             /\ UNCHANGED <<now, entry, req>>
  <2>1. UNCHANGED <<now, created, entry, req>>
    BY <1>2, Zenon DEF ResetRules
  <2>2. CASE r \in targets
    <3>1. /\ stateRow'[r] = [revision |-> ruleRow[r].revision + 1, state |-> FreshState]
          /\ ruleRow[r].revision # 0
      BY <1>2, <2>2 DEF ResetRules
    <3> QED
      BY <2>1, <3>1, SMTT(30)
  <2>3. CASE r \notin targets
    <3>1. ruleRow'[r] = ruleRow[r] /\ stateRow'[r] = stateRow[r]
      BY <1>2, <2>3, Zenon DEF ResetRules
    <3> QED
      BY <1>0, <2>1, <3>1
  <2> QED
    BY <2>2, <2>3, Zenon
<1> QED
  BY <1>1, <1>2, Zenon

\* Edits and resets of rules, and their publication, keep Own.
LEMMA ControlOwn == ASSUME Inv, TypeOK', Own, Control PROVE Own'
<1>0. TypeOK /\ \A r \in Rules : /\ entry[r].def.revision \in Nat /\ ruleRow[r].revision \in Nat
                                 /\ entry[r].state.generation \in Nat
  BY WidthAssumption DEF Inv, TypeOK, RuntimeRule, Definition, State
<1>1. CASE \/ \E k \in Keys : \E desired \in Desired(k) : EditRules(k, desired)
           \/ \E k \in Keys : \E targets \in SUBSET RulesOf(k) : ResetRules(k, targets)
  <2>1. \A r \in Rules : /\ r \in created => r \in created'
                         /\ r \in created /\ ruleRow'[r].revision # 0 => ruleRow[r].revision # 0
                         /\ ruleRow'[r].revision = 0 => stateRow'[r].state = FreshState
    BY <1>1, EditFacts, Zenon
  <2>2. UNCHANGED <<now, entry, req>>
    BY <1>1, Zenon DEF EditRules, ResetRules
  <2>3. \A r \in Rules : Evolves(r)
    BY <1>0, <2>1, <2>2 DEF Evolves
  <2>4. \A q \in Requests, r \in Rules : Tickets(q, r)
    BY <2>2, Zenon DEF Tickets
  <2>5. \A q \in Requests : req'[q].at <= now'
    BY <2>2, Zenon DEF Own
  <2> QED
    BY <1>0, <2>1, <2>3, <2>4, <2>5, OwnStep, Zenon
<1>2. CASE PublishFails
  <2>1. UNCHANGED <<now, ruleRow, stateRow, created, entry, req>>
    BY <1>2, Zenon DEF PublishFails
  <2>2. \A r \in Rules : Evolves(r)
    BY <1>0, <2>1, SameRules, Zenon
  <2>3. \A q \in Requests, r \in Rules : Tickets(q, r)
    BY <2>1, Zenon DEF Tickets
  <2>4. /\ \A q \in Requests : req'[q].at <= now'
        /\ \A r \in Rules : ruleRow'[r].revision = 0 => stateRow'[r].state = FreshState
    BY <2>1, Zenon DEF Own
  <2> QED
    BY <1>0, <2>2, <2>3, <2>4, OwnStep, Zenon
<1>3. CASE Publish
  <2>1. UNCHANGED <<now, ruleRow, stateRow, created>>
    BY <1>3, Zenon DEF Publish
  <2>2. ASSUME NEW r \in Rules
        PROVE  Evolves(r)
    <3>1. entry[r] \in RuntimeRule /\ entry'[r] = Reconciled(r)
      BY <1>0, <1>3, Zenon DEF Publish, TypeOK
    <3>2. /\ entry'[r].def = ruleRow[r]
          /\ entry[r].def.revision = ruleRow[r].revision => entry'[r].state = entry[r].state
      <4>1. CASE entry[r].def.revision = ruleRow[r].revision
        <5>1. entry'[r] = [entry[r] EXCEPT !.def = ruleRow[r]]
          BY <3>1, <4>1, Zenon DEF Reconciled
        <5> QED
          BY <3>1, <5>1 DEF RuntimeRule
      <4>2. CASE entry[r].def.revision # ruleRow[r].revision
        <5>1. entry'[r] = [def |-> ruleRow[r], state |-> FreshState, dirty |-> FALSE]
          BY <3>1, <4>2, Zenon DEF Reconciled
        <5> QED
          BY <4>2, <5>1
      <4> QED
        BY <4>1, <4>2
    <3>3. ruleRow[r].revision # 0 => entry[r].def.revision <= ruleRow[r].revision
      BY DEF Inv, RowsInv
    <3>4. entry'[r].def.revision = ruleRow[r].revision
      BY <3>2
    <3> QED
      BY <1>0, <2>1, <3>2, <3>3, <3>4 DEF Evolves
  <2>3. \A q \in Requests : /\ req'[q].ticket = req[q].ticket /\ req'[q].windows = req[q].windows
                            /\ req'[q].at = req[q].at
    <3> SUFFICES ASSUME NEW q \in Requests
                 PROVE  /\ req'[q].ticket = req[q].ticket /\ req'[q].windows = req[q].windows
                        /\ req'[q].at = req[q].at
      BY Zenon
    <3>1. req[q] \in Request
      BY <1>0 DEF TypeOK
    <3>2. PICK s : req'[q] = [req[q] EXCEPT !.snapshot = s]
      BY <1>3, Zenon DEF Publish
    <3> QED
      BY <3>1, <3>2, Zenon DEF Request
  <2>4. \A q \in Requests, r \in Rules : Tickets(q, r)
    BY <2>3, Zenon DEF Tickets
  <2>5. /\ \A q \in Requests : req'[q].at <= now'
        /\ \A r \in Rules : ruleRow'[r].revision = 0 => stateRow'[r].state = FreshState
    BY <2>1, <2>3 DEF Own
  <2> QED
    BY <1>0, <2>2, <2>4, <2>5, OwnStep, Zenon
<1> QED
  BY <1>1, <1>2, <1>3, Zenon DEF Control

\* Every step keeps Own.
LEMMA NextOwn == ASSUME Inv, TypeOK', Own, [Next]_vars PROVE Own'
<1>0. TypeOK /\ now \in Nat /\ \A q \in Requests : req[q].at \in Nat
  BY Zenon DEF Inv, TypeOK, Request
<1>1. CASE Tick \/ UNCHANGED vars
  <2>1. UNCHANGED <<ruleRow, stateRow, created, entry, req>> /\ now <= now'
    BY <1>0, <1>1 DEF Tick, vars, database
  <2>2. \A r \in Rules : Evolves(r)
    BY <1>0, <2>1, SameRules, Zenon
  <2>3. \A q \in Requests, r \in Rules : Tickets(q, r)
    BY <2>1, Zenon DEF Tickets
  <2>4. \A r \in Rules : ruleRow'[r].revision = 0 => stateRow'[r].state = FreshState
    BY <2>1 DEF Own
  <2>5. \A q \in Requests : req'[q].at <= now'
    <3>1. now' \in Nat /\ \A q \in Requests : req[q].at <= now
      BY Zenon DEF Own, TypeOK
    <3> QED
      BY <1>0, <2>1, <3>1
  <2> QED
    BY <1>0, <2>2, <2>3, <2>4, <2>5, OwnStep, Zenon
<1>2. CASE Restart
  <2>1. UNCHANGED <<now, ruleRow, stateRow, created>> /\ \A q \in Requests : req'[q] = IdleRequest
    BY <1>2, Zenon DEF Restart
  <2>2. \A q \in Requests, r \in Rules : OwnTicket(q, r)'
    BY <2>1, IdleFacts DEF OwnTicket
  <2> QED
    BY <1>0, <2>1, <2>2, IdleFacts DEF Own
<1> QED
  BY <1>1, <1>2, GatewayOwn, WorkerOwn, ControlOwn, Zenon DEF Next

\* The tickets agree with the rules in every reachable state.
THEOREM TicketsAgree == Spec => []Own
<1>1. Init => Own
  <2> SUFFICES ASSUME Init PROVE Own
    OBVIOUS
  <2>1. \A q \in Requests, r \in Rules : OwnTicket(q, r)
    BY IdleFacts, Zenon DEF Init, OwnTicket
  <2>2. \A q \in Requests : req[q].at <= now
    BY IdleFacts DEF Init
  <2>3. \A r \in Rules : ruleRow[r].revision = 0 => stateRow[r].state = FreshState
    BY DEF Init, NoRow
  <2> QED
    BY <2>1, <2>2, <2>3, Zenon DEF Own
<1>2. Inv => TypeOK
  BY DEF Inv
<1> QED
  BY <1>1, <1>2, NextOwn, Invariance, PTL DEF Spec

\* Edits, their publication, the checkpoints and the clock leave the usage and
\* the window of a revision alone.
LEMMA QuietSteps ==
    ASSUME Inv, NEW r \in Rules, entry'[r].def.revision = entry[r].def.revision,
           Control \/ Worker \/ Tick
    PROVE  entry'[r].state = entry[r].state
<1>0. TypeOK /\ entry[r] \in RuntimeRule
  BY Zenon DEF Inv, TypeOK
<1>1. CASE Publish
  <2>1. entry'[r] = Reconciled(r)
    BY <1>1 DEF Publish
  <2>2. CASE entry[r].def.revision = ruleRow[r].revision
    <3>1. entry'[r] = [entry[r] EXCEPT !.def = ruleRow[r]]
      BY <2>1, <2>2, Zenon DEF Reconciled
    <3> QED
      BY <1>0, <3>1 DEF RuntimeRule
  <2>3. CASE entry[r].def.revision # ruleRow[r].revision
    <3>1. entry'[r] = [def |-> ruleRow[r], state |-> FreshState, dirty |-> FALSE]
      BY <2>1, <2>3 DEF Reconciled
    <3> QED
      BY <2>3, <3>1
  <2> QED
    BY <2>2, <2>3
<1>2. CASE \E b \in batch : Ack(b)
  <2>1. PICK b \in batch : Ack(b)
    BY <1>2, Zenon
  <2>2. b.rule \in Rules
    BY <1>0 DEF TypeOK, Snapshot
  <2>3. entry'[r] = entry[r] \/ entry'[r] = [entry[r] EXCEPT !.dirty = FALSE]
    BY <1>0, <2>1, <2>2, Zenon DEF Ack, TypeOK
  <2> QED
    BY <1>0, <2>3 DEF RuntimeRule
<1>3. CASE Control /\ ~Publish
  BY <1>3, Zenon DEF Control, EditRules, ResetRules, PublishFails
<1>4. CASE Worker /\ ~\E b \in batch : Ack(b)
  <2>1. CASE \E k \in Keys : \E picked \in SUBSET RulesOf(k) : ScanKey(k, picked)
    BY <2>1 DEF ScanKey
  <2> QED
    BY <1>4, <2>1, Zenon DEF Worker, WorkerWakes, WorkerTakesEvent, WorkerAbsorbsWake, FlushStarts, WriteSnapshots,
                      WriteFails, Recheck
<1>5. CASE Tick
  BY <1>5 DEF Tick
<1> QED
  BY <1>1, <1>2, <1>3, <1>4, <1>5, Zenon

\* A request that completes charges only the window and the revision it was
\* admitted into, however late its answer arrives (Runtime.Complete): for every
\* number of requests, rules, edits, resets, window rollovers and restarts.
THEOREM ChargesAreOwn == Spec => [][ChargesOwnWindow]_vars
<1>1. ASSUME Inv, TypeOK', Own, Next, NEW r \in Rules,
             entry'[r].def.revision = entry[r].def.revision,
             entry'[r].state.window = entry[r].state.window,
             entry'[r].state.used > entry[r].state.used,
             entry[r].state.generation < MaxUint64
      PROVE  \E q \in Requests :
                /\ req[q].pc = "admitted" /\ req'[q].pc # "admitted"
                /\ req[q].ticket[r].revision = entry[r].def.revision
                /\ req[q].windows[r] = entry[r].state.window
  <2>0. TypeOK /\ entry[r] \in RuntimeRule /\ entry[r].state.used \in Nat /\ entry'[r].state.used \in Nat
    BY <1>1 DEF Inv, TypeOK, RuntimeRule, State
  <2>1. entry'[r].state # entry[r].state
    BY <1>1, <2>0
  <2>2. CASE Gateway
    <3>1. PICK q \in Requests : \/ \E k \in Keys : Begin(q, k)
                                \/ AdmitRefused(q)
                                \/ Admit(q)
                                \/ \E cost \in Costs : Complete(q, cost)
                                \/ NotifyDirty(q)
      BY <2>2 DEF Gateway
    <3>2. ~(\E k \in Keys : Begin(q, k)) /\ ~AdmitRefused(q) /\ ~NotifyDirty(q)
      BY <2>1, Zenon DEF Begin, AdmitRefused, NotifyDirty
    <3>3. ~Admit(q)
      <4> SUFFICES ASSUME Admit(q) PROVE FALSE
        OBVIOUS
      <4>1. \E t : entry'[r] = OpenWindow(entry[r], t) \/ entry'[r] = entry[r]
        BY Zenon DEF Admit
      <4>2. entry'[r].state.used = 0
        BY <2>1, <4>1 DEF OpenWindow
      <4> QED
        BY <1>1, <2>0, <4>2
    <3>4. PICK cost \in Costs : Complete(q, cost)
      BY <3>1, <3>2, <3>3
    <3>5. Matches(entry[r], req[q].ticket[r], r \in PeriodicRules)
      BY <2>1, <3>4 DEF Complete
    <3>6. req[q].pc = "admitted" /\ req'[q].pc # "admitted"
      <4> DEFINE charged == {s \in Rules :
                    /\ Matches(entry[s], req[q].ticket[s], s \in PeriodicRules)
                    /\ Charge(entry[s].state.used, cost) # entry[s].state.used}
                 pc == IF charged = {} THEN "idle" ELSE "doneNotify"
                 new == [IdleRequest EXCEPT !.pc = pc]
      <4>1. req[q].pc = "admitted" /\ req' = [req EXCEPT ![q] = new]
        BY <3>4 DEF Complete
      <4>2. new.pc # "admitted"
        BY Zenon DEF IdleRequest
      <4> HIDE DEF new
      <4>3. req'[q] = new
        BY <2>0, <4>1, Zenon DEF TypeOK
      <4> QED
        BY <4>1, <4>2, <4>3
    <3>7. OwnTicket(q, r)
      BY <1>1, Zenon DEF Own
    <3>8. /\ req[q].ticket[r].revision # 0 /\ entry[r].def.revision = req[q].ticket[r].revision
          /\ r \in PeriodicRules => entry[r].state.generation = req[q].ticket[r].generation
      BY <3>5, Zenon DEF Matches
    <3>9. CASE r \in PeriodicRules
      <4>1. req[q].windows[r] = entry[r].state.window
        BY <1>1, <3>7, <3>8, <3>9, Zenon DEF OwnTicket
      <4> QED
        BY <3>6, <3>8, <4>1
    <3>10. CASE r \notin PeriodicRules
      <4>1. req[q].windows[r] = NoWindow
        BY <3>7, <3>8, <3>10 DEF OwnTicket
      <4>2. entry[r].state.window = NoWindow
        BY <1>1, <3>8, <3>10, Zenon DEF Inv, RuntimeInv, WellFormed
      <4> QED
        BY <3>6, <3>8, <4>1, <4>2, ZenonT(40)
    <3> QED
      BY <3>9, <3>10
  <2>3. ~Control /\ ~Worker /\ ~Tick
    BY <1>1, <2>1, QuietSteps, ZenonT(40)
  <2>4. ~Restart
    <3> SUFFICES ASSUME Restart PROVE FALSE
      BY Zenon
    <3>1. entry'[r].def = ruleRow[r] /\ entry'[r].state = stateRow[r].state
      BY Zenon DEF Restart
    <3>2. CASE ruleRow[r].revision = 0
      <4>1. stateRow[r].state.used = 0
        <5>1. stateRow[r].state = FreshState
          BY <1>1, <3>2, Zenon DEF Own
        <5> QED
          BY <5>1 DEF FreshState
      <4> QED
        BY <1>1, <2>0, <3>1, <4>1
    <3>3. CASE ruleRow[r].revision # 0
      <4>1. Past(stateRow[r].state, entry[r].state)
        BY <1>1, <3>1, <3>3, Zenon DEF Inv, RuntimeInv
      <4>2. stateRow[r].state.used <= entry[r].state.used
        BY <1>1, <3>1, <4>1, Zenon DEF Past
      <4> QED
        BY <1>1, <2>0, <3>1, <4>2
    <3> QED
      BY <3>2, <3>3
  <2> QED
    BY <1>1, <2>2, <2>3, <2>4, Zenon DEF Next
<1>2. Inv /\ Inv' /\ Own /\ [Next]_vars => [ChargesOwnWindow]_vars
  <2>1. Inv' => TypeOK'
    BY Zenon DEF Inv
  <2> QED
    BY <1>1, <2>1, Zenon DEF ChargesOwnWindow
<1> QED
  BY <1>2, Invariance, TicketsAgree, PTL DEF Spec

\* Short of a crash, usage is lost only with its window or its revision: the
\* publication of other edits, late answers and checkpoints keep it
\* (Runtime.Admit, Runtime.Reconcile).
THEOREM UsageIsKept == Spec => [][SpendingIsKept]_vars
<1>1. ASSUME Inv, TypeOK', Own, Next, ~Restart, NEW r \in Rules,
             entry'[r].def.revision = entry[r].def.revision,
             entry'[r].state.used < entry[r].state.used
      PROVE  r \in PeriodicRules /\ now >= entry[r].state.window.ends
  <2>0. TypeOK /\ entry[r] \in RuntimeRule /\ entry[r].state.used \in 0 .. MaxInt64 /\ entry'[r].state.used \in Nat
    BY <1>1 DEF Inv, TypeOK, RuntimeRule, State
  <2>1. entry'[r].state # entry[r].state
    BY <1>1, <2>0
  <2>2. CASE Gateway
    <3>1. PICK q \in Requests : \/ \E k \in Keys : Begin(q, k)
                                \/ AdmitRefused(q)
                                \/ Admit(q)
                                \/ \E cost \in Costs : Complete(q, cost)
                                \/ NotifyDirty(q)
      BY <2>2 DEF Gateway
    <3>2. ~(\E k \in Keys : Begin(q, k)) /\ ~AdmitRefused(q) /\ ~NotifyDirty(q)
      BY <2>1, Zenon DEF Begin, AdmitRefused, NotifyDirty
    <3>3. ~(\E cost \in Costs : Complete(q, cost))
      <4> SUFFICES ASSUME NEW cost \in Costs, Complete(q, cost) PROVE FALSE
        OBVIOUS
      <4>1. entry'[r] = Charged(entry[r], cost)
        BY <2>1, ZenonT(40) DEF Complete
      <4>2. entry'[r].state.used = Charge(entry[r].state.used, cost)
        BY <4>1, ChargedUsage, Zenon
      <4>3. cost \in Int
        BY DefinitionsAssumption, Zenon
      <4>4. Charge(entry[r].state.used, cost) >= entry[r].state.used
        BY <2>0, <4>3, WidthAssumption DEF Charge
      <4> QED
        BY <1>1, <2>0, <4>2, <4>4
    <3>4. Admit(q)
      BY <3>1, <3>2, <3>3
    <3>5. /\ r \in PeriodicRules /\ entry[r].def.revision # 0
          /\ periodicInactive(entry[r].state, req[q].at)
      BY <2>1, <3>4, ZenonT(40) DEF Admit
    <3>6. CASE entry[r].state.window = NoWindow
      <4>1. entry[r].state.used = 0
        BY <1>1, <3>5, <3>6, Zenon DEF Inv, RuntimeInv, WellFormed
      <4> QED
        BY <1>1, <2>0, <4>1
    <3>7. CASE req[q].at >= entry[r].state.window.ends
      <4>1. req[q].at <= now
        BY <1>1, Zenon DEF Own
      <4>2. req[q].at \in Nat /\ now \in Nat /\ entry[r].state.window.ends \in Nat
        BY <2>0, Zenon DEF TypeOK, Request, RuntimeRule, State, Window
      <4> QED
        BY <3>5, <3>7, <4>1, <4>2
    <3> QED
      BY <3>5, <3>6, <3>7, Zenon DEF periodicInactive
  <2>3. ~Control /\ ~Worker /\ ~Tick
    BY <1>1, <2>1, QuietSteps, Zenon
  <2> QED
    BY <1>1, <2>2, <2>3, Zenon DEF Next
<1>2. Inv /\ Inv' /\ Own /\ [Next]_vars => [SpendingIsKept]_vars
  <2>1. Inv' => TypeOK'
    BY DEF Inv
  <2> QED
    BY <1>1, <2>1, Zenon DEF SpendingIsKept
<1> QED
  BY <1>2, Invariance, TicketsAgree, PTL DEF Spec

-----------------------------------------------------------------------------
(* The retry time of a refused key. *)

Less == {ss \in Nat \X Nat : ss[1] < ss[2]}

\* A set of natural numbers that is not empty has a least one.
LEMMA LeastNumber ==
  ASSUME NEW N \in SUBSET Nat, N # {}
  PROVE  \E n \in N : \A y \in N : n <= y
<1>1. IsWellFoundedOn(Less, Nat)
  BY NatLessThanWellFounded DEF OpToRel, Less
<1>2. PICK n \in N : \A y \in N : ~(<<y, n>> \in Less)
  BY <1>1, WFMin, Zenon
<1>3. \A y \in N : ~(y < n)
  BY <1>2, Zenon DEF Less
<1> QED
  BY <1>3

\* A finite set of numbers that is not empty has a largest one.
LEMMA FiniteMaximum ==
  ASSUME NEW T \in SUBSET Nat, IsFiniteSet(T), T # {}
  PROVE  \E m \in T : \A x \in T : x <= m
<1> DEFINE Greatest(S) == \E m \in S : \A x \in S : x <= m
           F == {S \in SUBSET T : S # {} /\ ~Greatest(S)}
           N == {Cardinality(S) : S \in F}
<1> SUFFICES ASSUME ~Greatest(T) PROVE FALSE
  OBVIOUS
<1>1. \A S \in F : IsFiniteSet(S) /\ Cardinality(S) \in Nat
  BY FS_Subset, FS_CardinalityType, Zenon
<1>2. N \subseteq Nat /\ N # {}
  BY <1>1
<1>4. PICK n \in N : \A y \in N : n <= y
  <2> HIDE DEF N
  <2> QED
    BY <1>2, LeastNumber
<1>5. PICK S \in F : n = Cardinality(S)
  OBVIOUS
<1>6. PICK x \in S : TRUE
  BY Zenon
<1>7. IsFiniteSet(S \ {x}) /\ Cardinality(S \ {x}) = Cardinality(S) - 1
  BY <1>1, <1>6, FS_RemoveElement, Zenon
<1>8. S \ {x} \notin F
  <2>1. ASSUME S \ {x} \in F PROVE FALSE
    <3>1. Cardinality(S \ {x}) \in N
      BY <2>1, Zenon
    <3>2. n <= Cardinality(S \ {x}) /\ Cardinality(S) \in Nat
      BY <1>1, <1>4, <3>1, Zenon
    <3> HIDE DEF F, N
    <3> QED
      BY <1>5, <1>7, <3>2
  <2> QED
    BY <2>1
<1>9. CASE S \ {x} = {}
  <2>1. \A y \in S : y = x
    BY <1>9
  <2> QED
    BY <1>6, <2>1
<1>10. CASE S \ {x} # {}
  <2>1. PICK m \in S \ {x} : \A y \in S \ {x} : y <= m
    BY <1>8, <1>10
  <2>2. m \in Nat /\ x \in Nat /\ m \in S
    BY <1>6
  <2>3. CASE x <= m
    BY <2>1, <2>2, <2>3
  <2>4. CASE m <= x
    <3>1. \A y \in S : y <= x
      BY <2>1, <2>2, <2>4
    <3> QED
      BY <1>6, <3>1, Zenon
  <2> QED
    BY <2>2, <2>3, <2>4
<1> QED
  BY <1>9, <1>10

\* The latest window end of the blocking rules is the first time at which none
\* of them blocks.
LEMMA RetryTime ==
  ASSUME IsFiniteSet(Rules), TypeOK
  PROVE  NextAvailableIsExact
<1> SUFFICES ASSUME NEW k \in Keys, ~Allowed(k, now), Recoverable(k, now)
             PROVE  LET t == NextAvailableAt(k, now)
                    IN  t > now /\ Allowed(k, t) /\ ~Allowed(k, t - 1)
  BY Zenon DEF NextAvailableIsExact
<1> DEFINE Ends == {entry[r].state.window.ends : r \in Blocking(k, now)}
           t == NextAvailableAt(k, now)
<1>1. /\ now \in Nat /\ entry \in [Rules -> RuntimeRule]
  BY Zenon DEF TypeOK
<1>2. \A r \in Rules : /\ entry[r].state.window \in Window /\ entry[r].state.window.ends \in Nat
                       /\ entry[r].state.used \in Nat /\ entry[r].def.limit \in Nat
  BY <1>1, WidthAssumption DEF RuntimeRule, State, Window, Definition
<1>3. Blocking(k, now) \subseteq Rules /\ Blocking(k, now) # {}
  BY Zenon DEF Allowed, Blocking, RulesOf
<1>4. IsFiniteSet(Ends)
  <2>1. IsFiniteSet(Blocking(k, now))
    BY <1>3, FS_Subset, Zenon
  <2> DEFINE end == [r \in Blocking(k, now) |-> entry[r].state.window.ends]
  <2>2. end \in Surjection(Blocking(k, now), Ends)
    BY DEF Surjection
  <2> QED
    BY <2>1, <2>2, FS_Surjection, Zenon
<1>5. PICK m \in Ends : \A x \in Ends : x <= m
  <2>1. Ends \in SUBSET Nat /\ Ends # {}
    BY <1>2, <1>3, Zenon
  <2> HIDE DEF Ends
  <2> QED
    BY <1>4, <2>1, FiniteMaximum, Zenon
<1>6. t \in Ends /\ \A r \in Blocking(k, now) : entry[r].state.window.ends <= t
  BY <1>5, Zenon DEF NextAvailableAt
<1>7. PICK r0 \in Blocking(k, now) : t = entry[r0].state.window.ends
  BY <1>6, ZenonT(40)
<1>8. \A r \in Blocking(k, now) : /\ r \in PeriodicRules /\ entry[r].state.window # NoWindow
                                  /\ now < entry[r].state.window.ends
  <2> SUFFICES ASSUME NEW r \in Blocking(k, now)
               PROVE  /\ r \in PeriodicRules /\ entry[r].state.window # NoWindow
                      /\ now < entry[r].state.window.ends
    BY Zenon
  <2>1. r \in PeriodicRules /\ Exhausted(r, now)
    BY Zenon DEF Recoverable, Blocking
  <2>2. entry[r].state.window # NoWindow /\ ~(now >= entry[r].state.window.ends)
    BY <2>1, Zenon DEF Exhausted, periodicInactive
  <2>3. entry[r].state.window.ends \in Nat
    BY <1>2, <1>3, Zenon
  <2> HIDE DEF t
  <2> QED
    BY <1>1, <2>1, <2>2, <2>3
<1> HIDE DEF t
<1>9. t \in Nat /\ t > now
  BY <1>2, <1>3, <1>7, <1>8, Zenon
<1>10. Allowed(k, t)
  <2> SUFFICES ASSUME NEW r \in Blocking(k, t) PROVE FALSE
    BY Zenon DEF Allowed
  <2>1. r \in Rules /\ Exhausted(r, t) /\ r \in RulesOf(k)
    BY Zenon DEF Blocking, RulesOf
  <2>2. Exhausted(r, now)
    <3>1. entry[r].state.window.ends \in Nat
      BY <1>2, <2>1, Zenon
    <3>2. now >= entry[r].state.window.ends => t >= entry[r].state.window.ends
      BY <1>1, <1>9, <3>1
    <3> QED
      BY <2>1, <3>2, Zenon DEF Exhausted, periodicInactive
  <2>3. r \in Blocking(k, now)
    BY <2>1, <2>2, Zenon DEF Blocking
  <2> QED
    BY <1>2, <1>6, <1>8, <1>9, <2>1, <2>3, Zenon DEF Exhausted, periodicInactive
<1>11. ~Allowed(k, t - 1)
  <2>1. r0 \in RulesOf(k) /\ Exhausted(r0, now) /\ r0 \in Rules
    BY <1>3, Zenon DEF Blocking
  <2>2. ~periodicInactive(entry[r0].state, t - 1)
    <3>1. ~(t - 1 >= t)
      BY <1>9
    <3> QED
      BY <1>7, <1>8, <3>1, Zenon DEF periodicInactive
  <2>3. Exhausted(r0, t - 1)
    BY <2>1, <2>2 DEF Exhausted
  <2> QED
    BY <2>1, <2>3, Zenon DEF Allowed, Blocking
<1> QED
  BY <1>9, <1>10, <1>11, Zenon DEF t

\* The time a refused client is told is exact (decisionLocked): the key stays
\* refused until then and is admitted at that instant, unless somebody spends
\* meanwhile, for any finite number of rules of any period.
THEOREM RetryTimeIsTrue ==
  ASSUME IsFiniteSet(Rules)
  PROVE  Spec => []NextAvailableIsExact
<1>1. TypeOK => NextAvailableIsExact
  BY RetryTime
<1> QED
  BY <1>1, TypeCorrect, PTL
=============================================================================
