------------------------ MODULE CredentialManagerProofs ------------------------
(***************************************************************************)
(* Proofs about CredentialManager for every set of accounts and callers    *)
(* and any number of versions, target changes and failing database         *)
(* operations: what may be put back in service, and what may be sent to    *)
(* the provider's token endpoint.                                          *)
(*                                                                         *)
(* The last section is about RuntimeCheckpoint (instance File), for every  *)
(* set of resources and owners and any number of starts and faults: no     *)
(* binding that a client was given is lost between a stop and the next     *)
(* start.                                                                  *)
(***************************************************************************)
EXTENDS CredentialManager, TLAPS

DbRow == [ver : 1 .. MaxVer, auth : AuthStates, tok : 1 .. 2 * MaxVer]
RegRow == [ver : 1 .. MaxVer, auth : AuthStates, tok : 1 .. 2 * MaxVer, cool : BOOLEAN]
ReadRow == [ver : 0 .. MaxVer, auth : AuthStates, tok : 0 .. 2 * MaxVer]
CallType == [kind : Kinds, cred : Creds \cup {Free}, snap : 0 .. MaxVer, gen : 0 .. MaxTarget,
             row : ReadRow, bypass : BOOLEAN, newTok : 0 .. 2 * MaxVer, goal : AuthStates,
             goalVer : Nat, loud : BOOLEAN, entries : [Creds -> DbRow] \cup {<<>>}]
Past == {"begin", "undo", "exchange", "store", "publish", "load", "apply", "settle"}
Places == {"idle", "wait"} \cup Past

\* The types of the variables, the bounds on the tokens included.
Types ==
  /\ db \in [Creds -> DbRow] /\ reg \in [Creds -> RegRow]
  /\ target \in 0 .. MaxTarget
  /\ stripe \in [Creds -> Callers \cup {Free}]
  /\ pending \in BOOLEAN
  /\ issued \in [Creds -> 1 .. 2 * MaxVer] /\ valid \in [Creds -> 0 .. 2 * MaxVer]
  /\ spent \in [Creds -> SUBSET (1 .. 2 * MaxVer)]
  /\ pc \in [Callers -> Places] /\ call \in [Callers -> CallType]
  /\ faults \in 0 .. MaxFaults

\* Whoever is past refreshCredentialLocked's lock holds the stripe.
Working(p) == pc[p] \in Past
Holds(p) ==
  /\ pc[p] # "idle" => call[p].cred \in Creds
  /\ Working(p) => stripe[call[p].cred] = p

\* The provider has issued every token in use, at most two for each version
\* of the row, and only one while the token of the row is the accepted one.
TokenOK(c) ==
  /\ db[c].tok <= issued[c] /\ valid[c] <= issued[c] /\ spent[c] \subseteq 1 .. issued[c]
  /\ issued[c] <= 2 * db[c].ver
  /\ db[c].tok = valid[c] => issued[c] <= 2 * db[c].ver - 1

\* What a call at a place may rely on: its locals k, the row d, the spent
\* tokens sp and the number of issued tokens n of its account, the target t.
LocalOK(at, k, d, sp, n, t) ==
  /\ at = "begin" => /\ d.ver >= k.row.ver /\ (d.ver = k.row.ver => d.tok = k.row.tok)
                     /\ k.row.auth = "ready" => d = k.row
  /\ at = "undo" /\ k.row.auth = "ready" => d.auth \in {"ready", "refreshing"} /\ d.tok \notin sp
  /\ at = "exchange" => /\ d.ver = k.row.ver /\ d.tok = k.row.tok /\ d.auth = "refreshing"
                        /\ k.row.auth = "ready" => k.row.tok \notin sp
  /\ at = "store" => /\ k.newTok \in 1 .. n /\ k.newTok \notin sp
                     /\ k.row.ver < MaxVer /\ d.auth = "refreshing"
  /\ at = "publish" => k.row.ver < MaxVer /\ k.newTok # 0
  /\ at = "apply" => k.entries \in [Creds -> DbRow]
  /\ at = "settle" /\ k.goal = "ready" => d.auth = "refreshing" /\ d.tok \notin sp
  /\ at \in {"begin", "exchange"} /\ k.kind # "recovery" => k.row.auth = "ready"
  /\ at \in {"begin", "exchange", "store", "publish"} => k.gen = t

CallOK(p) == LocalOK(pc[p], call[p], db[call[p].cred], spent[call[p].cred],
                     issued[call[p].cred], target)

\* The inductive invariant.
Inv ==
  /\ Types
  /\ \A p \in Callers : Holds(p) /\ CallOK(p)
  /\ \A c \in Creds : TokenOK(c)
  /\ ReadyIsUnspent

-----------------------------------------------------------------------------
\* A call that has not taken the stripe relies on nothing.
LEMMA QuietIsOK ==
  ASSUME NEW at \in {"idle", "wait"}, NEW k, NEW d, NEW sp, NEW n, NEW t
  PROVE  LocalOK(at, k, d, sp, n, t)
BY DEF LocalOK

\* A call without locals.
LEMMA NoCallType ==
  ASSUME ConstantsAssumption
  PROVE  NoCall \in CallType
BY DEF ConstantsAssumption, NoCall, NoRow, CallType, ReadRow, Kinds, AuthStates

\* The manager starts in the invariant.
LEMMA InitInv ==
  ASSUME ConstantsAssumption
  PROVE  Init => Inv
<1> SUFFICES ASSUME Init PROVE Inv
  OBVIOUS
<1>1. MaxVer \in Nat /\ MaxVer >= 1 /\ MaxTarget \in Nat /\ MaxFaults \in Nat
  BY DEF ConstantsAssumption
<1>2. 1 \in 1 .. MaxVer /\ 1 \in 1 .. 2 * MaxVer /\ 1 \in 0 .. 2 * MaxVer /\ 0 \in 0 .. MaxTarget /\ 0 \in 0 .. MaxFaults
  BY <1>1
<1>3. Types
  BY <1>2, NoCallType, Zenon DEF Init, Types, DbRow, RegRow, AuthStates, Places
<1>4. \A p \in Callers : Holds(p) /\ CallOK(p)
  BY QuietIsOK DEF Init, Holds, Working, Past, CallOK
<1>5. \A c \in Creds : TokenOK(c)
  BY DEF Init, TokenOK
<1>6. ReadyIsUnspent
  BY DEF Init, ReadyIsUnspent
<1> QED
  BY <1>3, <1>4, <1>5, <1>6 DEF Inv

\* A step of caller p that touches the account c only, under its stripe, or
\* that touches no account, leaves what the other calls rely on alone.
LEMMA StepKeepsInv ==
  ASSUME ConstantsAssumption, Inv, Types', NEW p \in Callers, NEW c \in Creds,
         target' = target,
         \A q \in Callers : q # p => pc'[q] = pc[q] /\ call'[q] = call[q],
         \A d \in Creds : d # c => /\ db'[d] = db[d] /\ stripe'[d] = stripe[d] /\ issued'[d] = issued[d]
                                   /\ valid'[d] = valid[d] /\ spent'[d] = spent[d],
         \/ stripe[c] \in {Free, p}
         \/ /\ db'[c] = db[c] /\ stripe'[c] = stripe[c] /\ issued'[c] = issued[c]
            /\ valid'[c] = valid[c] /\ spent'[c] = spent[c],
         TokenOK(c)',
         db'[c].auth = "ready" => db'[c].tok \notin spent'[c],
         pc'[p] # "idle" => call'[p].cred = c,
         Working(p)' => stripe'[c] = p,
         LocalOK(pc'[p], call'[p], db'[c], spent'[c], issued'[c], target)
  PROVE  Inv'
<1>1. \A d \in Creds : TokenOK(d)'
  BY DEF Inv, TokenOK
<1>2. ReadyIsUnspent'
  BY DEF Inv, ReadyIsUnspent
<1>3. Holds(p)' /\ CallOK(p)'
  <2>1. CASE pc'[p] = "idle"
    BY <2>1, QuietIsOK DEF Holds, Working, Past, CallOK
  <2>2. CASE pc'[p] # "idle"
    BY <2>2 DEF Holds, CallOK
  <2> QED
    BY <2>1, <2>2
<1>4. ASSUME NEW q \in Callers, q # p
      PROVE  Holds(q)' /\ CallOK(q)'
  <2>1. pc'[q] = pc[q] /\ call'[q] = call[q] /\ Holds(q) /\ CallOK(q) /\ q # Free
    BY <1>4 DEF Inv, ConstantsAssumption
  <2>2. CASE Working(q)
    <3>1. call[q].cred \in Creds /\ stripe[call[q].cred] = q
      BY <2>1, <2>2 DEF Holds, Working, Past
    <3>2. /\ db'[call[q].cred] = db[call[q].cred] /\ stripe'[call[q].cred] = stripe[call[q].cred]
          /\ issued'[call[q].cred] = issued[call[q].cred] /\ spent'[call[q].cred] = spent[call[q].cred]
      BY <1>4, <2>1, <3>1
    <3> QED
      BY <2>1, <3>1, <3>2 DEF Holds, Working, CallOK
  <2>3. CASE ~Working(q)
    <3>1. pc[q] \in {"idle", "wait"}
      BY <2>3 DEF Inv, Types, Working, Places
    <3> QED
      BY <2>1, <3>1, QuietIsOK DEF Holds, Working, Past, CallOK
  <2> QED
    BY <2>2, <2>3
<1> QED
  BY <1>1, <1>2, <1>3, <1>4 DEF Inv

-----------------------------------------------------------------------------
\* A call goes on to a place with its locals.
LEMMA GotoFacts ==
  ASSUME Types, NEW p \in Callers, NEW label \in Places, NEW k \in CallType, Goto(p, label, k)
  PROVE  /\ pc' \in [Callers -> Places] /\ call' \in [Callers -> CallType] /\ stripe' = stripe
         /\ pc'[p] = label /\ call'[p] = k
         /\ \A q \in Callers : q # p => pc'[q] = pc[q] /\ call'[q] = call[q]
BY DEF Types, Goto

\* A call returns and unlocks its stripe.
LEMMA ReturnFacts ==
  ASSUME ConstantsAssumption, Types, NEW p \in Callers, call[p].cred \in Creds, Return(p)
  PROVE  /\ pc' \in [Callers -> Places] /\ call' \in [Callers -> CallType]
         /\ stripe' \in [Creds -> Callers \cup {Free}]
         /\ pc'[p] = "idle"
         /\ \A q \in Callers : q # p => pc'[q] = pc[q] /\ call'[q] = call[q]
         /\ \A d \in Creds : d # call[p].cred => stripe'[d] = stripe[d]
BY NoCallType DEF Types, Return, Places

\* setAuthState changes one field of one row, or of one entry.
LEMMA AuthFacts ==
  ASSUME Types, NEW c \in Creds, NEW a \in AuthStates
  PROVE  /\ [db EXCEPT ![c].auth = a] \in [Creds -> DbRow]
         /\ [db EXCEPT ![c].auth = a][c].auth = a
         /\ [db EXCEPT ![c].auth = a][c].ver = db[c].ver /\ [db EXCEPT ![c].auth = a][c].tok = db[c].tok
         /\ \A d \in Creds : d # c => [db EXCEPT ![c].auth = a][d] = db[d]
         /\ [reg EXCEPT ![c].auth = a] \in [Creds -> RegRow]
BY Zenon DEF Types, DbRow, RegRow

\* A write of the auth state leaves the rest of the row, and every other row.
LEMMA RowAuthFacts ==
  ASSUME Types, NEW c \in Creds, NEW a \in AuthStates, db' = [db EXCEPT ![c].auth = a]
  PROVE  /\ db' \in [Creds -> DbRow] /\ db'[c].auth = a
         /\ db'[c].ver = db[c].ver /\ db'[c].tok = db[c].tok
         /\ \A d \in Creds : d # c => db'[d] = db[d]
BY DEF Types, DbRow

\* So does a change of the auth state in the registry.
LEMMA EntryAuthFacts ==
  ASSUME Types, NEW c \in Creds, NEW a \in AuthStates, reg' = [reg EXCEPT ![c].auth = a]
  PROVE  reg' \in [Creds -> RegRow]
BY Zenon DEF Types, RegRow

\* SetCooldown and the end of a cooldown.
LEMMA CoolFacts ==
  ASSUME Types, NEW c \in Creds, NEW b \in BOOLEAN
  PROVE  [reg EXCEPT ![c].cool = b] \in [Creds -> RegRow]
BY Zenon DEF Types, RegRow

\* The states that a refresh may put back.
LEMMA RestoreFacts ==
  ASSUME NEW a \in AuthStates
  PROVE  /\ RestoreState(a) \in AuthStates /\ RestoreState(a) # "refreshing"
         /\ RestoreState(a) = "ready" => a = "ready"
BY DEF RestoreState, AuthStates

\* The locals that Settle leaves.
LEMMA SettleFacts ==
  ASSUME Types, NEW p \in Callers, NEW a \in AuthStates, NEW v \in Nat, NEW l \in BOOLEAN,
         Settle(p, a, v, l)
  PROVE  /\ pc' \in [Callers -> Places] /\ call' \in [Callers -> CallType] /\ stripe' = stripe
         /\ pc'[p] = "settle" /\ call'[p].cred = call[p].cred /\ call'[p].goal = a
         /\ \A q \in Callers : q # p => pc'[q] = pc[q] /\ call'[q] = call[q]
<1> DEFINE k == [call[p] EXCEPT !.goal = a, !.goalVer = v, !.loud = l]
<1>1. k \in CallType /\ k.cred = call[p].cred /\ k.goal = a
  <2>1. call[p] \in CallType
    BY DEF Types
  <2> QED
    BY <2>1, Zenon DEF CallType
<1>2. Goto(p, "settle", k) /\ "settle" \in Places
  BY DEF Settle, Places, Past
<1> HIDE DEF k
<1> QED
  BY <1>1, <1>2, GotoFacts

\* A call that works holds the stripe of an account, and its locals are typed.
LEMMA WorkingFacts ==
  ASSUME Inv, NEW p \in Callers, Working(p)
  PROVE  /\ call[p].cred \in Creds /\ stripe[call[p].cred] = p
         /\ call[p] \in CallType /\ call[p].row \in ReadRow /\ call[p].row.auth \in AuthStates
         /\ call[p].goal \in AuthStates /\ CallOK(p) /\ TokenOK(call[p].cred)
         /\ db[call[p].cred] \in DbRow
BY DEF Inv, Types, Holds, Working, Past, CallType, ReadRow

-----------------------------------------------------------------------------
\* A caller takes its snapshot, or finds that it needs no refresh.
LEMMA CaptureStep ==
  ASSUME ConstantsAssumption, Inv, NEW p \in Callers, NEW c \in Creds, NEW kind \in CallKinds, Capture(p, c, kind)
  PROVE  Inv'
<1> DEFINE snap == IF kind \in DataPlane THEN reg[c].ver ELSE db[c].ver
           k == [NoCall EXCEPT !.kind = kind, !.cred = c, !.gen = target, !.snap = snap]
<1>1. snap \in 0 .. MaxVer /\ kind \in Kinds /\ target \in 0 .. MaxTarget
  BY DEF Inv, Types, DbRow, RegRow, ConstantsAssumption
<1>2. k \in CallType /\ k.cred = c
  <2> HIDE DEF snap
  <2> QED
    BY <1>1, NoCallType, Zenon DEF CallType
<1>3. /\ pc' = [pc EXCEPT ![p] = "wait"] /\ call' = [call EXCEPT ![p] = k]
      /\ UNCHANGED <<db, reg, target, stripe, pending, issued, valid, spent, faults>>
  BY DEF Capture, provider
<1> HIDE DEF k
<1>4. Types'
  BY <1>2, <1>3 DEF Inv, Types, Places
<1>5. TokenOK(c)' /\ (db'[c].auth = "ready" => db'[c].tok \notin spent'[c])
  BY <1>3 DEF Inv, TokenOK, ReadyIsUnspent
<1>6. /\ pc'[p] = "wait" /\ call'[p] = k
      /\ \A q \in Callers : q # p => pc'[q] = pc[q] /\ call'[q] = call[q]
  BY <1>3 DEF Inv, Types
<1>7. LocalOK(pc'[p], call'[p], db'[c], spent'[c], issued'[c], target)
  BY <1>6, QuietIsOK
<1> QED
  BY <1>2, <1>3, <1>4, <1>5, <1>6, <1>7, StepKeepsInv DEF Working, Past

\* A caller that finds the token renewed already lets its stripe go.
LEMMA UnneededStep ==
  ASSUME ConstantsAssumption, Inv, NEW p \in Callers, Unneeded(p)
  PROVE  Inv'
<1>1. /\ pc' = [pc EXCEPT ![p] = "idle"] /\ call' = [call EXCEPT ![p] = NoCall] /\ pc[p] = "wait"
      /\ UNCHANGED <<db, reg, target, stripe, pending, issued, valid, spent, faults>>
  BY DEF Unneeded, provider
<1>2. PICK c \in Creds : c = call[p].cred
  BY <1>1 DEF Inv, Holds
<1>3. Types'
  BY <1>1, NoCallType DEF Inv, Types, Places
<1>4. TokenOK(c)' /\ (db'[c].auth = "ready" => db'[c].tok \notin spent'[c])
  BY <1>1 DEF Inv, TokenOK, ReadyIsUnspent
<1>5. /\ pc'[p] = "idle"
      /\ \A q \in Callers : q # p => pc'[q] = pc[q] /\ call'[q] = call[q]
  BY <1>1 DEF Inv, Types
<1>6. LocalOK(pc'[p], call'[p], db'[c], spent'[c], issued'[c], target)
  BY <1>5, QuietIsOK
<1> QED
  BY <1>1, <1>3, <1>4, <1>5, <1>6, StepKeepsInv DEF Working, Past

\* refreshCredentialLocked reads a row that nobody else is writing: what it
\* goes on with is the row itself, and ready unless the call is a recovery.
LEMMA EnterStep ==
  ASSUME ConstantsAssumption, Inv, NEW p \in Callers, Enter(p)
  PROVE  Inv'
<1>1. PICK c \in Creds : c = call[p].cred
  BY DEF Enter, Inv, Holds
<1>2. /\ pc[p] = "wait" /\ stripe[c] = Free /\ Types /\ call[p] \in CallType /\ db[c] \in DbRow
      /\ UNCHANGED <<db, target, pending, issued, valid, spent, faults>>
  BY <1>1 DEF Enter, provider, Inv, Types
<1>3. TokenOK(c)' /\ (db'[c].auth = "ready" => db'[c].tok \notin spent'[c])
  BY <1>2 DEF Inv, TokenOK, ReadyIsUnspent
<1>4. CASE Return(p) /\ (reg' = reg \/ reg' = [reg EXCEPT ![c].auth = "ready"])
  <2>1. /\ pc' \in [Callers -> Places] /\ call' \in [Callers -> CallType]
        /\ stripe' \in [Creds -> Callers \cup {Free}]
        /\ pc'[p] = "idle"
        /\ \A q \in Callers : q # p => pc'[q] = pc[q] /\ call'[q] = call[q]
        /\ \A d \in Creds : d # c => stripe'[d] = stripe[d]
    BY <1>1, <1>2, <1>4, ReturnFacts
  <2>2. reg' \in [Creds -> RegRow]
    <3>1. "ready" \in AuthStates
      BY DEF AuthStates
    <3>2. reg \in [Creds -> RegRow] /\ [reg EXCEPT ![c].auth = "ready"] \in [Creds -> RegRow]
      BY <1>2, <3>1, AuthFacts, Zenon DEF Types
    <3> QED
      BY <1>4, <3>2
  <2>3. Types'
    BY <1>2, <2>1, <2>2 DEF Types
  <2>4. LocalOK(pc'[p], call'[p], db'[c], spent'[c], issued'[c], target)
    BY <2>1, QuietIsOK
  <2> QED
    BY <1>2, <1>3, <2>1, <2>3, <2>4, StepKeepsInv DEF Working, Past
<1>5. CASE /\ pc' = [pc EXCEPT ![p] = "load"] /\ call' = [call EXCEPT ![p].row = db[c]]
           /\ stripe' = [stripe EXCEPT ![c] = p] /\ reg' = reg
  <2> DEFINE k == [call[p] EXCEPT !.row = db[c]]
  <2>1. k \in CallType /\ k.cred = c
    <3>1. db[c] \in ReadRow
      BY <1>2 DEF DbRow, ReadRow, ConstantsAssumption
    <3> QED
      BY <1>1, <1>2, <3>1 DEF CallType
  <2>2. call' = [call EXCEPT ![p] = k]
    BY <1>5
  <2> HIDE DEF k
  <2>3. Types' /\ call'[p] = k /\ pc'[p] = "load" /\ stripe'[c] = p
    BY <1>2, <1>5, <2>1, <2>2, Zenon DEF Types, Places, Past
  <2>4. /\ \A q \in Callers : q # p => pc'[q] = pc[q] /\ call'[q] = call[q]
        /\ \A d \in Creds : d # c => stripe'[d] = stripe[d]
    BY <1>2, <1>5, <2>2 DEF Types
  <2>5. LocalOK(pc'[p], call'[p], db'[c], spent'[c], issued'[c], target)
    BY <2>3, Zenon DEF LocalOK
  <2> QED
    BY <1>2, <1>3, <2>1, <2>3, <2>4, <2>5, StepKeepsInv
<1>6. CASE \E b \in BOOLEAN :
             /\ ~Refused(call[p], db[c])
             /\ pc' = [pc EXCEPT ![p] = "begin"]
             /\ call' = [call EXCEPT ![p] = [call[p] EXCEPT !.row = db[c], !.bypass = b]]
             /\ stripe' = [stripe EXCEPT ![c] = p] /\ reg' = reg
  <2>1. PICK b \in BOOLEAN :
             /\ ~Refused(call[p], db[c])
             /\ pc' = [pc EXCEPT ![p] = "begin"]
             /\ call' = [call EXCEPT ![p] = [call[p] EXCEPT !.row = db[c], !.bypass = b]]
             /\ stripe' = [stripe EXCEPT ![c] = p] /\ reg' = reg
    BY <1>6, Zenon
  <2> DEFINE k == [call[p] EXCEPT !.row = db[c], !.bypass = b]
  <2>2. k \in CallType /\ k.cred = c /\ k.row = db[c] /\ k.kind = call[p].kind /\ k.gen = call[p].gen
    <3>1. db[c] \in ReadRow
      BY <1>2 DEF DbRow, ReadRow, ConstantsAssumption
    <3> QED
      BY <1>1, <1>2, <3>1, Zenon DEF CallType
  <2>3. call' = [call EXCEPT ![p] = k]
    BY <2>1
  <2> HIDE DEF k
  <2>4. Types' /\ call'[p] = k /\ pc'[p] = "begin" /\ stripe'[c] = p
    BY <1>2, <2>1, <2>2, <2>3 DEF Types, Places, Past
  <2>5. /\ \A q \in Callers : q # p => pc'[q] = pc[q] /\ call'[q] = call[q]
        /\ \A d \in Creds : d # c => stripe'[d] = stripe[d]
    BY <1>2, <2>1, <2>3 DEF Types
  <2>6. k.gen = target /\ (k.kind # "recovery" => k.row.auth = "ready")
    BY <2>1, <2>2 DEF Refused
  <2>7. LocalOK("begin", k, db[c], spent'[c], issued'[c], target)
    <3>1. db[c].ver >= k.row.ver
      BY <1>2, <2>2 DEF DbRow
    <3> QED
      BY <2>2, <2>6, <3>1 DEF LocalOK
  <2> QED
    BY <1>2, <1>3, <2>2, <2>4, <2>5, <2>7, StepKeepsInv
<1> QED
  <2>1. \A k \in CallType : (~RespectsCooldown(k.kind) /\ reg[c].cool) \in BOOLEAN
    OBVIOUS
  <2> QED
    BY <1>1, <1>4, <1>5, <1>6, <2>1, Zenon DEF Enter

-----------------------------------------------------------------------------
\* A faulty or faultless database call counts its fault.
LEMMA FaultFacts ==
  ASSUME ConstantsAssumption, Types, NoFault \/ Fault
  PROVE  faults' \in 0 .. MaxFaults
BY DEF ConstantsAssumption, Types, NoFault, Fault, CanFail

\* A working call that returns, and writes at most the auth state of its row:
\* it puts the row back in service only with a token that is not spent.
LEMMA ReturnKeepsInv ==
  ASSUME ConstantsAssumption, Inv, NEW p \in Callers, Working(p), NEW c \in Creds, c = call[p].cred,
         Return(p), UNCHANGED <<target, pending, issued, valid, spent>>,
         faults' \in 0 .. MaxFaults, reg' \in [Creds -> RegRow],
         NEW a \in AuthStates,
         db' = db \/ (db' = [db EXCEPT ![c].auth = a] /\ (a = "ready" => db[c].tok \notin spent[c]))
  PROVE  Inv'
<1>1. stripe[c] = p /\ Types /\ TokenOK(c)
  BY WorkingFacts DEF Inv
<1>2. /\ pc' \in [Callers -> Places] /\ call' \in [Callers -> CallType]
      /\ stripe' \in [Creds -> Callers \cup {Free}]
      /\ pc'[p] = "idle"
      /\ \A q \in Callers : q # p => pc'[q] = pc[q] /\ call'[q] = call[q]
      /\ \A d \in Creds : d # c => stripe'[d] = stripe[d]
  BY <1>1, ReturnFacts, Zenon
<1>3. /\ db' \in [Creds -> DbRow] /\ db'[c].ver = db[c].ver /\ db'[c].tok = db[c].tok
      /\ \A d \in Creds : d # c => db'[d] = db[d]
      /\ db'[c].auth = db[c].auth \/ (db'[c].auth = a /\ (a = "ready" => db[c].tok \notin spent[c]))
  <2>1. CASE db' = db
    BY <1>1, <2>1 DEF Types
  <2>2. CASE db' = [db EXCEPT ![c].auth = a] /\ (a = "ready" => db[c].tok \notin spent[c])
    BY <1>1, <2>2, RowAuthFacts, ZenonT(40)
  <2> QED
    BY <2>1, <2>2
<1>4. Types'
  BY <1>1, <1>2, <1>3 DEF Types
<1>5. TokenOK(c)' /\ (db'[c].auth = "ready" => db'[c].tok \notin spent'[c])
  BY <1>1, <1>3 DEF TokenOK, Inv, ReadyIsUnspent
<1>6. LocalOK(pc'[p], call'[p], db'[c], spent'[c], issued'[c], target)
  BY <1>2, QuietIsOK
<1> QED
  BY <1>1, <1>2, <1>3, <1>4, <1>5, <1>6, StepKeepsInv DEF Working, Past

\* A working call that goes on, still under its stripe, with an account that
\* it has left alone but for the auth state of the row.
LEMMA GoOnKeepsInv ==
  ASSUME ConstantsAssumption, Inv, NEW p \in Callers, Working(p), NEW c \in Creds, c = call[p].cred,
         UNCHANGED <<target, pending, issued, valid, spent, stripe>>,
         faults' \in 0 .. MaxFaults, reg' \in [Creds -> RegRow],
         pc' \in [Callers -> Places], call' \in [Callers -> CallType],
         \A q \in Callers : q # p => pc'[q] = pc[q] /\ call'[q] = call[q],
         call'[p].cred = c,
         db' = db \/ db' = [db EXCEPT ![c].auth = "refreshing"],
         LocalOK(pc'[p], call'[p], db'[c], spent[c], issued[c], target)
  PROVE  Inv'
<1>1. stripe[c] = p /\ Types /\ TokenOK(c) /\ "refreshing" \in AuthStates
  BY WorkingFacts, Zenon DEF Inv, AuthStates
<1>2. /\ db' \in [Creds -> DbRow] /\ db'[c].ver = db[c].ver /\ db'[c].tok = db[c].tok
      /\ \A d \in Creds : d # c => db'[d] = db[d]
      /\ db'[c].auth = db[c].auth \/ db'[c].auth = "refreshing"
  <2>1. CASE db' = db
    BY <1>1, <2>1 DEF Types
  <2>2. CASE db' = [db EXCEPT ![c].auth = "refreshing"]
    BY <1>1, <2>2, AuthFacts, ZenonT(40)
  <2> QED
    BY <2>1, <2>2
<1>3. Types'
  BY <1>1, <1>2 DEF Types
<1>4. TokenOK(c)' /\ (db'[c].auth = "ready" => db'[c].tok \notin spent'[c])
  BY <1>1, <1>2 DEF TokenOK, Inv, ReadyIsUnspent
<1> QED
  BY <1>1, <1>2, <1>3, <1>4, StepKeepsInv

-----------------------------------------------------------------------------
\* transitionAuthState(refreshing), before the exchange.
LEMMA BeginStep ==
  ASSUME ConstantsAssumption, Inv, NEW p \in Callers, Begin(p)
  PROVE  Inv'
<1>1. Working(p) /\ pc[p] = "begin" /\ Types
  BY DEF Begin, Working, Past, Inv
<1>2. PICK c \in Creds : c = call[p].cred
  BY <1>1, WorkingFacts
<1> DEFINE k == call[p]
<1>3. k \in CallType /\ k.cred = c /\ k.row \in ReadRow /\ db[c] \in DbRow
  BY <1>1, <1>2, WorkingFacts
<1>4. /\ db[c].ver >= k.row.ver /\ (db[c].ver = k.row.ver => db[c].tok = k.row.tok)
      /\ k.row.auth = "ready" => db[c] = k.row
      /\ k.kind # "recovery" => k.row.auth = "ready"
      /\ k.gen = target
  BY <1>1, <1>2, WorkingFacts, Zenon DEF CallOK, LocalOK
<1>5. db[c].auth = "ready" => db[c].tok \notin spent[c]
  BY DEF Inv, ReadyIsUnspent
<1>6. faults' \in 0 .. MaxFaults /\ UNCHANGED <<target, pending, issued, valid, spent>>
  BY <1>1, FaultFacts DEF Begin, provider
<1>7. "refreshing" \in AuthStates /\ "exchange" \in Places /\ "undo" \in Places
  BY DEF AuthStates, Places, Past
<1> DEFINE new == [db EXCEPT ![c].auth = "refreshing"]
<1>8. /\ new[c].auth = "refreshing" /\ new[c].ver = db[c].ver /\ new[c].tok = db[c].tok
      /\ [reg EXCEPT ![c].auth = "refreshing"] \in [Creds -> RegRow] /\ reg \in [Creds -> RegRow]
  BY <1>1, <1>7, AuthFacts, Zenon DEF Types
<1>9. CASE Matches(c, k.row.ver) /\ SetAuth(c, "refreshing") /\ Goto(p, "exchange", k)
  <2>1. db' = new /\ reg' \in [Creds -> RegRow] /\ db[c].ver = k.row.ver
    BY <1>8, <1>9 DEF SetAuth, Matches
  <2>2. /\ pc' \in [Callers -> Places] /\ call' \in [Callers -> CallType] /\ stripe' = stripe
        /\ pc'[p] = "exchange" /\ call'[p] = k
        /\ \A q \in Callers : q # p => pc'[q] = pc[q] /\ call'[q] = call[q]
    BY <1>1, <1>3, <1>7, <1>9, GotoFacts
  <2>3. LocalOK("exchange", k, db'[c], spent[c], issued[c], target)
    <3> HIDE DEF k, new
    <3> QED
      BY <1>4, <1>5, <1>8, <2>1 DEF LocalOK
  <2> HIDE DEF k
  <2> QED
    BY <1>1, <1>2, <1>3, <1>6, <2>1, <2>2, <2>3, GoOnKeepsInv, Zenon
<1>10. CASE Goto(p, "undo", k) /\ reg' = reg /\ (db' = db \/ db' = new)
  <2>2. /\ pc' \in [Callers -> Places] /\ call' \in [Callers -> CallType] /\ stripe' = stripe
        /\ pc'[p] = "undo" /\ call'[p] = k
        /\ \A q \in Callers : q # p => pc'[q] = pc[q] /\ call'[q] = call[q]
    BY <1>1, <1>3, <1>7, <1>10, GotoFacts
  <2>3. LocalOK("undo", k, db'[c], spent[c], issued[c], target)
    <3> HIDE DEF k, new
    <3> QED
      BY <1>4, <1>5, <1>8, <1>10 DEF LocalOK
  <2> HIDE DEF k
  <2> QED
    BY <1>1, <1>2, <1>3, <1>6, <1>8, <1>10, <2>2, <2>3, GoOnKeepsInv
<1> QED
  BY <1>2, <1>9, <1>10 DEF Begin

\* The state read before the refresh is put back.
LEMMA UndoStep ==
  ASSUME ConstantsAssumption, Inv, NEW p \in Callers, Undo(p)
  PROVE  Inv'
<1>1. Working(p) /\ pc[p] = "undo" /\ Types
  BY DEF Undo, Working, Past, Inv
<1>2. PICK c \in Creds : c = call[p].cred
  BY <1>1, WorkingFacts
<1>3. PICK a \in AuthStates : a = RestoreState(call[p].row.auth) /\ (a = "ready" => call[p].row.auth = "ready")
  BY <1>1, WorkingFacts, RestoreFacts
<1>4. a = "ready" => db[c].tok \notin spent[c]
  BY <1>1, <1>2, <1>3, WorkingFacts DEF CallOK, LocalOK
<1>5. faults' \in 0 .. MaxFaults /\ UNCHANGED <<target, pending, issued, valid, spent>> /\ Return(p)
  BY <1>1, FaultFacts DEF Undo, provider
<1>6. db' = db \/ db' = [db EXCEPT ![c].auth = a]
  BY <1>2, <1>3 DEF Undo, SetAuth
<1>7. reg' \in [Creds -> RegRow]
  <2>1. "outcome_unknown" \in AuthStates
    BY DEF AuthStates
  <2>2. reg' = [reg EXCEPT ![c].auth = a] \/ reg' = [reg EXCEPT ![c].auth = "outcome_unknown"]
    BY <1>2, <1>3 DEF Undo, SetAuth
  <2> QED
    BY <1>1, <2>1, <2>2, EntryAuthFacts
<1> QED
  BY <1>1, <1>2, <1>4, <1>5, <1>6, <1>7, ReturnKeepsInv

\* transitionAuthState at the end of a refresh without a new token.
LEMMA FinishStep ==
  ASSUME ConstantsAssumption, Inv, NEW p \in Callers, Finish(p)
  PROVE  Inv'
<1>1. Working(p) /\ pc[p] = "settle" /\ Types
  BY DEF Finish, Working, Past, Inv
<1>2. PICK c \in Creds : c = call[p].cred
  BY <1>1, WorkingFacts
<1>3. PICK a \in AuthStates : a = call[p].goal
  BY <1>1, WorkingFacts
<1>4. a = "ready" => db[c].tok \notin spent[c]
  BY <1>1, <1>2, <1>3, WorkingFacts, Zenon DEF CallOK, LocalOK
<1>5. faults' \in 0 .. MaxFaults /\ UNCHANGED <<target, pending, issued, valid, spent>> /\ Return(p)
  BY <1>1, FaultFacts DEF Finish, provider
<1>6. db' = db \/ db' = [db EXCEPT ![c].auth = a]
  BY <1>2, <1>3 DEF Finish, SetAuth
<1>7. reg' \in [Creds -> RegRow]
  <2>1. "outcome_unknown" \in AuthStates /\ reg \in [Creds -> RegRow]
    BY <1>1 DEF AuthStates, Types
  <2>2. reg' = reg \/ reg' = [reg EXCEPT ![c].auth = a] \/ reg' = [reg EXCEPT ![c].auth = "outcome_unknown"]
    BY <1>2, <1>3 DEF Finish, SetAuth
  <2> QED
    BY <1>1, <2>1, <2>2, EntryAuthFacts
<1> QED
  BY <1>1, <1>2, <1>4, <1>5, <1>6, <1>7, ReturnKeepsInv

-----------------------------------------------------------------------------
\* The account of a call after the exchange: the provider has redeemed the
\* token of the row and issued the next one, or may have, or has not.
Redeemed(c, tok) ==
  /\ spent' = [spent EXCEPT ![c] = @ \cup {tok}]
  /\ \/ tok = valid[c] /\ issued' = [issued EXCEPT ![c] = @ + 1] /\ valid' = [valid EXCEPT ![c] = issued[c] + 1]
     \/ UNCHANGED <<issued, valid>>

\* What the exchange leaves of the provider's tokens.
LEMMA RedeemFacts ==
  ASSUME ConstantsAssumption, Types, NEW c \in Creds, TokenOK(c), Redeemed(c, db[c].tok), db' = db
  PROVE  /\ issued' \in [Creds -> 1 .. 2 * MaxVer] /\ valid' \in [Creds -> 0 .. 2 * MaxVer]
         /\ spent' \in [Creds -> SUBSET (1 .. 2 * MaxVer)]
         /\ TokenOK(c)'
         /\ \A d \in Creds : d # c => issued'[d] = issued[d] /\ valid'[d] = valid[d] /\ spent'[d] = spent[d]
<1>1. /\ MaxVer \in Nat /\ db[c].ver \in 1 .. MaxVer /\ db[c].tok \in 1 .. 2 * MaxVer
      /\ issued[c] \in 1 .. 2 * MaxVer /\ valid[c] \in 0 .. 2 * MaxVer /\ spent[c] \subseteq 1 .. 2 * MaxVer
  BY DEF ConstantsAssumption, Types, DbRow
<1>2. spent' \in [Creds -> SUBSET (1 .. 2 * MaxVer)] /\ spent'[c] = spent[c] \cup {db[c].tok}
      /\ \A d \in Creds : d # c => spent'[d] = spent[d]
  BY <1>1 DEF Types, Redeemed
<1>3. CASE /\ db[c].tok = valid[c] /\ issued' = [issued EXCEPT ![c] = @ + 1]
           /\ valid' = [valid EXCEPT ![c] = issued[c] + 1]
  <2>1. issued[c] + 1 <= 2 * db[c].ver /\ issued[c] + 1 \in 1 .. 2 * MaxVer /\ issued[c] + 1 \in 0 .. 2 * MaxVer
    BY <1>1, <1>3 DEF TokenOK
  <2>2. /\ issued' \in [Creds -> 1 .. 2 * MaxVer] /\ valid' \in [Creds -> 0 .. 2 * MaxVer]
        /\ issued'[c] = issued[c] + 1 /\ valid'[c] = issued[c] + 1
        /\ \A d \in Creds : d # c => issued'[d] = issued[d] /\ valid'[d] = valid[d]
    BY <1>3, <2>1, Zenon DEF Types
  <2>3. TokenOK(c)'
    BY <1>1, <1>2, <2>1, <2>2 DEF TokenOK
  <2> QED
    BY <1>2, <2>2, <2>3
<1>4. CASE UNCHANGED <<issued, valid>>
  <2>1. TokenOK(c)'
    BY <1>1, <1>2, <1>4 DEF TokenOK
  <2> QED
    BY <1>2, <1>4, <2>1, Zenon DEF Types
<1> QED
  BY <1>3, <1>4 DEF Redeemed

\* An exchange that leads to another place with other locals.
LEMMA ExchangeKeepsInv ==
  ASSUME ConstantsAssumption, Inv, NEW p \in Callers, pc[p] = "exchange", NEW c \in Creds, c = call[p].cred,
         UNCHANGED <<db, target, pending, faults, stripe>>,
         reg' \in [Creds -> RegRow],
         Redeemed(c, db[c].tok) \/ UNCHANGED <<issued, valid, spent>>,
         pc' \in [Callers -> Places], call' \in [Callers -> CallType],
         \A q \in Callers : q # p => pc'[q] = pc[q] /\ call'[q] = call[q],
         call'[p].cred = c,
         LocalOK(pc'[p], call'[p], db[c], spent'[c], issued'[c], target)
  PROVE  Inv'
<1>1. Working(p) /\ Types /\ stripe[c] = p /\ TokenOK(c) /\ db[c].auth = "refreshing"
  <2>1. Working(p) /\ Types
    BY Zenon DEF Working, Past, Inv
  <2>2. stripe[c] = p /\ TokenOK(c) /\ CallOK(p)
    BY <2>1, WorkingFacts, Zenon
  <2> QED
    BY <2>1, <2>2 DEF CallOK, LocalOK
<1>2. /\ issued' \in [Creds -> 1 .. 2 * MaxVer] /\ valid' \in [Creds -> 0 .. 2 * MaxVer]
      /\ spent' \in [Creds -> SUBSET (1 .. 2 * MaxVer)]
      /\ TokenOK(c)'
      /\ \A d \in Creds : d # c => issued'[d] = issued[d] /\ valid'[d] = valid[d] /\ spent'[d] = spent[d]
  <2>1. CASE Redeemed(c, db[c].tok)
    BY <1>1, <2>1, RedeemFacts, Zenon
  <2>2. CASE UNCHANGED <<issued, valid, spent>>
    BY <1>1, <2>2 DEF Types, TokenOK
  <2> QED
    BY <2>1, <2>2, Zenon
<1>3. Types'
  BY <1>1, <1>2 DEF Types
<1> QED
  BY <1>1, <1>2, <1>3, StepKeepsInv, ZenonT(40)

\* The exchange with the provider: a new token is stored only when it is one,
\* and only an explicit retryable rejection puts the earlier state back.
LEMMA ExchangeStep ==
  ASSUME ConstantsAssumption, Inv, NEW p \in Callers, Exchange(p)
  PROVE  Inv'
<1>1. Working(p) /\ pc[p] = "exchange" /\ Types
  BY Zenon DEF Exchange, Working, Past, Inv
<1>2. PICK c \in Creds : c = call[p].cred
  BY <1>1, WorkingFacts
<1>3. /\ call[p] \in CallType /\ call[p].row \in ReadRow /\ db[c] \in DbRow /\ TokenOK(c)
      /\ call[p].row.ver \in Nat
  <2>1. call[p] \in CallType /\ call[p].row \in ReadRow /\ db[c] \in DbRow /\ TokenOK(c)
    BY <1>1, <1>2, WorkingFacts, Zenon
  <2> QED
    BY <2>1 DEF ReadRow, ConstantsAssumption
<1>4. /\ db[c].ver = call[p].row.ver /\ db[c].tok = call[p].row.tok /\ db[c].auth = "refreshing"
      /\ call[p].row.auth = "ready" => db[c].tok \notin spent[c]
      /\ call[p].gen = target
  BY <1>1, <1>2, WorkingFacts DEF CallOK, LocalOK
<1>5. /\ UNCHANGED <<db, target, pending, faults>> /\ reg \in [Creds -> RegRow]
      /\ [reg EXCEPT ![c].cool = TRUE] \in [Creds -> RegRow]
  BY <1>1, CoolFacts, Zenon DEF Exchange, Types
<1>6. PICK before \in AuthStates : /\ before = RestoreState(call[p].row.auth)
                                   /\ before = "ready" => call[p].row.auth = "ready"
  BY <1>1, WorkingFacts, RestoreFacts
<1>7. ASSUME NEW a \in AuthStates, Settle(p, a, call[p].row.ver, TRUE) \/ Settle(p, a, call[p].row.ver, FALSE),
             reg' \in [Creds -> RegRow],
             \/ Redeemed(c, db[c].tok) /\ a # "ready"
             \/ UNCHANGED <<issued, valid, spent>> /\ (a = "ready" => db[c].tok \notin spent[c])
      PROVE  Inv'
  <2>1. /\ pc' \in [Callers -> Places] /\ call' \in [Callers -> CallType] /\ stripe' = stripe
        /\ pc'[p] = "settle" /\ call'[p].cred = call[p].cred /\ call'[p].goal = a
        /\ \A q \in Callers : q # p => pc'[q] = pc[q] /\ call'[q] = call[q]
    BY <1>1, <1>3, <1>7, SettleFacts, Zenon
  <2>2. LocalOK(pc'[p], call'[p], db[c], spent'[c], issued'[c], target)
    BY <1>4, <1>7, <2>1 DEF LocalOK
  <2> QED
    BY <1>1, <1>2, <1>5, <1>7, <2>1, <2>2, ExchangeKeepsInv
<1>8. CASE /\ call[p].row.tok = valid[c] /\ call[p].row.ver < MaxVer /\ Redeem(c, call[p].row.tok)
           /\ Goto(p, "store", [call[p] EXCEPT !.newTok = issued[c] + 1])
           /\ UNCHANGED reg
  <2>1. Redeemed(c, db[c].tok)
    BY <1>4, <1>8, Zenon DEF Redeemed, Redeem
  <2>2. /\ issued[c] \in 1 .. 2 * MaxVer /\ db[c].ver \in 1 .. MaxVer /\ db[c].tok \in 1 .. 2 * MaxVer
        /\ MaxVer \in Nat /\ db[c].tok <= issued[c] /\ spent[c] \subseteq 1 .. issued[c]
    BY <1>1, <1>3 DEF Types, DbRow, TokenOK, ConstantsAssumption
  <2>2a. issued[c] + 1 <= 2 * db[c].ver
    BY <1>3, <1>4, <1>8, <2>2 DEF TokenOK
  <2>3. issued[c] + 1 \in 0 .. 2 * MaxVer
    BY <2>2, <2>2a
  <2>4. issued'[c] = issued[c] + 1 /\ spent'[c] = spent[c] \cup {db[c].tok}
    BY <1>1, <1>4, <1>8 DEF Redeem, Types
  <2> DEFINE k == [call[p] EXCEPT !.newTok = issued[c] + 1]
  <2>5. /\ k \in CallType /\ k.cred = c /\ k.newTok = issued[c] + 1 /\ k.row = call[p].row /\ k.gen = call[p].gen
    BY <1>2, <1>3, <2>3, Zenon DEF CallType
  <2>6. Goto(p, "store", k) /\ "store" \in Places
    BY <1>8 DEF Places, Past
  <2> HIDE DEF k
  <2>7. /\ pc' \in [Callers -> Places] /\ call' \in [Callers -> CallType] /\ stripe' = stripe
        /\ pc'[p] = "store" /\ call'[p] = k
        /\ \A q \in Callers : q # p => pc'[q] = pc[q] /\ call'[q] = call[q]
    BY <1>1, <2>5, <2>6, GotoFacts, Zenon
  <2>8. k.newTok \in 1 .. issued'[c] /\ k.newTok \notin spent'[c]
    BY <2>2, <2>4, <2>5
  <2>9. LocalOK("store", k, db[c], spent'[c], issued'[c], target)
    BY <1>4, <1>8, <2>5, <2>8 DEF LocalOK
  <2> QED
    BY <1>1, <1>2, <1>5, <1>8, <2>1, <2>5, <2>7, <2>9, ExchangeKeepsInv
<1>9. CASE /\ call[p].row.tok = valid[c] /\ Redeem(c, call[p].row.tok) /\ UNCHANGED reg
           /\ \/ Settle(p, "reauthorization_required", call[p].row.ver, TRUE)
              \/ Settle(p, "outcome_unknown", call[p].row.ver, FALSE)
  <2>1. Redeemed(c, db[c].tok)
    BY <1>4, <1>9 DEF Redeemed, Redeem
  <2>2. "reauthorization_required" \in AuthStates /\ "outcome_unknown" \in AuthStates
    BY DEF AuthStates
  <2> QED
    BY <1>5, <1>7, <1>9, <2>1, <2>2, Zenon
<1>10. CASE /\ reg' = [reg EXCEPT ![c].cool = TRUE]
            /\ Settle(p, before, call[p].row.ver, TRUE)
            /\ UNCHANGED <<issued, valid, spent>>
  BY <1>4, <1>5, <1>6, <1>7, <1>10, Zenon
<1>11. CASE /\ Settle(p, "reauthorization_required", call[p].row.ver, TRUE)
            /\ UNCHANGED <<issued, valid, spent, reg>>
  <2>1. "reauthorization_required" \in AuthStates
    BY DEF AuthStates
  <2> QED
    BY <1>5, <1>7, <1>11, <2>1, Zenon
<1>12. CASE /\ \/ call[p].row.tok = valid[c] /\ Redeem(c, call[p].row.tok)
               \/ spent' = [spent EXCEPT ![c] = @ \cup {call[p].row.tok}] /\ UNCHANGED <<issued, valid>>
            /\ Settle(p, IF before # "ready" THEN before ELSE "outcome_unknown", call[p].row.ver, TRUE)
            /\ UNCHANGED reg
  <2>1. Redeemed(c, db[c].tok)
    BY <1>4, <1>12 DEF Redeemed, Redeem
  <2>2. PICK a \in AuthStates : a = (IF before # "ready" THEN before ELSE "outcome_unknown") /\ a # "ready"
    BY <1>6 DEF AuthStates
  <2> QED
    BY <1>5, <1>7, <1>12, <2>1, <2>2, Zenon
<1> QED
  BY <1>2, <1>6, <1>8, <1>9, <1>10, <1>11, <1>12, Zenon DEF Exchange, provider

\* The new token is stored over the version that was refreshed, or the call
\* gives up.
LEMMA StoreStep ==
  ASSUME ConstantsAssumption, Inv, NEW p \in Callers, Store(p)
  PROVE  Inv'
<1>1. Working(p) /\ pc[p] = "store" /\ Types
  BY Zenon DEF Store, Working, Past, Inv
<1>2. PICK c \in Creds : c = call[p].cred
  BY <1>1, WorkingFacts
<1>3. /\ call[p] \in CallType /\ call[p].row \in ReadRow /\ db[c] \in DbRow /\ TokenOK(c) /\ stripe[c] = p
      /\ call[p].row.ver \in Nat /\ MaxVer \in Nat
  <2>1. call[p] \in CallType /\ call[p].row \in ReadRow /\ db[c] \in DbRow /\ TokenOK(c) /\ stripe[c] = p
    BY <1>1, <1>2, WorkingFacts, Zenon
  <2> QED
    BY <2>1 DEF ReadRow, ConstantsAssumption
<1>4. /\ call[p].newTok \in 1 .. issued[c] /\ call[p].newTok \notin spent[c]
      /\ call[p].row.ver < MaxVer /\ call[p].gen = target
  BY <1>1, <1>2, WorkingFacts DEF CallOK, LocalOK
<1>5. /\ faults' \in 0 .. MaxFaults /\ UNCHANGED <<reg, target, pending, issued, valid, spent>>
      /\ reg' \in [Creds -> RegRow]
  BY <1>1, FaultFacts, ZenonT(40) DEF Store, provider, Types
<1> DEFINE row == [ver |-> call[p].row.ver + 1, auth |-> "ready", tok |-> call[p].newTok]
           stored == [db EXCEPT ![c] = row]
<1>6. row \in DbRow /\ row.ver = call[p].row.ver + 1 /\ row.tok = call[p].newTok /\ row.auth = "ready"
  <2>1. issued[c] \in 1 .. 2 * MaxVer
    BY <1>1 DEF Types
  <2> QED
    BY <1>3, <1>4, <2>1 DEF DbRow, AuthStates
<1>7. /\ stored \in [Creds -> DbRow] /\ stored[c] = row
      /\ \A d \in Creds : d # c => stored[d] = db[d]
  <2> HIDE DEF row
  <2> QED
    BY <1>1, <1>6, Zenon DEF Types
<1>8. ASSUME db' = db \/ (db' = stored /\ Matches(c, call[p].row.ver))
      PROVE  /\ db' \in [Creds -> DbRow] /\ TokenOK(c)' /\ (db'[c].auth = "ready" => db'[c].tok \notin spent'[c])
             /\ \A d \in Creds : d # c => db'[d] = db[d]
  <2>1. CASE db' = db
    BY <1>1, <1>3, <1>5, <2>1, Zenon DEF Types, TokenOK, Inv, ReadyIsUnspent
  <2>2. CASE db' = stored /\ Matches(c, call[p].row.ver)
    <3>1. db'[c] = row /\ db[c].ver = call[p].row.ver
      BY <1>7, <2>2 DEF Matches
    <3> HIDE DEF row, stored
    <3>2. issued[c] \in 1 .. 2 * MaxVer /\ valid[c] \in 0 .. 2 * MaxVer
      BY <1>1, Zenon DEF Types
    <3>3. TokenOK(c)'
      BY <1>3, <1>4, <1>5, <1>6, <3>1, <3>2 DEF TokenOK
    <3> QED
      BY <1>4, <1>5, <1>6, <1>7, <2>2, <3>1, <3>3, Zenon
  <2> QED
    BY <1>8, <2>1, <2>2, Zenon
<1> HIDE DEF row, stored
<1>9. CASE /\ Matches(c, call[p].row.ver) /\ db' = stored /\ Goto(p, "publish", call[p])
  <2>1. "publish" \in Places
    BY Zenon DEF Places, Past
  <2>2. /\ pc' \in [Callers -> Places] /\ call' \in [Callers -> CallType] /\ stripe' = stripe
        /\ pc'[p] = "publish" /\ call'[p] = call[p]
        /\ \A q \in Callers : q # p => pc'[q] = pc[q] /\ call'[q] = call[q]
    BY <1>1, <1>3, <1>9, <2>1, GotoFacts, Zenon
  <2>3. LocalOK("publish", call[p], db'[c], spent'[c], issued'[c], target)
    BY <1>4 DEF LocalOK
  <2>4. Types'
    BY <1>1, <1>5, <1>8, <1>9, <2>2, Zenon DEF Types
  <2> QED
    BY <1>2, <1>3, <1>5, <1>8, <1>9, <2>2, <2>3, <2>4, StepKeepsInv
<1>10. CASE /\ db' = db \/ (db' = stored /\ Matches(c, call[p].row.ver))
            /\ Settle(p, "outcome_unknown", call[p].row.ver, FALSE)
  <2>1. "outcome_unknown" \in AuthStates
    BY DEF AuthStates
  <2>2. /\ pc' \in [Callers -> Places] /\ call' \in [Callers -> CallType] /\ stripe' = stripe
        /\ pc'[p] = "settle" /\ call'[p].cred = call[p].cred /\ call'[p].goal = "outcome_unknown"
        /\ \A q \in Callers : q # p => pc'[q] = pc[q] /\ call'[q] = call[q]
    BY <1>1, <1>3, <1>10, <2>1, SettleFacts, Zenon
  <2>3. LocalOK(pc'[p], call'[p], db'[c], spent'[c], issued'[c], target)
    BY <2>2, Zenon DEF LocalOK
  <2>4. Types'
    BY <1>1, <1>5, <1>8, <1>10, <2>2 DEF Types
  <2> QED
    BY <1>2, <1>3, <1>5, <1>8, <1>10, <2>2, <2>3, <2>4, StepKeepsInv
<1> QED
  BY <1>2, <1>9, <1>10, Zenon DEF Store, stored, row

\* The cooldown that an operator's refresh went around.
LEMMA ClearFacts ==
  ASSUME NEW r \in [Creds -> RegRow], NEW k \in CallType, k.cred \in Creds
  PROVE  ClearCooldown(r, k) \in [Creds -> RegRow]
<1>1. (r[k.cred].cool /\ ~k.bypass) \in BOOLEAN
  OBVIOUS
<1> QED
  BY <1>1, Zenon DEF ClearCooldown, RegRow

\* A group that is reconciled from rows keeps its types.
LEMMA ReconcileFacts ==
  ASSUME Types, NEW rows \in [Creds -> DbRow]
  PROVE  ReconcileGroup(rows) \in [Creds -> RegRow]
<1>1. \A c \in Creds : /\ reg[c] \in RegRow
                       /\ [ver |-> rows[c].ver, auth |-> rows[c].auth, tok |-> rows[c].tok, cool |-> FALSE] \in RegRow
  BY DEF Types, DbRow, RegRow
<1> QED
  BY <1>1 DEF ReconcileGroup

\* The new token is published, or the group is to be reconciled.
LEMMA PublishStep ==
  ASSUME ConstantsAssumption, Inv, NEW p \in Callers, Publish(p)
  PROVE  Inv'
<1>1. Working(p) /\ pc[p] = "publish" /\ Types
  BY DEF Publish, Working, Past, Inv
<1>2. PICK c \in Creds : c = call[p].cred
  BY <1>1, WorkingFacts
<1>3. call[p] \in CallType /\ call[p].row \in ReadRow
  BY <1>1, WorkingFacts, Zenon
<1>4. call[p].row.ver < MaxVer /\ call[p].newTok # 0
  BY <1>1, WorkingFacts DEF CallOK, LocalOK
<1>5. UNCHANGED <<db, target, pending, issued, valid, spent, faults>> /\ faults' \in 0 .. MaxFaults
  BY <1>1 DEF Publish, provider, Types
<1> DEFINE new == [ver |-> call[p].row.ver + 1, auth |-> "ready", tok |-> call[p].newTok, cool |-> reg[c].cool]
<1>6. CASE reg' = ClearCooldown([reg EXCEPT ![c] = new], call[p]) /\ Return(p)
  <2>1. new \in RegRow
    <3>1. call[p].row.ver + 1 \in 1 .. MaxVer /\ call[p].newTok \in 1 .. 2 * MaxVer
      BY <1>3, <1>4 DEF CallType, ReadRow, ConstantsAssumption
    <3>2. reg[c] \in RegRow
      BY <1>1 DEF Types
    <3> QED
      BY <3>1, <3>2, Zenon DEF RegRow, AuthStates
  <2> HIDE DEF new
  <2>2. [reg EXCEPT ![c] = new] \in [Creds -> RegRow]
    BY <1>1, <2>1 DEF Types
  <2>3. reg' \in [Creds -> RegRow]
    BY <1>2, <1>3, <1>6, <2>2, ClearFacts, Zenon
  <2>4. "ready" \in AuthStates
    BY DEF AuthStates
  <2> QED
    BY <1>1, <1>2, <1>5, <1>6, <2>3, <2>4, ReturnKeepsInv, Zenon
<1>7. CASE Goto(p, "load", call[p]) /\ reg' = reg
  <2>1. "load" \in Places /\ reg' \in [Creds -> RegRow]
    BY <1>1, <1>7, Zenon DEF Places, Past, Types
  <2>2. /\ pc' \in [Callers -> Places] /\ call' \in [Callers -> CallType] /\ stripe' = stripe
        /\ pc'[p] = "load" /\ call'[p] = call[p]
        /\ \A q \in Callers : q # p => pc'[q] = pc[q] /\ call'[q] = call[q]
    BY <1>1, <1>3, <1>7, <2>1, GotoFacts, Zenon
  <2>3. LocalOK(pc'[p], call'[p], db'[c], spent[c], issued[c], target)
    BY <2>2 DEF LocalOK
  <2> QED
    BY <1>1, <1>2, <1>5, <2>1, <2>2, <2>3, GoOnKeepsInv
<1> QED
  BY <1>2, <1>6, <1>7 DEF Publish

\* The rows of the group are read.
LEMMA LoadStep ==
  ASSUME ConstantsAssumption, Inv, NEW p \in Callers, Load(p)
  PROVE  Inv'
<1>1. Working(p) /\ pc[p] = "load" /\ Types
  BY Zenon DEF Load, Working, Past, Inv
<1>2. PICK c \in Creds : c = call[p].cred
  BY <1>1, WorkingFacts
<1>3. call[p] \in CallType /\ call[p].row \in ReadRow
  BY <1>1, WorkingFacts
<1>4. /\ UNCHANGED <<db, reg, target, pending, issued, valid, spent>> /\ faults' \in 0 .. MaxFaults
      /\ db' = db /\ reg' \in [Creds -> RegRow]
  BY <1>1, FaultFacts, Zenon DEF Load, provider, Types
<1>5. CASE Goto(p, "apply", [call[p] EXCEPT !.entries = db])
  <2> DEFINE k == [call[p] EXCEPT !.entries = db]
  <2>1. k \in CallType /\ k.cred = c /\ k.entries = db /\ db \in [Creds -> DbRow]
    <3>1. db \in [Creds -> DbRow]
      BY <1>1 DEF Types
    <3> QED
      BY <1>2, <1>3, <3>1 DEF CallType
  <2>2. "apply" \in Places /\ Goto(p, "apply", k)
    BY <1>5 DEF Places, Past
  <2> HIDE DEF k
  <2>3. /\ pc' \in [Callers -> Places] /\ call' \in [Callers -> CallType] /\ stripe' = stripe
        /\ pc'[p] = "apply" /\ call'[p] = k
        /\ \A q \in Callers : q # p => pc'[q] = pc[q] /\ call'[q] = call[q]
    BY <1>1, <2>1, <2>2, GotoFacts, Zenon
  <2>4. LocalOK(pc'[p], call'[p], db'[c], spent[c], issued[c], target)
    BY <2>1, <2>3 DEF LocalOK
  <2> QED
    BY <1>1, <1>2, <1>4, <2>1, <2>3, <2>4, GoOnKeepsInv
<1>6. CASE Settle(p, "outcome_unknown", call[p].row.ver + 1, TRUE)
  <2>1. "outcome_unknown" \in AuthStates /\ call[p].row.ver + 1 \in Nat
    BY <1>3 DEF AuthStates, ReadRow
  <2>2. /\ pc' \in [Callers -> Places] /\ call' \in [Callers -> CallType] /\ stripe' = stripe
        /\ pc'[p] = "settle" /\ call'[p].cred = call[p].cred /\ call'[p].goal = "outcome_unknown"
        /\ \A q \in Callers : q # p => pc'[q] = pc[q] /\ call'[q] = call[q]
    BY <1>1, <1>6, <2>1, SettleFacts, Zenon
  <2>3. LocalOK(pc'[p], call'[p], db'[c], spent[c], issued[c], target)
    BY <2>2 DEF LocalOK
  <2> QED
    BY <1>1, <1>2, <1>4, <2>2, <2>3, GoOnKeepsInv
<1>7. CASE Return(p)
  <2>1. "ready" \in AuthStates
    BY DEF AuthStates
  <2> QED
    BY <1>1, <1>2, <1>4, <1>7, <2>1, ReturnKeepsInv
<1> QED
  BY <1>5, <1>6, <1>7, Zenon DEF Load

\* The group is reconciled with the rows that were read.
LEMMA ApplyStep ==
  ASSUME ConstantsAssumption, Inv, NEW p \in Callers, Apply(p)
  PROVE  Inv'
<1>1. Working(p) /\ pc[p] = "apply" /\ Types
  BY Zenon DEF Apply, Working, Past, Inv
<1>2. PICK c \in Creds : c = call[p].cred
  BY <1>1, WorkingFacts
<1>3. call[p] \in CallType
  BY <1>1, WorkingFacts, Zenon
<1>4. call[p].entries \in [Creds -> DbRow]
  BY <1>1, WorkingFacts DEF CallOK, LocalOK
<1>5. UNCHANGED <<db, target, pending, issued, valid, spent>> /\ faults' \in 0 .. MaxFaults /\ Return(p)
  BY <1>1, Zenon DEF Apply, provider, Types
<1>6. reg' \in [Creds -> RegRow]
  <2>1. ReconcileGroup(call[p].entries) \in [Creds -> RegRow]
    BY <1>1, <1>4, ReconcileFacts
  <2> QED
    BY <1>2, <1>3, <2>1, ClearFacts, Zenon DEF Apply
<1>7. "ready" \in AuthStates
  BY DEF AuthStates
<1> QED
  BY <1>1, <1>2, <1>5, <1>6, <1>7, ReturnKeepsInv

-----------------------------------------------------------------------------
\* Whatever only writes registry entries leaves what the calls rely on alone.
LEMMA RegistryOnly ==
  ASSUME Inv, reg' \in [Creds -> RegRow], pending' \in BOOLEAN,
         UNCHANGED <<db, target, stripe, issued, valid, spent, pc, call, faults>>
  PROVE  Inv'
<1>1. Types'
  BY Zenon DEF Inv, Types
<1>2. \A p \in Callers : Holds(p)' /\ CallOK(p)'
  BY Zenon DEF Inv, Holds, Working, CallOK
<1>3. (\A c \in Creds : TokenOK(c)') /\ ReadyIsUnspent'
  BY DEF Inv, TokenOK, ReadyIsUnspent
<1> QED
  BY <1>1, <1>2, <1>3 DEF Inv

\* The registry entries that are built from the rows.
LEMMA RebuiltFacts ==
  ASSUME Types, NEW au \in [Creds -> AuthStates]
  PROVE  [c \in Creds |-> [ver |-> db[c].ver, auth |-> au[c], tok |-> db[c].tok, cool |-> FALSE]] \in [Creds -> RegRow]
<1>1. \A c \in Creds : [ver |-> db[c].ver, auth |-> au[c], tok |-> db[c].tok, cool |-> FALSE] \in RegRow
  BY DEF Types, DbRow, RegRow
<1> QED
  BY <1>1

\* A reconnection takes no stripe; what a working call relies on tells it
\* that its account is not one that may be reconnected.
LEMMA ConnectStep ==
  ASSUME ConstantsAssumption, Inv, NEW c \in Creds, Connect(c)
  PROVE  Inv'
<1>1. /\ Types /\ TokenOK(c) /\ MaxVer \in Nat /\ db[c].ver \in 1 .. MaxVer /\ db[c].ver < MaxVer
      /\ issued[c] \in 1 .. 2 * MaxVer /\ valid[c] \in 0 .. 2 * MaxVer /\ db[c].tok \in 1 .. 2 * MaxVer
  BY Zenon DEF Inv, Types, DbRow, ConstantsAssumption, Connect
<1> DEFINE row == [ver |-> db[c].ver + 1, auth |-> "ready", tok |-> issued[c] + 1]
<1>2. issued[c] + 1 \in 1 .. 2 * MaxVer /\ issued[c] + 1 <= 2 * (db[c].ver + 1) - 1
  BY <1>1 DEF TokenOK
<1>3. row \in DbRow /\ row.ver = db[c].ver + 1 /\ row.tok = issued[c] + 1 /\ row.auth = "ready"
  BY <1>1, <1>2 DEF DbRow, AuthStates
<1>4. /\ db' = [db EXCEPT ![c] = row] /\ issued' = [issued EXCEPT ![c] = issued[c] + 1]
      /\ valid' = [valid EXCEPT ![c] = issued[c] + 1] /\ pending' = TRUE
      /\ UNCHANGED <<reg, target, stripe, spent, pc, call, faults>>
      /\ db[c].auth \in {"reauthorization_required", "outcome_unknown"}
  BY DEF Connect
<1> HIDE DEF row
<1>5. /\ db'[c] = row /\ issued'[c] = issued[c] + 1 /\ valid'[c] = issued[c] + 1
      /\ \A d \in Creds : d # c => db'[d] = db[d] /\ issued'[d] = issued[d] /\ valid'[d] = valid[d]
  BY <1>1, <1>4 DEF Types
<1>6. Types'
  <2>1. issued[c] + 1 \in 0 .. 2 * MaxVer
    BY <1>1, <1>2
  <2> QED
    BY <1>1, <1>2, <1>3, <1>4, <2>1 DEF Types
<1>7. TokenOK(c)' /\ db'[c].tok \notin spent'[c]
  <2>1. spent[c] \subseteq 1 .. issued[c]
    BY <1>1, Zenon DEF TokenOK
  <2> QED
    BY <1>1, <1>2, <1>3, <1>4, <1>5, <2>1 DEF TokenOK
<1>8. (\A d \in Creds : TokenOK(d)') /\ ReadyIsUnspent'
  BY <1>4, <1>5, <1>7 DEF Inv, TokenOK, ReadyIsUnspent
<1>9. ASSUME NEW p \in Callers
      PROVE  Holds(p)' /\ CallOK(p)'
  <2>1. pc'[p] = pc[p] /\ call'[p] = call[p] /\ Holds(p)' /\ CallOK(p)
    BY <1>4, Zenon DEF Inv, Holds, Working
  <2>2. CASE ~Working(p)
    <3>1. pc'[p] \in {"idle", "wait"}
      BY <1>1, <2>1, <2>2, Zenon DEF Types, Places, Working
    <3> QED
      BY <2>1, <3>1, QuietIsOK, Zenon DEF CallOK
  <2>3. CASE Working(p) /\ call[p].cred # c
    <3>1. call[p].cred \in Creds
      BY <2>3, WorkingFacts, Zenon
    <3> QED
      BY <1>4, <1>5, <2>1, <2>3, <3>1, Zenon DEF CallOK
  <2>4. CASE Working(p) /\ call[p].cred = c
    <3>1. LocalOK(pc[p], call[p], db[c], spent[c], issued[c], target)
      BY <2>1, <2>4, Zenon DEF CallOK
    <3>2. call[p].row \in ReadRow
      BY <2>4, WorkingFacts, Zenon
    <3>3. row.ver > db[c].ver /\ row.ver \in Nat /\ call[p].row.ver \in Nat
      <4>1. call[p].row.ver \in Nat
        BY <3>2 DEF ReadRow
      <4> QED
        BY <1>1, <1>3, <4>1
    <3>4. /\ pc[p] \notin {"exchange", "store"}
          /\ pc[p] = "begin" => call[p].row.auth # "ready" /\ row.ver > call[p].row.ver
          /\ pc[p] = "undo" => call[p].row.auth # "ready"
          /\ pc[p] = "settle" => call[p].goal # "ready"
      <4>1. /\ pc[p] \notin {"exchange", "store"}
            /\ pc[p] = "begin" => call[p].row.auth # "ready" /\ db[c].ver >= call[p].row.ver
            /\ pc[p] = "undo" => call[p].row.auth # "ready"
            /\ pc[p] = "settle" => call[p].goal # "ready"
        BY <1>4, <3>1, Zenon DEF LocalOK
      <4>2. db[c].ver >= call[p].row.ver => row.ver > call[p].row.ver
        BY <1>1, <3>3
      <4> QED
        BY <4>1, <4>2, Zenon
    <3>5. LocalOK(pc[p], call[p], row, spent[c], issued'[c], target)
      BY <3>1, <3>3, <3>4 DEF LocalOK
    <3> QED
      BY <1>4, <1>5, <2>1, <2>4, <3>5, ZenonT(40) DEF CallOK
  <2> QED
    BY <2>2, <2>3, <2>4, Zenon
<1> QED
  BY <1>6, <1>8, <1>9, Zenon DEF Inv

\* The target changes under all the stripes: nobody is at work.
LEMMA ChangeTargetStep ==
  ASSUME ConstantsAssumption, Inv, ChangeTarget
  PROVE  Inv'
<1>1. Types /\ target' = target + 1 /\ target < MaxTarget /\ (\A c \in Creds : stripe[c] = Free)
      /\ UNCHANGED <<db, stripe, pending, issued, valid, spent, pc, call, faults>>
  BY DEF Inv, ChangeTarget, provider
<1>2. reg' \in [Creds -> RegRow]
  <2>1. [c \in Creds |-> db[c].auth] \in [Creds -> AuthStates]
    BY <1>1, Zenon DEF Types, DbRow
  <2> DEFINE au == [c \in Creds |-> db[c].auth]
  <2>2. reg' = [c \in Creds |-> [ver |-> db[c].ver, auth |-> au[c], tok |-> db[c].tok, cool |-> FALSE]]
    BY DEF ChangeTarget
  <2> HIDE DEF au
  <2> QED
    BY <1>1, <2>1, <2>2, RebuiltFacts, Zenon DEF au
<1>3. Types'
  <2>1. target' \in 0 .. MaxTarget
    BY <1>1 DEF Types, ConstantsAssumption
  <2> QED
    BY <1>1, <1>2, <2>1 DEF Types
<1>4. ASSUME NEW p \in Callers
      PROVE  Holds(p)' /\ CallOK(p)'
  <2>1. ~Working(p) /\ pc[p] \in {"idle", "wait"}
    <3>1. Working(p) => call[p].cred \in Creds /\ stripe[call[p].cred] = p
      BY WorkingFacts
    <3>2. ~Working(p)
      BY <1>1, <3>1 DEF ConstantsAssumption
    <3> QED
      BY <1>1, <3>2, Zenon DEF Types, Places, Working
  <2>2. pc'[p] = pc[p] /\ Holds(p)'
    BY <1>1, Zenon DEF Inv, Holds, Working
  <2> QED
    BY <2>1, <2>2, QuietIsOK DEF CallOK
<1>5. (\A c \in Creds : TokenOK(c)') /\ ReadyIsUnspent'
  BY <1>1 DEF Inv, TokenOK, ReadyIsUnspent
<1> QED
  BY <1>3, <1>4, <1>5, ZenonT(40) DEF Inv

\* A crash and the next start: an interrupted refresh is an unknown outcome.
LEMMA RestartStep ==
  ASSUME ConstantsAssumption, Inv, Restart
  PROVE  Inv'
<1>1. /\ Types /\ db' = Interrupted /\ UNCHANGED <<target, issued, valid, spent, faults>>
      /\ stripe' = [c \in Creds |-> Free] /\ pending' = FALSE
      /\ pc' = [p \in Callers |-> "idle"] /\ call' = [p \in Callers |-> NoCall]
  BY DEF Inv, Restart, provider
<1>2. ASSUME NEW c \in Creds
      PROVE  /\ Interrupted[c] \in DbRow /\ Interrupted[c].ver = db[c].ver /\ Interrupted[c].tok = db[c].tok
             /\ Interrupted[c].auth \in AuthStates /\ (Interrupted[c].auth = "ready" => db[c].auth = "ready")
  <2>1. db[c] \in DbRow /\ db[c].auth \in AuthStates
    BY <1>1 DEF Types, DbRow
  <2>2. PICK a \in AuthStates : a = RestoreState(db[c].auth) /\ (a = "ready" => db[c].auth = "ready")
    BY <2>1, RestoreFacts
  <2>3. Interrupted[c] = [db[c] EXCEPT !.auth = a]
    BY <2>2 DEF Interrupted
  <2> QED
    BY <2>1, <2>2, <2>3 DEF DbRow
<1>3. db' \in [Creds -> DbRow]
  BY <1>1, <1>2 DEF Interrupted
<1>4. reg' \in [Creds -> RegRow]
  <2> DEFINE au == [c \in Creds |-> Interrupted[c].auth]
  <2>1. au \in [Creds -> AuthStates]
    BY <1>2, Zenon
  <2>2. reg' = [c \in Creds |-> [ver |-> db[c].ver, auth |-> au[c], tok |-> db[c].tok, cool |-> FALSE]]
    BY DEF Restart
  <2> HIDE DEF au
  <2> QED
    BY <1>1, <2>1, <2>2, RebuiltFacts
<1>5. Types'
  BY <1>1, <1>3, <1>4, NoCallType, Zenon DEF Types, Places
<1>6. \A p \in Callers : Holds(p)' /\ CallOK(p)'
  <2>1. \A p \in Callers : pc'[p] = "idle"
    BY <1>1, Zenon
  <2> QED
    BY <2>1, QuietIsOK DEF Holds, Working, Past, CallOK
<1>7. (\A c \in Creds : TokenOK(c)') /\ ReadyIsUnspent'
  BY <1>1, <1>2 DEF Inv, TokenOK, ReadyIsUnspent
<1> QED
  BY <1>5, <1>6, <1>7, Zenon DEF Inv

\* Every step keeps the invariant.
LEMMA NextInv ==
  ASSUME ConstantsAssumption, Inv, [Next]_vars
  PROVE  Inv'
<1>0. Types /\ pending \in BOOLEAN
  BY DEF Inv, Types
<1>1. ASSUME NEW p \in Callers, NEW c \in Creds, NEW kind \in CallKinds, Capture(p, c, kind)
      PROVE  Inv'
  BY <1>1, CaptureStep
<1>2. ASSUME NEW p \in Callers, Unneeded(p) \/ Step(p)
      PROVE  Inv'
  BY <1>2, UnneededStep, EnterStep, BeginStep, UndoStep, ExchangeStep, FinishStep, StoreStep,
     PublishStep, LoadStep, ApplyStep DEF Step
<1>3. ASSUME NEW c \in Creds, Connect(c)
      PROVE  Inv'
  BY <1>3, ConnectStep
<1>4. ASSUME NEW c \in Creds, SetCooldown(c) \/ CooldownPasses(c)
      PROVE  Inv'
  <2>1. \E b \in BOOLEAN : reg' = [reg EXCEPT ![c].cool = b]
    BY <1>4, Zenon DEF SetCooldown, CooldownPasses
  <2>2. reg' \in [Creds -> RegRow]
    BY <1>0, <2>1, CoolFacts
  <2>3. UNCHANGED <<db, target, stripe, issued, valid, spent, pc, call, faults>> /\ pending' = pending
    BY <1>4 DEF SetCooldown, CooldownPasses, provider
  <2> QED
    BY <1>0, <2>2, <2>3, RegistryOnly
<1>5. ASSUME ConnectApply
      PROVE  Inv'
  <2>1. reg' \in [Creds -> RegRow]
    <3>1. db \in [Creds -> DbRow]
      BY <1>0 DEF Types
    <3> QED
      BY <1>0, <1>5, <3>1, ReconcileFacts DEF ConnectApply
  <2>2. UNCHANGED <<db, target, stripe, issued, valid, spent, pc, call, faults>> /\ pending' = FALSE
    BY <1>5 DEF ConnectApply, provider
  <2> QED
    BY <2>1, <2>2, RegistryOnly, Zenon
<1>6. CASE UNCHANGED vars
  <2>1. reg' \in [Creds -> RegRow] /\ pending' \in BOOLEAN
    BY <1>0, <1>6 DEF vars, Types
  <2> QED
    BY <1>6, <2>1, RegistryOnly DEF vars
<1> QED
  BY <1>1, <1>2, <1>3, <1>4, <1>5, <1>6, ChangeTargetStep, RestartStep DEF Next

-----------------------------------------------------------------------------
\* The inductive invariant holds in every reachable state of the manager.
THEOREM Invariance ==
  ASSUME ConstantsAssumption
  PROVE  Spec => []Inv
BY InitInv, NextInv, PTL DEF Spec

\* Rows, entries, stripes, tokens and calls keep their types: in particular
\* at most two tokens are issued for a version of a row.
THEOREM TypeCorrect ==
  ASSUME ConstantsAssumption
  PROVE  Spec => []TypeOK
<1>1. Inv => TypeOK
  BY Zenon DEF Inv, Types, TypeOK, DbRow, RegRow, Places, Past, CallType
<1> QED
  BY <1>1, Invariance, PTL

\* transitionAuthState, EnsureInitialState and consumeCredentialStages put a
\* row in service only with a token that the provider cannot have redeemed.
THEOREM ReadyIsFresh ==
  ASSUME ConstantsAssumption
  PROVE  Spec => []ReadyIsUnspent
<1>1. Inv => ReadyIsUnspent
  BY Zenon DEF Inv
<1> QED
  BY <1>1, Invariance, PTL

\* Prepare and PrepareForControl never present a token again that an earlier
\* exchange may have redeemed.
THEOREM NoReplay ==
  ASSUME ConstantsAssumption
  PROVE  Spec => []NoAutomaticReplay
<1>1. Inv => NoAutomaticReplay
  <2> SUFFICES ASSUME Inv, NEW p \in Callers, pc[p] = "exchange", call[p].kind # "recovery"
               PROVE  call[p].row.tok \notin spent[call[p].cred]
    BY DEF NoAutomaticReplay
  <2>1. CallOK(p)
    BY Zenon DEF Inv
  <2> QED
    BY <2>1 DEF CallOK, LocalOK
<1> QED
  BY <1>1, Invariance, PTL

\* A refresh is sent to the target whose identity generation its caller saw.
THEOREM TargetIsSeen ==
  ASSUME ConstantsAssumption
  PROVE  Spec => []SameTarget
<1>1. Inv => SameTarget
  <2> SUFFICES ASSUME Inv, NEW p \in Callers, pc[p] \in {"exchange", "store", "publish"}
               PROVE  call[p].gen = target
    BY DEF SameTarget
  <2>1. CallOK(p)
    BY DEF Inv
  <2> QED
    BY <2>1 DEF CallOK, LocalOK
<1> QED
  BY <1>1, Invariance, PTL

-----------------------------------------------------------------------------
(* RuntimeCheckpoint *)

CONSTANTS Natives, Responses, Owners, MaxStarts, MaxMisses, MayFail
VARIABLES file, staged, table, memory, phase, doc, todo, failed, restored, recording,
          starts, misses, owed

File == INSTANCE RuntimeCheckpoint WITH pc <- phase, rows <- table, pending <- staged,
                                          faults <- misses, MaxFaults <- MaxMisses

NativeBindings == Natives \X Owners

\* A checkpoint that is missing or damaged gives nothing.
EmptyUnlessOk == file.state # "ok" => file.has = {}

RestartInv == File!TypeOK /\ EmptyUnlessOk /\ File!ImportCovers /\ File!OwnershipSurvives

\* A binding is kept when the checkpoint or the pending file holds it, or the
\* table knows an owner of its resource.
Kept(b) == b \in File!Native(file.has) \/ b \in staged \/ table[b[1]] # File!NoOwner

\* What a missing, a damaged and a saved checkpoint say.
LEMMA FileFacts ==
  /\ File!NoFile.state = "none" /\ File!NoFile.has = {}
  /\ File!Corrupt.state = "corrupt" /\ File!Corrupt.has = {}
  /\ File!NoFile \in [state : {"none", "ok", "corrupt"}, has : SUBSET File!Bindings]
  /\ File!Corrupt \in [state : {"none", "ok", "corrupt"}, has : SUBSET File!Bindings]
  /\ \A B : File!Saved(B).state = "ok" /\ File!Saved(B).has = B
  /\ \A B \in SUBSET File!Bindings :
       File!Saved(B) \in [state : {"none", "ok", "corrupt"}, has : SUBSET File!Bindings]
BY DEF File!NoFile, File!Corrupt, File!Saved

USE FileFacts DEF File!import

\* Native bindings are pairs of a resource and its owner.
LEMMA NativePairs ==
  ASSUME NEW B \in SUBSET File!Bindings
  PROVE  File!Native(B) \subseteq NativeBindings
BY DEF File!Native, File!Bindings, NativeBindings

\* What is durable, or given to another owner, is what is kept.
LEMMA DurableIsKept ==
  ASSUME File!ConstantsAssumption, NEW f, NEW p, NEW r \in [Natives -> Owners \cup {File!NoOwner}],
         NEW b \in NativeBindings
  PROVE  (b \in File!Durable(f, p, r) \/ r[b[1]] \notin {File!NoOwner, b[2]})
           <=> (b \in File!Native(f.has) \/ b \in p \/ r[b[1]] # File!NoOwner)
<1>1. PICK k \in Natives, o \in Owners : b = <<k, o>>
  BY DEF NativeBindings
<1>2. o # File!NoOwner /\ b[1] = k /\ b[2] = o
  BY <1>1 DEF File!ConstantsAssumption
<1>3. b \in {<<n, r[n]>> : n \in {m \in Natives : r[m] # File!NoOwner}} <=> r[k] = o
  BY <1>1, <1>2
<1> QED
  BY <1>2, <1>3 DEF File!Durable

\* What OwnershipSurvives says of one binding.
LEMMA SurvivesIsKept ==
  ASSUME File!ConstantsAssumption, File!TypeOK
  PROVE  File!OwnershipSurvives <=> \A b \in owed : Kept(b)
BY DurableIsKept DEF File!OwnershipSurvives, Kept, File!Conflict, File!TypeOK, NativeBindings

\* The process starts in the invariant.
LEMMA RestartInitInv == ASSUME File!ConstantsAssumption PROVE File!Init => RestartInv
<1> SUFFICES ASSUME File!Init PROVE RestartInv
  BY Zenon
<1>1. file \in [state : {"none", "ok", "corrupt"}, has : SUBSET File!Bindings] /\ EmptyUnlessOk
  BY DEF File!Init, File!Bindings, File!Saved, EmptyUnlessOk
<1>2. owed \subseteq NativeBindings
  BY <1>1, NativePairs DEF File!Init
<1>3. File!TypeOK
  BY <1>1, <1>2 DEF File!Init, File!TypeOK, File!ConstantsAssumption, NativeBindings
<1>4. File!OwnershipSurvives
  BY <1>3, SurvivesIsKept DEF File!Init, Kept
<1>5. File!ImportCovers
  BY DEF File!Init, File!ImportCovers
<1> QED
  BY <1>1, <1>3, <1>4, <1>5 DEF RestartInv

\* Every step keeps the types, whatever fails.
LEMMA TypeStep ==
  ASSUME File!ConstantsAssumption, File!TypeOK, [File!Next]_(File!vars)
  PROVE  File!TypeOK'
<1> USE DEF File!TypeOK, File!ConstantsAssumption
<1>1. CASE File!Boot
  BY <1>1 DEF File!Boot
<1>2. CASE File!StartFails \/ File!Stop
  <2>1. owed' \subseteq Natives \X Owners
    BY <1>2, NativePairs, Zenon DEF File!StartFails, File!Stop, File!Save, File!Owe, NativeBindings
  <2>2. /\ file' \in [state : {"none", "ok", "corrupt"}, has : SUBSET File!Bindings]
        /\ UNCHANGED <<staged, table, starts, misses>>
        /\ phase' = "down" /\ memory' = {} /\ recording' = {}
        /\ doc' = {} /\ todo' = {} /\ failed' = {} /\ restored' = {}
    BY <1>2, ZenonT(40) DEF File!StartFails, File!Stop, File!Save, File!Halt
  <2> QED
    BY <2>1, <2>2, Zenon
<1>3. CASE File!Restore
  <2>1. File!Staged \subseteq Natives \X Owners
    BY NativePairs, Zenon DEF File!Staged, NativeBindings
  <2> QED
    BY <1>3, <2>1 DEF File!Restore, File!GiveUp
<1>4. CASE File!Consume
  BY <1>4, Zenon DEF File!Consume, File!GiveUp
<1>5. CASE File!ImportTimeout
  BY <1>5 DEF File!ImportTimeout, File!Fault
<1>6. CASE File!ImportDone
  <2>1. File!Restoring \subseteq File!Bindings
    BY ZenonT(40) DEF File!Restoring, File!Bindings
  <2> QED
    BY <1>6, <2>1, Zenon DEF File!ImportDone, File!LeftPending
<1>7. CASE \E b \in File!Bindings :
              \/ File!ImportClaim(b) \/ File!Claim(b) \/ File!Remember(b)
              \/ File!Load(b) \/ File!Record(b)
  <2>1. PICK b \in File!Bindings :
              \/ File!ImportClaim(b) \/ File!Claim(b) \/ File!Remember(b)
              \/ File!Load(b) \/ File!Record(b)
    BY <1>7
  <2>2. b[2] \in Owners /\ b \in (Natives \cup Responses) \X Owners
    BY Zenon DEF File!Bindings
  <2>3. CASE File!ImportClaim(b)
    BY <2>2, <2>3 DEF File!ImportClaim, File!Claimed, File!Fault
  <2>4. CASE File!Claim(b)
    <3>1. b \in Natives \X Owners
      BY <2>2, <2>4, Zenon DEF File!Claim
    <3> QED
      BY <2>2, <2>4, <3>1 DEF File!Claim, File!Claimed, File!Fault, File!Owe
  <2>5. CASE File!Remember(b) \/ File!Load(b) \/ File!Record(b)
    BY <2>5, ZenonT(40) DEF File!Remember, File!Load, File!Record
  <2> QED
    BY <2>1, <2>3, <2>4, <2>5
<1>8. CASE File!CrashInSave \/ File!Crash
  BY <1>8 DEF File!CrashInSave, File!Crash, File!Halt
<1>9. CASE UNCHANGED File!vars
  BY <1>9, Zenon DEF File!vars
<1> QED
  BY <1>1, <1>2, <1>3, <1>4, <1>5, <1>6, <1>7, <1>8, <1>9, Zenon DEF File!Next

\* The first owner keeps a resource: no step takes a row away.
LEMMA RowsStay ==
  ASSUME File!ConstantsAssumption, File!TypeOK, [File!Next]_(File!vars)
  PROVE  \A k \in Natives : table[k] # File!NoOwner => table'[k] = table[k]
<1>1. CASE \E b \in File!Bindings : File!ImportClaim(b) \/ File!Claim(b)
  BY <1>1 DEF File!ImportClaim, File!Claim, File!Claimed, File!Conflict, File!TypeOK
<1>2. CASE UNCHANGED table
  BY <1>2
<1> QED
  BY <1>1, <1>2, Zenon
     DEF File!Next, File!vars, File!Boot, File!StartFails, File!Restore, File!Consume,
         File!ImportTimeout, File!ImportDone, File!Remember, File!Load, File!Record,
         File!Stop, File!CrashInSave, File!Crash

\* A damaged or missing checkpoint stays empty.
LEMMA EmptyStep ==
  ASSUME EmptyUnlessOk, [File!Next]_(File!vars)
  PROVE  EmptyUnlessOk'
<1>1. CASE File!StartFails \/ File!Stop
  BY <1>1, ZenonT(40) DEF EmptyUnlessOk, File!StartFails, File!Stop, File!Save
<1>2. CASE File!Restore \/ File!Consume
  BY <1>2 DEF EmptyUnlessOk, File!Restore, File!Consume
<1>3. CASE File!CrashInSave
  BY <1>3 DEF EmptyUnlessOk, File!CrashInSave
<1>4. CASE UNCHANGED file
  BY <1>4 DEF EmptyUnlessOk
<1> QED
  BY <1>1, <1>2, <1>3, <1>4, Zenon
     DEF File!Next, File!vars, File!Boot, File!ImportTimeout, File!ImportDone,
         File!ImportClaim, File!Claim, File!Remember, File!Load, File!Record, File!Crash

\* The locals of the import keep covering what is staged.
LEMMA CoversStep ==
  ASSUME File!ConstantsAssumption, MayFail = {}, RestartInv, [File!Next]_(File!vars)
  PROVE  File!ImportCovers'
<1>1. File!TypeOK /\ File!TypeOK' /\ EmptyUnlessOk /\ File!ImportCovers
  BY TypeStep, Zenon DEF RestartInv
<1>2. CASE File!Boot \/ File!StartFails \/ File!Stop \/ File!CrashInSave \/ File!Crash
  BY <1>2, Zenon
     DEF File!ImportCovers, File!Boot, File!StartFails, File!Stop, File!CrashInSave,
         File!Crash, File!Halt
<1>3. CASE File!Restore
  <2>1. File!Native(file.has) \subseteq File!Staged
    BY Zenon DEF File!Staged
  <2> QED
    BY <1>1, <1>3, <2>1 DEF File!ImportCovers, EmptyUnlessOk, File!Restore, File!GiveUp
<1>4. CASE File!Consume
  BY <1>1, <1>4, Zenon DEF File!ImportCovers, File!Consume
<1>5. CASE File!ImportTimeout \/ File!ImportDone
  BY <1>1, <1>5, ZenonT(40) DEF File!ImportCovers, File!ImportTimeout, File!ImportDone, File!Conflict
<1>6. CASE \E b \in File!Bindings : File!ImportClaim(b)
  <2>1. PICK b \in File!Bindings : File!ImportClaim(b)
    BY <1>6
  <2>2. /\ UNCHANGED <<file, staged, phase>> /\ todo' = todo \ {b}
        /\ failed \subseteq failed' /\ phase = "import"
    BY <2>1, Zenon DEF File!ImportClaim
  <2>3. b \in NativeBindings
    BY <1>1, <2>1, Zenon DEF File!TypeOK, File!ImportClaim, NativeBindings
  <2>4. b \in failed' \/ table'[b[1]] = b[2] \/ File!Conflict(b)'
    BY <1>1, <2>1, <2>3, ZenonT(40)
       DEF File!ImportClaim, File!Claimed, File!Conflict, File!TypeOK, NativeBindings
  <2>5. ASSUME NEW a \in staged, a # b
        PROVE  a \in todo' \cup failed' \/ table'[a[1]] = a[2] \/ File!Conflict(a)'
    <3>1. a[1] \in Natives /\ a[2] \in Owners /\ a[2] # File!NoOwner
      BY <1>1 DEF File!TypeOK, File!ConstantsAssumption
    <3>2. a \in todo \cup failed \/ table[a[1]] # File!NoOwner
      BY <1>1, <2>2, <3>1, Zenon DEF File!ImportCovers, File!Conflict
    <3>3. table[a[1]] # File!NoOwner => table'[a[1]] = table[a[1]]
      BY <1>1, <3>1, RowsStay, Zenon
    <3> QED
      BY <2>2, <2>5, <3>2, <3>3, Zenon DEF File!Conflict
  <2> QED
    BY <1>1, <2>2, <2>4, <2>5 DEF File!ImportCovers
<1>7. CASE \E b \in File!Bindings :
              \/ File!Claim(b) \/ File!Remember(b) \/ File!Load(b)
              \/ File!Record(b)
  BY <1>1, <1>7, ZenonT(40) DEF File!ImportCovers, File!Claim, File!Remember, File!Load, File!Record
<1>8. CASE UNCHANGED File!vars
  BY <1>1, <1>8, ZenonT(40) DEF File!vars, File!ImportCovers, File!Conflict
<1> QED
  BY <1>2, <1>3, <1>4, <1>5, <1>6, <1>7, <1>8 DEF File!Next

\* No step loses a binding that was kept: the checkpoint is consumed after
\* its bindings are staged, the pending file is rewritten after they are
\* claimed, and a stop writes over a checkpoint that is empty.
LEMMA KeptStays ==
  ASSUME File!ConstantsAssumption, MayFail = {}, RestartInv, [File!Next]_(File!vars), NEW b \in owed
  PROVE  Kept(b)'
<1>1. File!TypeOK /\ EmptyUnlessOk /\ File!ImportCovers /\ Kept(b)
  BY SurvivesIsKept DEF RestartInv
<1>2. b[1] \in Natives /\ b[2] \in Owners /\ b[2] # File!NoOwner
  BY <1>1 DEF File!TypeOK, File!ConstantsAssumption
<1>3. table[b[1]] # File!NoOwner => Kept(b)'
  BY <1>1, <1>2, RowsStay, Zenon DEF Kept
<1>4. CASE File!Stop \/ File!CrashInSave
  <2>1. File!Native(file.has) = {} /\ staged' = staged
    BY <1>1, <1>4, Zenon DEF File!ImportCovers, File!Stop, File!CrashInSave, File!Native
  <2> QED
    BY <1>1, <1>3, <2>1, Zenon DEF Kept
<1>5. CASE File!Restore
  <2>1. b \in File!Native(file.has) => file.state = "ok"
    BY <1>1 DEF EmptyUnlessOk, File!Native
  <2>2. staged \subseteq staged'
    BY <1>5 DEF File!Restore, File!Staged
  <2>3. file.state = "ok" => file' = file
    BY <1>5, Zenon DEF File!Restore
  <2> QED
    BY <1>1, <1>3, <2>1, <2>2, <2>3, Zenon DEF Kept
<1>6. CASE File!Consume
  <2>1. File!Native(file.has) \subseteq staged /\ staged' = staged
    BY <1>1, <1>6, Zenon DEF File!ImportCovers, File!Consume
  <2> QED
    BY <1>1, <1>3, <2>1, Zenon DEF Kept
<1>7. CASE File!ImportDone
  <2>1. File!Native(file.has) = {} /\ staged' = failed
    BY <1>1, <1>7, Zenon DEF File!ImportCovers, File!ImportDone, File!LeftPending, File!Native
  <2>2. b \in staged => b \in failed \/ table[b[1]] # File!NoOwner
    BY <1>1, <1>2, <1>7, Zenon DEF File!ImportCovers, File!ImportDone, File!Conflict
  <2> QED
    BY <1>1, <1>3, <2>1, <2>2, Zenon DEF Kept
<1>8. CASE UNCHANGED <<file, staged>>
  BY <1>1, <1>3, <1>8, Zenon DEF Kept
<1> QED
  BY <1>4, <1>5, <1>6, <1>7, <1>8, Zenon
  DEF File!Next, File!vars, File!Boot, File!StartFails, File!ImportTimeout,
      File!ImportClaim, File!Claim, File!Remember, File!Load, File!Record, File!Crash

\* Whatever becomes durable in a step is kept after it.
LEMMA NewIsKept ==
  ASSUME File!ConstantsAssumption, MayFail = {}, RestartInv, [File!Next]_(File!vars),
         NEW b \in owed', b \notin owed
  PROVE  Kept(b)'
<1>1. CASE File!Stop
  <2>1. file' = File!Saved(memory) /\ owed' = owed \cup File!Native(memory)
    BY <1>1, Zenon DEF File!Stop, File!Save, File!Owe
  <2> QED
    BY <2>1, Zenon DEF Kept
<1>2. CASE \E a \in File!Bindings : File!Claim(a)
  <2>1. PICK a \in File!Bindings : File!Claim(a)
    BY <1>2, Zenon
  <2>2. b = a /\ a[1] \in Natives /\ a[2] \in Owners /\ table' = File!Claimed(a)
    BY <2>1 DEF File!Claim, File!Owe, File!Bindings
  <2> QED
    BY <2>2 DEF Kept, File!Claimed, File!ConstantsAssumption, RestartInv, File!TypeOK
<1>3. CASE owed' = owed
  BY <1>3
<1> QED
  BY <1>1, <1>2, <1>3, Zenon
  DEF File!Next, File!vars, File!Boot, File!StartFails, File!Restore, File!Consume,
      File!ImportTimeout, File!ImportDone, File!ImportClaim, File!Remember, File!Load,
      File!Record, File!CrashInSave, File!Crash

\* Every step keeps the invariant when no stage and no file operation fails.
LEMMA RestartNextInv ==
  ASSUME File!ConstantsAssumption, MayFail = {}, RestartInv, [File!Next]_(File!vars)
  PROVE  RestartInv'
<1>1. File!TypeOK' /\ EmptyUnlessOk' /\ File!ImportCovers'
  BY TypeStep, EmptyStep, CoversStep DEF RestartInv
<1>2. \A b \in owed' : Kept(b)'
  BY KeptStays, NewIsKept, Zenon
<1>3. File!OwnershipSurvives' <=> \A b \in owed' : Kept(b)'
  BY <1>1, DurableIsKept
     DEF File!OwnershipSurvives, Kept, File!Conflict, File!TypeOK, NativeBindings
<1> QED
  BY <1>1, <1>2, <1>3 DEF RestartInv

\* Every binding has its types, whatever stage fails.
THEOREM CheckpointTypes ==
  ASSUME File!ConstantsAssumption
  PROVE  File!Spec => []File!TypeOK
<1>1. File!Init => File!TypeOK
  BY RestartInitInv DEF RestartInv
<1>2. File!TypeOK /\ [File!Next]_(File!vars) => File!TypeOK'
  BY TypeStep
<1> QED
  BY <1>1, <1>2, PTL DEF File!Spec

\* Native ownership that was durable once stays in the checkpoint, in the
\* pending file or in the table, or the table has another owner, through any
\* number of crashes, restarts, failing claims and import timeouts, as long
\* as no stage of Start fails before Restore and no file operation fails.
THEOREM OwnershipIsNotLost ==
  ASSUME File!ConstantsAssumption, MayFail = {}
  PROVE  File!Spec => []File!OwnershipSurvives
<1>1. File!Init => RestartInv
  BY RestartInitInv
<1>2. RestartInv /\ [File!Next]_(File!vars) => RestartInv'
  BY RestartNextInv
<1>3. RestartInv => File!OwnershipSurvives
  BY DEF RestartInv
<1> QED
  BY <1>1, <1>2, <1>3, PTL DEF File!Spec

-----------------------------------------------------------------------------
\* Whatever the memory may still be given was granted by the table.
GrantedByTable ==
  \A b \in File!Native(memory) \cup restored \cup recording : table[b[1]] = b[2]

\* Without failing claims every step keeps what memory holds granted.
LEMMA GrantedStep ==
  ASSUME File!ConstantsAssumption, MaxMisses = 0, File!TypeOK, GrantedByTable,
         [File!Next]_(File!vars)
  PROVE  GrantedByTable'
<1>1. ~File!Fault
  BY DEF File!Fault, File!TypeOK
<1>2. File!TypeOK'
  BY TypeStep, Zenon
<1>3. \A b \in NativeBindings : table[b[1]] = b[2] => table'[b[1]] = b[2]
  BY RowsStay DEF NativeBindings, File!ConstantsAssumption
<1>4. File!Native(memory) \cup restored \cup recording \subseteq NativeBindings
  BY NativePairs, Zenon DEF File!TypeOK, NativeBindings
<1>5. \A b \in File!Native(memory) \cup restored \cup recording : table'[b[1]] = b[2]
  BY <1>3, <1>4, Zenon DEF GrantedByTable
<1>6. CASE File!StartFails \/ File!Stop \/ File!CrashInSave \/ File!Crash
  BY <1>6, Zenon
     DEF File!StartFails, File!Stop, File!CrashInSave, File!Crash, File!Halt,
         GrantedByTable, File!Native
<1>7. CASE File!ImportDone
  <2>1. File!Native(memory') \subseteq restored /\ restored' = {} /\ recording' = recording
    BY <1>7 DEF File!ImportDone, File!Restoring, File!Native, File!ConstantsAssumption
  <2> QED
    BY <1>5, <2>1, Zenon DEF GrantedByTable
<1>8. CASE \E b \in File!Bindings :
              \/ File!ImportClaim(b) \/ File!Claim(b) \/ File!Remember(b)
              \/ File!Load(b) \/ File!Record(b)
  <2>1. PICK b \in File!Bindings :
              \/ File!ImportClaim(b) \/ File!Claim(b) \/ File!Remember(b)
              \/ File!Load(b) \/ File!Record(b)
    BY <1>8, Zenon
  <2>2. CASE File!ImportClaim(b) \/ File!Claim(b)
    <3>1. /\ memory' = memory /\ restored' \cup recording' \subseteq restored \cup recording \cup {b}
          /\ table' = table \/ table' = File!Claimed(b)
          /\ b \in restored' \cup recording' => b \in restored \cup recording \/ table' = File!Claimed(b)
      BY <1>1, <2>2, Zenon DEF File!ImportClaim, File!Claim
    <3>2. b[1] \in Natives
      BY <2>2, Zenon DEF File!ImportClaim, File!Claim, File!TypeOK
    <3>3. table' = File!Claimed(b) => table'[b[1]] = b[2]
      BY <3>2, Zenon DEF File!Claimed, File!TypeOK
    <3> QED
      BY <1>5, <3>1, <3>3, Zenon DEF GrantedByTable
  <2>3. CASE File!Remember(b) \/ File!Load(b) \/ File!Record(b)
    <3>1. /\ File!Native(memory') \subseteq File!Native(memory) \cup {b}
          /\ restored' = restored /\ recording' \subseteq recording
      BY <2>3, Zenon DEF File!Remember, File!Load, File!Record, File!Native
    <3>2. b \in File!Native(memory') => table'[b[1]] = b[2]
      BY <1>5, <2>3, Zenon DEF File!Remember, File!Load, File!Record, File!Native, File!ConstantsAssumption
    <3> QED
      BY <1>5, <3>1, <3>2, Zenon DEF GrantedByTable
  <2> QED
    BY <2>1, <2>2, <2>3, Zenon
<1>9. CASE File!Boot \/ File!Restore \/ File!Consume \/ File!ImportTimeout \/ UNCHANGED File!vars
  <2>1. memory' = memory /\ restored' \subseteq restored /\ recording' = recording
    BY <1>1, <1>9
       DEF File!Boot, File!Restore, File!GiveUp, File!Consume, File!ImportTimeout, File!vars
  <2> QED
    BY <1>5, <2>1, Zenon DEF GrantedByTable, File!Native
<1> QED
  BY <1>6, <1>7, <1>8, <1>9, Zenon DEF File!Next

\* The memory names the owner the table names, when the table can always be
\* reached, whatever stage of the start or of the stop fails.
THEOREM MemoryAgrees ==
  ASSUME File!ConstantsAssumption
  PROVE  File!Spec => []File!MemoryAgreesWithTable
<1>1. CASE MaxMisses = 0
  <2>1. File!Init => File!TypeOK /\ GrantedByTable
    <3>1. File!Init => File!TypeOK
      BY RestartInitInv DEF RestartInv
    <3>2. File!Init => memory = {} /\ restored = {} /\ recording = {}
      BY PTL DEF File!Init
    <3>3. File!Init => GrantedByTable
      BY <3>2, Zenon DEF GrantedByTable, File!Native
    <3> QED
      BY <3>1, <3>3, Zenon
  <2>2. (File!TypeOK /\ GrantedByTable) /\ [File!Next]_(File!vars) => (File!TypeOK /\ GrantedByTable)'
    BY <1>1, TypeStep, GrantedStep, Zenon
  <2>3. File!TypeOK /\ GrantedByTable => File!MemoryAgreesWithTable
    BY DEF GrantedByTable, File!MemoryAgreesWithTable, File!Native
  <2> QED
    BY <2>1, <2>2, <2>3, PTL DEF File!Spec
<1>2. CASE MaxMisses # 0
  <2>1. File!MemoryAgreesWithTable
    BY <1>2 DEF File!MemoryAgreesWithTable
  <2> QED
    BY <2>1, PTL
<1> QED
  BY <1>1, <1>2
=============================================================================
