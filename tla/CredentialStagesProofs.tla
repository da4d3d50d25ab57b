----------------------- MODULE CredentialStagesProofs -----------------------
(***************************************************************************)
(* Proofs about CredentialStages, for every set of stages, handlers,       *)
(* accounts and groups, any time to live, and any number of faults and     *)
(* restarts: a grant is presented once, what a stage holds has not been    *)
(* redeemed, and a token is in one place.                                  *)
(***************************************************************************)
EXTENDS CredentialStages, TLAPS

\* The handler has claimed its stage and not yet finished.
Claims(p) == procs[p].pc \in {"call", "finish"}

\* The token x belongs to the stage s: the row holds it, or a handler of the
\* stage has read it or was given it.
Belongs(x, s, R, P) ==
  /\ x # 0
  /\ \/ R[s].payload = x
     \/ \E p \in Procs : /\ P[p].stage = s
                         /\ P[p].row.payload = x \/ (P[p].answer \in {"ok", "pending"} /\ P[p].token = x)

\* The provider has issued every token in use.
Minted ==
  /\ \A s \in Stages : rows[s].payload <= issued
  /\ \A g \in Groups, a \in Accounts : creds[g][a].token <= issued
  /\ \A p \in Procs : procs[p].row.payload <= issued /\ procs[p].token <= issued
  /\ \A x \in spent : x <= issued

\* A handler that has claimed a stage is alone with it, and the stage cannot
\* be claimed again before it has finished.
ClaimedOnce ==
  /\ \A p \in Procs : Claims(p) =>
       rows[procs[p].stage].status \in {"exchanging", "deleted"} \cup Terminal
  /\ \A p, q \in Procs : Claims(p) /\ Claims(q) /\ procs[p].stage = procs[q].stage => p = q

\* A grant that was answered is not presented any more.
Answered ==
  /\ \A s \in granted : rows[s].status \notin {"none", "pending"}
  /\ \A p \in Procs : procs[p].pc = "call" /\ procs[p].kind # "refresh" => procs[p].stage \notin granted
  /\ \A p \in Procs : procs[p].pc = "finish" /\ procs[p].answer = "pending" => procs[p].stage \notin granted

\* What the handler q may still redeem or store has not been redeemed.
HandlerOK(q, R, D) ==
  /\ q.kind = "refresh" => q.row.payload # 0
  /\ q.pc = "finish" /\ q.answer = "retry" => q.kind = "refresh"
  /\ q.kind = "refresh" /\ (q.pc = "call" \/ (q.pc = "finish" /\ q.answer = "retry")) => q.row.payload \notin D
  /\ q.pc = "finish" /\ q.answer = "ok" => q.token # 0 /\ q.token \notin D
  /\ q.pc \in {"call", "finish"} /\ q.kind = "refresh" /\ R[q.stage].status = "exchanging" =>
       R[q.stage].payload = q.row.payload

\* Nothing that can be connected or presented again has been redeemed.
Unspent ==
  /\ \A s \in Stages : rows[s].status = "ready" => rows[s].payload # 0 /\ rows[s].payload \notin spent
  /\ \A g \in Groups, a \in Accounts : creds[g][a].token \notin spent
  /\ \A p \in Procs : HandlerOK(procs[p], rows, spent)

\* A token belongs to one stage, and to a credential only when the stage was
\* consumed.
Apart ==
  /\ \A s, t \in Stages : \A x \in Nat : Belongs(x, s, rows, procs) /\ Belongs(x, t, rows, procs) => s = t
  /\ \A s \in Stages, g \in Groups, a \in Accounts :
       Belongs(creds[g][a].token, s, rows, procs) => rows[s].status \in {"consumed", "deleted"}
  /\ \A p \in Procs, g \in Groups, a \in Accounts :
       procs[p].pc = "call" /\ procs[p].kind = "refresh" => creds[g][a].token # procs[p].row.payload
  /\ \A g, h \in Groups, a, b \in Accounts :
       creds[g][a].token # 0 /\ creds[g][a].token = creds[h][b].token => g = h /\ a = b

\* A stage that does not exist or has ended holds no secret.
Erased ==
  \A s \in Stages : rows[s].status \in {"none", "deleted"} \cup Terminal => rows[s].payload = 0 /\ ~rows[s].hash

Rest == Minted /\ ClaimedOnce /\ Answered /\ Unspent /\ Apart /\ Erased

\* The fields of a handler that has returned.
LEMMA IdleFacts ==
  /\ Idle.pc = "idle" /\ Idle.kind = "none" /\ Idle.row.payload = 0
  /\ Idle.token = 0 /\ Idle.answer = "none"
BY DEF Idle, NoRow

\* A stage that ends gives up its secrets.
LEMMA EndedFacts ==
  ASSUME NEW row \in Row, NEW status
  PROVE  LET e == Ended(row, status) IN e.status = status /\ e.payload = 0 /\ ~e.hash
BY DEF Ended, Row

\* When the credentials stay, tokens stay apart if stages do.
LEMMA ApartKept ==
  ASSUME Apart, UNCHANGED creds,
         \A s, t \in Stages : \A x \in Nat : Belongs(x, s, rows', procs') /\ Belongs(x, t, rows', procs') => s = t,
         \A s \in Stages, g \in Groups, a \in Accounts :
            Belongs(creds[g][a].token, s, rows', procs') => rows'[s].status \in {"consumed", "deleted"},
         \A p \in Procs, g \in Groups, a \in Accounts :
            procs'[p].pc = "call" /\ procs'[p].kind = "refresh" => creds[g][a].token # procs'[p].row.payload
  PROVE  Apart'
<1>1. \A s \in Stages, g \in Groups, a \in Accounts :
         Belongs(creds'[g][a].token, s, rows', procs') => rows'[s].status \in {"consumed", "deleted"}
  OBVIOUS
<1>2. \A p \in Procs, g \in Groups, a \in Accounts :
         procs'[p].pc = "call" /\ procs'[p].kind = "refresh" => creds'[g][a].token # procs'[p].row.payload
  OBVIOUS
<1>3. \A g, h \in Groups, a, b \in Accounts :
         creds'[g][a].token # 0 /\ creds'[g][a].token = creds'[h][b].token => g = h /\ a = b
  BY DEF Apart
<1> QED
  BY <1>1, <1>2, <1>3, Zenon DEF Apart

\* Stages end and handlers return without taking anything with them.
LEMMA QuietStep ==
  ASSUME TypeOK, Rest, TypeOK',
         \A s \in Stages :
            \/ rows'[s] = rows[s]
            \/ /\ rows'[s].payload = 0 /\ ~rows'[s].hash
               /\ rows'[s].status \in {"deleted"} \cup Terminal
               /\ rows[s].status \in {"consumed", "deleted"} => rows'[s].status \in {"consumed", "deleted"},
         \A p \in Procs :
            \/ procs'[p] = procs[p]
            \/ procs'[p] = Idle
            \/ procs[p].pc = "finish" /\ procs'[p] = [procs[p] EXCEPT !.pc = "mark"],
         \A g \in Groups, a \in Accounts : creds'[g][a].token = creds[g][a].token,
         UNCHANGED <<issued, spent, granted>>
  PROVE  Rest'
<1>1. ASSUME NEW p \in Procs
      PROVE  /\ procs'[p].pc \in {"call", "finish"} => procs'[p] = procs[p]
             /\ procs'[p].kind = "refresh" => procs[p].kind = "refresh" /\ procs'[p].row = procs[p].row
             /\ procs'[p].row.payload = procs[p].row.payload \/ procs'[p].row.payload = 0
             /\ procs'[p].row.payload # 0 => procs'[p].stage = procs[p].stage
             /\ procs'[p].answer # "none" =>
                  procs'[p].stage = procs[p].stage /\ procs'[p].answer = procs[p].answer
                  /\ procs'[p].token = procs[p].token
             /\ procs'[p].token = procs[p].token \/ procs'[p].token = 0
  <2>1. CASE procs'[p] = procs[p]
    BY <2>1, Zenon
  <2>2. CASE procs'[p] = Idle
    BY <2>2, IdleFacts
  <2>3. CASE procs[p].pc = "finish" /\ procs'[p] = [procs[p] EXCEPT !.pc = "mark"]
    BY <2>3 DEF TypeOK
  <2> QED
    BY <2>1, <2>2, <2>3
<1>2. ASSUME NEW s \in Stages
      PROVE  \/ rows'[s] = rows[s]
             \/ rows'[s].payload = 0 /\ rows'[s].status \in {"deleted"} \cup Terminal
  BY Zenon
<1>3. ASSUME NEW x, NEW s \in Stages, Belongs(x, s, rows', procs')
      PROVE  Belongs(x, s, rows, procs)
  BY <1>1, <1>2, <1>3 DEF Belongs
<1>4. Minted'
  <2>1. \A s \in Stages : rows'[s].payload <= issued
    BY <1>2 DEF Rest, Minted, TypeOK
  <2>2. \A p \in Procs : procs'[p].row.payload <= issued /\ procs'[p].token <= issued
    BY <1>1 DEF Rest, Minted, TypeOK
  <2> QED
    BY <2>1, <2>2, Zenon DEF Rest, Minted
<1>5. ClaimedOnce'
  BY <1>1, <1>2 DEF Rest, ClaimedOnce, Claims, TypeOK
<1>6. Answered'
  BY <1>1, <1>2, Zenon DEF Rest, Answered, Terminal, TypeOK
<1>7. Unspent'
  <2>1. \A s \in Stages : rows'[s].status = "ready" => rows'[s].payload # 0 /\ rows'[s].payload \notin spent
    BY <1>2 DEF Rest, Unspent, Terminal
  <2>2. \A g \in Groups, a \in Accounts : creds'[g][a].token \notin spent
    BY DEF Rest, Unspent
  <2>3. ASSUME NEW p \in Procs
        PROVE  HandlerOK(procs'[p], rows', spent)
    <3>1. HandlerOK(procs[p], rows, spent) /\ procs[p].stage \in Stages
      BY DEF Rest, Unspent, TypeOK
    <3> QED
      BY <1>1, <1>2, <3>1 DEF HandlerOK, Terminal
  <2> QED
    BY <2>1, <2>2, <2>3, Zenon DEF Unspent
<1>8. Apart'
  <2>1. \A s, t \in Stages : \A x \in Nat : Belongs(x, s, rows', procs') /\ Belongs(x, t, rows', procs') => s = t
    BY <1>3, Zenon DEF Rest, Apart
  <2>2. \A s \in Stages, g \in Groups, a \in Accounts :
           Belongs(creds'[g][a].token, s, rows', procs') => rows'[s].status \in {"consumed", "deleted"}
    BY <1>3, ZenonT(40) DEF Rest, Apart
  <2>3. \A p \in Procs, g \in Groups, a \in Accounts :
           procs'[p].pc = "call" /\ procs'[p].kind = "refresh" => creds'[g][a].token # procs'[p].row.payload
    BY <1>1 DEF Rest, Apart
  <2>4. \A g, h \in Groups, a, b \in Accounts :
           creds'[g][a].token # 0 /\ creds'[g][a].token = creds'[h][b].token => g = h /\ a = b
    BY DEF Rest, Apart
  <2> QED
    BY <2>1, <2>2, <2>3, <2>4, Zenon DEF Apart
<1>9. Erased'
  BY Zenon DEF Rest, Erased, Terminal
<1> QED
  BY <1>4, <1>5, <1>6, <1>7, <1>8, <1>9, Zenon DEF Rest

\* A stage is created with a token of its own.
LEMMA CreateStep ==
  ASSUME TypeOK, Rest, NEW s \in Stages, NEW r,
         rows[s].status = "none", rows' = [rows EXCEPT ![s] = r],
         r.status \in {"pending", "ready"}, r.payload = issued + 1, issued' = issued + 1,
         UNCHANGED <<creds, procs, spent, granted>>
  PROVE  Rest'
<1>0. /\ issued \in Nat /\ \A p \in Procs : procs[p].stage \in Stages
      /\ \A t \in Stages : rows[t].payload \in Nat
      /\ \A g \in Groups, a \in Accounts : creds[g][a].token \in Nat
      /\ \A p \in Procs : procs[p].token \in Nat /\ procs[p].row.payload \in Nat
      /\ \A x \in spent : x \in Nat
  BY DEF TypeOK, Row
<1>1. rows'[s] = r /\ \A t \in Stages : t # s => rows'[t] = rows[t]
  BY DEF TypeOK
<1>2. ASSUME NEW x, NEW t \in Stages, Belongs(x, t, rows', procs')
      PROVE  Belongs(x, t, rows, procs) \/ (x = issued + 1 /\ t = s)
  BY <1>1, <1>2 DEF Belongs
<1>3. ASSUME NEW t \in Stages
      PROVE  ~Belongs(issued + 1, t, rows, procs)
  BY <1>0 DEF Rest, Minted, Belongs
<1>4. Minted'
  BY <1>0, <1>1 DEF Rest, Minted
<1>5. ClaimedOnce'
  BY <1>0, <1>1 DEF Rest, ClaimedOnce, Claims, Terminal
<1>6. Answered'
  BY <1>0, <1>1 DEF Rest, Answered, TypeOK
<1>7. Unspent'
  <2>1. \A t \in Stages : rows'[t].status = "ready" => rows'[t].payload # 0 /\ rows'[t].payload \notin spent
    BY <1>0, <1>1 DEF Rest, Unspent, Minted
  <2>2. ASSUME NEW p \in Procs
        PROVE  HandlerOK(procs[p], rows', spent)
    <3>1. HandlerOK(procs[p], rows, spent) /\ procs[p].stage \in Stages
      BY <1>0 DEF Rest, Unspent
    <3> QED
      BY <1>1, <3>1 DEF HandlerOK
  <2> QED
    BY <2>1, <2>2, Zenon DEF Rest, Unspent
<1>8. Apart'
  <2>1. \A t, u \in Stages : \A x \in Nat : Belongs(x, t, rows', procs') /\ Belongs(x, u, rows', procs') => t = u
    <3> TAKE t, u \in Stages
    <3> TAKE x \in Nat
    <3>1. Belongs(x, t, rows, procs) /\ Belongs(x, u, rows, procs) => t = u
      BY Zenon DEF Rest, Apart
    <3> QED
      BY <1>2, <1>3, <3>1
  <2>2. \A t \in Stages, g \in Groups, a \in Accounts :
           Belongs(creds[g][a].token, t, rows', procs') => rows'[t].status \in {"consumed", "deleted"}
    <3> TAKE t \in Stages, g \in Groups, a \in Accounts
    <3>1. creds[g][a].token # issued + 1
      BY <1>0 DEF Rest, Minted
    <3>2. Belongs(creds[g][a].token, t, rows', procs') => Belongs(creds[g][a].token, t, rows, procs)
      BY <1>2, <3>1
    <3> QED
      BY <1>1, <3>2 DEF Rest, Apart
  <2>3. \A p \in Procs, g \in Groups, a \in Accounts :
           procs'[p].pc = "call" /\ procs'[p].kind = "refresh" => creds[g][a].token # procs'[p].row.payload
    BY DEF Rest, Apart
  <2> QED
    BY <2>1, <2>2, <2>3, ApartKept, Zenon DEF Rest
<1>9. Erased'
  BY <1>1 DEF Rest, Erased, Terminal
<1> QED
  BY <1>4, <1>5, <1>6, <1>7, <1>8, <1>9, Zenon DEF Rest

\* A handler reads the row of a stage.
LEMMA ReadStep ==
  ASSUME TypeOK, Rest, NEW p \in Procs, NEW n, n.stage \in Stages,
         procs' = [procs EXCEPT ![p] = n],
         n.pc = "read", n.row = rows[n.stage], n.answer = "none", n.token = 0,
         n.kind = "refresh" => rows[n.stage].status = "ready",
         UNCHANGED <<rows, creds, issued, spent, granted>>
  PROVE  Rest'
<1>0. /\ issued \in Nat /\ \A q \in Procs : procs[q].stage \in Stages
      /\ procs'[p] = n /\ \A q \in Procs : q # p => procs'[q] = procs[q]
  BY DEF TypeOK
<1>1. ASSUME NEW x, NEW t \in Stages, Belongs(x, t, rows, procs')
      PROVE  Belongs(x, t, rows, procs)
  BY <1>0, <1>1 DEF Belongs
<1>2. Minted'
  BY <1>0 DEF Rest, Minted
<1>3. ClaimedOnce'
  BY <1>0 DEF Rest, ClaimedOnce, Claims
<1>4. Answered'
  BY <1>0 DEF Rest, Answered
<1>5. Unspent'
  <2>1. HandlerOK(n, rows, spent)
    BY DEF Rest, Unspent, HandlerOK
  <2>2. \A q \in Procs : HandlerOK(procs'[q], rows, spent)
    BY <1>0, <2>1, Zenon DEF Rest, Unspent
  <2> QED
    BY <2>2, Zenon DEF Rest, Unspent
<1>6. Apart'
  <2>1. \A t, u \in Stages : \A x \in Nat : Belongs(x, t, rows, procs') /\ Belongs(x, u, rows, procs') => t = u
    BY <1>1, Zenon DEF Rest, Apart
  <2>2. \A t \in Stages, g \in Groups, a \in Accounts :
           Belongs(creds[g][a].token, t, rows, procs') => rows[t].status \in {"consumed", "deleted"}
    BY <1>1, ZenonT(40) DEF Rest, Apart
  <2>3. \A q \in Procs, g \in Groups, a \in Accounts :
           procs'[q].pc = "call" /\ procs'[q].kind = "refresh" => creds[g][a].token # procs'[q].row.payload
    BY <1>0 DEF Rest, Apart
  <2> QED
    BY <2>1, <2>2, <2>3, ApartKept, Zenon DEF Rest
<1>7. Erased'
  BY Zenon DEF Rest, Erased
<1> QED
  BY <1>2, <1>3, <1>4, <1>5, <1>6, <1>7, Zenon DEF Rest

\* A handler claims the stage.
LEMMA ClaimStep ==
  ASSUME TypeOK, Rest, NEW p \in Procs, NEW n, NEW s \in Stages, NEW r,
         procs' = [procs EXCEPT ![p] = n], rows' = [rows EXCEPT ![s] = r],
         n.pc = "call", n.stage = s, r.status = "exchanging", r.payload = rows[s].payload,
         \/ n.kind # "refresh" /\ rows[s].status = "pending"
         \/ n.kind = "refresh" /\ rows[s].status = "ready" /\ rows[s].payload = n.row.payload,
         \/ n.row = rows[s] /\ n.answer = "none" /\ n.token = 0
         \/ /\ procs[p].stage = s /\ n.row = procs[p].row
            /\ n.answer = procs[p].answer /\ n.token = procs[p].token,
         UNCHANGED <<creds, issued, spent, granted>>
  PROVE  Rest'
<1>0. /\ issued \in Nat /\ \A q \in Procs : procs[q].stage \in Stages
      /\ procs'[p] = n /\ \A q \in Procs : q # p => procs'[q] = procs[q]
      /\ rows'[s] = r /\ \A t \in Stages : t # s => rows'[t] = rows[t]
      /\ \A t \in Stages : rows'[t].payload = rows[t].payload
  BY DEF TypeOK
<1>1. ASSUME NEW x, NEW t \in Stages, Belongs(x, t, rows', procs')
      PROVE  Belongs(x, t, rows, procs)
  BY <1>0, <1>1 DEF Belongs
<1>2. Minted'
  BY <1>0 DEF Rest, Minted
<1>3. \A q \in Procs : q # p /\ Claims(q) => procs[q].stage # s
  BY <1>0 DEF Rest, ClaimedOnce, Terminal
<1>4. ClaimedOnce'
  BY <1>0, <1>3 DEF Rest, ClaimedOnce, Claims
<1>5. Answered'
  BY <1>0, <1>3 DEF Rest, Answered, Claims
<1>6. Unspent'
  <2>1. HandlerOK(n, rows', spent)
    BY <1>0 DEF Rest, Unspent, HandlerOK
  <2>2. ASSUME NEW q \in Procs, q # p
        PROVE  HandlerOK(procs'[q], rows', spent)
    <3>1. HandlerOK(procs[q], rows, spent) /\ procs[q].stage \in Stages /\ procs'[q] = procs[q]
      BY <1>0, <2>2 DEF Rest, Unspent
    <3>2. procs[q].pc \in {"call", "finish"} => procs[q].stage # s
      BY <1>3, <2>2 DEF Claims
    <3> QED
      BY <1>0, <3>1, <3>2 DEF HandlerOK
  <2>3. \A t \in Stages : rows'[t].status = "ready" => rows'[t].payload # 0 /\ rows'[t].payload \notin spent
    BY <1>0 DEF Rest, Unspent
  <2> QED
    BY <1>0, <2>1, <2>2, <2>3, Zenon DEF Rest, Unspent
<1>7. Apart'
  <2>0. rows[s].status \notin {"consumed", "deleted"}
    OBVIOUS
  <2>1. \A t, u \in Stages : \A x \in Nat : Belongs(x, t, rows', procs') /\ Belongs(x, u, rows', procs') => t = u
    BY <1>1, Zenon DEF Rest, Apart
  <2>2. \A t \in Stages, g \in Groups, a \in Accounts :
           Belongs(creds[g][a].token, t, rows', procs') => rows'[t].status \in {"consumed", "deleted"}
    BY <1>0, <1>1, <2>0 DEF Rest, Apart
  <2>3. ASSUME n.kind = "refresh", NEW g \in Groups, NEW a \in Accounts
        PROVE  creds[g][a].token # n.row.payload
    <3>1. rows[s].payload # 0
      BY <2>3 DEF Rest, Unspent
    <3>2. creds[g][a].token = n.row.payload => Belongs(creds[g][a].token, s, rows, procs)
      BY <2>3, <3>1 DEF Belongs
    <3> QED
      BY <2>0, <3>2 DEF Rest, Apart
  <2>4. \A q \in Procs, g \in Groups, a \in Accounts :
           procs'[q].pc = "call" /\ procs'[q].kind = "refresh" => creds[g][a].token # procs'[q].row.payload
    BY <1>0, <2>3 DEF Rest, Apart
  <2> QED
    BY <2>1, <2>2, <2>4, ApartKept, Zenon DEF Rest
<1>8. Erased'
  BY <1>0 DEF Rest, Erased, Terminal
<1> QED
  BY <1>2, <1>4, <1>5, <1>6, <1>7, <1>8, Zenon DEF Rest

\* The provider answers the handler that has claimed the stage.
LEMMA CallStep ==
  ASSUME TypeOK, Rest, NEW p \in Procs, NEW n, procs[p].pc = "call",
         procs' = [procs EXCEPT ![p] = n],
         n.pc = "finish", n.stage = procs[p].stage, n.kind = procs[p].kind, n.row = procs[p].row,
         n.answer = "pending" => n.kind # "refresh",
         n.answer = "retry" => n.kind = "refresh",
         issued' \in {issued, issued + 1}, n.token \in Nat, n.token <= issued',
         n.answer = "ok" => n.token = issued + 1,
         n.answer = "pending" => n.token = issued + 1 \/ n.token = n.row.payload,
         spent' = IF n.kind = "refresh" /\ n.answer # "retry" THEN spent \cup {n.row.payload} ELSE spent,
         granted' = IF n.kind # "refresh" /\ n.answer # "pending" THEN granted \cup {n.stage} ELSE granted,
         UNCHANGED <<rows, creds>>
  PROVE  Rest'
<1> DEFINE s == procs[p].stage
<1>0. /\ issued \in Nat /\ \A q \in Procs : procs[q].stage \in Stages
      /\ procs'[p] = n /\ \A q \in Procs : q # p => procs'[q] = procs[q]
      /\ \A t \in Stages : rows[t].payload \in Nat
      /\ \A g \in Groups, a \in Accounts : creds[g][a].token \in Nat
      /\ \A q \in Procs : procs[q].token \in Nat /\ procs[q].row.payload \in Nat
      /\ \A x \in spent : x \in Nat
  BY DEF TypeOK, Row
<1>1. ASSUME NEW x, NEW t \in Stages, Belongs(x, t, rows, procs')
      PROVE  Belongs(x, t, rows, procs) \/ (x = issued + 1 /\ t = s)
  BY <1>0, <1>1 DEF Belongs
<1>2. ASSUME NEW t \in Stages
      PROVE  ~Belongs(issued + 1, t, rows, procs)
  BY <1>0 DEF Rest, Minted, Belongs
<1>3. \A q \in Procs : q # p /\ Claims(q) => procs[q].stage # s
  BY DEF Rest, ClaimedOnce, Claims
<1>4. rows[s].status \in {"exchanging", "deleted"} \cup Terminal
  BY DEF Rest, ClaimedOnce, Claims
<1>5. Minted'
  BY <1>0 DEF Rest, Minted
<1>6. ClaimedOnce'
  BY <1>0, <1>3, <1>4 DEF Rest, ClaimedOnce, Claims
<1>7. Answered'
  BY <1>0, <1>3, <1>4 DEF Rest, Answered, Claims, Terminal
<1>8. Unspent'
  <2>1. ASSUME NEW x \in Nat, NEW t \in Stages, t # s, Belongs(x, t, rows, procs), x \notin spent
        PROVE  x \notin spent'
    <3>1. Belongs(x, s, rows, procs) => t = s
      BY <1>0, <2>1, Zenon DEF Rest, Apart
    <3>2. x # 0 /\ (n.row.payload = x => Belongs(x, s, rows, procs))
      BY <2>1 DEF Belongs
    <3> QED
      BY <2>1, <3>1, <3>2
  <2>2. ASSUME NEW t \in Stages, rows[t].status = "ready"
        PROVE  rows[t].payload # 0 /\ rows[t].payload \notin spent'
    <3>1. t # s
      BY <1>4, <2>2 DEF Terminal
    <3>2. rows[t].payload # 0 /\ rows[t].payload \notin spent
      BY <2>2 DEF Rest, Unspent
    <3>3. Belongs(rows[t].payload, t, rows, procs)
      BY <3>2 DEF Belongs
    <3> QED
      BY <1>0, <2>1, <3>1, <3>2, <3>3
  <2>3. ASSUME NEW g \in Groups, NEW a \in Accounts
        PROVE  creds[g][a].token \notin spent'
    BY DEF Rest, Unspent, Apart
  <2>4. HandlerOK(n, rows, spent')
    <3>1. HandlerOK(procs[p], rows, spent)
      BY DEF Rest, Unspent
    <3>2. issued + 1 # 0 /\ issued + 1 \notin spent /\ n.row.payload # issued + 1
      BY <1>0 DEF Rest, Minted
    <3> QED
      BY <3>1, <3>2 DEF HandlerOK
  <2>5. ASSUME NEW q \in Procs, q # p
        PROVE  HandlerOK(procs[q], rows, spent')
    <3>1. HandlerOK(procs[q], rows, spent) /\ procs[q].stage \in Stages
      BY <1>0 DEF Rest, Unspent
    <3>2. procs[q].pc \in {"call", "finish"} => procs[q].stage # s
      BY <1>3, <2>5 DEF Claims
    <3>3. procs[q].row.payload # 0 => Belongs(procs[q].row.payload, procs[q].stage, rows, procs)
      BY DEF Belongs
    <3>4. procs[q].token # 0 /\ procs[q].answer = "ok" => Belongs(procs[q].token, procs[q].stage, rows, procs)
      BY DEF Belongs
    <3>5. procs[q].pc \in {"call", "finish"} /\ procs[q].row.payload # 0 /\ procs[q].row.payload \notin spent
            => procs[q].row.payload \notin spent'
      BY <1>0, <2>1, <3>1, <3>2, <3>3
    <3>6. procs[q].pc \in {"call", "finish"} /\ procs[q].token # 0 /\ procs[q].answer = "ok" /\ procs[q].token \notin spent
            => procs[q].token \notin spent'
      BY <1>0, <2>1, <3>1, <3>2, <3>4
    <3> QED
      BY <3>1, <3>5, <3>6 DEF HandlerOK
  <2>6. \A q \in Procs : HandlerOK(procs'[q], rows, spent')
    BY <1>0, <2>4, <2>5, Zenon
  <2> QED
    BY <2>2, <2>3, <2>6, Zenon DEF Unspent
<1>9. Apart'
  <2>1. \A t, u \in Stages : \A x \in Nat : Belongs(x, t, rows', procs') /\ Belongs(x, u, rows', procs') => t = u
    <3> TAKE t, u \in Stages
    <3> TAKE x \in Nat
    <3>1. Belongs(x, t, rows, procs) /\ Belongs(x, u, rows, procs) => t = u
      BY Zenon DEF Rest, Apart
    <3> QED
      BY <1>1, <1>2, <3>1
  <2>2. \A t \in Stages, g \in Groups, a \in Accounts :
           Belongs(creds[g][a].token, t, rows', procs') => rows'[t].status \in {"consumed", "deleted"}
    <3> TAKE t \in Stages, g \in Groups, a \in Accounts
    <3>1. creds[g][a].token # issued + 1
      BY <1>0 DEF Rest, Minted
    <3>2. Belongs(creds[g][a].token, t, rows', procs') => Belongs(creds[g][a].token, t, rows, procs)
      BY <1>1, <3>1
    <3> QED
      BY <3>2 DEF Rest, Apart
  <2>3. \A q \in Procs, g \in Groups, a \in Accounts :
           procs'[q].pc = "call" /\ procs'[q].kind = "refresh" => creds[g][a].token # procs'[q].row.payload
    BY <1>0 DEF Rest, Apart
  <2> QED
    BY <2>1, <2>2, <2>3, ApartKept, Zenon DEF Rest
<1>10. Erased'
  BY DEF Rest, Erased
<1> QED
  BY <1>5, <1>6, <1>7, <1>8, <1>9, <1>10, Zenon DEF Rest

\* The outcome is stored in the row of the stage the handler still owns.
LEMMA StoreOutcomeStep ==
  ASSUME TypeOK, Rest, NEW p \in Procs, NEW n, NEW r, procs[p].pc = "finish",
         rows[procs[p].stage].status = "exchanging",
         rows' = [rows EXCEPT ![procs[p].stage] = r], procs' = [procs EXCEPT ![p] = n],
         n = Idle \/ n = [procs[p] EXCEPT !.pc = "mark"],
         \/ procs[p].answer = "ok" /\ r.status = "ready" /\ r.payload = procs[p].token
         \/ procs[p].answer = "pending" /\ r.status = "pending" /\ r.payload = procs[p].token
         \/ procs[p].answer = "retry" /\ r.status = "ready" /\ r.payload = rows[procs[p].stage].payload,
         UNCHANGED <<creds, issued, spent, granted>>
  PROVE  Rest'
<1> DEFINE s == procs[p].stage
<1>0. /\ issued \in Nat /\ \A q \in Procs : procs[q].stage \in Stages
      /\ procs'[p] = n /\ \A q \in Procs : q # p => procs'[q] = procs[q]
      /\ rows'[s] = r /\ \A t \in Stages : t # s => rows'[t] = rows[t]
  BY DEF TypeOK
<1>1. /\ n.pc \in {"idle", "mark"} /\ n.row.payload \in {0, procs[p].row.payload}
      /\ n.row.payload # 0 => n.stage = s
      /\ n.answer # "none" => n.stage = s /\ n.answer = procs[p].answer /\ n.token = procs[p].token
      /\ n.kind = "refresh" => n.row.payload = procs[p].row.payload /\ procs[p].kind = "refresh"
      /\ n.token \in {0, procs[p].token}
  <2>1. CASE n = Idle
    BY <2>1, IdleFacts
  <2>2. CASE n = [procs[p] EXCEPT !.pc = "mark"]
    BY <2>2 DEF TypeOK
  <2> QED
    BY <2>1, <2>2
<1>2. ASSUME NEW x, NEW t \in Stages, Belongs(x, t, rows', procs')
      PROVE  Belongs(x, t, rows, procs)
  BY <1>0, <1>1, <1>2 DEF Belongs
<1>3. \A q \in Procs : q # p /\ Claims(q) => procs[q].stage # s
  BY DEF Rest, ClaimedOnce, Claims
<1>4. Minted'
  BY <1>0, <1>1 DEF Rest, Minted, TypeOK
<1>5. ClaimedOnce'
  BY <1>0, <1>1, <1>3 DEF Rest, ClaimedOnce, Claims
<1>6. Answered'
  BY <1>0, <1>1 DEF Rest, Answered, Claims, TypeOK
<1>7. Unspent'
  <2>0. HandlerOK(procs[p], rows, spent)
    BY DEF Rest, Unspent
  <2>1. r.status = "ready" => r.payload # 0 /\ r.payload \notin spent
    BY <2>0 DEF HandlerOK
  <2>2. \A t \in Stages : rows'[t].status = "ready" => rows'[t].payload # 0 /\ rows'[t].payload \notin spent
    BY <1>0, <2>1 DEF Rest, Unspent
  <2>3. HandlerOK(n, rows', spent)
    BY <1>1, <2>0 DEF HandlerOK
  <2>4. ASSUME NEW q \in Procs, q # p
        PROVE  HandlerOK(procs'[q], rows', spent)
    <3>1. HandlerOK(procs[q], rows, spent) /\ procs[q].stage \in Stages /\ procs'[q] = procs[q]
      BY <1>0, <2>4 DEF Rest, Unspent
    <3>2. procs[q].pc \in {"call", "finish"} => procs[q].stage # s
      BY <1>3, <2>4 DEF Claims
    <3> QED
      BY <1>0, <3>1, <3>2 DEF HandlerOK
  <2> QED
    BY <1>0, <2>2, <2>3, <2>4, Zenon DEF Rest, Unspent
<1>8. Apart'
  <2>1. \A t, u \in Stages : \A x \in Nat : Belongs(x, t, rows', procs') /\ Belongs(x, u, rows', procs') => t = u
    BY <1>2, Zenon DEF Rest, Apart
  <2>2. \A t \in Stages, g \in Groups, a \in Accounts :
           Belongs(creds[g][a].token, t, rows', procs') => rows'[t].status \in {"consumed", "deleted"}
    BY <1>0, <1>2 DEF Rest, Apart
  <2>3. \A q \in Procs, g \in Groups, a \in Accounts :
           procs'[q].pc = "call" /\ procs'[q].kind = "refresh" => creds[g][a].token # procs'[q].row.payload
    BY <1>0, <1>1 DEF Rest, Apart
  <2> QED
    BY <2>1, <2>2, <2>3, ApartKept, Zenon DEF Rest
<1>9. Erased'
  BY <1>0 DEF Rest, Erased, Terminal
<1> QED
  BY <1>4, <1>5, <1>6, <1>7, <1>8, <1>9, Zenon DEF Rest

\* Ready stages are consumed into the credentials of a group.
LEMMA ConsumeStep ==
  ASSUME TypeOK, Rest, NEW S \in SUBSET Stages, NEW g \in Groups, consumeCredentialStages(S, g)
  PROVE  Rest'
<1> DEFINE Taken(a, s) == s \in S /\ rows[s].account = {a} /\ creds'[g][a].token = rows[s].payload
<1>0. /\ issued \in Nat /\ \A q \in Procs : procs[q].stage \in Stages
      /\ \A t \in Stages : rows[t].payload \in Nat
      /\ \A h \in Groups, a \in Accounts : creds[h][a].token \in Nat
      /\ UNCHANGED <<procs, issued, spent, granted>>
      /\ \A s \in S : rows[s].status = "ready"
  BY DEF TypeOK, Row, consumeCredentialStages, Consumable
<1>1. /\ \A s \in Stages \ S : rows'[s] = rows[s]
      /\ \A s \in S : rows'[s].status = "consumed" /\ rows'[s].payload = 0 /\ ~rows'[s].hash
  <2>1. \A s \in Stages : rows'[s] = IF s \in S THEN Ended(rows[s], "consumed") ELSE rows[s]
    BY Zenon DEF consumeCredentialStages, Consumed
  <2>2. \A s \in Stages : rows[s] \in Row
    BY Zenon DEF TypeOK
  <2> QED
    BY <2>1, <2>2, EndedFacts
<1>2. /\ \A h \in Groups \ {g}, a \in Accounts : creds'[h][a] = creds[h][a]
      /\ \A a \in Accounts : creds'[g][a] = creds[g][a] \/ \E s \in Stages : Taken(a, s)
  <2>1. creds \in [Groups -> [Accounts -> [auth : {"none", "ready", "reauthorize"}, token : 0..MaxTokens, version : Nat]]]
    BY Zenon DEF TypeOK
  <2>2. \A h \in Groups \ {g}, a \in Accounts : creds'[h][a] = creds[h][a]
    BY <2>1, Zenon DEF consumeCredentialStages
  <2>3. ASSUME NEW a \in Accounts, creds'[g][a] # creds[g][a]
        PROVE  \E s \in Stages : Taken(a, s)
    <3> DEFINE c == CHOOSE s \in S : rows[s].account = {a} /\ Takes(S, s, g)
    <3>1. /\ \E s \in S : rows[s].account = {a} /\ Takes(S, s, g)
          /\ creds'[g][a].token = rows[c].payload
      BY <2>1, <2>3, Zenon DEF consumeCredentialStages
    <3>2. c \in S /\ rows[c].account = {a}
      BY <3>1, Zenon
    <3> QED
      BY <3>1, <3>2, Zenon
  <2> QED
    BY <2>2, <2>3
<1> HIDE DEF Taken
<1>3. ASSUME NEW x, NEW t \in Stages, Belongs(x, t, rows', procs')
      PROVE  Belongs(x, t, rows, procs)
  BY <1>0, <1>1, <1>3 DEF Belongs
<1>4. ASSUME NEW a \in Accounts, NEW s \in Stages, Taken(a, s)
      PROVE  /\ creds'[g][a].token = rows[s].payload /\ rows[s].payload # 0 /\ rows[s].payload \notin spent
             /\ Belongs(rows[s].payload, s, rows, procs) /\ s \in S
             /\ \A h \in Groups, b \in Accounts : creds[h][b].token # rows[s].payload
  <2>1. s \in S /\ creds'[g][a].token = rows[s].payload /\ rows[s].status = "ready"
    BY <1>0, <1>4 DEF Taken
  <2>2. rows[s].payload # 0 /\ rows[s].payload \notin spent
    BY <2>1 DEF Rest, Unspent
  <2>3. Belongs(rows[s].payload, s, rows, procs)
    BY <2>2 DEF Belongs
  <2>4. \A h \in Groups, b \in Accounts : creds[h][b].token # rows[s].payload
    BY <2>1, <2>3 DEF Rest, Apart
  <2> QED
    BY <2>1, <2>2, <2>3, <2>4
<1>5. \A p \in Procs : procs[p].pc \in {"call", "finish"} => procs[p].stage \notin S
  BY <1>0 DEF Rest, ClaimedOnce, Claims, Terminal
<1>6. Minted'
  <2>1. \A s \in Stages : rows'[s].payload <= issued
    BY <1>0, <1>1 DEF Rest, Minted
  <2>2. \A h \in Groups, a \in Accounts : creds'[h][a].token <= issued
    BY <1>2, <1>4 DEF Rest, Minted
  <2> QED
    BY <1>0, <2>1, <2>2 DEF Rest, Minted
<1>7. ClaimedOnce'
  BY <1>0, <1>1, <1>5 DEF Rest, ClaimedOnce, Claims
<1>8. Answered'
  BY <1>0, <1>1 DEF Rest, Answered, TypeOK
<1>9. Unspent'
  <2>1. \A s \in Stages : rows'[s].status = "ready" => rows'[s].payload # 0 /\ rows'[s].payload \notin spent
    BY <1>1 DEF Rest, Unspent
  <2>2. \A h \in Groups, a \in Accounts : creds'[h][a].token \notin spent
    BY <1>2, <1>4 DEF Rest, Unspent
  <2>3. ASSUME NEW p \in Procs
        PROVE  HandlerOK(procs[p], rows', spent)
    <3>1. HandlerOK(procs[p], rows, spent) /\ procs[p].stage \in Stages
      BY <1>0 DEF Rest, Unspent
    <3> QED
      BY <1>1, <3>1 DEF HandlerOK
  <2> QED
    BY <1>0, <2>1, <2>2, <2>3 DEF Unspent
<1>10. Apart'
  <2>1. \A t, u \in Stages : \A x \in Nat : Belongs(x, t, rows', procs') /\ Belongs(x, u, rows', procs') => t = u
    BY <1>3, Zenon DEF Rest, Apart
  <2>2. ASSUME NEW t \in Stages, NEW h \in Groups, NEW a \in Accounts,
               Belongs(creds'[h][a].token, t, rows', procs')
        PROVE  rows'[t].status \in {"consumed", "deleted"}
    <3>1. Belongs(creds'[h][a].token, t, rows, procs)
      BY <1>3, <2>2
    <3>2. CASE creds'[h][a] = creds[h][a]
      BY <1>1, <3>1, <3>2 DEF Rest, Apart
    <3>3. CASE creds'[h][a] # creds[h][a]
      <4>1. h = g /\ \E s \in Stages : Taken(a, s)
        BY <1>2, <3>3
      <4>2. PICK s \in Stages : Taken(a, s)
        BY <4>1
      <4>3. s \in S /\ Belongs(rows[s].payload, s, rows, procs) /\ creds'[h][a].token = rows[s].payload
        BY <1>4, <4>1, <4>2
      <4>4. s = t
        BY <1>0, <3>1, <4>3 DEF Rest, Apart
      <4> QED
        BY <1>1, <4>3, <4>4
    <3> QED
      BY <3>2, <3>3
  <2>3. ASSUME NEW p \in Procs, NEW h \in Groups, NEW a \in Accounts,
               procs[p].pc = "call", procs[p].kind = "refresh"
        PROVE  creds'[h][a].token # procs[p].row.payload
    <3>1. CASE creds'[h][a] = creds[h][a]
      BY <2>3, <3>1 DEF Rest, Apart
    <3>2. CASE creds'[h][a] # creds[h][a]
      <4>1. h = g /\ \E s \in Stages : Taken(a, s)
        BY <1>2, <3>2
      <4>2. PICK s \in Stages : Taken(a, s)
        BY <4>1
      <4>3. s \in S /\ Belongs(rows[s].payload, s, rows, procs) /\ creds'[h][a].token = rows[s].payload
            /\ rows[s].payload # 0
        BY <1>4, <4>1, <4>2
      <4>4. procs[p].stage # s /\ procs[p].stage \in Stages
        BY <1>0, <1>5, <2>3, <4>3
      <4>5. rows[s].payload = procs[p].row.payload => Belongs(rows[s].payload, procs[p].stage, rows, procs)
        BY <4>3 DEF Belongs
      <4> QED
        BY <1>0, <4>3, <4>4, <4>5 DEF Rest, Apart
    <3> QED
      BY <3>1, <3>2
  <2>4. ASSUME NEW h \in Groups, NEW k \in Groups, NEW a \in Accounts, NEW b \in Accounts,
               creds'[h][a].token # 0, creds'[h][a].token = creds'[k][b].token
        PROVE  h = k /\ a = b
    <3>1. \A i \in Groups, c \in Accounts :
             \/ creds'[i][c] = creds[i][c]
             \/ i = g /\ \E s \in Stages : Taken(c, s)
      BY <1>2
    <3>2. CASE creds'[h][a] = creds[h][a] /\ creds'[k][b] = creds[k][b]
      BY <2>4, <3>2 DEF Rest, Apart
    <3>3. CASE creds'[h][a] = creds[h][a] /\ creds'[k][b] # creds[k][b]
      BY <1>4, <2>4, <3>1, <3>3
    <3>4. CASE creds'[h][a] # creds[h][a] /\ creds'[k][b] = creds[k][b]
      BY <1>4, <2>4, <3>1, <3>4
    <3>5. CASE creds'[h][a] # creds[h][a] /\ creds'[k][b] # creds[k][b]
      <4>1. h = g /\ k = g
        BY <3>1, <3>5
      <4>2. PICK s \in Stages : Taken(a, s)
        BY <3>1, <3>5
      <4>3. PICK t \in Stages : Taken(b, t)
        BY <3>1, <3>5
      <4>4. /\ Belongs(rows[s].payload, s, rows, procs) /\ Belongs(rows[t].payload, t, rows, procs)
            /\ rows[s].payload = rows[t].payload
        BY <1>4, <2>4, <4>1, <4>2, <4>3
      <4>5. s = t
        BY <1>0, <4>4 DEF Rest, Apart
      <4>6. {a} = {b}
        BY <4>2, <4>3, <4>5 DEF Taken
      <4> QED
        BY <4>1, <4>6
    <3> QED
      BY <3>2, <3>3, <3>4, <3>5
  <2> QED
    BY <1>0, <2>1, <2>2, <2>3, <2>4 DEF Apart
<1>11. Erased'
  BY <1>1 DEF Rest, Erased, Terminal
<1> QED
  BY <1>6, <1>7, <1>8, <1>9, <1>10, <1>11, Zenon DEF Rest

\* The records of the handlers, and what is known of one at each point.
HandlerSet ==
  [pc : {"idle", "read", "call", "finish", "mark"}, kind : {"none", "code", "poll", "refresh", "get"},
   stage : Stages, row : Row, at : 0..MaxTime, token : 0..MaxTokens,
   answer : {"none", "ok", "pending", "retry", "denied", "expired", "unknown"}]

KindOK(q) ==
  /\ q.pc = "call" => q.kind \in {"code", "poll", "refresh"}
  /\ q.pc = "finish" => q.answer # "none"
  /\ q.pc = "read" /\ q.kind = "get" => q.row.status \in Live

HandlerKinds == \A p \in Procs : KindOK(procs[p])

\* The inductive invariant of the stages.
StagesInv == TypeOK /\ HandlerKinds /\ Rest /\ OneShot

\* A table without stages does nothing: there is at least one.
StageHyps == StagesAssumption /\ Stages # {}

\* The types of the stages, with the handlers' records named.
LEMMA StageTypes ==
  TypeOK <=>
    /\ rows \in [Stages -> Row]
    /\ creds \in [Groups -> [Accounts -> [auth : {"none", "ready", "reauthorize"}, token : 0..MaxTokens, version : Nat]]]
    /\ procs \in [Procs -> HandlerSet]
    /\ now \in 0..MaxTime /\ issued \in 0..MaxTokens /\ faults \in 0..MaxFaults /\ restarts \in 0..MaxRestarts
    /\ spent \subseteq 1..MaxTokens /\ granted \subseteq Stages
BY Zenon DEF TypeOK, HandlerSet

\* The bounds and the lifetimes are numbers.
LEMMA StageNumbers ==
  ASSUME StageHyps
  PROVE  /\ MaxTime \in Nat /\ MaxTokens \in Nat /\ MaxFaults \in Nat /\ MaxRestarts \in Nat
         /\ AuthTTL \in Nat /\ ReadyTTL \in Nat /\ ExchangeTTL \in Nat /\ Interval \in Nat
BY DEF StageHyps, StagesAssumption

\* A handler that has returned is one of the records.
LEMMA IdleOK ==
  ASSUME StageHyps
  PROVE  NoRow \in Row /\ Idle \in HandlerSet /\ KindOK(Idle)
<1>1. NoRow \in Row
  BY StageNumbers DEF NoRow, Row
<1>2. (CHOOSE s \in Stages : TRUE) \in Stages
  BY DEF StageHyps
<1>3. Idle \in HandlerSet
  BY <1>1, <1>2, StageNumbers DEF Idle, HandlerSet
<1>4. KindOK(Idle)
  BY IdleFacts DEF KindOK
<1> QED
  BY <1>1, <1>3, <1>4

\* Every status of a row.
Statuses == {"none", "deleted"} \cup Live \cup Terminal

\* A row keeps its type when its status, payload, hash and time are set.
LEMMA RowEnds ==
  ASSUME NEW row \in Row, NEW st \in Statuses, NEW x \in 0..MaxTokens, NEW h \in BOOLEAN, NEW u \in 0..MaxTime
  PROVE  [row EXCEPT !.status = st, !.payload = x, !.hash = h, !.updated = u] \in Row
BY ZenonT(40) DEF Row, Statuses

\* A row that ended is still a row.
LEMMA EndedOK ==
  ASSUME StageHyps, NEW row \in Row, NEW status \in Terminal, now \in 0..MaxTime
  PROVE  Ended(row, status) \in Row
<1>1. 0 \in 0..MaxTokens
  BY StageNumbers
<1>2. status \in Statuses
  BY DEF Statuses
<1>3. FALSE \in BOOLEAN
  BY Zenon
<1> QED
  BY <1>1, <1>2, <1>3, RowEnds, Zenon DEF Ended

\* So is one that expired: it ended, and holds no secret.
LEMMA ExpiredFacts ==
  ASSUME StageHyps, NEW row \in Row, now \in 0..MaxTime
  PROVE  LET e == Expired(row) IN
           e \in Row /\ e.status \in Terminal /\ e.payload = 0 /\ ~e.hash
<1> DEFINE st == IF row.status = "exchanging" THEN "unknown" ELSE "expired"
<1>1. st \in Terminal
  BY DEF Terminal
<1> HIDE DEF st
<1>2. Ended(row, st) \in Row
  BY <1>1, EndedOK
<1>3. LET e == Ended(row, st) IN e.status = st /\ e.payload = 0 /\ ~e.hash
  BY EndedFacts
<1>4. Expired(row) = Ended(row, st)
  BY DEF Expired, st
<1> QED
  BY <1>1, <1>2, <1>3, <1>4

\* Only one handler moves in a step of its own.
LEMMA PutHandler ==
  ASSUME TypeOK, HandlerKinds, NEW p \in Procs, NEW n \in HandlerSet, KindOK(n), procs' = [procs EXCEPT ![p] = n]
  PROVE  procs' \in [Procs -> HandlerSet] /\ HandlerKinds'
<1>1. procs \in [Procs -> HandlerSet]
  BY StageTypes, Zenon
<1>2. procs' \in [Procs -> HandlerSet]
  BY <1>1
<1>3. \A q \in Procs : procs'[q] = n \/ procs'[q] = procs[q]
  BY <1>1
<1>4. HandlerKinds'
  BY <1>3, Zenon DEF HandlerKinds
<1> QED
  BY <1>2, <1>4

\* A step of the operator alone, that ends some stages.
LEMMA OperatorStep ==
  ASSUME StageHyps, StagesInv, rows' \in [Stages -> Row],
         \A s \in Stages :
            \/ rows'[s] = rows[s]
            \/ /\ rows'[s].payload = 0 /\ ~rows'[s].hash
               /\ rows'[s].status \in {"deleted"} \cup Terminal
               /\ rows[s].status \in {"consumed", "deleted"} => rows'[s].status \in {"consumed", "deleted"},
         UNCHANGED <<creds, procs, now, issued, faults, restarts, spent, granted, bad>>
  PROVE  StagesInv'
<1>1. TypeOK' /\ HandlerKinds' /\ OneShot'
  BY StageTypes, Zenon DEF StagesInv, HandlerKinds, OneShot, TypeOK, HandlerSet
<1>2. \A g \in Groups, a \in Accounts : creds'[g][a].token = creds[g][a].token
  OBVIOUS
<1>3. Rest'
  BY <1>1, <1>2, QuietStep, Zenon DEF StagesInv
<1> QED
  BY <1>1, <1>3, Zenon DEF StagesInv

\* A step of one handler that ends the stage or nothing, and returns.
LEMMA ReturnStep ==
  ASSUME StageHyps, StagesInv, NEW p \in Procs, NEW n,
         n = Idle \/ (procs[p].pc = "finish" /\ n = [procs[p] EXCEPT !.pc = "mark"]),
         procs' = [procs EXCEPT ![p] = n],
         rows' \in [Stages -> Row],
         \A s \in Stages :
            \/ rows'[s] = rows[s]
            \/ /\ rows'[s].payload = 0 /\ ~rows'[s].hash
               /\ rows'[s].status \in {"deleted"} \cup Terminal
               /\ rows[s].status \in {"consumed", "deleted"} => rows'[s].status \in {"consumed", "deleted"},
         faults' \in 0..MaxFaults,
         OneShot',
         UNCHANGED <<creds, now, issued, restarts, spent, granted>>
  PROVE  StagesInv'
<1>0. procs \in [Procs -> HandlerSet]
  BY StageTypes, Zenon DEF StagesInv
<1>1. n \in HandlerSet /\ KindOK(n)
  <2>1. CASE n = Idle
    BY <2>1, IdleOK, Zenon
  <2>2. CASE n = [procs[p] EXCEPT !.pc = "mark"]
    BY <1>0, <2>2 DEF HandlerSet, KindOK
  <2> QED
    BY <2>1, <2>2
<1>2. procs' \in [Procs -> HandlerSet] /\ HandlerKinds'
  BY <1>1, PutHandler, Zenon DEF StagesInv
<1>3. TypeOK'
  BY <1>2, Zenon DEF StagesInv, TypeOK, HandlerSet
<1>4. \A q \in Procs :
         \/ procs'[q] = procs[q]
         \/ procs'[q] = Idle
         \/ procs[q].pc = "finish" /\ procs'[q] = [procs[q] EXCEPT !.pc = "mark"]
  BY <1>0
<1>5. \A g \in Groups, a \in Accounts : creds'[g][a].token = creds[g][a].token
  OBVIOUS
<1>6. Rest'
  BY <1>3, <1>4, <1>5, QuietStep, Zenon DEF StagesInv
<1> QED
  BY <1>2, <1>3, <1>6, Zenon DEF StagesInv

\* Create keeps the invariant, for each of the rows it is used with.
LEMMA CreateOK ==
  ASSUME StageHyps, StagesInv, NEW s \in Stages, NEW r \in Row, Create(s, r),
         r.status \in {"pending", "ready"}, r.payload = issued + 1
  PROVE  StagesInv'
<1>0. rows \in [Stages -> Row] /\ issued \in 0..MaxTokens
  BY StageTypes, Zenon DEF StagesInv
<1>1. rows' \in [Stages -> Row] /\ issued' \in 0..MaxTokens
  BY <1>0, StageNumbers DEF Create
<1>2. TypeOK' /\ HandlerKinds' /\ OneShot'
  BY <1>1, Zenon DEF StagesInv, HandlerKinds, OneShot, TypeOK, Create
<1>3. Rest'
  BY CreateStep, Zenon DEF StagesInv, Create
<1> QED
  BY <1>2, <1>3, Zenon DEF StagesInv

\* The three ways to create a stage.
LEMMA BeginOK ==
  ASSUME StageHyps, StagesInv, NEW s \in Stages,
         \/ beginBrowserCredentialAuthorization(s) \/ beginDeviceCredentialAuthorization(s)
         \/ \E a \in Accounts : persistReadyCredentialStage(s, a)
  PROVE  StagesInv'
<1>0. now \in 0..MaxTime /\ issued \in 0..MaxTokens
  BY StageTypes, Zenon DEF StagesInv
<1>4. /\ NoRow \in Row /\ "pending" \in Statuses /\ "ready" \in Statuses
      /\ issued < MaxTokens => issued + 1 \in 0..MaxTokens
      /\ now + AuthTTL \in Nat /\ now + ReadyTTL \in Nat /\ now + Interval \in Nat
      /\ TRUE \in BOOLEAN /\ \A a \in Accounts : {a} \in SUBSET Accounts
  BY <1>0, StageNumbers, IdleOK DEF Statuses, Live
<1>1. CASE beginBrowserCredentialAuthorization(s)
  <2> DEFINE r == [NoRow EXCEPT !.status = "pending", !.method = "browser", !.payload = issued + 1,
                               !.hash = TRUE, !.expires = now + AuthTTL, !.updated = now]
  <2>1. Create(s, r) /\ "browser" \in Methods /\ issued < MaxTokens
    BY <1>1, Zenon DEF beginBrowserCredentialAuthorization, Create
  <2>2. r \in Row /\ r.status = "pending" /\ r.payload = issued + 1
    BY <1>0, <1>4, <2>1, Zenon DEF Row, Statuses
  <2> HIDE DEF r
  <2> QED
    BY <2>1, <2>2, CreateOK
<1>2. CASE beginDeviceCredentialAuthorization(s)
  <2> DEFINE r == [NoRow EXCEPT !.status = "pending", !.method = "device", !.payload = issued + 1,
                               !.expires = now + AuthTTL, !.nextPoll = now + Interval, !.updated = now]
  <2>1. Create(s, r) /\ "device" \in Methods /\ issued < MaxTokens
    BY <1>2, Zenon DEF beginDeviceCredentialAuthorization, Create
  <2>2. r \in Row /\ r.status = "pending" /\ r.payload = issued + 1
    BY <1>0, <1>4, <2>1, Zenon DEF Row, Statuses
  <2> HIDE DEF r
  <2> QED
    BY <2>1, <2>2, CreateOK
<1>3. CASE \E a \in Accounts : persistReadyCredentialStage(s, a)
  <2>0. PICK a \in Accounts : persistReadyCredentialStage(s, a)
    BY <1>3
  <2> DEFINE r == [NoRow EXCEPT !.status = "ready", !.method = "file", !.payload = issued + 1,
                               !.account = {a}, !.expires = now + ReadyTTL, !.updated = now]
  <2>1. Create(s, r) /\ "file" \in Methods /\ issued < MaxTokens
    BY <2>0, Zenon DEF persistReadyCredentialStage, Create
  <2>2. r \in Row /\ r.status = "ready" /\ r.payload = issued + 1
    BY <1>0, <1>4, <2>1, Zenon DEF Row, Statuses
  <2> HIDE DEF r
  <2> QED
    BY <2>1, <2>2, CreateOK
<1> QED
  BY <1>1, <1>2, <1>3

\* One stage is ended by the operator.
LEMMA EndOne ==
  ASSUME StageHyps, StagesInv, NEW s \in Stages, NEW status \in Terminal,
         rows[s].status \in {"pending", "ready", "exchanging"},
         rows' = [rows EXCEPT ![s] = Ended(rows[s], status)]
  PROVE  /\ rows' \in [Stages -> Row]
         /\ \A t \in Stages :
              \/ rows'[t] = rows[t]
              \/ /\ rows'[t].payload = 0 /\ ~rows'[t].hash
                 /\ rows'[t].status \in {"deleted"} \cup Terminal
                 /\ rows[t].status \in {"consumed", "deleted"} => rows'[t].status \in {"consumed", "deleted"}
<1>0. rows \in [Stages -> Row] /\ now \in 0..MaxTime
  BY StageTypes, Zenon DEF StagesInv
<1>1. rows[s] \in Row /\ Ended(rows[s], status) \in Row
  BY <1>0, EndedOK
<1>2. LET e == Ended(rows[s], status) IN e.status = status /\ e.payload = 0 /\ ~e.hash
  BY <1>1, EndedFacts
<1>3. rows' \in [Stages -> Row]
  BY <1>0, <1>1
<1>4. rows'[s] = Ended(rows[s], status) /\ \A t \in Stages : t # s => rows'[t] = rows[t]
  BY <1>0
<1>5. rows[s].status \notin {"consumed", "deleted"}
  OBVIOUS
<1> QED
  BY <1>2, <1>3, <1>4, <1>5, Zenon

\* An error callback and a cancellation end the stage.
LEMMA EndingsOK ==
  ASSUME StageHyps, StagesInv, NEW s \in Stages,
         failCredentialAuthorization(s) \/ CancelCredentialStage(s)
  PROVE  StagesInv'
<1>1. CASE failCredentialAuthorization(s)
  <2>1. "failed" \in Terminal
    BY DEF Terminal
  <2>2. rows' = [rows EXCEPT ![s] = Ended(rows[s], "failed")] /\ rows[s].status = "pending"
    BY <1>1, Zenon DEF failCredentialAuthorization
  <2> QED
    BY <1>1, <2>1, <2>2, EndOne, OperatorStep, Zenon DEF failCredentialAuthorization
<1>2. CASE CancelCredentialStage(s)
  <2>1. "cancelled" \in Terminal
    BY DEF Terminal
  <2>2. rows' = [rows EXCEPT ![s] = Ended(rows[s], "cancelled")] /\ rows[s].status \in {"pending", "ready", "exchanging"}
    BY <1>2, Zenon DEF CancelCredentialStage
  <2> QED
    BY <1>2, <2>1, <2>2, EndOne, OperatorStep, Zenon DEF CancelCredentialStage
<1> QED
  BY <1>1, <1>2

\* The cleaner expires stages and removes old ones.
LEMMA CleanupOK ==
  ASSUME StageHyps, StagesInv, CleanupCredentialStages
  PROVE  StagesInv'
<1>0. rows \in [Stages -> Row] /\ now \in 0..MaxTime
  BY StageTypes, Zenon DEF StagesInv
<1>1. /\ Deleted \in Row /\ Deleted.payload = 0 /\ ~Deleted.hash
      /\ Deleted.status = "deleted"
  <2>1. NoRow \in Row /\ NoRow.payload = 0 /\ ~NoRow.hash
    BY IdleOK DEF NoRow
  <2> QED
    BY <2>1 DEF Deleted, Row
<1>2. rows' = [s \in Stages |->
                 IF Late(s) THEN Expired(rows[s])
                 ELSE IF rows[s].status \in Terminal /\ rows[s].updated + TombstoneTTL < now THEN Deleted
                 ELSE rows[s]]
  BY Zenon DEF CleanupCredentialStages
<1>3. ASSUME NEW s \in Stages
      PROVE  /\ rows'[s] \in Row
             /\ \/ rows'[s] = rows[s]
                \/ /\ rows'[s].payload = 0 /\ ~rows'[s].hash
                   /\ rows'[s].status \in {"deleted"} \cup Terminal
                   /\ rows[s].status \in {"consumed", "deleted"} => rows'[s].status \in {"consumed", "deleted"}
  <2>1. rows'[s] = IF Late(s) THEN Expired(rows[s])
                 ELSE IF rows[s].status \in Terminal /\ rows[s].updated + TombstoneTTL < now THEN Deleted
                 ELSE rows[s]
    BY <1>2, Zenon
  <2>2. rows[s] \in Row
    BY <1>0
  <2>3. CASE Late(s)
    <3>1. rows'[s] = Expired(rows[s])
      BY <2>1, <2>3
    <3>2. rows[s].status \notin {"consumed", "deleted"}
      BY <2>3 DEF Late, Live
    <3> QED
      BY <1>0, <2>2, <3>1, <3>2, ExpiredFacts
  <2>4. CASE ~Late(s)
    <3>1. rows'[s] = Deleted \/ rows'[s] = rows[s]
      BY <2>1, <2>4
    <3> QED
      BY <1>1, <2>2, <3>1
  <2> QED
    BY <2>3, <2>4
<1>4. rows' \in [Stages -> Row]
  BY <1>2, <1>3
<1> QED
  BY <1>3, <1>4, OperatorStep, Zenon DEF CleanupCredentialStages

\* A row that is claimed.
LEMMA ExchangingFacts ==
  ASSUME StageHyps, NEW row \in Row, NEW from \in Nat, now \in 0..MaxTime
  PROVE  LET r == Exchanging(row, from) IN
           r \in Row /\ r.status = "exchanging" /\ r.payload = row.payload
<1>1. from + ExchangeTTL \in Nat
  BY StageNumbers
<1>2. "exchanging" \in {"none", "deleted"} \cup Live \cup Terminal
  BY DEF Live
<1> QED
  BY <1>1, <1>2, Zenon DEF Exchanging, Row

\* Rows and handlers put together again.
LEMMA PutBoth ==
  ASSUME StageHyps, StagesInv, NEW p \in Procs, NEW n \in HandlerSet, KindOK(n),
         NEW s \in Stages, NEW r \in Row,
         procs' = [procs EXCEPT ![p] = n],
         rows' = [rows EXCEPT ![s] = r] \/ rows' = rows,
         issued' \in 0..MaxTokens, faults' \in 0..MaxFaults,
         spent' \subseteq 1..MaxTokens, granted' \subseteq Stages,
         UNCHANGED <<creds, now, restarts>>
  PROVE  TypeOK' /\ HandlerKinds'
<1>0. rows \in [Stages -> Row]
  BY StageTypes, Zenon DEF StagesInv
<1>1. rows' \in [Stages -> Row]
  BY <1>0
<1>2. procs' \in [Procs -> HandlerSet] /\ HandlerKinds'
  BY PutHandler, Zenon DEF StagesInv
<1> QED
  BY <1>1, <1>2, Zenon DEF StagesInv, TypeOK, HandlerSet

\* A browser callback finds the stage by its state and claims it.
LEMMA CompleteOK ==
  ASSUME StageHyps, StagesInv, NEW p \in Procs, NEW s \in Stages, CompleteAuthorization(p, s)
  PROVE  StagesInv'
<1> DEFINE n == [Run(p, "code", s) EXCEPT !.pc = "call"]
           r == Exchanging(rows[s], now)
<1>0. /\ rows \in [Stages -> Row] /\ now \in 0..MaxTime /\ issued \in 0..MaxTokens
      /\ faults \in 0..MaxFaults /\ spent \subseteq 1..MaxTokens /\ granted \subseteq Stages
  BY StageTypes, Zenon DEF StagesInv
<1>1. /\ procs' = [procs EXCEPT ![p] = n] /\ rows' = [rows EXCEPT ![s] = r] /\ rows[s].status = "pending"
      /\ UNCHANGED <<creds, now, issued, faults, restarts, spent, granted, bad>>
  BY Zenon DEF CompleteAuthorization, StateMatches
<1>3. rows[s] \in Row /\ now \in Nat
  BY <1>0, StageNumbers
<1>2. /\ n \in HandlerSet /\ n.pc = "call" /\ n.kind = "code" /\ n.stage = s /\ n.row = rows[s]
      /\ n.answer = "none" /\ n.token = 0
  <2>1. Idle \in HandlerSet /\ Idle.answer = "none" /\ Idle.token = 0
    BY IdleOK, IdleFacts, Zenon
  <2> QED
    BY <1>0, <1>3, <2>1, Zenon DEF Run, HandlerSet
<1>4. r \in Row /\ r.status = "exchanging" /\ r.payload = rows[s].payload
  BY <1>0, <1>3, ExchangingFacts, Zenon
<1> HIDE DEF n, r
<1>5. KindOK(n)
  BY <1>2 DEF KindOK
<1>6. TypeOK' /\ HandlerKinds'
  BY <1>0, <1>1, <1>2, <1>4, <1>5, PutBoth, Zenon
<1>7. Rest'
  BY <1>1, <1>2, <1>4, ClaimStep, Zenon DEF StagesInv
<1>8. OneShot'
  BY <1>1, Zenon DEF StagesInv, OneShot
<1> QED
  BY <1>6, <1>7, <1>8, Zenon DEF StagesInv

\* A handler reads the row before it claims or expires it.
LEMMA LoadOK ==
  ASSUME StageHyps, StagesInv, NEW p \in Procs, NEW s \in Stages, NEW kind \in {"poll", "refresh", "get"},
         Load(p, kind, s), kind = "refresh" => rows[s].status = "ready",
         kind = "get" => rows[s].status \in Live
  PROVE  StagesInv'
<1> DEFINE n == [Run(p, kind, s) EXCEPT !.pc = "read"]
<1>0. /\ rows \in [Stages -> Row] /\ now \in 0..MaxTime /\ issued \in 0..MaxTokens
      /\ faults \in 0..MaxFaults /\ spent \subseteq 1..MaxTokens /\ granted \subseteq Stages
  BY StageTypes, Zenon DEF StagesInv
<1>1. /\ procs' = [procs EXCEPT ![p] = n]
      /\ UNCHANGED <<rows, creds, now, issued, faults, restarts, spent, granted, bad>>
  BY Zenon DEF Load
<1>3. rows[s] \in Row
  BY <1>0
<1>2. /\ n \in HandlerSet /\ n.pc = "read" /\ n.kind = kind /\ n.stage = s /\ n.row = rows[s]
      /\ n.answer = "none" /\ n.token = 0
  <2>1. Idle \in HandlerSet /\ Idle.answer = "none" /\ Idle.token = 0
    BY IdleOK, IdleFacts, Zenon
  <2> QED
    BY <1>0, <1>3, <2>1, Zenon DEF Run, HandlerSet
<1> HIDE DEF n
<1>5. KindOK(n)
  BY <1>2 DEF KindOK
<1>6. TypeOK' /\ HandlerKinds'
  BY <1>0, <1>1, <1>2, <1>3, <1>5, PutBoth, Zenon
<1>7. Rest'
  BY <1>1, <1>2, ReadStep, Zenon DEF StagesInv
<1>8. OneShot'
  BY <1>1, Zenon DEF StagesInv, OneShot
<1> QED
  BY <1>6, <1>7, <1>8, Zenon DEF StagesInv

\* Every way a handler starts.
LEMMA StartOK ==
  ASSUME StageHyps, StagesInv, NEW p \in Procs, NEW s \in Stages, Start(p, s)
  PROVE  StagesInv'
<1>1. CASE CompleteAuthorization(p, s)
  BY <1>1, CompleteOK, Zenon
<1>2. CASE LoadPoll(p, s)
  <2>1. Load(p, "poll", s)
    BY <1>2, Zenon DEF LoadPoll
  <2> QED
    BY <2>1, LoadOK
<1>3. CASE LoadRefresh(p, s)
  <2>1. Load(p, "refresh", s) /\ rows[s].status = "ready"
    BY <1>3, Zenon DEF LoadRefresh
  <2> QED
    BY <2>1, LoadOK
<1>4. CASE LoadGet(p, s)
  <2>1. Load(p, "get", s) /\ rows[s].status \in Live
    BY <1>4, Zenon DEF LoadGet
  <2> QED
    BY <2>1, LoadOK
<1> QED
  BY <1>1, <1>2, <1>3, <1>4, Zenon DEF Start

\* The conditional UPDATE to exchanging, or nothing when it finds no row.
LEMMA ClaimOK ==
  ASSUME StageHyps, StagesInv, NEW p \in Procs, Claim(p)
  PROVE  StagesInv'
<1> DEFINE q == procs[p]
           s == q.stage
<1>0. /\ rows \in [Stages -> Row] /\ now \in 0..MaxTime /\ issued \in 0..MaxTokens
      /\ faults \in 0..MaxFaults /\ spent \subseteq 1..MaxTokens /\ granted \subseteq Stages
      /\ procs \in [Procs -> HandlerSet]
  BY StageTypes, Zenon DEF StagesInv
<1>1. q \in HandlerSet /\ s \in Stages /\ rows[s] \in Row /\ q.at \in Nat /\ now \in Nat
  BY <1>0, StageNumbers DEF HandlerSet
<1>2. /\ q.pc = "read" /\ q.kind \in {"poll", "refresh"}
      /\ UNCHANGED <<creds, now, issued, faults, restarts, spent, granted>>
      /\ bad' = bad \/ bad' = bad \cup {"early poll"}
  BY Zenon DEF Claim
<1>3. OneShot'
  BY <1>2, Zenon DEF StagesInv, OneShot
<1>4. CASE Claimable(q)
  <2> DEFINE from == IF q.kind = "poll" THEN q.at ELSE now
             r == Exchanging(rows[s], from)
             n == [q EXCEPT !.pc = "call"]
  <2>1. rows' = [rows EXCEPT ![s] = r] /\ procs' = [procs EXCEPT ![p].pc = "call"]
    BY <1>4, Zenon DEF Claim
  <2>2. procs' = [procs EXCEPT ![p] = n]
    BY <1>0, <2>1
  <2>3. from \in Nat
    BY <1>1
  <2> HIDE DEF from
  <2>4. r \in Row /\ r.status = "exchanging" /\ r.payload = rows[s].payload
    BY <1>0, <1>1, <2>3, ExchangingFacts, Zenon
  <2>5. /\ n \in HandlerSet /\ n.pc = "call" /\ n.kind = q.kind /\ n.stage = s /\ n.row = q.row
        /\ n.answer = q.answer /\ n.token = q.token
    BY <1>1 DEF HandlerSet
  <2>6. \/ n.kind # "refresh" /\ rows[s].status = "pending"
        \/ n.kind = "refresh" /\ rows[s].status = "ready" /\ rows[s].payload = n.row.payload
    BY <1>2, <1>4, <2>5, Zenon DEF Claimable
  <2> HIDE DEF n, r
  <2>7. KindOK(n)
    BY <1>2, <2>5, Zenon DEF KindOK
  <2>8. TypeOK' /\ HandlerKinds'
    BY <1>0, <1>1, <1>2, <2>1, <2>2, <2>4, <2>5, <2>7, PutBoth, Zenon
  <2>9. Rest'
    <3>1. TypeOK /\ Rest
      BY Zenon DEF StagesInv
    <3>2. /\ procs[p].stage = s /\ n.row = procs[p].row
          /\ n.answer = procs[p].answer /\ n.token = procs[p].token
      BY <2>5
    <3> HIDE DEF q, s
    <3> QED
      BY <1>1, <1>2, <2>1, <2>2, <2>4, <2>5, <2>6, <3>1, <3>2, ClaimStep, Zenon
  <2> QED
    BY <1>3, <2>8, <2>9, Zenon DEF StagesInv
<1>5. CASE ~Claimable(q)
  <2>1. procs' = [procs EXCEPT ![p] = Idle] /\ rows' = rows
    BY <1>5, Zenon DEF Claim
  <2> QED
    BY <1>0, <1>2, <1>3, <2>1, ReturnStep, Zenon
<1> QED
  BY <1>4, <1>5

\* The stage that was found expired, or left exchanging, is ended.
LEMMA EndAndReturn ==
  ASSUME StageHyps, StagesInv, NEW p \in Procs, NEW status \in Terminal,
         \/ rows' = rows
         \/ /\ rows' = [rows EXCEPT ![procs[p].stage] = Ended(rows[procs[p].stage], status)]
            /\ rows[procs[p].stage].status \in Live,
         NEW n, n = Idle \/ (procs[p].pc = "finish" /\ n = [procs[p] EXCEPT !.pc = "mark"]),
         procs' = [procs EXCEPT ![p] = n], faults' \in 0..MaxFaults,
         UNCHANGED <<creds, now, issued, restarts, spent, granted, bad>>
  PROVE  StagesInv'
<1>0. rows \in [Stages -> Row] /\ procs[p].stage \in Stages
  BY DEF StagesInv, TypeOK
<1>1. /\ rows' \in [Stages -> Row]
      /\ \A t \in Stages :
              \/ rows'[t] = rows[t]
              \/ /\ rows'[t].payload = 0 /\ ~rows'[t].hash
                 /\ rows'[t].status \in {"deleted"} \cup Terminal
                 /\ rows[t].status \in {"consumed", "deleted"} => rows'[t].status \in {"consumed", "deleted"}
  <2>1. CASE rows' = rows
    BY <1>0, <2>1, Zenon
  <2>2. CASE /\ rows' = [rows EXCEPT ![procs[p].stage] = Ended(rows[procs[p].stage], status)]
             /\ rows[procs[p].stage].status \in Live
    <3>1. rows[procs[p].stage].status \in {"pending", "ready", "exchanging"}
      BY <2>2 DEF Live
    <3> QED
      BY <1>0, <2>2, <3>1, EndOne, Zenon
  <2> QED
    BY <2>1, <2>2
<1>2. OneShot'
  BY Zenon DEF StagesInv, OneShot
<1> QED
  BY <1>1, <1>2, ReturnStep, Zenon

\* expireCredentialStage and markCredentialStageOutcomeUnknown.
LEMMA ExpireMarkOK ==
  ASSUME StageHyps, StagesInv, NEW p \in Procs, ExpireRead(p) \/ Mark(p)
  PROVE  StagesInv'
<1>0. faults \in 0..MaxFaults
  BY StageTypes, Zenon DEF StagesInv
<1>1. CASE ExpireRead(p)
  <2> DEFINE row == rows[procs[p].stage]
             st == IF row.status = "exchanging" THEN "unknown" ELSE "expired"
  <2>1. /\ procs[p].pc = "read" /\ procs[p].kind = "get"
        /\ procs' = [procs EXCEPT ![p] = Idle]
        /\ UNCHANGED <<creds, now, issued, faults, restarts, spent, granted, bad>>
    BY <1>1, Zenon DEF ExpireRead
  <2>2. rows' = IF row.status = procs[p].row.status
                THEN [rows EXCEPT ![procs[p].stage] = Ended(row, st)] ELSE rows
    BY <1>1, Zenon DEF ExpireRead, Expired
  <2>3. procs[p].row.status \in Live
    BY <2>1 DEF StagesInv, HandlerKinds, KindOK
  <2>4. st \in Terminal
    BY DEF Terminal
  <2>5. \/ rows' = rows
        \/ rows' = [rows EXCEPT ![procs[p].stage] = Ended(row, st)] /\ row.status \in Live
    BY <2>2, <2>3
  <2> HIDE DEF st
  <2> QED
    BY <1>0, <2>1, <2>4, <2>5, EndAndReturn, Zenon
<1>2. CASE Mark(p)
  <2>1. /\ procs' = [procs EXCEPT ![p] = Idle]
        /\ UNCHANGED <<creds, now, issued, faults, restarts, spent, granted, bad>>
        /\ \/ rows' = rows
           \/ /\ rows' = [rows EXCEPT ![procs[p].stage] = Ended(rows[procs[p].stage], "unknown")]
              /\ rows[procs[p].stage].status = "exchanging"
    BY <1>2, Zenon DEF Mark
  <2>2. "unknown" \in Terminal /\ "exchanging" \in Live
    BY DEF Terminal, Live
  <2> QED
    BY <1>0, <2>1, <2>2, EndAndReturn, Zenon
<1> QED
  BY <1>1, <1>2

\* The call to the provider: nothing it is given was answered or redeemed before.
LEMMA ProviderCallOK ==
  ASSUME StageHyps, StagesInv, NEW p \in Procs, Call(p)
  PROVE  StagesInv'
<1> DEFINE q == procs[p]
<1>0. /\ rows \in [Stages -> Row] /\ issued \in 0..MaxTokens
      /\ faults \in 0..MaxFaults /\ spent \subseteq 1..MaxTokens /\ granted \subseteq Stages
      /\ procs \in [Procs -> HandlerSet]
  BY StageTypes, Zenon DEF StagesInv
<1>1. q \in HandlerSet /\ q.stage \in Stages /\ q.row.payload \in 0..MaxTokens /\ rows[q.stage] \in Row
  BY <1>0 DEF HandlerSet, Row
<1>2. /\ q.pc = "call" /\ q.kind \in {"code", "poll", "refresh"}
      /\ UNCHANGED <<rows, creds, now, faults, restarts>>
  BY Zenon DEF Call, StagesInv, HandlerKinds, KindOK
<1>3. PICK answer \in Answers(q.kind), keep \in BOOLEAN :
         /\ keep => answer = "pending"
         /\ answer \in {"ok", "pending"} /\ ~keep => issued < MaxTokens
         /\ issued' = IF answer \in {"ok", "pending"} /\ ~keep THEN issued + 1 ELSE issued
         /\ procs' = [procs EXCEPT ![p].pc = "finish", ![p].answer = answer,
                                   ![p].token = IF keep THEN q.row.payload ELSE issued']
         /\ spent' = IF q.kind = "refresh" /\ answer # "retry" THEN spent \cup {q.row.payload} ELSE spent
         /\ granted' = IF q.kind # "refresh" /\ answer # "pending" THEN granted \cup {q.stage} ELSE granted
  BY Zenon DEF Call
<1> DEFINE token == IF keep THEN q.row.payload ELSE issued'
           n == [q EXCEPT !.pc = "finish", !.answer = answer, !.token = token]
<1>4. /\ answer \in {"ok", "pending", "retry", "denied", "expired", "unknown"}
      /\ answer = "pending" => q.kind # "refresh"
      /\ answer = "retry" => q.kind = "refresh"
  BY <1>2 DEF Answers
<1>5. issued' \in {issued, issued + 1} /\ issued' \in 0..MaxTokens
  BY <1>0, <1>3, StageNumbers
<1>6. procs' = [procs EXCEPT ![p] = n]
  BY <1>0, <1>3, Zenon
<1>7. /\ token \in 0..MaxTokens /\ token <= issued'
      /\ answer = "ok" => token = issued + 1
      /\ answer = "pending" => token = issued + 1 \/ token = q.row.payload
  <2>1. q.row.payload <= issued
    BY DEF StagesInv, Rest, Minted
  <2>2. CASE keep
    <3>1. token = q.row.payload /\ answer = "pending"
      BY <1>3, <2>2
    <3> QED
      BY <1>0, <1>1, <1>5, <2>1, <3>1
  <2>3. CASE ~keep
    <3>1. token = issued'
      BY <2>3
    <3>2. answer \in {"ok", "pending"} => issued' = issued + 1
      BY <1>3, <2>3
    <3> QED
      BY <1>0, <1>5, <3>1, <3>2
  <2> QED
    BY <2>2, <2>3
<1> HIDE DEF token
<1>8. /\ n \in HandlerSet /\ n.pc = "finish" /\ n.stage = q.stage /\ n.kind = q.kind /\ n.row = q.row
      /\ n.answer = answer /\ n.token = token
  BY <1>1, <1>4, <1>7, Zenon DEF HandlerSet
<1> HIDE DEF n
<1>9. KindOK(n)
  BY <1>4, <1>8 DEF KindOK
<1>10. HandlerOK(q, rows, spent) /\ (q.kind = "refresh" => q.row.payload # 0)
  BY DEF StagesInv, Rest, Unspent, HandlerOK
<1>11. spent' \subseteq 1..MaxTokens
  <2>1. q.kind = "refresh" => q.row.payload \in 1..MaxTokens
    BY <1>1, <1>10, StageNumbers
  <2> QED
    BY <1>0, <1>3, <2>1
<1>12. granted' \subseteq Stages
  BY <1>0, <1>1, <1>3, Zenon
<1>13. TypeOK' /\ HandlerKinds'
  <2>1. rows' = rows
    BY <1>2
  <2> HIDE DEF q
  <2> QED
    BY <1>0, <1>1, <1>2, <1>5, <1>6, <1>8, <1>9, <1>11, <1>12, <2>1, PutBoth, Zenon
<1>14. Rest'
  <2>1. TypeOK /\ Rest
    BY Zenon DEF StagesInv
  <2>2. token \in Nat
    BY <1>7, StageNumbers
  <2>3. /\ spent' = IF n.kind = "refresh" /\ n.answer # "retry" THEN spent \cup {n.row.payload} ELSE spent
        /\ granted' = IF n.kind # "refresh" /\ n.answer # "pending" THEN granted \cup {n.stage} ELSE granted
    BY <1>3, <1>8, Zenon
  <2>4. /\ n.stage = procs[p].stage /\ n.kind = procs[p].kind /\ n.row = procs[p].row
        /\ n.answer = "pending" => n.kind # "refresh"
        /\ n.answer = "retry" => n.kind = "refresh"
        /\ n.token \in Nat /\ n.token <= issued'
        /\ n.answer = "ok" => n.token = issued + 1
        /\ n.answer = "pending" => n.token = issued + 1 \/ n.token = n.row.payload
        /\ n.pc = "finish" /\ procs[p].pc = "call" /\ rows' = rows /\ creds' = creds
    BY <1>2, <1>4, <1>7, <1>8, <2>2
  <2> QED
    BY <1>5, <1>6, <2>1, <2>3, <2>4, CallStep, Zenon
<1>15. OneShot'
  <2>1. /\ q.kind # "refresh" => q.stage \notin granted
        /\ q.kind = "refresh" => q.row.payload \notin spent
    BY <1>2, <1>10 DEF StagesInv, Rest, Answered, HandlerOK
  <2>2. bad' = bad
    BY <2>1, Zenon DEF Call
  <2> QED
    BY <2>2, Zenon DEF StagesInv, OneShot
<1> QED
  BY <1>13, <1>14, <1>15, Zenon DEF StagesInv

\* The row an outcome is stored in.
LEMMA FinishedFacts ==
  ASSUME StageHyps, NEW q \in HandlerSet, q.answer # "none", NEW row \in Row, NEW a \in Accounts,
         now \in 0..MaxTime
  PROVE  /\ q.answer = "denied" => Finished(q, row, a) = Ended(row, "failed")
         /\ q.answer = "expired" => Finished(q, row, a) = Ended(row, "expired")
         /\ q.answer = "unknown" => Finished(q, row, a) = Ended(row, "unknown")
         /\ q.answer \in {"ok", "pending", "retry"} =>
              /\ Finished(q, row, a) \in Row
              /\ Finished(q, row, a).status = IF q.answer = "pending" THEN "pending" ELSE "ready"
              /\ Finished(q, row, a).payload = IF q.answer = "retry" THEN row.payload ELSE q.token
<1>1. /\ q.token \in 0..MaxTokens /\ q.row.expires \in Nat /\ now + ReadyTTL \in Nat /\ now + Interval \in Nat
      /\ {a} \in SUBSET Accounts
  BY StageNumbers DEF HandlerSet, Row
<1>2. "ready" \in Live /\ "pending" \in Live
  BY DEF Live
<1>3. CASE q.answer = "ok" /\ q.kind # "refresh"
  <2>1. Finished(q, row, a) =
          [row EXCEPT !.status = "ready", !.payload = q.token, !.account = {a}, !.expires = now + ReadyTTL, !.updated = now]
    BY <1>3, Zenon DEF Finished
  <2> QED
    BY <1>1, <1>2, <1>3, <2>1, ZenonT(40) DEF Row
<1>4. CASE q.answer = "ok" /\ q.kind = "refresh"
  <2>1. Finished(q, row, a) =
          [row EXCEPT !.status = "ready", !.payload = q.token, !.expires = q.row.expires, !.updated = now]
    BY <1>4, Zenon DEF Finished
  <2> QED
    BY <1>1, <1>2, <1>4, <2>1, Zenon DEF Row
<1>5. CASE q.answer = "pending"
  <2>1. Finished(q, row, a) =
          [row EXCEPT !.status = "pending", !.payload = q.token, !.expires = q.row.expires,
                         !.nextPoll = now + Interval, !.updated = now]
    BY <1>5, Zenon DEF Finished
  <2> QED
    BY <1>1, <1>2, <1>5, <2>1, Zenon DEF Row
<1>6. CASE q.answer = "retry"
  <2>1. Finished(q, row, a) = [row EXCEPT !.status = "ready", !.expires = q.row.expires, !.updated = now]
    BY <1>6, Zenon DEF Finished
  <2> QED
    BY <1>1, <1>2, <1>6, <2>1, Zenon DEF Row
<1>7. CASE q.answer \in {"denied", "expired", "unknown"}
  <2>1. q.answer = "denied" => Finished(q, row, a) = Ended(row, "failed")
    BY Zenon DEF Finished
  <2>2. q.answer = "expired" => Finished(q, row, a) = Ended(row, "expired")
    BY Zenon DEF Finished
  <2>3. q.answer = "unknown" => Finished(q, row, a) = Ended(row, "unknown")
    BY Zenon DEF Finished
  <2> QED
    BY <1>7, <2>1, <2>2, <2>3
<1> QED
  BY <1>3, <1>4, <1>5, <1>6, <1>7 DEF HandlerSet

\* The outcome is stored if the stage is still owned, or the statement fails.
LEMMA FinishOK ==
  ASSUME StageHyps, StagesInv, NEW p \in Procs, Finish(p)
  PROVE  StagesInv'
<1> DEFINE q == procs[p]
           s == q.stage
<1>0. /\ rows \in [Stages -> Row] /\ now \in 0..MaxTime /\ issued \in 0..MaxTokens
      /\ faults \in 0..MaxFaults /\ spent \subseteq 1..MaxTokens /\ granted \subseteq Stages
      /\ procs \in [Procs -> HandlerSet]
  BY StageTypes, Zenon DEF StagesInv
<1>1. q \in HandlerSet /\ s \in Stages /\ rows[s] \in Row
  BY <1>0 DEF HandlerSet
<1>2. /\ q.pc = "finish" /\ q.answer # "none"
      /\ UNCHANGED <<creds, now, issued, restarts, spent, granted, bad>>
  BY DEF Finish, StagesInv, HandlerKinds, KindOK
<1>3. PICK n : /\ n = Idle \/ n = [q EXCEPT !.pc = "mark"]
               /\ procs' = [procs EXCEPT ![p] = n]
  BY Zenon DEF Finish
<1>4. faults' \in 0..MaxFaults
  <2>1. faults' = faults \/ (faults < MaxFaults /\ faults' = faults + 1)
    BY Zenon DEF Finish
  <2> QED
    BY <1>0, <2>1, StageNumbers
<1>5. \/ rows' = rows
      \/ \E a \in Accounts : rows' = [rows EXCEPT ![s] = Finished(q, rows[s], a)] /\ rows[s].status = "exchanging"
  BY Zenon DEF Finish, Owned
<1>6. CASE rows' = rows
  <2>1. "unknown" \in Terminal
    BY DEF Terminal
  <2> QED
    BY <1>2, <1>3, <1>4, <1>6, <2>1, EndAndReturn, Zenon
<1>7. CASE \E a \in Accounts : rows' = [rows EXCEPT ![s] = Finished(q, rows[s], a)] /\ rows[s].status = "exchanging"
  <2>1. PICK a \in Accounts : rows' = [rows EXCEPT ![s] = Finished(q, rows[s], a)] /\ rows[s].status = "exchanging"
    BY <1>7, Zenon
  <2>2. CASE q.answer \in {"denied", "expired", "unknown"}
    <3>1. \E st \in Terminal : Finished(q, rows[s], a) = Ended(rows[s], st)
      BY <1>0, <1>1, <1>2, <2>2, FinishedFacts DEF Terminal
    <3>2. PICK st \in Terminal : Finished(q, rows[s], a) = Ended(rows[s], st)
      BY <3>1
    <3>3. rows' = [rows EXCEPT ![s] = Ended(rows[s], st)] /\ rows[s].status \in Live
      BY <2>1, <3>2 DEF Live
    <3> QED
      BY <1>2, <1>3, <1>4, <3>3, EndAndReturn, ZenonT(40)
  <2>3. CASE q.answer \in {"ok", "pending", "retry"}
    <3> DEFINE r == Finished(q, rows[s], a)
    <3>1. /\ r \in Row
          /\ r.status = IF q.answer = "pending" THEN "pending" ELSE "ready"
          /\ r.payload = IF q.answer = "retry" THEN rows[s].payload ELSE q.token
      BY <1>0, <1>1, <1>2, <2>3, FinishedFacts, Zenon
    <3> HIDE DEF r
    <3>2. n \in HandlerSet /\ KindOK(n)
      <4>1. CASE n = Idle
        BY <4>1, IdleOK, Zenon
      <4>2. CASE n = [q EXCEPT !.pc = "mark"]
        BY <1>1, <4>2 DEF HandlerSet, KindOK
      <4> QED
        BY <1>3, <4>1, <4>2
    <3>3. rows' = [rows EXCEPT ![s] = r]
      BY <2>1 DEF r
    <3>4. TypeOK' /\ HandlerKinds'
      BY <1>0, <1>1, <1>2, <1>3, <1>4, <3>1, <3>2, <3>3, PutBoth, Zenon
    <3>5. Rest'
      <4>1. TypeOK /\ Rest
        BY Zenon DEF StagesInv
      <4>2. \/ procs[p].answer = "ok" /\ r.status = "ready" /\ r.payload = procs[p].token
            \/ procs[p].answer = "pending" /\ r.status = "pending" /\ r.payload = procs[p].token
            \/ procs[p].answer = "retry" /\ r.status = "ready" /\ r.payload = rows[procs[p].stage].payload
        BY <2>3, <3>1
      <4> QED
        BY <1>2, <1>3, <2>1, <3>3, <4>1, <4>2, StoreOutcomeStep, Zenon
    <3>6. OneShot'
      BY <1>2, Zenon DEF StagesInv, OneShot
    <3> QED
      BY <3>4, <3>5, <3>6, Zenon DEF StagesInv
  <2> QED
    BY <1>1, <1>2, <2>2, <2>3 DEF HandlerSet
<1> QED
  BY <1>5, <1>6, <1>7

\* The credential of an account in a group.
Credential == [auth : {"none", "ready", "reauthorize"}, token : 0..MaxTokens, version : Nat]

\* consumeCredentialStages, one transaction.
LEMMA ConsumeOK ==
  ASSUME StageHyps, StagesInv, NEW S \in SUBSET Stages, NEW g \in Groups, consumeCredentialStages(S, g)
  PROVE  StagesInv'
<1>0. /\ rows \in [Stages -> Row] /\ now \in 0..MaxTime
      /\ creds \in [Groups -> [Accounts -> Credential]]
  BY StageTypes, Zenon DEF StagesInv, Credential
<1>1. rows' \in [Stages -> Row]
  <2>1. "consumed" \in Terminal
    BY DEF Terminal
  <2>2. \A s \in Stages : rows[s] \in Row /\ Ended(rows[s], "consumed") \in Row
    BY <1>0, <2>1, EndedOK
  <2>3. rows' = [s \in Stages |-> IF s \in S THEN Ended(rows[s], "consumed") ELSE rows[s]]
    BY Zenon DEF consumeCredentialStages, Consumed
  <2> QED
    BY <2>2, <2>3
<1>2. creds' \in [Groups -> [Accounts -> Credential]]
  <2> DEFINE takes(a, s) == rows[s].account = {a} /\ Takes(S, s, g)
             made(a) == [auth |-> "ready", version |-> creds[g][a].version + 1,
                         token |-> rows[CHOOSE s \in S : takes(a, s)].payload]
             put == [a \in Accounts |-> IF \E s \in S : takes(a, s) THEN made(a) ELSE creds[g][a]]
  <2>1. creds' = [creds EXCEPT ![g] = put]
    BY Zenon DEF consumeCredentialStages
  <2> HIDE DEF takes
  <2>2. ASSUME NEW a \in Accounts, \E s \in S : takes(a, s)
        PROVE  made(a) \in Credential
    <3>1. (CHOOSE s \in S : takes(a, s)) \in Stages
      BY <2>2
    <3>2. rows[CHOOSE s \in S : takes(a, s)].payload \in 0..MaxTokens
      BY <1>0, <3>1 DEF Row
    <3>3. creds[g][a].version + 1 \in Nat
      BY <1>0 DEF Credential
    <3> QED
      BY <3>2, <3>3 DEF Credential
  <2> HIDE DEF made
  <2>3. \A a \in Accounts : creds[g][a] \in Credential
    BY <1>0
  <2>4. put \in [Accounts -> Credential]
    BY <2>2, <2>3
  <2> QED
    BY <1>0, <2>1, <2>4
<1>3. TypeOK' /\ HandlerKinds' /\ OneShot'
  BY <1>1, <1>2, Zenon
     DEF StagesInv, HandlerKinds, OneShot, TypeOK, consumeCredentialStages, Credential
<1>4. Rest'
  BY ConsumeStep, Zenon DEF StagesInv
<1> QED
  BY <1>3, <1>4, Zenon DEF StagesInv

\* A credential stops working.
LEMMA ReauthorizeOK ==
  ASSUME StageHyps, StagesInv, NEW g \in Groups, NEW a \in Accounts, NeedsReauthorization(g, a)
  PROVE  StagesInv'
<1>0. creds \in [Groups -> [Accounts -> Credential]]
  BY StageTypes, Zenon DEF StagesInv, Credential
<1>1. /\ creds' = [creds EXCEPT ![g][a].auth = "reauthorize"]
      /\ UNCHANGED <<rows, procs, now, issued, faults, restarts, spent, granted, bad>>
  BY Zenon DEF NeedsReauthorization
<1>2. /\ creds' \in [Groups -> [Accounts -> Credential]]
      /\ \A h \in Groups, b \in Accounts : creds'[h][b].token = creds[h][b].token
  <2> DEFINE c == [creds[g][a] EXCEPT !.auth = "reauthorize"]
             f == [creds[g] EXCEPT ![a] = c]
  <2>1. creds[g] \in [Accounts -> Credential] /\ creds[g][a] \in Credential
    BY <1>0
  <2>2. c \in Credential /\ c.token = creds[g][a].token
    BY <2>1 DEF Credential
  <2>3. creds' = [creds EXCEPT ![g] = f]
    BY <1>1
  <2> HIDE DEF c
  <2>4. f \in [Accounts -> Credential] /\ \A b \in Accounts : f[b].token = creds[g][b].token
    BY <2>1, <2>2
  <2> HIDE DEF f
  <2> QED
    BY <1>0, <2>3, <2>4
<1>3. TypeOK' /\ HandlerKinds' /\ OneShot'
  BY <1>1, <1>2, Zenon DEF StagesInv, HandlerKinds, OneShot, TypeOK, Credential
<1>4. Rest'
  BY <1>1, <1>2, <1>3, QuietStep, Zenon DEF StagesInv
<1> QED
  BY <1>3, <1>4, Zenon DEF StagesInv

\* A restart drops the handlers and ends what was under way.
LEMMA RestartedOK ==
  ASSUME StageHyps, StagesInv, Restart
  PROVE  StagesInv'
<1>0. rows \in [Stages -> Row] /\ now \in 0..MaxTime /\ restarts \in 0..MaxRestarts
  BY StageTypes, Zenon DEF StagesInv
<1>1. /\ procs' = [p \in Procs |-> Idle]
      /\ rows' = [s \in Stages |-> Restarted(rows[s])]
      /\ restarts < MaxRestarts /\ restarts' = restarts + 1
      /\ UNCHANGED <<creds, now, issued, faults, spent, granted, bad>>
  BY Zenon DEF Restart
<1>2. ASSUME NEW s \in Stages
      PROVE  /\ rows'[s] \in Row
             /\ \/ rows'[s] = rows[s]
                \/ /\ rows'[s].payload = 0 /\ ~rows'[s].hash
                   /\ rows'[s].status \in {"deleted"} \cup Terminal
                   /\ rows[s].status \in {"consumed", "deleted"} => rows'[s].status \in {"consumed", "deleted"}
  <2>1. rows[s] \in Row /\ "unknown" \in Terminal
    BY <1>0 DEF Terminal
  <2>2. rows'[s] = IF rows[s].status = "exchanging" THEN Ended(rows[s], "unknown") ELSE rows[s]
    BY <1>1, Zenon DEF Restarted
  <2>3. Ended(rows[s], "unknown") \in Row
    BY <1>0, <2>1, EndedOK
  <2>4. LET e == Ended(rows[s], "unknown") IN e.status = "unknown" /\ e.payload = 0 /\ ~e.hash
    BY <2>1, EndedFacts
  <2>5. CASE rows[s].status = "exchanging"
    BY <2>1, <2>2, <2>3, <2>4, <2>5
  <2>6. CASE rows[s].status # "exchanging"
    BY <2>1, <2>2, <2>6
  <2> QED
    BY <2>5, <2>6
<1>3. rows' \in [Stages -> Row]
  BY <1>1, <1>2
<1>4. procs' \in [Procs -> HandlerSet] /\ HandlerKinds' /\ \A p \in Procs : procs'[p] = Idle
  BY <1>1, IdleOK, Zenon DEF HandlerKinds
<1>5. restarts' \in 0..MaxRestarts
  BY <1>0, <1>1, StageNumbers
<1>6. TypeOK' /\ OneShot'
  BY <1>1, <1>3, <1>4, <1>5, Zenon DEF StagesInv, OneShot, TypeOK, HandlerSet
<1>7. \A g \in Groups, a \in Accounts : creds'[g][a].token = creds[g][a].token
  BY <1>1
<1>8. Rest'
  BY <1>1, <1>2, <1>4, <1>6, <1>7, QuietStep, Zenon DEF StagesInv
<1> QED
  BY <1>4, <1>6, <1>8, Zenon DEF StagesInv

\* Time passes.
LEMMA TickOK ==
  ASSUME StageHyps, StagesInv, Tick
  PROVE  StagesInv'
<1>0. now \in 0..MaxTime
  BY StageTypes, Zenon DEF StagesInv
<1>1. now' \in 0..MaxTime
  BY <1>0, StageNumbers DEF Tick
<1>2. UNCHANGED <<rows, creds, procs, issued, faults, restarts, spent, granted, bad>>
  BY Zenon DEF Tick
<1>3. TypeOK' /\ HandlerKinds' /\ OneShot'
  BY <1>1, <1>2, Zenon DEF StagesInv, HandlerKinds, OneShot, TypeOK
<1>4. Rest'
  BY <1>2, <1>3, QuietStep, Zenon DEF StagesInv
<1> QED
  BY <1>3, <1>4, Zenon DEF StagesInv

\* The table is empty at first.
LEMMA StagesInit ==
  ASSUME StageHyps, Init
  PROVE  StagesInv
<1>1. /\ rows = [s \in Stages |-> NoRow] /\ procs = [p \in Procs |-> Idle]
      /\ creds = [g \in Groups |-> [a \in Accounts |-> NoCred]]
      /\ now = 0 /\ issued = 0 /\ faults = 0 /\ restarts = 0
      /\ spent = {} /\ granted = {} /\ bad = {}
  BY Zenon DEF Init
<1>2. /\ \A s \in Stages : rows[s] = NoRow
      /\ \A p \in Procs : procs[p] = Idle
      /\ \A g \in Groups, a \in Accounts : creds[g][a] = NoCred
  BY <1>1, Zenon
<1>3. /\ NoRow.status = "none" /\ NoRow.payload = 0 /\ ~NoRow.hash
      /\ NoCred.token = 0
      /\ NoCred \in [auth : {"none", "ready", "reauthorize"}, token : 0..MaxTokens, version : Nat]
  BY StageNumbers DEF NoRow, NoCred
<1>4. TypeOK /\ HandlerKinds
  <2>1. rows \in [Stages -> Row] /\ procs \in [Procs -> HandlerSet] /\ HandlerKinds
    BY <1>1, <1>2, IdleOK, Zenon DEF HandlerKinds
  <2>2. creds \in [Groups -> [Accounts -> [auth : {"none", "ready", "reauthorize"}, token : 0..MaxTokens, version : Nat]]]
    BY <1>1, <1>3, Zenon
  <2>3. /\ now \in 0..MaxTime /\ issued \in 0..MaxTokens /\ faults \in 0..MaxFaults /\ restarts \in 0..MaxRestarts
        /\ spent \subseteq 1..MaxTokens /\ granted \subseteq Stages
    BY <1>1, StageNumbers
  <2> QED
    BY <2>1, <2>2, <2>3, StageTypes, Zenon
<1>5. Minted
  BY <1>1, <1>2, <1>3, IdleFacts DEF Minted
<1>6. ClaimedOnce /\ Answered
  BY <1>1, <1>2, IdleFacts DEF ClaimedOnce, Answered, Claims
<1>7. Unspent
  <2>1. \A p \in Procs : HandlerOK(procs[p], rows, spent)
    BY <1>2, IdleFacts, Zenon DEF HandlerOK
  <2> QED
    BY <1>1, <1>2, <1>3, <2>1, Zenon DEF Unspent
<1>8. Apart
  <2>2. ASSUME NEW x, NEW s \in Stages
        PROVE  ~Belongs(x, s, rows, procs)
    BY <1>2, <1>3, IdleFacts DEF Belongs
  <2> QED
    BY <1>2, <1>3, <2>2, IdleFacts DEF Apart
<1>9. Erased
  BY <1>2, <1>3 DEF Erased
<1>10. OneShot
  BY <1>1 DEF OneShot
<1> QED
  BY <1>4, <1>5, <1>6, <1>7, <1>8, <1>9, <1>10, Zenon DEF StagesInv, Rest

\* Every step keeps the invariant.
LEMMA StagesNext ==
  ASSUME StageHyps, StagesInv, [Next]_vars
  PROVE  StagesInv'
<1>1. CASE \E s \in Stages :
              \/ beginBrowserCredentialAuthorization(s) \/ beginDeviceCredentialAuthorization(s)
              \/ \E a \in Accounts : persistReadyCredentialStage(s, a)
  BY <1>1, BeginOK, Zenon
<1>2. CASE \E s \in Stages : failCredentialAuthorization(s) \/ CancelCredentialStage(s)
  BY <1>2, EndingsOK, Zenon
<1>3. CASE CleanupCredentialStages
  BY <1>3, CleanupOK, Zenon
<1>4. CASE \E p \in Procs : Handler(p)
  <2>1. PICK p \in Procs : Handler(p)
    BY <1>4, Zenon
  <2> QED
    BY <2>1, ClaimOK, ExpireMarkOK, ProviderCallOK, FinishOK, Zenon DEF Handler
<1>5. CASE \E p \in Procs, s \in Stages : Start(p, s)
  BY <1>5, StartOK, Zenon
<1>6. CASE \E S \in SUBSET Stages \ {{}}, g \in Groups : consumeCredentialStages(S, g)
  <2>1. PICK S \in SUBSET Stages, g \in Groups : consumeCredentialStages(S, g)
    BY <1>6
  <2> QED
    BY <2>1, ConsumeOK, Zenon
<1>7. CASE \E g \in Groups, a \in Accounts : NeedsReauthorization(g, a)
  BY <1>7, ReauthorizeOK, Zenon
<1>8. CASE Restart \/ Tick
  BY <1>8, RestartedOK, TickOK, Zenon
<1>9. CASE UNCHANGED vars
  <2>1. UNCHANGED <<rows, creds, procs, now, issued, faults, restarts, spent, granted, bad>>
    BY <1>9, Zenon DEF vars
  <2>2. TypeOK' /\ HandlerKinds' /\ OneShot'
    BY <2>1, Zenon DEF StagesInv, HandlerKinds, OneShot, TypeOK
  <2>3. Rest'
    BY <2>1, <2>2, QuietStep, Zenon DEF StagesInv
  <2> QED
    BY <2>2, <2>3, Zenon DEF StagesInv
<1> QED
  BY <1>1, <1>2, <1>3, <1>4, <1>5, <1>6, <1>7, <1>8, <1>9, Zenon DEF Next

\* The stages keep their types, tokens stay apart, handlers own what they
\* claimed: credential_stages.go's conditional updates, whatever handlers
\* overlap, fail or are cut off by a restart.
THEOREM StagesInvariance ==
  ASSUME StageHyps
  PROVE  Spec => []StagesInv
<1>1. Init => StagesInv
  BY StagesInit
<1>2. StagesInv /\ [Next]_vars => StagesInv'
  BY StagesNext
<1> QED
  BY <1>1, <1>2, PTL DEF Spec

\* No browser code or answered device authorization is presented to the
\* provider again, and no refresh token that was redeemed is redeemed again:
\* for any number of stages, handlers, failing statements and restarts.
THEOREM GrantsAreOneShot ==
  ASSUME StageHyps
  PROVE  Spec => []OneShot
<1>1. StagesInv => OneShot
  BY Zenon DEF StagesInv
<1> QED
  BY <1>1, StagesInvariance, PTL

\* What connecting finds ready holds a token the provider has not taken back,
\* and so does every credential made from a stage: a discovery that refreshes
\* the token of a stage never leaves the old one to be consumed.
THEOREM StagedTokensAreUnspent ==
  ASSUME StageHyps
  PROVE  Spec => []ReadyIsUnspent
<1>1. StagesInv => ReadyIsUnspent
  BY Zenon DEF StagesInv, Rest, Unspent, ReadyIsUnspent
<1> QED
  BY <1>1, StagesInvariance, PTL

\* A token is staged once or belongs to one credential, never both, and the
\* secrets of a stage go with its end (consumeCredentialStages, the failures,
\* the cleaner and the restart).
THEOREM TokensHaveOnePlace ==
  ASSUME StageHyps
  PROVE  Spec => [](TokensAreNotShared /\ EndedIsEmpty)
<1>1. ASSUME StagesInv PROVE TokensAreNotShared
  <2>0. \A s \in Stages : rows[s].payload \in Nat
    BY <1>1 DEF StagesInv, TypeOK, Row
  <2>1. \A s \in Stages : rows[s].payload # 0 => Belongs(rows[s].payload, s, rows, procs)
    BY Zenon DEF Belongs
  <2>2. \A s, t \in Stages : s # t /\ rows[s].payload # 0 => rows[s].payload # rows[t].payload
    BY <1>1, <2>0, <2>1, Zenon DEF StagesInv, Rest, Apart
  <2>3. \A s \in Stages, g \in Groups, a \in Accounts : rows[s].payload # 0 => rows[s].payload # creds[g][a].token
    BY <1>1, <2>1, Zenon DEF StagesInv, Rest, Apart, Erased, Terminal
  <2>4. \A g, h \in Groups, a, b \in Accounts :
          <<g, a>> # <<h, b>> /\ creds[g][a].token # 0 => creds[g][a].token # creds[h][b].token
    BY <1>1 DEF StagesInv, Rest, Apart
  <2> QED
    BY <2>2, <2>3, <2>4, Zenon DEF TokensAreNotShared
<1>2. StagesInv => EndedIsEmpty
  BY Zenon DEF StagesInv, Rest, Erased, EndedIsEmpty
<1> QED
  BY <1>1, <1>2, StagesInvariance, PTL

\* classifyCredentialStages: connecting never replaces the token of a
\* credential that works.
THEOREM WorkingCredentialsAreKept ==
  ASSUME StageHyps
  PROVE  Spec => [][HealthyIsKept]_vars
<1>1. ASSUME StagesInv, Next PROVE HealthyIsKept
  <2>0. creds \in [Groups -> [Accounts -> Credential]]
    BY <1>1, StageTypes, Zenon DEF StagesInv, Credential
  <2>1. CASE UNCHANGED creds
    BY <2>1 DEF HealthyIsKept
  <2>2. CASE \E S \in SUBSET Stages \ {{}}, g \in Groups : consumeCredentialStages(S, g)
    <3>1. PICK S \in SUBSET Stages, g \in Groups : consumeCredentialStages(S, g)
      BY <2>2
    <3> DEFINE takes(a, s) == rows[s].account = {a} /\ Takes(S, s, g)
               made(a) == [auth |-> "ready", version |-> creds[g][a].version + 1,
                           token |-> rows[CHOOSE s \in S : takes(a, s)].payload]
               put == [a \in Accounts |-> IF \E s \in S : takes(a, s) THEN made(a) ELSE creds[g][a]]
    <3>2. creds' = [creds EXCEPT ![g] = put]
      BY <3>1, Zenon DEF consumeCredentialStages
    <3>3. ASSUME NEW a \in Accounts, NEW s \in S, takes(a, s) PROVE creds[g][a].auth # "ready"
      BY <3>3 DEF Takes
    <3> HIDE DEF takes, made
    <3>4. \A a \in Accounts : creds[g][a].auth = "ready" => put[a] = creds[g][a]
      BY <3>3
    <3> HIDE DEF put
    <3> QED
      BY <2>0, <3>2, <3>4 DEF HealthyIsKept
  <2>3. CASE \E g \in Groups, a \in Accounts : NeedsReauthorization(g, a)
    <3>1. PICK g \in Groups, a \in Accounts : NeedsReauthorization(g, a)
      BY <2>3
    <3>2. creds' = [creds EXCEPT ![g][a].auth = "reauthorize"]
      BY <3>1, Zenon DEF NeedsReauthorization
    <3>3. \A h \in Groups, b \in Accounts : creds'[h][b].token = creds[h][b].token
      BY <2>0, <3>2 DEF Credential
    <3> QED
      BY <3>3 DEF HealthyIsKept
  <2>4. \/ UNCHANGED creds
        \/ \E S \in SUBSET Stages \ {{}}, g \in Groups : consumeCredentialStages(S, g)
        \/ \E g \in Groups, a \in Accounts : NeedsReauthorization(g, a)
    BY <1>1, Zenon
       DEF Next, beginBrowserCredentialAuthorization, beginDeviceCredentialAuthorization,
           persistReadyCredentialStage, Create, failCredentialAuthorization,
           CancelCredentialStage, CleanupCredentialStages, Handler, Claim,
           ExpireRead, Call, Finish, Mark, Start, CompleteAuthorization,
           LoadPoll, LoadRefresh, LoadGet, Load, Restart, Tick
  <2> QED
    BY <2>1, <2>2, <2>3, <2>4
<1>2. StagesInv /\ [Next]_vars => [HealthyIsKept]_vars
  BY <1>1
<1> QED
  BY <1>2, StagesInvariance, PTL DEF Spec
=============================================================================
