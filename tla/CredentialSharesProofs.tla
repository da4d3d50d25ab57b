------------------------ MODULE CredentialSharesProofs ------------------------
(***************************************************************************)
(* The fair shares of CredentialScheduling, for every set of credentials,  *)
(* groups and requests: while the weights stay, no settled credential gets *)
(* ahead of another by more than two largest steps.                        *)
(***************************************************************************)
EXTENDS CredentialSchedulingProofs

-----------------------------------------------------------------------------
(* Level coordinates. *)

\* The coordinates p of the members A, of which those in T are settled, are
\* level: no member is ahead of a settled one by more than that one's room. The
\* member s of the current run may be away, pending; who is further ahead of it
\* is behind everybody who is settled, so that its return closes the distance.
Even(p, A, T, s, room) ==
    /\ \A c \in A, d \in T : p[c] <= p[d] + room[d]
    /\ s \in A \ T => \A c \in A : \/ p[c] <= p[s] + room[s]
                                   \/ \A d \in T : p[c] <= p[d]

\* Without a history everybody is level.
LEMMA EvenAtZero ==
  ASSUME NEW p, NEW A \in SUBSET Credentials, NEW T \in SUBSET A, NEW s,
         NEW room \in [Credentials -> Nat], \A c \in A : p[c] = 0
  PROVE  Even(p, A, T, s, room)
  BY DEF Even

\* Who leaves, starts anew or has to be calibrated leaves the others level, and
\* so does the end of a run.
LEMMA LeavingKeepsEven ==
  ASSUME NEW p \in [Credentials -> Nat], NEW A \in SUBSET Credentials, NEW T \in SUBSET A,
         NEW s, NEW room \in [Credentials -> Nat], Even(p, A, T, s, room),
         NEW r \in [Credentials -> Nat], NEW B \in SUBSET Credentials, NEW U \in SUBSET B,
         NEW t, NEW space \in [Credentials -> Nat],
         \A c \in B : r[c] = 0 \/ (c \in A /\ r[c] = p[c]),
         \A d \in U : d \in T /\ r[d] = p[d] /\ room[d] <= space[d],
         t \in B \ U => t = s /\ t \in A /\ r[t] = p[t] /\ room[t] <= space[t]
  PROVE  Even(r, B, U, t, space)
  <1>1. ASSUME NEW c \in B, NEW d \in U PROVE r[c] <= r[d] + space[d]
    <2>1. d \in T /\ r[d] = p[d] /\ room[d] <= space[d] /\ p[d] \in Nat /\ room[d] \in Nat
          /\ space[d] \in Nat
      OBVIOUS
    <2>2. CASE r[c] = 0
      BY <2>1, <2>2
    <2>3. CASE c \in A /\ r[c] = p[c]
      <3>1. p[c] <= p[d] + room[d]
        BY <2>1, <2>3 DEF Even
      <3> QED BY <2>1, <2>3, <3>1
    <2> QED BY <2>2, <2>3
  <1>2. ASSUME t \in B \ U, NEW c \in B
        PROVE  r[c] <= r[t] + space[t] \/ \A d \in U : r[c] <= r[d]
    <2>1. t = s /\ t \in A /\ r[t] = p[t] /\ room[t] <= space[t] /\ p[t] \in Nat
          /\ room[t] \in Nat /\ space[t] \in Nat
      BY <1>2
    <2>2. CASE r[c] = 0
      BY <2>1, <2>2
    <2>3. CASE c \in A /\ r[c] = p[c]
      <3>1. p[c] <= p[t] + room[t] \/ \A d \in T : p[c] <= p[d]
        BY <2>1, <2>3 DEF Even
      <3>2. (\A d \in T : p[c] <= p[d]) => \A d \in U : r[c] <= r[d]
        BY <2>3
      <3>3. p[c] <= p[t] + room[t] => r[c] <= r[t] + space[t]
        BY <2>1, <2>3
      <3> QED BY <3>1, <3>2, <3>3
    <2> QED BY <2>2, <2>3
  <1> QED BY <1>1, <1>2, Zenon DEF Even

\* Who is admitted at the baseline (SchedulingMember.Admit) joins the others level.
LEMMA JoiningKeepsEven ==
  ASSUME NEW p \in [Credentials -> Nat], NEW A \in SUBSET Credentials, NEW T \in SUBSET A,
         NEW s, NEW room \in [Credentials -> Nat], Even(p, A, T, s, room),
         NEW r \in [Credentials -> Nat], NEW U \in SUBSET A, T \subseteq U,
         NEW b \in Nat,
         T # {} => \E e \in T : b = p[e],
         T = {} => \A c \in A : p[c] <= b,
         \A d \in T : p[d] <= b,
         \A c \in A : r[c] = IF c \in U \ T /\ p[c] < b THEN b ELSE p[c],
         \A c \in A : room[c] <= 2 * Scale /\ (c # s => room[c] = 2 * Scale)
  PROVE  Even(r, A, U, s, room)
  <1>0. Scale \in Nat
    BY WidthAssumption
  <1>1. \A c \in A : p[c] \in Nat /\ r[c] \in Nat /\ room[c] \in Nat
    OBVIOUS
  <1>2. \A c \in A : p[c] <= r[c] /\ (c \in T => r[c] = p[c]) /\ (c \notin U => r[c] = p[c])
                     /\ (c \in U \ T => b <= r[c]) /\ (r[c] = p[c] \/ r[c] = b)
    BY <1>1
  <1>3. CASE T = {}
    <2>1. \A c \in A, d \in U : r[c] <= r[d]
      <3>1. \A c \in A : r[c] <= b
        BY <1>1, <1>2, <1>3
      <3>2. \A d \in U : b <= r[d]
        BY <1>2, <1>3
      <3> QED BY <1>1, <3>1, <3>2
    <2>2. \A c \in A, d \in U : r[c] <= r[d] + room[d]
      BY <1>1, <2>1
    <2> QED BY <2>1, <2>2, Zenon DEF Even
  <1>4. CASE T # {}
    <2>1. PICK e \in T : b = p[e]
      BY <1>4
    <2>2. ASSUME NEW c \in A, NEW d \in U PROVE r[c] <= r[d] + room[d]
      <3>1. PICK x \in A : r[c] = p[x] /\ (x = c \/ x = e)
        BY <1>2, <2>1
      <3>2. CASE d \in T
        <4>1. p[x] <= p[d] + room[d]
          BY <3>2 DEF Even
        <4> QED BY <1>2, <3>1, <3>2, <4>1
      <3>3. CASE d \notin T
        <4>1. b <= r[d] /\ p[d] <= r[d]
          BY <1>2, <3>3
        <4>2. CASE d # s
          <5>1. p[x] <= p[e] + room[e] /\ room[e] <= 2 * Scale /\ room[d] = 2 * Scale
            BY <2>1, <4>2 DEF Even
          <5> QED BY <1>0, <1>1, <2>1, <3>1, <4>1, <5>1
        <4>3. CASE d = s
          <5>1. p[x] <= p[s] + room[s] \/ p[x] <= p[e]
            BY <3>3, <4>3 DEF Even
          <5> QED BY <1>1, <2>1, <3>1, <4>1, <4>3, <5>1
        <4> QED BY <4>2, <4>3
      <3> QED BY <3>2, <3>3
    <2>3. ASSUME s \in A \ U, NEW c \in A
          PROVE  r[c] <= r[s] + room[s] \/ \A d \in U : r[c] <= r[d]
      <3>1. PICK x \in A : r[c] = p[x] /\ (x = c \/ x = e)
        BY <1>2, <2>1
      <3>2. r[s] = p[s]
        BY <1>2, <2>3
      <3>3. p[x] <= p[s] + room[s] \/ \A d \in T : p[x] <= p[d]
        BY <2>3 DEF Even
      <3>4. ASSUME \A d \in T : p[x] <= p[d], NEW d \in U PROVE p[x] <= r[d]
        <4>1. p[x] <= b
          BY <2>1, <3>4
        <4>2. CASE d \in T
          BY <1>2, <3>4, <4>2
        <4>3. CASE d \notin T
          BY <1>1, <1>2, <4>1, <4>3
        <4> QED BY <4>2, <4>3
      <3> QED BY <3>1, <3>2, <3>3, <3>4
    <2> QED BY <2>2, <2>3, Zenon DEF Even
  <1> QED BY <1>3, <1>4

\* A turn keeps everybody level: it goes to the one who is least advanced, or to
\* the next one when the room of the first is large enough for that step.
LEMMA ChargingKeepsEven ==
  ASSUME NEW p \in [Credentials -> Nat], NEW A \in SUBSET Credentials, NEW T \in SUBSET A,
         NEW s, NEW room \in [Credentials -> Nat], Even(p, A, T, s, room),
         NEW r \in [Credentials -> Nat], NEW space \in [Credentials -> Nat],
         NEW k \in T, NEW step \in 0 .. Scale,
         \A c \in A : r[c] = IF c = k THEN p[c] + step ELSE p[c],
         \A c \in A : room[c] <= 2 * Scale /\ (c # k => space[c] = 2 * Scale),
         room[k] <= space[k] + step,
         \A d \in T \ {k} : p[k] <= p[d] \/ room[d] + step <= 2 * Scale
  PROVE  Even(r, A, T, k, space)
  <1>0. Scale \in Nat
    BY WidthAssumption
  <1>1. \A c \in A : p[c] \in Nat /\ r[c] \in Nat /\ room[c] \in Nat /\ space[c] \in Nat
    OBVIOUS
  <1>2. ASSUME NEW c \in A, NEW d \in T PROVE r[c] <= r[d] + space[d]
    <2>1. p[c] <= p[d] + room[d]
      BY DEF Even
    <2>2. CASE d = k
      BY <1>0, <1>1, <2>1, <2>2
    <2>3. CASE d # k /\ c # k
      BY <1>0, <1>1, <2>1, <2>3
    <2>4. CASE d # k /\ c = k
      BY <1>0, <1>1, <2>1, <2>4
    <2> QED BY <2>2, <2>3, <2>4
  <1> QED BY <1>2 DEF Even

\* The conditions under which shares are fair: the weights stay what they are
\* (0, which takes a credential out of service, apart), every request sees every
\* credential and prefers none, no refresh hides a credential that keeps its
\* turn, and a run that is cut has covered a step of whoever is served instead.
SteadyShares(W) ==
    /\ W \in 1 .. MaxWeight /\ Weights \subseteq {0, W} /\ MaxRevision = 1
    /\ Pools = {Credentials} /\ Refreshable = {} /\ Preferences = {0}
    /\ "refreshing" \notin Obstacles
    /\ \A u, v \in 1 .. MaxWeight * MaxWeight :
           Scale \div v <= (StreakStart - 1 + CeilDiv(u, v)) * (Scale \div u)

\* What one turn of c costs, and the progress of n turns up to the largest step.
Step(c, weight, W) == Scale \div (weight[GroupOf[c]] * W)
Taken(n, step) == IF n * step > Scale THEN Scale ELSE n * step

\* How far the others may be ahead of c: two largest steps, less what c has taken
\* in the current run.
Room(weight, run, W) == [c \in Credentials |->
    IF run.member = c THEN 2 * Scale - Taken(run.count, Step(c, weight, W)) ELSE 2 * Scale]

Members == {c \in Credentials : member[c].gen # 0}
Settled == {c \in Members : ~member[c].pending}
Coordinate == [c \in Credentials |-> member[c].progress]

\* Entries carry the one weight or none, and no refresh is on.
PlainEntry(e, W) == e.weight \in {0, W} /\ "refreshing" \notin e.blocked
Plain(W) == \A c \in Credentials : PlainEntry(entry[c], W)

\* The inductive invariant behind SharesAreFair.
Level(W) ==
    /\ Even(Coordinate, Members, Settled, streak.member, Room(config.weight, streak, W))
    /\ Plain(W) /\ config.revision = 1 /\ (started \/ watermark = 0)

-----------------------------------------------------------------------------
(* The arithmetic of runs. *)

\* Order of products.
LEMMA ProductOrder ==
  ASSUME NEW a \in Nat, NEW b \in Nat, NEW x \in Nat, a <= b
  PROVE  a * x <= b * x /\ a * x \in Nat /\ b * x \in Nat
  <1>1. PICK y \in Nat : b = a + y
    <2>1. b - a \in Nat /\ b = a + (b - a)
      OBVIOUS
    <2> QED BY <2>1
  <1>2. (a + y) * x = a * x + y * x /\ y * x \in Nat /\ a * x \in Nat
    OBVIOUS
  <1> QED BY <1>1, <1>2

\* Products of a positive factor compare as the other factors do.
LEMMA ProductCancels ==
  ASSUME NEW a \in Nat, NEW b \in Nat, NEW x \in Nat, a * x < b * x
  PROVE  a < b
  <1>1. CASE b <= a
    BY <1>1, ProductOrder
  <1> QED BY <1>1

\* A quotient is the largest multiple that fits.
LEMMA Quotient ==
  ASSUME NEW a \in Nat, NEW n \in Nat, n >= 1
  PROVE  /\ a \div n \in Nat /\ (a \div n) * n <= a /\ a < (a \div n + 1) * n
         /\ (a \div n) * n \in Nat /\ (a \div n + 1) * n \in Nat
  <1> DEFINE q == a \div n
  <1>1. q \in Nat /\ a % n \in 0 .. n - 1 /\ a = n * q + (a % n)
    OBVIOUS
  <1> HIDE DEF q
  <1>2. (q + 1) * n = q * n + n /\ n * q = q * n /\ q * n \in Nat
    BY <1>1
  <1> QED BY <1>1, <1>2 DEF q

\* With the numbers of the code, 2^64, 100 and weights up to 100, a run is cut
\* late enough: it then has covered a step of whoever is served instead.
LEMMA RunsPayOff ==
  ASSUME MaxWeight * MaxWeight <= (StreakStart - 1) * (Scale \div (MaxWeight * MaxWeight))
  PROVE  \A u, v \in 1 .. MaxWeight * MaxWeight :
             Scale \div v <= (StreakStart - 1 + CeilDiv(u, v)) * (Scale \div u)
  <1> DEFINE M == MaxWeight * MaxWeight
             K == StreakStart - 1
             m == Scale \div M
  <1>1. M \in Nat /\ M >= 1 /\ K \in Nat /\ Scale \in Nat /\ M <= K * m
    BY WidthAssumption
  <1> HIDE DEF M, K, m
  <1> SUFFICES ASSUME NEW u \in 1 .. M, NEW v \in 1 .. M
               PROVE  Scale \div v <= (K + CeilDiv(u, v)) * (Scale \div u)
    BY DEF M, K
  <1> DEFINE s == Scale \div u
             x == Scale \div v
             C == CeilDiv(u, v)
  <1>2. u \in Nat /\ v \in Nat /\ u >= 1 /\ v >= 1 /\ u <= M
    BY <1>1
  <1>3. /\ s \in Nat /\ Scale < (s + 1) * u /\ (s + 1) * u \in Nat
        /\ x \in Nat /\ x * v <= Scale /\ x * v \in Nat
        /\ m \in Nat /\ m * M <= Scale /\ m * M \in Nat
    BY <1>1, <1>2, Quotient DEF m
  <1>4. C \in Nat /\ u <= C * v /\ C <= u /\ C * v \in Nat
    <2>1. u + v - 1 \in Nat
      BY <1>2
    <2>2. /\ C \in Nat /\ C * v <= u + v - 1 /\ u + v - 1 < (C + 1) * v
          /\ C * v \in Nat /\ (C + 1) * v \in Nat
      BY <1>2, <2>1, Quotient DEF CeilDiv
    <2> HIDE DEF C
    <2>3. (C + 1) * v = C * v + v
      BY <1>2, <2>2
    <2>4. u + v - 1 < (u + 1) * v
      <3>1. (u + 1) * v = u * v + v /\ u * 1 = u /\ u * v \in Nat
        BY <1>2
      <3>2. 1 * u <= v * u /\ v * u = u * v
        BY <1>2, ProductOrder
      <3> QED BY <1>2, <3>1, <3>2
    <2>5. C * v < (u + 1) * v
      BY <1>2, <2>1, <2>2, <2>4
    <2>6. C < u + 1
      <3>1. u + 1 \in Nat
        BY <1>2
      <3> QED BY <1>2, <2>2, <2>5, <3>1, ProductCancels
    <2> QED BY <1>2, <2>2, <2>3, <2>6
  <1> HIDE DEF s, x, C
  <1>5. x < (s + 1) * C
    <2>1. (s + 1) * u <= (s + 1) * (C * v)
      <3>1. u * (s + 1) <= (C * v) * (s + 1) /\ s + 1 \in Nat
        BY <1>2, <1>3, <1>4, ProductOrder
      <3> QED BY <1>2, <1>3, <1>4, <3>1
    <2>2. (s + 1) * (C * v) = ((s + 1) * C) * v /\ (s + 1) * C \in Nat
          /\ ((s + 1) * C) * v \in Nat
      BY <1>2, <1>3, <1>4
    <2>3. x * v < ((s + 1) * C) * v
      BY <1>1, <1>3, <2>1, <2>2
    <2> QED BY <1>2, <1>3, <2>2, <2>3, ProductCancels
  <1>6. m <= s
    <2>1. m * u <= m * M
      <3>1. u * m <= M * m
        BY <1>1, <1>2, <1>3, ProductOrder
      <3> QED BY <1>1, <1>2, <1>3, <3>1
    <2>2. m * u < (s + 1) * u
      <3>1. m * u \in Nat
        BY <1>2, <1>3
      <3> QED BY <1>1, <1>3, <2>1, <3>1
    <2>3. m < s + 1
      <3>1. s + 1 \in Nat
        BY <1>3
      <3> QED BY <1>2, <1>3, <2>2, <3>1, ProductCancels
    <2> QED BY <1>3, <2>3
  <1>7. C <= K * s
    <2>1. m * K <= s * K
      BY <1>1, <1>3, <1>6, ProductOrder
    <2>2. K * m = m * K /\ K * s = s * K /\ m * K \in Nat /\ s * K \in Nat
      BY <1>1, <1>3
    <2> QED BY <1>1, <1>2, <1>4, <2>1, <2>2
  <1>8. (s + 1) * C = C * s + C /\ (K + C) * s = K * s + C * s /\ C * s \in Nat /\ K * s \in Nat
    BY <1>1, <1>3, <1>4
  <1>9. x <= (K + C) * s
    BY <1>3, <1>4, <1>5, <1>7, <1>8
  <1> QED BY <1>9 DEF x, C, s

\* The progress of a run grows by at most a step per turn.
LEMMA TakenFacts ==
  ASSUME NEW n \in Nat, NEW step \in 0 .. Scale
  PROVE  /\ Taken(n, step) \in 0 .. Scale
         /\ Taken(n + 1, step) <= Taken(n, step) + step
         /\ Taken(1, step) = step
  <1>0. Scale \in Nat /\ step \in Nat
    BY WidthAssumption
  <1>1. n * step \in Nat /\ (n + 1) * step = n * step + step /\ 1 * step = step
    BY <1>0
  <1> QED BY <1>0, <1>1 DEF Taken

\* A run of t turns that covers a step of another credential still does when it
\* is longer.
LEMMA LongRunPays ==
  ASSUME NEW n \in Nat, NEW t \in Nat, t <= n, NEW step \in 0 .. Scale, NEW other \in 0 .. Scale,
         other <= t * step
  PROVE  other <= Taken(n, step)
  <1>0. Scale \in Nat /\ step \in Nat /\ other \in Nat
    BY WidthAssumption
  <1>1. PICK x \in Nat : n = t + x
    <2>1. n - t \in Nat /\ n = t + (n - t)
      OBVIOUS
    <2> QED BY <2>1
  <1>2. n * step = t * step + x * step /\ x * step \in Nat /\ t * step \in Nat
    BY <1>0, <1>1
  <1> QED BY <1>0, <1>2 DEF Taken

\* Steps and room are natural numbers.
LEMMA RoomFacts ==
  ASSUME NEW W, SteadyShares(W), NEW weight \in [Groups -> 1 .. MaxWeight],
         NEW run \in [member : Credentials \cup {0}, count : 0 .. StreakCap]
  PROVE  /\ \A c \in Credentials : /\ weight[GroupOf[c]] * W \in 1 .. MaxWeight * MaxWeight
                                   /\ Step(c, weight, W) \in 0 .. Scale
         /\ Room(weight, run, W) \in [Credentials -> Nat]
         /\ \A c \in Credentials : /\ Room(weight, run, W)[c] <= 2 * Scale
                                   /\ run.member # c => Room(weight, run, W)[c] = 2 * Scale
                                   /\ run.member = c
                                      => Room(weight, run, W)[c] = 2 * Scale - Taken(run.count, Step(c, weight, W))
  <1>0. Scale \in Nat /\ W \in 1 .. MaxWeight /\ MaxWeight \in Nat
    BY WidthAssumption DEF SteadyShares
  <1>1. ASSUME NEW c \in Credentials
        PROVE  /\ weight[GroupOf[c]] * W \in 1 .. MaxWeight * MaxWeight
               /\ Step(c, weight, W) \in 0 .. Scale
    <2> DEFINE g == weight[GroupOf[c]]
               w == g * W
    <2>1. g \in 1 .. MaxWeight
      BY GroupsAssumption
    <2> HIDE DEF g
    <2>2. /\ g \in Nat /\ W \in Nat /\ g >= 1 /\ W >= 1 /\ MaxWeight >= g /\ MaxWeight >= W
      BY <1>0, <2>1
    <2>3. w \in Nat /\ w >= 1
      BY <2>2
    <2>4. w <= MaxWeight * W /\ MaxWeight * W <= MaxWeight * MaxWeight
      <3>1. PICK x \in Nat, y \in Nat : MaxWeight = g + x /\ MaxWeight = W + y
        <4>1. MaxWeight - g \in Nat /\ MaxWeight - W \in Nat
          BY <1>0, <2>2
        <4>2. MaxWeight = g + (MaxWeight - g) /\ MaxWeight = W + (MaxWeight - W)
          BY <1>0, <2>2
        <4> QED BY <4>1, <4>2
      <3>2. (g + x) * W = w + x * W /\ x * W \in Nat
        BY <2>2
      <3>3. MaxWeight * (W + y) = MaxWeight * W + MaxWeight * y /\ MaxWeight * y \in Nat
        BY <1>0, <2>2
      <3>4. MaxWeight * W \in Nat
        BY <1>0, <2>2
      <3> QED BY <2>3, <3>1, <3>2, <3>3, <3>4
    <2>5. MaxWeight * MaxWeight \in Nat /\ MaxWeight * W \in Nat
      BY <1>0, <2>2
    <2> HIDE DEF w
    <2>6. w \in 1 .. MaxWeight * MaxWeight
      BY <2>3, <2>4, <2>5
    <2>7. Scale \div w \in 0 .. Scale
      BY <1>0, <2>3
    <2>8. Step(c, weight, W) = Scale \div w
      BY Zenon DEF Step, w, g
    <2> QED BY <2>6, <2>7, <2>8, Zenon DEF w, g
  <1>2. run.count \in Nat
    BY StreakCapPositive
  <1>3. \A c \in Credentials : Taken(run.count, Step(c, weight, W)) \in 0 .. Scale
    BY <1>1, <1>2, TakenFacts
  <1> HIDE DEF SteadyShares
  <1>4. ASSUME NEW c \in Credentials
        PROVE  /\ Room(weight, run, W)[c] \in Nat /\ Room(weight, run, W)[c] <= 2 * Scale
               /\ run.member # c => Room(weight, run, W)[c] = 2 * Scale
               /\ run.member = c => Room(weight, run, W)[c] = 2 * Scale - Taken(run.count, Step(c, weight, W))
    BY <1>0, <1>3 DEF Room
  <1>5. Room(weight, run, W) = [c \in Credentials |-> Room(weight, run, W)[c]]
    BY DEF Room
  <1> QED BY <1>1, <1>4, <1>5

-----------------------------------------------------------------------------
(* The steps. *)

\* Coordinates and the sets of members have their types.
LedgerTypes ==
    /\ Coordinate \in [Credentials -> Nat] /\ Members \in SUBSET Credentials
    /\ Settled \in SUBSET Members
    /\ \A c \in Credentials : Coordinate[c] = member[c].progress
    /\ config.weight \in [Groups -> 1 .. MaxWeight]
    /\ streak \in [member : Credentials \cup {0}, count : 0 .. StreakCap]

\* They follow from the types of the ledger, in the state before and after a step.
LEMMA LedgerSets == (Inv => LedgerTypes) /\ (Inv' => LedgerTypes')
  <1>1. Inv => LedgerTypes
    BY WidthAssumption DEF Inv, TypeOK, Member, Snapshot, Coordinate, Members, Settled, LedgerTypes
  <1>2. Inv' => LedgerTypes'
    BY WidthAssumption DEF Inv, TypeOK, Member, Snapshot, Coordinate, Members, Settled, LedgerTypes
  <1> QED BY <1>1, <1>2

\* The positions and the watermark are numbers.
LEMMA LedgerNumbers ==
  ASSUME Inv
  PROVE  watermark \in Nat /\ \A c \in Credentials : member[c].progress \in Nat
  BY WidthAssumption DEF Inv, TypeOK, Member

\* Every operation of the registry leaves entries with the one weight or none.
LEMMA RegistryKeepsPlain ==
  ASSUME NEW W, SteadyShares(W), Inv, Plain(W), Registry
  PROVE  Plain(W)'
  <1>1. /\ entry \in [Credentials -> Entry] /\ 0 \in {0, W}
        /\ \A w \in Weights : w \in {0, W}
        /\ \A o \in Obstacles : o # "refreshing"
    BY DEF Inv, TypeOK, SteadyShares
  <1>2. ASSUME NEW c \in Credentials, NEW e, PlainEntry(e, W),
               entry' = [entry EXCEPT ![c] = e]
        PROVE  Plain(W)'
    <2>1. \A d \in Credentials : entry'[d] = IF d = c THEN e ELSE entry[d]
      BY <1>1, <1>2
    <2> QED BY <1>2, <2>1, Zenon DEF Plain
  <1>3. ASSUME NEW c \in Credentials
        PROVE  PlainEntry(entry[c], W) /\ entry[c] \in Entry
    BY <1>1 DEF Plain
  <1>4. ASSUME NEW c \in Credentials, NEW gen, NEW w \in Weights, ApplyCredentialImport(c, gen, w)
        PROVE  Plain(W)'
    <2>1. PlainEntry(Loaded(gen, {}, w), W)
      BY <1>1 DEF Loaded, PlainEntry
    <2> QED BY <1>2, <1>4, <2>1, Zenon DEF ApplyCredentialImport
  <1>5. ASSUME NEW c \in Credentials, RemoveCredential(c) PROVE Plain(W)'
    <2>1. PlainEntry(NoEntry, W)
      BY DEF NoEntry, PlainEntry
    <2> QED BY <1>2, <1>5, <2>1, Zenon DEF RemoveCredential
  <1>6. ASSUME NEW c \in Credentials, NEW o \in Obstacles, Block(c, o) PROVE Plain(W)'
    <2> DEFINE e == [entry[c] EXCEPT !.blocked =
                        (IF o \in AuthStates THEN @ \ AuthStates ELSE @) \cup {o}]
    <2>1. entry' = [entry EXCEPT ![c] = e]
      BY <1>1, <1>6 DEF Block
    <2>2. PlainEntry(e, W)
      BY <1>1, <1>3 DEF Entry, PlainEntry
    <2> HIDE DEF e
    <2> QED BY <1>2, <2>1, <2>2, Zenon
  <1>7. ASSUME NEW c \in Credentials, NEW o, Unblock(c, o) PROVE Plain(W)'
    <2> DEFINE e == [entry[c] EXCEPT !.blocked = @ \ {o}]
    <2>1. entry' = [entry EXCEPT ![c] = e]
      BY <1>1, <1>7 DEF Unblock
    <2>2. PlainEntry(e, W)
      BY <1>3 DEF Entry, PlainEntry
    <2> HIDE DEF e
    <2> QED BY <1>2, <2>1, <2>2, Zenon
  <1>8. ASSUME NEW c \in Credentials, ReplaceSecret(c) PROVE Plain(W)'
    <2> DEFINE e == [entry[c] EXCEPT !.blocked = @ \ AuthStates]
    <2>1. entry' = [entry EXCEPT ![c] = e]
      BY <1>1, <1>8 DEF ReplaceSecret
    <2>2. PlainEntry(e, W)
      BY <1>3 DEF Entry, PlainEntry
    <2> HIDE DEF e
    <2> QED BY <1>2, <2>1, <2>2, Zenon
  <1>9. ASSUME NEW c \in Credentials, NEW w \in Weights, UpdateWeight(c, w) PROVE Plain(W)'
    <2> DEFINE e == [entry[c] EXCEPT !.weight = w]
    <2>1. entry' = [entry EXCEPT ![c] = e]
      BY <1>1, <1>9 DEF UpdateWeight
    <2>2. PlainEntry(e, W)
      BY <1>1, <1>3 DEF Entry, PlainEntry
    <2> HIDE DEF e
    <2> QED BY <1>2, <2>1, <2>2, Zenon
  <1>10. ASSUME NEW c \in Credentials, NEW u,
                SetCooldown(c, u) \/ (u = 0 /\ ClearCooldown(c))
         PROVE  Plain(W)'
    <2> DEFINE e == [entry[c] EXCEPT !.until = u]
    <2>1. entry' = [entry EXCEPT ![c] = e]
      BY <1>1, <1>10 DEF SetCooldown, ClearCooldown
    <2>2. PlainEntry(e, W)
      BY <1>3 DEF Entry, PlainEntry
    <2> HIDE DEF e
    <2> QED BY <1>2, <2>1, <2>2, Zenon
  <1>11. ASSUME NEW c \in Credentials, RestoreRuntimeState(c) PROVE Plain(W)'
    <2> DEFINE e == [entry[c] EXCEPT !.until = 0, !.blocked = @ \ {"blacklisted"}]
    <2>1. entry' = [entry EXCEPT ![c] = e]
      BY <1>1, <1>11, Zenon DEF RestoreRuntimeState
    <2>2. PlainEntry(e, W)
      BY <1>3 DEF Entry, PlainEntry
    <2> HIDE DEF e
    <2> QED BY <1>2, <2>1, <2>2, Zenon
  <1>12. ASSUME NEW c \in Credentials, NEW b \in SUBSET Obstacles, NEW w \in Weights, NEW u,
                RestoreExact(c, b, w, u)
         PROVE  Plain(W)'
    <2> DEFINE e == [gen |-> identity[c], blocked |-> b, weight |-> w, until |-> u]
    <2>1. entry' = [entry EXCEPT ![c] = e]
      BY <1>12, Zenon DEF RestoreExact
    <2>2. PlainEntry(e, W)
      BY <1>1 DEF PlainEntry
    <2> HIDE DEF e
    <2> QED BY <1>2, <2>1, <2>2, Zenon
  <1>13. ASSUME NEW T, NEW R, ReloadCredentials(T, R) PROVE Plain(W)'
    <2>1. \A c \in Credentials : /\ Persistent(entry[c]).weight = entry[c].weight
                                 /\ Persistent(entry[c]).blocked \subseteq entry[c].blocked
      BY DEF Persistent, Loaded
    <2>2. \A c \in Credentials : entry'[c] \in {entry[c], Persistent(entry[c])}
      BY <1>1, <1>13 DEF ReloadCredentials
    <2> QED BY <2>1, <2>2 DEF Plain, PlainEntry
  <1> QED
    BY <1>4, <1>5, <1>6, <1>7, <1>8, <1>9, <1>10, <1>11, <1>12, <1>13, Zenon DEF Registry

\* A settled member of a ledger in use was settled under the same identity, and
\* a member that stays keeps its coordinate (syncCredentialLocked).
LEMMA SyncedSettled ==
  ASSUME NEW c \in Credentials, NEW m \in Member, NEW e \in Entry, NEW t \in Nat,
         NEW begun \in BOOLEAN, NEW on
  PROVE  LET s == Synced(c, m, e, t, begun, on)
         IN  /\ begun /\ s.gen # 0 /\ ~s.pending => m.gen = s.gen /\ ~m.pending
             /\ s.gen # 0 /\ m.gen = s.gen => s.progress = m.progress
             /\ s.gen # 0 /\ m.gen # s.gen => s.progress = 0
             /\ s.gen = e.gen
  <1> DEFINE s == Synced(c, m, e, t, begun, on)
             n == Entrant(c, e, begun, on)
  <1>1. s.gen = e.gen
    BY SyncedFacts
  <1>2. CASE e.gen # 0 /\ m.gen = e.gen
    <2>1. s = Followed(m, e, t)
      BY <1>2, Zenon DEF Synced
    <2>2. /\ m.pending => Followed(m, e, t).pending
          /\ Followed(m, e, t).progress = m.progress
      BY FollowedFacts
    <2> HIDE DEF s
    <2> QED BY <1>1, <1>2, <2>1, <2>2, Zenon DEF s
  <1>3. CASE e.gen # 0 /\ m.gen # e.gen
    <2>1. s = Followed(n, e, t)
      BY <1>3, Zenon DEF Synced
    <2>2. n \in Member /\ n.progress = 0
      BY EntrantFacts
    <2>3. begun => n.pending
      BY Zenon DEF Entrant
    <2> HIDE DEF n
    <2>4. /\ n.pending => Followed(n, e, t).pending
          /\ Followed(n, e, t).progress = n.progress
      BY <2>2, FollowedFacts
    <2> HIDE DEF s
    <2> QED BY <1>1, <1>3, <2>1, <2>2, <2>3, <2>4, Zenon DEF s
  <1> QED BY <1>1, <1>2, <1>3, Zenon

\* A step in which the ledger only loses members, turns and runs keeps them level.
LEMMA LeavingKeepsLevel ==
  ASSUME NEW W, SteadyShares(W), Inv, Inv', Level(W), Plain(W)',
         config'.revision = 1, config'.weight = config.weight, started' \/ watermark' = 0,
         streak' = streak \/ streak' = NoStreak,
         watermark' # 0 =>
           /\ \A c \in Credentials : member'[c].gen # 0
                 => \/ member'[c].progress = 0
                    \/ member[c].gen # 0 /\ member'[c].progress = member[c].progress
           /\ \A c \in Credentials : member'[c].gen # 0 /\ ~member'[c].pending
                 => /\ member[c].gen # 0 /\ ~member[c].pending
                    /\ member'[c].progress = member[c].progress
           /\ \A c \in Credentials : member'[c].gen # 0 /\ streak' = streak /\ streak.member = c
                 => member[c].gen # 0 /\ member'[c].progress = member[c].progress
  PROVE  Level(W)'
  <1> DEFINE p == Coordinate
             A == Members
             T == Settled
             s == streak.member
             room == Room(config.weight, streak, W)
             r == Coordinate'
             B == Members'
             U == Settled'
             t == streak'.member
             space == Room(config'.weight, streak', W)
  <1>1. /\ p \in [Credentials -> Nat] /\ A \in SUBSET Credentials /\ T \in SUBSET A
        /\ \A c \in Credentials : p[c] = member[c].progress
    BY LedgerSets, Zenon DEF LedgerTypes
  <1>2. /\ r \in [Credentials -> Nat] /\ B \in SUBSET Credentials /\ U \in SUBSET B
        /\ \A c \in Credentials : r[c] = member'[c].progress
    BY LedgerSets, Zenon DEF LedgerTypes
  <1>3. /\ room \in [Credentials -> Nat]
        /\ \A c \in Credentials : room[c] <= 2 * Scale
    BY LedgerSets, RoomFacts, Zenon DEF LedgerTypes
  <1>4. /\ space \in [Credentials -> Nat]
        /\ \A c \in Credentials : streak'.member # c => space[c] = 2 * Scale
    BY LedgerSets, RoomFacts, Zenon DEF LedgerTypes
  <1>5. \A c \in Credentials : /\ c \in A <=> member[c].gen # 0
                               /\ c \in T <=> member[c].gen # 0 /\ ~member[c].pending
                               /\ c \in B <=> member'[c].gen # 0
                               /\ c \in U <=> member'[c].gen # 0 /\ ~member'[c].pending
    BY Zenon DEF Members, Settled
  <1>6. ASSUME NEW c \in Credentials PROVE room[c] <= space[c]
    <2>1. CASE streak' = streak
      <3>1. space = room
        BY <2>1, Zenon
      <3>2. room[c] \in Nat
        BY <1>3
      <3> HIDE DEF room, space
      <3> QED BY <3>1, <3>2
    <2>2. CASE streak' = NoStreak
      <3>1. streak'.member # c
        BY <2>2, CredentialsAssumption DEF NoStreak
      <3> QED BY <1>3, <1>4, <3>1, Zenon
    <2> QED BY <2>1, <2>2
  <1>7. Even(p, A, T, s, room)
    BY Zenon DEF Level
  <1>8. 0 \notin Credentials
    BY CredentialsAssumption
  <1>9. NoStreak.member = 0
    BY DEF NoStreak
  <1>10. watermark' \in Nat /\ \A c \in Credentials : member'[c].progress <= watermark'
    BY WidthAssumption DEF Inv, TypeOK, OneHistory
  <1> HIDE DEF p, A, T, s, room, r, B, U, t, space
  <1>11. Even(r, B, U, t, space)
    <2>1. CASE watermark' = 0
      <3>1. \A c \in B : r[c] = 0
        BY <1>2, <1>10, <2>1
      <3> QED BY <1>2, <1>4, <3>1, EvenAtZero
    <2>2. CASE watermark' # 0
      <3>1. \A c \in B : r[c] = 0 \/ (c \in A /\ r[c] = p[c])
        BY <1>1, <1>2, <1>5, <2>2
      <3>2. \A d \in U : d \in T /\ r[d] = p[d] /\ room[d] <= space[d]
        BY <1>1, <1>2, <1>5, <1>6, <2>2
      <3>3. t \in B \ U => t = s /\ t \in A /\ r[t] = p[t] /\ room[t] <= space[t]
        <4> SUFFICES ASSUME t \in B \ U
                     PROVE  t = s /\ t \in A /\ r[t] = p[t] /\ room[t] <= space[t]
          OBVIOUS
        <4>1. t \in Credentials
          BY <1>2
        <4>2. streak' = streak
          BY <1>8, <1>9, <4>1, Zenon DEF t
        <4>3. t = s /\ streak.member = t
          BY <4>2, Zenon DEF t, s
        <4>4. member'[t].gen # 0
          BY <1>5, <4>1
        <4>5. member[t].gen # 0 /\ member'[t].progress = member[t].progress
          BY <2>2, <4>1, <4>2, <4>3, <4>4, Zenon
        <4> QED BY <1>1, <1>2, <1>5, <1>6, <4>1, <4>3, <4>5
      <3> QED BY <1>1, <1>2, <1>3, <1>4, <1>7, <3>1, <3>2, <3>3, LeavingKeepsEven
    <2> QED BY <2>1, <2>2
  <1> QED BY <1>11, Zenon DEF Level, r, B, U, t, space

\* The operations of the registry.
LEMMA RegistryKeepsLevel ==
  ASSUME NEW W, SteadyShares(W), Inv, Level(W), Registry
  PROVE  Level(W)'
  <1>1. Inv' /\ Plain(W)'
    BY RegistryKeepsInv, RegistryKeepsPlain, Zenon DEF Level
  <1>2. /\ member \in [Credentials -> Member] /\ entry' \in [Credentials -> Entry]
        /\ now \in Nat /\ started \in BOOLEAN
    BY <1>1, Zenon DEF Inv, TypeOK
  <1>3. config.revision = 1 /\ (started \/ watermark = 0)
    BY Zenon DEF Level
  <1>4. CASE UNCHANGED <<config, ledger, requests>>
    <2>1. /\ config' = config /\ member' = member /\ started' = started
          /\ watermark' = watermark /\ streak' = streak
      BY <1>4, Zenon DEF ledger
    <2> QED BY <1>1, <1>3, <2>1, LeavingKeepsLevel
  <1>5. ASSUME NEW T \in SUBSET Credentials, SyncCredentials(T) PROVE Level(W)'
    <2> DEFINE S(c) == Synced(c, member[c], entry'[c], now, started, config.on)
    <2>1. /\ member' = [c \in Credentials |-> IF c \in T THEN S(c) ELSE member[c]]
          /\ watermark' = watermark /\ config' = config /\ started' = started
          /\ streak' = IF \E c \in T : c = streak.member /\ member[c].gen # entry'[c].gen
                       THEN NoStreak ELSE streak
      BY <1>5, ZenonT(40) DEF SyncCredentials
    <2>2. ASSUME NEW c \in Credentials
          PROVE  /\ started /\ S(c).gen # 0 /\ ~S(c).pending
                    => member[c].gen = S(c).gen /\ ~member[c].pending
                 /\ S(c).gen # 0 /\ member[c].gen = S(c).gen => S(c).progress = member[c].progress
                 /\ S(c).gen # 0 /\ member[c].gen # S(c).gen => S(c).progress = 0
                 /\ S(c).gen = entry'[c].gen
      <3>1. member[c] \in Member /\ entry'[c] \in Entry
        BY <1>2, Zenon
      <3> QED BY <1>2, <3>1, SyncedSettled
    <2> HIDE DEF S
    <2>3. ASSUME NEW c \in Credentials
          PROVE  member'[c] = IF c \in T THEN S(c) ELSE member[c]
      BY <2>1
    <2>4. streak' = streak \/ streak' = NoStreak
      BY <2>1, Zenon
    <2>5. ASSUME NEW c \in Credentials, member'[c].gen # 0
          PROVE  \/ member'[c].progress = 0
                 \/ member[c].gen # 0 /\ member'[c].progress = member[c].progress
      BY <2>2, <2>3, <2>5, Zenon
    <2>6. ASSUME NEW c \in Credentials, started, member'[c].gen # 0, ~member'[c].pending
          PROVE  /\ member[c].gen # 0 /\ ~member[c].pending
                 /\ member'[c].progress = member[c].progress
      BY <2>2, <2>3, <2>6, Zenon
    <2>7. ASSUME NEW c \in Credentials, member'[c].gen # 0, streak' = streak, streak.member = c
          PROVE  member[c].gen # 0 /\ member'[c].progress = member[c].progress
      <3>1. CASE c \notin T
        BY <2>3, <2>7, <3>1, Zenon
      <3>2. CASE c \in T
        <4>1. NoStreak.member # c
          BY CredentialsAssumption DEF NoStreak
        <4>2. member[c].gen = entry'[c].gen
          BY <2>1, <2>7, <3>2, <4>1, Zenon
        <4> QED BY <2>2, <2>3, <2>7, <3>2, <4>2, Zenon
      <3> QED BY <3>1, <3>2
    <2>8. watermark' # 0 => started
      BY <1>3, <2>1, Zenon
    <2>9. config'.revision = 1 /\ config'.weight = config.weight /\ (started' \/ watermark' = 0)
      BY <1>3, <2>1, Zenon
    <2> QED BY <1>1, <2>4, <2>5, <2>6, <2>7, <2>8, <2>9, LeavingKeepsLevel, Zenon
  <1> QED BY <1>4, <1>5, RegistrySyncs, Zenon

\* A restart: what the checkpoint brings back was level, and so is a fresh ledger.
LEMMA RestartKeepsLevel ==
  ASSUME NEW W, SteadyShares(W), Inv, Current, Level(W), Crash \/ CleanRestart
  PROVE  Level(W)'
  <1>1. Inv' /\ NewProcess
    BY CrashKeepsInv, CleanRestartKeepsInv, Zenon DEF Crash, CleanRestart
  <1>2. config'.revision = 1 /\ config'.weight = config.weight
    BY <1>1 DEF NewProcess, Inv, TypeOK, Snapshot
  <1>3. Plain(W)'
    <2>1. PlainEntry(NoEntry, W)
      BY DEF NoEntry, PlainEntry
    <2>2. \A c \in Credentials : PlainEntry(entry[c], W)
      BY Zenon DEF Level, Plain
    <2>3. \A c \in Credentials : PlainEntry(Persistent(entry[c]), W)
      BY <2>2 DEF Persistent, Loaded, PlainEntry
    <2>4. \A c \in Credentials : entry'[c] \in {NoEntry, entry[c], Persistent(entry[c])}
      BY DEF Crash, CleanRestart
    <2> QED BY <2>1, <2>2, <2>3, <2>4 DEF Plain
  <1>4. CASE watermark' = 0 /\ streak' = NoStreak
    BY <1>1, <1>2, <1>3, <1>4, LeavingKeepsLevel
  <1>5. CASE /\ watermark' = watermark /\ started' = (sequence # 0)
             /\ member' = [c \in Credentials |->
                   IF entry[c].gen = 0 THEN NoMember ELSE Restored(c, Reloaded(c), member[c])]
             /\ streak' = IF \E c \in Credentials :
                                /\ c = streak.member /\ entry[c].gen # 0
                                /\ Restorable(member[c], Reloaded(c))
                          THEN streak ELSE NoStreak
    <2> DEFINE r(c) == Restored(c, Reloaded(c), member[c])
    <2>1. started' \/ watermark' = 0
      BY <1>5, Zenon DEF Current
    <2>2. NoMember.gen = 0
      BY DEF NoMember
    <2>3. ASSUME NEW c \in Credentials, member'[c].gen # 0
          PROVE  member'[c] = r(c) /\ member[c].gen # 0
      <3>1. member'[c] = IF entry[c].gen = 0 THEN NoMember ELSE r(c)
        BY <1>5
      <3>2. member[c].gen = entry[c].gen
        BY DEF Inv, Mirror
      <3> QED BY <2>2, <2>3, <3>1, <3>2, Zenon
    <2>4. ASSUME NEW c \in Credentials
          PROVE  /\ Restorable(member[c], Reloaded(c))
                    => r(c).progress = member[c].progress /\ (member[c].pending => r(c).pending)
                 /\ ~Restorable(member[c], Reloaded(c)) => r(c).progress = 0 /\ r(c).pending
      <3>1. Reloaded(c).progress = 0
        BY <1>1, ReloadedFacts
      <3> QED BY <3>1, Zenon DEF Restored
    <2>5. streak' = streak \/ streak' = NoStreak
      BY <1>5, Zenon
    <2>6. ASSUME NEW c \in Credentials, member'[c].gen # 0, streak' = streak, streak.member = c
          PROVE  Restorable(member[c], Reloaded(c))
      <3>1. NoStreak.member # c
        BY CredentialsAssumption DEF NoStreak
      <3> QED BY <1>5, <2>6, <3>1, Zenon
    <2> HIDE DEF r
    <2>7. ASSUME NEW c \in Credentials, member'[c].gen # 0
          PROVE  /\ \/ member'[c].progress = 0
                    \/ member[c].gen # 0 /\ member'[c].progress = member[c].progress
                 /\ ~member'[c].pending
                    => /\ member[c].gen # 0 /\ ~member[c].pending
                       /\ member'[c].progress = member[c].progress
                 /\ streak' = streak /\ streak.member = c
                    => member[c].gen # 0 /\ member'[c].progress = member[c].progress
      BY <2>3, <2>4, <2>6, <2>7, Zenon
    <2> QED BY <1>1, <1>2, <1>3, <2>1, <2>5, <2>7, LeavingKeepsLevel, Zenon
  <1>6. CASE Crash
    BY <1>4, <1>6, Zenon DEF Crash
  <1>7. CASE CleanRestart
    BY <1>4, <1>5, <1>7, Zenon DEF CleanRestart
  <1> QED BY <1>6, <1>7

\* The candidates of a selection are the settled members and those that are due
\* and in service; each costs what its one weight says.
LEMMA CandidatesAreLevel ==
  ASSUME NEW W, SteadyShares(W), Inv, Level(W), NEW c \in Credentials
  PROVE  LET E == Eligible({x \in Credentials : GroupOf[x] \in config.on}, config)
         IN  /\ c \in Settled => c \in E
             /\ c \in E => /\ c \in Members /\ GroupOf[c] \in config.on
                           /\ EffectiveWeight(c, config) = config.weight[GroupOf[c]] * W
  <1> DEFINE E == Eligible({x \in Credentials : GroupOf[x] \in config.on}, config)
  <1>1. /\ member[c].gen = entry[c].gen /\ entry[c] \in Entry /\ now \in Nat
        /\ entry[c].gen # 0 /\ (Suspended(entry[c], now) \/ GroupOf[c] \notin config.on)
           => member[c].pending
    BY DEF Inv, TypeOK, Mirror, AwayIsPending
  <1>2. /\ entry[c].weight \in {0, W} /\ "refreshing" \notin entry[c].blocked
        /\ entry[c].until \in Nat /\ W \in Nat \ {0} /\ entry[c].blocked \subseteq ObstacleKinds
    BY <1>1, WidthAssumption DEF Level, Plain, PlainEntry, SteadyShares, Entry
  <1>3. config.weight[GroupOf[c]] \in Nat \ {0}
    BY GroupsAssumption, WidthAssumption DEF Inv, TypeOK, Snapshot
  <1>4. ASSUME c \in Settled PROVE c \in E
    <2>1. entry[c].gen # 0 /\ ~member[c].pending
      BY <1>1, <1>4, Zenon DEF Settled, Members
    <2>2. ~Suspended(entry[c], now) /\ GroupOf[c] \in config.on
      BY <1>1, <2>1, Zenon
    <2>3. entry[c].blocked = {} /\ entry[c].weight = W /\ entry[c].until <= now
      BY <1>1, <1>2, <2>2 DEF Suspended
    <2>4. config.weight[GroupOf[c]] * entry[c].weight > 0
      BY <1>2, <1>3, <2>3
    <2> QED BY <1>1, <2>1, <2>2, <2>3, <2>4, Zenon DEF Eligible, Available, EffectiveWeight
  <1>5. ASSUME c \in E
        PROVE  /\ c \in Members /\ GroupOf[c] \in config.on
               /\ EffectiveWeight(c, config) = config.weight[GroupOf[c]] * W
    <2>1. /\ GroupOf[c] \in config.on /\ entry[c].gen # 0
          /\ config.weight[GroupOf[c]] * entry[c].weight > 0
      BY <1>5, Zenon DEF Eligible, Available, EffectiveWeight
    <2>2. entry[c].weight = W
      BY <1>2, <1>3, <2>1
    <2> QED BY <1>1, <2>1, <2>2, Zenon DEF Members, EffectiveWeight
  <1> QED BY <1>4, <1>5, Zenon

\* The turn goes to the least advanced candidate, or to the second when the run
\* of the first has left it room for a step of the second (the cut of
\* selectCredential).
LEMMA TurnHasRoom ==
  ASSUME NEW W, SteadyShares(W), Inv, NEW E \in SUBSET Credentials, NEW ms, NEW k \in E,
         \A c \in E : ms[c].progress \in Nat,
         \A c \in E : EffectiveWeight(c, config) = config.weight[GroupOf[c]] * W,
         IsTurn(ms, E, k, config)
  PROVE  \A d \in E \ {k} :
            \/ ms[k].progress <= ms[d].progress
            \/ Room(config.weight, streak, W)[d] + Step(k, config.weight, W) <= 2 * Scale
  <1> SUFFICES ASSUME NEW d \in E \ {k}
               PROVE  \/ ms[k].progress <= ms[d].progress
                      \/ Room(config.weight, streak, W)[d] + Step(k, config.weight, W) <= 2 * Scale
    OBVIOUS
  <1>1. ms[k].progress \in Nat /\ ms[d].progress \in Nat
    OBVIOUS
  <1>2. \A S : IsFirst(ms, S, k) /\ d \in S => ms[k].progress <= ms[d].progress
    BY <1>1 DEF IsFirst, Before
  <1>3. CASE IsFirst(ms, E, k)
    BY <1>2, <1>3
  <1>4. CASE \E first \in E : /\ IsFirst(ms, E, first) /\ IsFirst(ms, E \ {first}, k)
                              /\ RunTooLong(first, k, config)
    <2>1. PICK first \in E : IsFirst(ms, E \ {first}, k) /\ RunTooLong(first, k, config)
      BY <1>4, Zenon
    <2>2. CASE d # first
      BY <1>2, <2>1, <2>2
    <2>3. CASE d = first
      <3> DEFINE u == config.weight[GroupOf[d]] * W
                 v == config.weight[GroupOf[k]] * W
                 t == StreakStart - 1 + CeilDiv(u, v)
      <3>0. EffectiveWeight(d, config) = u /\ EffectiveWeight(k, config) = v
        OBVIOUS
      <3>1. streak.member = d /\ streak.count >= t
        <4> HIDE DEF u, v
        <4>1. RunTooLong(d, k, config)
          BY <2>1, <2>3
        <4> QED BY <3>0, <4>1 DEF RunTooLong
      <3>2. /\ u \in 1 .. MaxWeight * MaxWeight /\ v \in 1 .. MaxWeight * MaxWeight
            /\ Step(d, config.weight, W) \in 0 .. Scale /\ Step(k, config.weight, W) \in 0 .. Scale
            /\ Room(config.weight, streak, W)[d]
               = 2 * Scale - Taken(streak.count, Step(d, config.weight, W))
        <4>1. d \in Credentials /\ k \in Credentials
          OBVIOUS
        <4>2. /\ streak \in [member : Credentials \cup {0}, count : 0 .. StreakCap]
              /\ config.weight \in [Groups -> 1 .. MaxWeight]
          BY LedgerSets, Zenon DEF LedgerTypes
        <4>3. \A c \in Credentials :
                 /\ config.weight[GroupOf[c]] * W \in 1 .. MaxWeight * MaxWeight
                 /\ Step(c, config.weight, W) \in 0 .. Scale
                 /\ streak.member = c => Room(config.weight, streak, W)[c]
                                         = 2 * Scale - Taken(streak.count, Step(c, config.weight, W))
          BY <4>2, RoomFacts, ZenonT(30)
        <4>4. streak.member = d
          BY <3>1
        <4> QED BY <4>1, <4>3, <4>4, Zenon
      <3>3. streak.count \in Nat
        BY StreakCapPositive DEF Inv, TypeOK
      <3>4. /\ Step(d, config.weight, W) = Scale \div u /\ Step(k, config.weight, W) = Scale \div v
        BY Zenon DEF Step
      <3>5. MaxWeight * MaxWeight \in Nat
        BY WidthAssumption
      <3> HIDE DEF u, v
      <3>6. CeilDiv(u, v) \in Nat
        BY <3>2, <3>5 DEF CeilDiv
      <3>7. t \in Nat
        BY <3>6, WidthAssumption
      <3>8. Scale \div v <= t * (Scale \div u)
        BY <3>2, Zenon DEF SteadyShares
      <3> HIDE DEF t
      <3>9. Step(k, config.weight, W) <= Taken(streak.count, Step(d, config.weight, W))
        BY <3>1, <3>2, <3>3, <3>4, <3>7, <3>8, LongRunPays, Zenon
      <3>10. Taken(streak.count, Step(d, config.weight, W)) \in 0 .. Scale
        BY <3>2, <3>3, TakenFacts, Zenon
      <3> QED BY <3>2, <3>9, <3>10, WidthAssumption
    <2> QED BY <2>2, <2>3
  <1> QED BY <1>3, <1>4, Zenon DEF IsTurn

\* The room a credential has once it was served.
LEMMA ServedRoom ==
  ASSUME NEW W, SteadyShares(W), Inv, NEW k \in Credentials
  PROVE  /\ NextStreak(k) \in [member : Credentials \cup {0}, count : 0 .. StreakCap]
         /\ NextStreak(k).member = k
         /\ Room(config.weight, streak, W)[k]
            <= Room(config.weight, NextStreak(k), W)[k] + Step(k, config.weight, W)
  <1> DEFINE step == Step(k, config.weight, W)
             n == streak.count
             next == NextStreak(k)
  <1>1. /\ streak \in [member : Credentials \cup {0}, count : 0 .. StreakCap]
        /\ config.weight \in [Groups -> 1 .. MaxWeight]
    BY LedgerSets, Zenon DEF LedgerTypes
  <1>2. n \in Nat /\ StreakCap \in Nat /\ StreakCap >= 1 /\ Scale \in Nat
    BY <1>1, StreakCapPositive, WidthAssumption
  <1>3. /\ next \in [member : Credentials \cup {0}, count : 0 .. StreakCap]
        /\ next.member = k
        /\ streak.member # k => next.count = 1
        /\ streak.member = k => next.count = n + 1 \/ next.count = n
    BY <1>1, <1>2 DEF NextStreak
  <1>4. step \in 0 .. Scale
    BY <1>1, RoomFacts, Zenon
  <1>5. /\ Taken(n, step) \in 0 .. Scale /\ Taken(n + 1, step) <= Taken(n, step) + step
        /\ Taken(1, step) = step /\ Taken(n + 1, step) \in 0 .. Scale
    <2> HIDE DEF step, n
    <2>1. n + 1 \in Nat
      BY <1>2
    <2>2. /\ Taken(n, step) \in 0 .. Scale /\ Taken(n + 1, step) <= Taken(n, step) + step
          /\ Taken(1, step) = step
      BY <1>2, <1>4, TakenFacts, Zenon
    <2>3. Taken(n + 1, step) \in 0 .. Scale
      BY <1>4, <2>1, TakenFacts, Zenon
    <2> QED BY <2>2, <2>3, Zenon
  <1> HIDE DEF next
  <1>6. Room(config.weight, next, W)[k] = 2 * Scale - Taken(next.count, step)
    BY <1>1, <1>3, RoomFacts, Zenon
  <1>7. /\ streak.member # k => Room(config.weight, streak, W)[k] = 2 * Scale
        /\ streak.member = k => Room(config.weight, streak, W)[k] = 2 * Scale - Taken(n, step)
    BY <1>1, RoomFacts, Zenon
  <1> HIDE DEF step, n
  <1>8. Room(config.weight, streak, W)[k] <= Room(config.weight, next, W)[k] + step
    <2>1. CASE streak.member # k
      BY <1>2, <1>3, <1>4, <1>5, <1>6, <1>7, <2>1
    <2>2. CASE streak.member = k /\ next.count = n
      BY <1>2, <1>4, <1>5, <1>6, <1>7, <2>2
    <2>3. CASE streak.member = k /\ next.count = n + 1
      BY <1>2, <1>4, <1>5, <1>6, <1>7, <2>3
    <2> QED BY <1>3, <2>1, <2>2, <2>3
  <1> QED BY <1>3, <1>8, Zenon DEF next, step, n

\* A selection: the calibration lets the candidates join level, and the turn
\* keeps them so.
LEMMA SelectKeepsLevel ==
  ASSUME NEW W, SteadyShares(W), Inv, Current, Level(W), NEW q \in Requests,
         NextCredential(q, Credentials, 0)
  PROVE  Level(W)'
  <1> DEFINE E == Eligible({x \in Credentials : GroupOf[x] \in config.on}, config)
             room == Room(config.weight, streak, W)
  <1>1. pinned[q] = config
    <2>1. /\ pinned[q].revision # 0 /\ pinned[q].revision <= config.revision
          /\ pinned[q].revision = config.revision => pinned[q] = config
          /\ config.revision = 1
      BY Zenon DEF NextCredential, Current, Level
    <2>2. pinned[q].revision \in Nat
      BY DEF Inv, TypeOK, Snapshot
    <2> QED BY <2>1, <2>2
  <1>2. SelectCredential(q, E, 0, chosen[q].replayed)
    BY <1>1, Zenon DEF NextCredential
  <1>3. E \in SUBSET Credentials /\ 0 \notin E
    BY CredentialsAssumption DEF Eligible
  <1>4. \A c \in Credentials :
            /\ c \in Settled => c \in E
            /\ c \in E => /\ c \in Members /\ GroupOf[c] \in config.on
                          /\ EffectiveWeight(c, config) = config.weight[GroupOf[c]] * W
    BY CandidatesAreLevel, Zenon
  <1>5. /\ Coordinate \in [Credentials -> Nat] /\ Members \in SUBSET Credentials
        /\ Settled \in SUBSET Members
        /\ \A c \in Credentials : Coordinate[c] = member[c].progress
        /\ config.weight \in [Groups -> 1 .. MaxWeight]
        /\ streak \in [member : Credentials \cup {0}, count : 0 .. StreakCap]
    BY LedgerSets, Zenon DEF LedgerTypes
  <1>6. /\ \A c \in Credentials : Step(c, config.weight, W) \in 0 .. Scale
        /\ room \in [Credentials -> Nat]
        /\ \A c \in Credentials : room[c] <= 2 * Scale /\ (streak.member # c => room[c] = 2 * Scale)
    BY <1>5, RoomFacts, Zenon
  <1>7. PICK k \in E, b \in {watermark} \cup {member[d].progress : d \in E} :
          SelectCredential(q, E, 0, chosen[q].replayed)!(k, b)
    BY <1>2, ZenonT(40) DEF SelectCredential
  <1> DEFINE ms == Calibrated(E, pinned[q], b)
             next == Advance(ms[k].progress, EffectiveWeight(k, pinned[q]))
             p == [c \in Credentials |-> ms[c].progress]
  <1>8. /\ member \in [Credentials -> Member] /\ watermark \in Nat /\ b \in Nat
        /\ \A c \in Credentials : member[c].progress \in Nat /\ member[c].progress <= watermark
    <2>1. member \in [Credentials -> Member] /\ watermark \in 0 .. MaxProgress
      BY Zenon DEF Inv, TypeOK
    <2>2. \A c \in Credentials : member[c].progress <= watermark
      BY Zenon DEF Inv, OneHistory
    <2> HIDE DEF E
    <2>3. b \in Nat
      BY <1>3, BaselineBound, Zenon
    <2>4. watermark \in Nat /\ \A c \in Credentials : member[c].progress \in Nat
      BY LedgerNumbers, Zenon
    <2> QED BY <2>1, <2>2, <2>3, <2>4, Zenon
  <1>9. ASSUME NEW c \in Credentials
        PROVE  /\ ms[c].gen = member[c].gen
               /\ ms[c].pending <=> member[c].pending /\ c \notin E
               /\ ms[c].progress = IF c \in E /\ member[c].pending /\ member[c].progress < b
                                   THEN b ELSE member[c].progress
    <2>1. c \in E => (MayCalibrate(c, pinned[q]) <=> member[c].pending)
      <3>1. pinned[q].revision >= config.revision
        <4>1. config.revision \in Nat /\ pinned[q].revision = config.revision
          BY <1>1, Zenon DEF Inv, TypeOK, Snapshot
        <4> HIDE DEF E, room, ms, next, p
        <4> QED BY <4>1
      <3> QED BY <1>4, <3>1, ZenonT(30) DEF MayCalibrate
    <2> HIDE DEF E
    <2>2. CASE c \in E /\ member[c].pending
      <3>1. ms[c] = Admitted(member[c], b)
        BY <2>1, <2>2, Zenon DEF Calibrated
      <3> HIDE DEF ms
      <3> QED BY <2>2, <3>1 DEF Admitted
    <2>3. CASE ~(c \in E /\ member[c].pending)
      <3>1. ms[c] = member[c]
        BY <2>1, <2>3, Zenon DEF Calibrated
      <3> HIDE DEF ms
      <3>2. member[c].pending \in BOOLEAN
        BY <1>8 DEF Member
      <3> QED BY <2>3, <3>1, <3>2
    <2> QED BY <2>2, <2>3
  <1>10. ms = [c \in Credentials |-> ms[c]]
    <2> HIDE DEF E
    <2> QED BY DEF Calibrated
  <1>11. /\ IsBaseline(E, b) /\ IsTurn(ms, E, k, config)
         /\ entry' = entry /\ config' = config
    <2>1. 0 \notin E
      BY <1>3
    <2>2. /\ IsBaseline(E, b) /\ Takes(ms, E, 0, k, pinned[q])
          /\ entry' = entry /\ config' = config
      BY <1>7, Zenon DEF registry
    <2> QED BY <1>1, <2>1, <2>2, Zenon DEF Takes
  <1>12. \A c \in Credentials : /\ c \in Members <=> member[c].gen # 0
                                /\ c \in Settled <=> member[c].gen # 0 /\ ~member[c].pending
    BY Zenon DEF Members, Settled
  <1>13. \/ /\ member' = [ms EXCEPT ![k] = Charged(ms[k], next)] /\ started' = TRUE
            /\ streak' = NextStreak(k)
         \/ member' = ms /\ started' = started /\ watermark' = watermark /\ streak' = streak
    BY <1>7, ZenonT(30)
  <1> HIDE DEF E, ms, room
  <1>14. p \in [Credentials -> Nat] /\ \A c \in Credentials : p[c] = ms[c].progress
    BY <1>8, <1>9
  <1> HIDE DEF p
  <1>15. E \in SUBSET Members /\ Settled \subseteq E
    BY <1>3, <1>4, <1>5
  <1>16. Even(p, Members, E, streak.member, room)
    <2>1. Even(Coordinate, Members, Settled, streak.member, room)
      BY Zenon DEF Level, room
    <2>2. \A c \in E : c \in Settled <=> ~member[c].pending
      BY <1>3, <1>12, <1>15
    <2>3. {c \in E : ~member[c].pending} = Settled
      BY <1>15, <2>2
    <2>4. /\ Settled = {} => b = watermark
          /\ Settled # {} => \E c \in Settled : b = member[c].progress
          /\ \A c \in Settled : member[c].progress <= b
      BY <1>11, <2>3, Zenon DEF IsBaseline
    <2>5. /\ Settled # {} => \E e \in Settled : b = Coordinate[e]
          /\ Settled = {} => \A c \in Members : Coordinate[c] <= b
          /\ \A d \in Settled : Coordinate[d] <= b
      <3>1. \A c \in Members : Coordinate[c] = member[c].progress /\ member[c].progress <= watermark
        BY <1>5, <1>8, ZenonT(40)
      <3> QED BY <1>15, <2>4, <3>1, ZenonT(40)
    <2>6. \A c \in Members : p[c] = IF c \in E \ Settled /\ Coordinate[c] < b
                                    THEN b ELSE Coordinate[c]
      <3>1. \A c \in E : c \notin Settled <=> member[c].pending
        <4>1. \A c \in E : member[c].pending \in BOOLEAN
          BY <1>3, <1>8, Zenon DEF Member
        <4> QED BY <2>2, <4>1, Zenon
      <3>2. Members \subseteq Credentials
        BY <1>5, Zenon
      <3> QED BY <1>5, <1>9, <1>14, <3>1, <3>2
    <2>7. \A c \in Members : room[c] <= 2 * Scale /\ (c # streak.member => room[c] = 2 * Scale)
      BY <1>5, <1>6
    <2>8. /\ Coordinate \in [Credentials -> Nat] /\ Members \in SUBSET Credentials
          /\ Settled \in SUBSET Members /\ room \in [Credentials -> Nat]
          /\ p \in [Credentials -> Nat] /\ E \in SUBSET Members /\ Settled \subseteq E /\ b \in Nat
      BY <1>5, <1>6, <1>8, <1>14, <1>15, Zenon
    <2> QED BY <2>1, <2>5, <2>6, <2>7, <2>8, JoiningKeepsEven, ZenonT(30)
  <1>17. next = p[k] + Step(k, config.weight, W) /\ k \in Credentials
    <2>1. k \in Credentials
      BY <1>3
    <2>2. EffectiveWeight(k, pinned[q]) = config.weight[GroupOf[k]] * W
      BY <1>1, <1>4, <2>1, Zenon
    <2> QED BY <1>14, <2>1, <2>2, Zenon DEF Advance, Step
  <1>18. Inv'
    <2>1. Credentials \in Pools /\ 0 \in Preferences
      BY DEF SteadyShares
    <2> QED BY <2>1, RequestsKeepInv, Zenon DEF Iterators
  <1>19. Plain(W)' /\ config'.revision = 1
    BY <1>11, Zenon DEF Level, Plain
  <1>20. CASE /\ member' = [ms EXCEPT ![k] = Charged(ms[k], next)] /\ started' = TRUE
              /\ streak' = NextStreak(k)
    <2>1. k \in Credentials /\ next = p[k] + Step(k, config.weight, W)
      BY <1>17, Zenon
    <2> HIDE DEF next
    <2>2. \A c \in Credentials : member'[c] = IF c = k THEN Charged(ms[k], next) ELSE ms[c]
      BY <1>10, <1>20, <2>1, Zenon
    <2>3. /\ Charged(ms[k], next).gen = ms[k].gen /\ Charged(ms[k], next).progress = next
          /\ Charged(ms[k], next).pending = ms[k].pending
      BY ONLY ChargedFacts
    <2>4. ASSUME NEW c \in Credentials
          PROVE  /\ member'[c].gen = member[c].gen
                 /\ member'[c].pending <=> member[c].pending /\ c \notin E
                 /\ member'[c].progress = IF c = k THEN next ELSE p[c]
      <3>1. CASE c = k
        BY <1>9, <2>2, <2>3, <3>1, Zenon
      <3>2. CASE c # k
        BY <1>9, <1>14, <2>2, <3>2, Zenon
      <3> QED BY <3>1, <3>2, Zenon
    <2>5. Members' = Members
      BY <2>4, Zenon DEF Members
    <2>6. Settled' = E
      <3>1. \A c \in Credentials : c \in Settled' <=> member'[c].gen # 0 /\ ~member'[c].pending
        BY Zenon DEF Settled, Members
      <3>2. \A c \in Credentials : c \in E <=> c \in Settled'
        BY <1>12, <1>15, <2>4, <3>1, ZenonT(30)
      <3>3. Settled' \in SUBSET Credentials
        BY Zenon DEF Settled, Members
      <3> QED BY <1>3, <3>2, <3>3, Zenon
    <2>7. /\ Coordinate' \in [Credentials -> Nat]
          /\ \A c \in Members : Coordinate'[c] = IF c = k THEN p[c] + Step(k, config.weight, W)
                                                 ELSE p[c]
      <3>1. LedgerTypes'
        BY <1>18, LedgerSets
      <3>2. /\ Coordinate' \in [Credentials -> Nat]
            /\ \A c \in Credentials : Coordinate'[c] = member'[c].progress
        BY <3>1, Zenon DEF LedgerTypes
      <3> QED BY <1>5, <2>1, <2>4, <3>2, Zenon
    <2> DEFINE space == Room(config.weight, NextStreak(k), W)
    <2>8. /\ NextStreak(k) \in [member : Credentials \cup {0}, count : 0 .. StreakCap]
          /\ NextStreak(k).member = k /\ room[k] <= space[k] + Step(k, config.weight, W)
      BY <1>17, ServedRoom, Zenon DEF room
    <2>9. /\ space \in [Credentials -> Nat]
          /\ \A c \in Credentials : NextStreak(k).member # c => space[c] = 2 * Scale
      BY <1>5, <2>8, RoomFacts, Zenon
    <2> HIDE DEF space
    <2>10. \A c \in Members : room[c] <= 2 * Scale /\ (c # k => space[c] = 2 * Scale)
      BY <1>5, <1>6, <2>8, <2>9, Zenon
    <2>11. \A d \in E \ {k} : p[k] <= p[d] \/ room[d] + Step(k, config.weight, W) <= 2 * Scale
      <3>1. \A c \in E : /\ ms[c].progress \in Nat
                         /\ EffectiveWeight(c, config) = config.weight[GroupOf[c]] * W
        BY <1>3, <1>4, <1>14, Zenon
      <3>2. \A d \in E \ {k} : \/ ms[k].progress <= ms[d].progress
                               \/ room[d] + Step(k, config.weight, W) <= 2 * Scale
        BY <1>3, <1>11, <3>1, TurnHasRoom, Zenon DEF room
      <3> QED BY <1>3, <1>14, <3>2, Zenon
    <2>12. Even(Coordinate', Members, E, k, space)
      <3>1. k \in E /\ Step(k, config.weight, W) \in 0 .. Scale
        BY <1>6, <2>1, Zenon
      <3>2. /\ p \in [Credentials -> Nat] /\ Members \in SUBSET Credentials /\ E \in SUBSET Members
            /\ room \in [Credentials -> Nat] /\ space \in [Credentials -> Nat]
            /\ Coordinate' \in [Credentials -> Nat]
        BY <1>5, <1>6, <1>14, <1>15, <2>7, <2>9, Zenon
      <3>3. \A c \in Members : Coordinate'[c] = IF c = k THEN p[c] + Step(k, config.weight, W)
                                                ELSE p[c]
        BY <2>7, Zenon
      <3>4. room[k] <= space[k] + Step(k, config.weight, W)
        BY <2>8, Zenon
      <3> QED BY <1>16, <2>10, <2>11, <3>1, <3>2, <3>3, <3>4, ChargingKeepsEven, ZenonT(30)
    <2>13. Even(Coordinate', Members', Settled', streak'.member, Room(config'.weight, streak', W))
      BY <1>11, <1>20, <2>5, <2>6, <2>8, <2>12, Zenon DEF space
    <2> QED BY <1>19, <1>20, <2>13, Zenon DEF Level
  <1>21. CASE member' = ms /\ started' = started /\ watermark' = watermark /\ streak' = streak
    <2>1. Members' = Members
      BY <1>9, <1>21, Zenon DEF Members
    <2>2. Settled' = E
      <3>1. \A c \in Credentials : c \in Settled' <=> member'[c].gen # 0 /\ ~member'[c].pending
        BY Zenon DEF Settled, Members
      <3>2. \A c \in Credentials : c \in E <=> c \in Settled'
        BY <1>9, <1>12, <1>15, <1>21, <3>1, ZenonT(30)
      <3>3. Settled' \in SUBSET Credentials
        BY Zenon DEF Settled, Members
      <3> QED BY <1>3, <3>2, <3>3, Zenon
    <2>3. Coordinate' = p
      BY <1>21, Zenon DEF Coordinate, p
    <2>4. Even(Coordinate', Members', Settled', streak'.member, Room(config'.weight, streak', W))
      BY <1>11, <1>16, <1>21, <2>1, <2>2, <2>3, Zenon DEF room
    <2>5. started' \/ watermark' = 0
      BY <1>21, Zenon DEF Level
    <2> QED BY <1>19, <2>4, <2>5, Zenon DEF Level
  <1> QED BY <1>13, <1>20, <1>21, Zenon

\* The first state is level.
LEMMA InitLevel == ASSUME NEW W, SteadyShares(W), Init PROVE Level(W)
  <1>1. Inv
    BY InitInv
  <1>2. /\ \A c \in Credentials : member[c].gen = 0 /\ PlainEntry(entry[c], W)
        /\ config.revision = 1 /\ watermark = 0
    BY DEF Init, NoMember, NoEntry, PlainEntry, Published
  <1>3. Members = {} /\ Settled = {}
    BY <1>2 DEF Members, Settled
  <1>4. Even(Coordinate, Members, Settled, streak.member, Room(config.weight, streak, W))
    BY <1>3 DEF Even
  <1> QED BY <1>2, <1>4, Zenon DEF Level, Plain

\* Every step keeps the ledger level.
LEMMA NextLevel ==
  ASSUME NEW W, SteadyShares(W), Inv, Current, Level(W), [Next]_vars
  PROVE  Level(W)'
  <1>1. ASSUME UNCHANGED <<entry, config, member, started, watermark, streak>> PROVE Level(W)'
    BY <1>1, Zenon DEF Level, Plain, Coordinate, Members, Settled
  <1>2. ASSUME NEW c \in Configs, Publish(c) PROVE FALSE
    <2>1. config.revision < MaxRevision
      BY <1>2, Zenon DEF Publish
    <2> QED BY <2>1 DEF Level, SteadyShares
  <1>3. CASE Iterators
    <2>1. PICK q \in Requests :
             \/ BeginRequest(q) \/ EndRequest(q) \/ ChargeReplay(q)
             \/ \E pool \in Pools, preferred \in Preferences : NextCredential(q, pool, preferred)
      BY <1>3, Zenon DEF Iterators
    <2>2. CASE BeginRequest(q) \/ EndRequest(q)
      BY <1>1, <2>2, Zenon DEF BeginRequest, EndRequest, registry, ledger
    <2>3. ~ChargeReplay(q)
      BY DEF ChargeReplay, SteadyShares
    <2>4. CASE \E pool \in Pools, preferred \in Preferences : NextCredential(q, pool, preferred)
      <3>1. NextCredential(q, Credentials, 0)
        BY <2>4 DEF SteadyShares
      <3> QED BY <3>1, SelectKeepsLevel
    <2> QED BY <2>1, <2>2, <2>3, <2>4, Zenon
  <1>4. CASE Tick \/ UNCHANGED vars
    BY <1>1, <1>4, Zenon DEF Tick, vars, registry, ledger
  <1>5. CASE Registry
    BY <1>5, RegistryKeepsLevel
  <1>6. CASE Crash \/ CleanRestart
    BY <1>6, RestartKeepsLevel
  <1> QED BY <1>2, <1>3, <1>4, <1>5, <1>6, Zenon DEF Next

\* While weights stay what they are and every request may use every credential,
\* no settled credential is ever ahead of another by more than two largest steps,
\* for any number of credentials, groups and requests: service is shared by
\* weight through outages, cooldowns, removals, imports and restarts
\* (selectCredential with its cut of long runs, Admit, RestoreCheckpoint).
THEOREM ServiceIsShared ==
  ASSUME NEW W, SteadyShares(W)
  PROVE  Spec => []SharesAreFair
  <1>1. Init => Level(W)
    BY InitLevel
  <1>2. Inv /\ Current /\ Level(W) /\ [Next]_vars => Level(W)'
    BY NextLevel
  <1>3. Inv /\ Level(W) => SharesAreFair
    <2> SUFFICES ASSUME Inv, Level(W), NEW c \in Credentials, NEW d \in Credentials,
                        member[c].gen # 0, member[d].gen # 0, ~member[d].pending
                 PROVE  member[c].progress <= member[d].progress + 2 * Scale
      BY Zenon DEF SharesAreFair
    <2> DEFINE room == Room(config.weight, streak, W)
    <2>1. LedgerTypes
      BY LedgerSets
    <2>2. room[d] \in Nat /\ room[d] <= 2 * Scale
      <3>1. room \in [Credentials -> Nat] /\ room[d] <= 2 * Scale
        BY <2>1, RoomFacts, Zenon DEF LedgerTypes
      <3> HIDE DEF room
      <3> QED BY <3>1
    <2>3. c \in Members /\ d \in Settled
      BY Zenon DEF Members, Settled
    <2>4. Coordinate[c] <= Coordinate[d] + room[d]
      BY <2>3, Zenon DEF Level, Even
    <2>5. /\ Coordinate[c] = member[c].progress /\ Coordinate[d] = member[d].progress
          /\ Coordinate[c] \in Nat /\ Coordinate[d] \in Nat
      BY <2>1 DEF LedgerTypes
    <2> HIDE DEF room
    <2> QED BY <2>2, <2>4, <2>5, WidthAssumption
  <1> QED BY <1>1, <1>2, <1>3, InitCurrent, NextCurrent, AlwaysInv, PTL DEF Spec

=============================================================================
