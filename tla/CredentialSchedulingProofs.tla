---------------------- MODULE CredentialSchedulingProofs ----------------------
(***************************************************************************)
(* Proofs about CredentialScheduling for every set of credentials, groups, *)
(* requests and configurations, and every width of the counters.           *)
(***************************************************************************)
EXTENDS CredentialScheduling, TLAPS

\* Members mirror the registry: each registered credential has a member of the
\* same identity and no other member exists (every registry operation that
\* changes an identity ends in syncCredentialLocked or removeLocked).
Mirror == \A c \in Credentials : member[c].gen = entry[c].gen

\* The inductive invariant.
Inv == TypeOK /\ Mirror /\ OneHistory /\ AwayIsPending

-----------------------------------------------------------------------------
(* Arithmetic. *)

\* A step of progress is a natural number (SchedulingProgress.Advance).
LEMMA StepIsNat == \A w \in Int : w > 0 => Scale \div w \in Nat
  BY WidthAssumption, SMT

\* The cap of a run is at least its first selection.
LEMMA StreakCapPositive == StreakCap \in Nat /\ StreakCap >= 1
  <1>1. MaxWeight * MaxWeight >= 1 /\ MaxWeight * MaxWeight \in Nat
    BY WidthAssumption, SMT
  <1> QED BY <1>1, WidthAssumption DEF StreakCap

-----------------------------------------------------------------------------
(* Members follow their entries. *)

\* syncCredentialLocked on a member that stays keeps its history and never
\* forgets that calibration is due.
LEMMA FollowedFacts ==
  ASSUME NEW m \in Member, NEW e \in Entry, NEW t \in Nat
  PROVE  /\ Followed(m, e, t) \in Member
         /\ Followed(m, e, t).gen = m.gen
         /\ Followed(m, e, t).progress = m.progress
         /\ Followed(m, e, t).last = m.last
         /\ Suspended(e, t) => Followed(m, e, t).pending
         /\ m.pending => Followed(m, e, t).pending
  <1>1. Suspended(e, t) \in BOOLEAN
    BY Zenon DEF Suspended
  <1>2. e.until \in Nat /\ m.gen \in Nat /\ m.progress \in 0 .. MaxProgress
        /\ m.last \in 0 .. MaxSequence /\ m.pending \in BOOLEAN /\ m.suspended \in BOOLEAN
    BY DEF Entry, Member
  <1>3. (\/ m.pending \/ m.suspended \/ Suspended(e, t)
         \/ (e.until # 0 /\ e.until # m.until)) \in BOOLEAN
    BY Zenon
  <1> HIDE DEF Suspended
  <1>4. Followed(m, e, t) \in Member
    BY <1>1, <1>2, <1>3 DEF Followed, Member
  <1> QED BY <1>4, Zenon DEF Followed

\* A new member has no history; in a group that is off it is pending.
LEMMA EntrantFacts ==
  ASSUME NEW c \in Credentials, NEW e \in Entry, NEW begun \in BOOLEAN, NEW on
  PROVE  /\ Entrant(c, e, begun, on) \in Member
         /\ Entrant(c, e, begun, on).gen = e.gen
         /\ Entrant(c, e, begun, on).progress = 0
         /\ Entrant(c, e, begun, on).last = 0
         /\ GroupOf[c] \notin on => Entrant(c, e, begun, on).pending
  <1>1. (begun \/ GroupOf[c] \notin on) \in BOOLEAN /\ e.gen \in Nat
    BY DEF Entry
  <1>2. Entrant(c, e, begun, on) \in Member
    BY <1>1, WidthAssumption DEF Entrant, Member
  <1> QED BY <1>2, Zenon DEF Entrant

\* The member of a credential after synchronisation: the identity of the entry,
\* and either the history it had under this identity or none.
LEMMA SyncedFacts ==
  ASSUME NEW c \in Credentials, NEW m \in Member, NEW e \in Entry, NEW t \in Nat,
         NEW begun \in BOOLEAN, NEW on
  PROVE  /\ Synced(c, m, e, t, begun, on) \in Member
         /\ Synced(c, m, e, t, begun, on).gen = e.gen
         /\ \/ /\ Synced(c, m, e, t, begun, on).progress = m.progress
               /\ Synced(c, m, e, t, begun, on).last = m.last
               /\ m.gen = e.gen
            \/ /\ Synced(c, m, e, t, begun, on).progress = 0
               /\ Synced(c, m, e, t, begun, on).last = 0
         /\ e.gen # 0 /\ Suspended(e, t) => Synced(c, m, e, t, begun, on).pending
         /\ (e.gen # 0 /\ GroupOf[c] \notin on /\ (m.gen = e.gen => m.pending))
            => Synced(c, m, e, t, begun, on).pending
  <1> DEFINE n == Entrant(c, e, begun, on)
  <1>1. NoMember \in Member /\ NoMember.gen = 0 /\ NoMember.progress = 0 /\ NoMember.last = 0
    BY WidthAssumption DEF NoMember, Member
  <1>2. CASE e.gen = 0
    BY <1>1, <1>2, Zenon DEF Synced
  <1>3. CASE e.gen # 0 /\ m.gen = e.gen
    <2>1. Synced(c, m, e, t, begun, on) = Followed(m, e, t)
      BY <1>3, Zenon DEF Synced
    <2>2. /\ Followed(m, e, t) \in Member
          /\ Followed(m, e, t).gen = m.gen
          /\ Followed(m, e, t).progress = m.progress
          /\ Followed(m, e, t).last = m.last
          /\ Suspended(e, t) => Followed(m, e, t).pending
          /\ m.pending => Followed(m, e, t).pending
      BY FollowedFacts
    <2> QED BY <1>3, <2>1, <2>2, Zenon
  <1>4. CASE e.gen # 0 /\ m.gen # e.gen
    <2>1. Synced(c, m, e, t, begun, on) = Followed(n, e, t)
      BY <1>4, Zenon DEF Synced
    <2>2. /\ n \in Member /\ n.gen = e.gen /\ n.progress = 0 /\ n.last = 0
          /\ GroupOf[c] \notin on => n.pending
      BY EntrantFacts
    <2> HIDE DEF n
    <2>3. /\ Followed(n, e, t) \in Member
          /\ Followed(n, e, t).gen = n.gen
          /\ Followed(n, e, t).progress = n.progress
          /\ Followed(n, e, t).last = n.last
          /\ Suspended(e, t) => Followed(n, e, t).pending
          /\ n.pending => Followed(n, e, t).pending
      BY <2>2, FollowedFacts
    <2> QED BY <1>4, <2>1, <2>2, <2>3, Zenon
  <1> QED BY <1>2, <1>3, <1>4, Zenon

-----------------------------------------------------------------------------
(* Registry operations. *)

\* Whatever a registry operation does to the entries it names, the
\* synchronisation it ends with keeps the invariant.
LEMMA SyncKeepsInv ==
  ASSUME Inv, NEW touched \in SUBSET Credentials, SyncCredentials(touched),
         entry' \in [Credentials -> Entry], identity' \in [Credentials -> Nat],
         \A c \in Credentials \ touched : entry'[c] = entry[c]
  PROVE  Inv'
  <1> DEFINE S(c) == Synced(c, member[c], entry'[c], now, started, config.on)
  <1>1. /\ member \in [Credentials -> Member] /\ now \in Nat /\ started \in BOOLEAN
        /\ watermark \in 0 .. MaxProgress /\ sequence \in 0 .. MaxSequence
        /\ entry \in [Credentials -> Entry]
    BY Zenon DEF Inv, TypeOK
  <1>2. /\ member' = [c \in Credentials |-> IF c \in touched THEN S(c) ELSE member[c]]
        /\ now' = now /\ config' = config /\ started' = started /\ watermark' = watermark
        /\ sequence' = sequence /\ pinned' = pinned /\ chosen' = chosen
        /\ streak' = streak \/ streak' = NoStreak
    BY Zenon DEF SyncCredentials, requests
  <1>3. ASSUME NEW c \in Credentials
        PROVE  /\ S(c) \in Member
               /\ S(c).gen = entry'[c].gen
               /\ \/ S(c).progress = member[c].progress /\ S(c).last = member[c].last
                     /\ member[c].gen = entry'[c].gen
                  \/ S(c).progress = 0 /\ S(c).last = 0
               /\ entry'[c].gen # 0 /\ Suspended(entry'[c], now) => S(c).pending
               /\ (entry'[c].gen # 0 /\ GroupOf[c] \notin config.on
                   /\ (member[c].gen = entry'[c].gen => member[c].pending)) => S(c).pending
    BY <1>1, SyncedFacts
  <1> HIDE DEF S
  <1>4. ASSUME NEW c \in Credentials
        PROVE  /\ member'[c] \in Member
               /\ c \in touched => member'[c] = S(c)
               /\ c \notin touched => member'[c] = member[c] /\ entry'[c] = entry[c]
    BY <1>1, <1>2, <1>3
  <1>5. TypeOK'
    <2>1. member' \in [Credentials -> Member]
      BY <1>2, <1>4
    <2>2. NoStreak \in [member : Credentials \cup {0}, count : 0 .. StreakCap]
      BY StreakCapPositive DEF NoStreak
    <2> QED BY <1>2, <2>1, <2>2, Zenon DEF Inv, TypeOK
  <1>6. Mirror'
    BY <1>3, <1>4, Zenon DEF Inv, Mirror
  <1>7. OneHistory'
    <2>1. ASSUME NEW c \in Credentials
          PROVE  \/ /\ member'[c].progress = member[c].progress
                    /\ member'[c].last = member[c].last
                    /\ member'[c].gen = member[c].gen
                 \/ member'[c].progress = 0 /\ member'[c].last = 0
      BY <1>3, <1>4, Zenon
    <2>2. ASSUME NEW c \in Credentials
          PROVE  member'[c].progress <= watermark /\ member'[c].last <= sequence
      BY <1>1, <2>1 DEF Inv, OneHistory
    <2>3. ASSUME NEW c \in Credentials, NEW d \in Credentials, c # d,
                 member'[c].gen # 0, member'[d].gen # 0, member'[c].last = member'[d].last
          PROVE  member'[c].last = 0
      BY <2>1, <2>3, Zenon DEF Inv, OneHistory
    <2> QED BY <1>2, <2>2, <2>3, Zenon DEF OneHistory
  <1>8. AwayIsPending'
    <2> SUFFICES ASSUME NEW c \in Credentials, entry'[c].gen # 0,
                        Suspended(entry'[c], now) \/ GroupOf[c] \notin config.on
                 PROVE  member'[c].pending
      BY <1>2, Zenon DEF AwayIsPending
    <2>1. CASE c \notin touched
      BY <1>4, <2>1, Zenon DEF Inv, AwayIsPending
    <2>2. CASE c \in touched /\ Suspended(entry'[c], now)
      BY <1>3, <1>4, <2>2, Zenon
    <2>3. CASE c \in touched /\ GroupOf[c] \notin config.on
      <3>1. member[c].gen = entry'[c].gen => member[c].pending
        BY <2>3, Zenon DEF Inv, Mirror, AwayIsPending
      <3> QED BY <1>3, <1>4, <2>3, <3>1, Zenon
    <2> QED BY <2>1, <2>2, <2>3, Zenon
  <1> QED BY <1>5, <1>6, <1>7, <1>8, Zenon DEF Inv

\* Every operation of the registry keeps the invariant.
LEMMA RegistryKeepsInv == Inv /\ Registry => Inv'
  <1> SUFFICES ASSUME Inv, Registry PROVE Inv'
    OBVIOUS
  <1>1. /\ entry \in [Credentials -> Entry] /\ identity \in [Credentials -> Nat]
        /\ Weights \subseteq 0 .. MaxWeight /\ Obstacles \subseteq ObstacleKinds
    BY ConfigsAssumption, GroupsAssumption, Zenon DEF Inv, TypeOK
  <1>2. ASSUME NEW c \in Credentials, NEW e \in Entry,
               entry' = [entry EXCEPT ![c] = e], identity' \in [Credentials -> Nat],
               SyncCredentials({c})
        PROVE  Inv'
    <2>1. entry' \in [Credentials -> Entry] /\ \A d \in Credentials \ {c} : entry'[d] = entry[d]
      BY <1>1, <1>2
    <2> QED BY <1>2, <2>1, SyncKeepsInv
  <1>3. ASSUME NEW c \in Credentials, NEW gen \in 1 .. MaxGeneration, NEW w \in Weights,
               ApplyCredentialImport(c, gen, w)
        PROVE  Inv'
    <2>1. gen \in Nat /\ w \in 0 .. MaxWeight /\ entry[c] \in Entry
      BY <1>1, BoundsAssumption
    <2>2. Loaded(gen, {}, w) \in Entry
      BY <2>1, WidthAssumption DEF Entry, Loaded
    <2>3. identity' \in [Credentials -> Nat]
      BY <1>1, <1>3, <2>1 DEF ApplyCredentialImport
    <2> QED BY <1>2, <1>3, <2>2, <2>3, Zenon DEF ApplyCredentialImport
  <1>4. ASSUME NEW c \in Credentials, RemoveCredential(c) PROVE Inv'
    <2>1. NoEntry \in Entry
      BY WidthAssumption DEF Entry, NoEntry
    <2> QED BY <1>1, <1>2, <1>4, <2>1, Zenon DEF RemoveCredential
  <1>5. ASSUME NEW c \in Credentials, NEW o \in Obstacles, Block(c, o) PROVE Inv'
    <2> DEFINE b == (IF o \in AuthStates THEN entry[c].blocked \ AuthStates
                                         ELSE entry[c].blocked) \cup {o}
    <2>1. entry[c] \in Entry /\ entry[c].blocked \subseteq ObstacleKinds
      BY <1>1 DEF Entry
    <2>2. b \subseteq ObstacleKinds
      BY <1>1, <2>1
    <2>3. entry' = [entry EXCEPT ![c] = [entry[c] EXCEPT !.blocked = b]]
      BY <1>1, <1>5 DEF Block
    <2> HIDE DEF b
    <2>4. [entry[c] EXCEPT !.blocked = b] \in Entry
      BY <2>1, <2>2 DEF Entry
    <2> QED BY <1>1, <1>2, <1>5, <2>3, <2>4, Zenon DEF Block
  <1>6. ASSUME NEW c \in Credentials, NEW o \in Obstacles, Unblock(c, o) PROVE Inv'
    <2>1. [entry[c] EXCEPT !.blocked = @ \ {o}] \in Entry
      BY <1>1 DEF Entry
    <2>2. entry' = [entry EXCEPT ![c] = [entry[c] EXCEPT !.blocked = @ \ {o}]]
      BY <1>1, <1>6 DEF Unblock
    <2> QED BY <1>1, <1>2, <1>6, <2>1, <2>2, Zenon DEF Unblock
  <1>7. ASSUME NEW c \in Credentials, ReplaceSecret(c) PROVE Inv'
    <2>1. /\ entry' = [entry EXCEPT ![c] = [entry[c] EXCEPT !.blocked = @ \ AuthStates]]
          /\ now' = now /\ identity' = identity /\ config' = config /\ member' = member
          /\ started' = started /\ watermark' = watermark /\ sequence' = sequence
          /\ streak' = streak /\ pinned' = pinned /\ chosen' = chosen
      BY <1>1, <1>7 DEF ReplaceSecret, ledger, requests
    <2>2. entry' \in [Credentials -> Entry]
      BY <1>1, <2>1 DEF Entry
    <2>3. ASSUME NEW d \in Credentials
          PROVE  /\ entry'[d].gen = entry[d].gen /\ entry'[d].weight = entry[d].weight
                 /\ entry'[d].until = entry[d].until
                 /\ entry'[d].blocked \subseteq entry[d].blocked
      BY <1>1, <2>1 DEF Entry
    <2>4. \A d \in Credentials : Suspended(entry'[d], now) => Suspended(entry[d], now)
      BY <2>3 DEF Suspended
    <2>5. TypeOK'
      BY <2>1, <2>2, Zenon DEF Inv, TypeOK
    <2>6. Mirror' /\ OneHistory'
      BY <2>1, <2>3, Zenon DEF Inv, Mirror, OneHistory
    <2>7. AwayIsPending'
      BY <2>1, <2>3, <2>4, Zenon DEF Inv, AwayIsPending
    <2> QED BY <2>5, <2>6, <2>7, Zenon DEF Inv
  <1>8. ASSUME NEW c \in Credentials, NEW w \in Weights, UpdateWeight(c, w) PROVE Inv'
    <2>1. [entry[c] EXCEPT !.weight = w] \in Entry
      BY <1>1 DEF Entry
    <2>2. entry' = [entry EXCEPT ![c] = [entry[c] EXCEPT !.weight = w]]
      BY <1>1, <1>8 DEF UpdateWeight
    <2> QED BY <1>1, <1>2, <1>8, <2>1, <2>2, Zenon DEF UpdateWeight
  <1>9. ASSUME NEW c \in Credentials, NEW u \in 1 .. MaxTime, SetCooldown(c, u) PROVE Inv'
    <2>1. [entry[c] EXCEPT !.until = u] \in Entry
      BY <1>1, BoundsAssumption DEF Entry
    <2>2. entry' = [entry EXCEPT ![c] = [entry[c] EXCEPT !.until = u]]
      BY <1>1, <1>9 DEF SetCooldown
    <2> QED BY <1>1, <1>2, <1>9, <2>1, <2>2, Zenon DEF SetCooldown
  <1>10. ASSUME NEW c \in Credentials, ClearCooldown(c) PROVE Inv'
    <2>1. [entry[c] EXCEPT !.until = 0] \in Entry
      BY <1>1 DEF Entry
    <2>2. entry' = [entry EXCEPT ![c] = [entry[c] EXCEPT !.until = 0]]
      BY <1>1, <1>10 DEF ClearCooldown
    <2> QED BY <1>1, <1>2, <1>10, <2>1, <2>2, Zenon DEF ClearCooldown
  <1>11. ASSUME NEW c \in Credentials, RestoreRuntimeState(c) PROVE Inv'
    <2> DEFINE e == [entry[c] EXCEPT !.until = 0, !.blocked = @ \ {"blacklisted"}]
    <2>1. e \in Entry
      BY <1>1, Zenon DEF Entry
    <2>2. entry' = [entry EXCEPT ![c] = e]
      BY <1>1, <1>11, Zenon DEF RestoreRuntimeState
    <2> HIDE DEF e
    <2> QED BY <1>1, <1>2, <1>11, <2>1, <2>2, Zenon DEF RestoreRuntimeState
  <1>12. ASSUME NEW c \in Credentials, NEW b \in SUBSET Obstacles, NEW w \in Weights,
                NEW u \in 0 .. MaxTime, RestoreExact(c, b, w, u)
         PROVE  Inv'
    <2>1. [gen |-> identity[c], blocked |-> b, weight |-> w, until |-> u] \in Entry
      BY <1>1, BoundsAssumption DEF Entry
    <2> QED BY <1>1, <1>2, <1>12, <2>1, Zenon DEF RestoreExact
  <1>13. ASSUME NEW T \in SUBSET Credentials, NEW R, ReloadCredentials(T, R) PROVE Inv'
    <2>1. \A c \in Credentials : Persistent(entry[c]) \in Entry
      BY <1>1 DEF Entry, Persistent, Loaded
    <2>2. entry' \in [Credentials -> Entry] /\ \A c \in Credentials \ T : entry'[c] = entry[c]
      BY <1>1, <1>13, <2>1 DEF ReloadCredentials
    <2> QED BY <1>1, <1>13, <2>2, SyncKeepsInv DEF ReloadCredentials
  <1> QED
    BY <1>3, <1>4, <1>5, <1>6, <1>7, <1>8, <1>9, <1>10, <1>11, <1>12, <1>13, Zenon DEF Registry

-----------------------------------------------------------------------------
(* Publication, selection and time. *)

\* SyncGroups marks every member of a group that is off.
LEMMA PublishKeepsInv == Inv /\ (\E c \in Configs : Publish(c)) => Inv'
  <1> SUFFICES ASSUME Inv, NEW p \in Configs, Publish(p) PROVE Inv'
    OBVIOUS
  <1> DEFINE due(x) == config.priority # p.priority \/ GroupOf[x] \notin p.on
  <1>1. /\ config \in Snapshot /\ member \in [Credentials -> Member]
        /\ p \in [on : SUBSET Groups, priority : [Groups -> Int], weight : [Groups -> 1 .. MaxWeight]]
    BY ConfigsAssumption, Zenon DEF Inv, TypeOK
  <1>2. /\ config' = [revision |-> config.revision + 1, on |-> p.on,
                      priority |-> p.priority, weight |-> p.weight]
        /\ member' = [x \in Credentials |-> IF member[x].gen # 0 /\ due(x)
                                            THEN [member[x] EXCEPT !.pending = TRUE] ELSE member[x]]
        /\ now' = now /\ identity' = identity /\ entry' = entry /\ started' = started
        /\ watermark' = watermark /\ sequence' = sequence /\ streak' = streak
        /\ pinned' = pinned /\ chosen' = chosen
    BY Zenon DEF Publish, Published, registry, requests
  <1>3. config' \in Snapshot /\ config'.on = p.on
    BY <1>1, <1>2 DEF Snapshot
  <1>4. member' \in [Credentials -> Member]
    BY <1>1, <1>2, ZenonT(40) DEF Member
  <1>5. ASSUME NEW x \in Credentials
        PROVE  /\ member'[x].gen = member[x].gen /\ member'[x].progress = member[x].progress
               /\ member'[x].last = member[x].last
               /\ member[x].pending => member'[x].pending
               /\ member[x].gen # 0 /\ GroupOf[x] \notin p.on => member'[x].pending
    BY <1>1, <1>2 DEF Member
  <1>6. TypeOK'
    BY <1>2, <1>3, <1>4, Zenon DEF Inv, TypeOK
  <1>7. Mirror' /\ OneHistory'
    BY <1>2, <1>5 DEF Inv, Mirror, OneHistory
  <1>8. AwayIsPending'
    <2> SUFFICES ASSUME NEW x \in Credentials, entry[x].gen # 0,
                        Suspended(entry[x], now) \/ GroupOf[x] \notin p.on
                 PROVE  member'[x].pending
      BY <1>2, <1>3, Zenon DEF AwayIsPending
    <2>1. CASE Suspended(entry[x], now)
      BY <1>5, <2>1, Zenon DEF Inv, AwayIsPending
    <2>2. CASE GroupOf[x] \notin p.on
      BY <1>5, <2>2, Zenon DEF Inv, Mirror
    <2> QED BY <2>1, <2>2
  <1> QED BY <1>6, <1>7, <1>8, Zenon DEF Inv

\* The calibration of selectCredential admits only members in service, at a
\* coordinate the watermark bounds.
LEMMA CalibrationKeepsInv ==
  ASSUME Inv, NEW pool, NEW s \in Snapshot, NEW b \in 0 .. MaxProgress, b <= watermark,
         NEW c \in Credentials
  PROVE  LET m == Calibrated(Eligible(pool, s), s, b)[c]
         IN  /\ m \in Member
             /\ m.gen = member[c].gen /\ m.last = member[c].last /\ m.progress <= watermark
             /\ entry[c].gen # 0 /\ (Suspended(entry[c], now) \/ GroupOf[c] \notin config.on)
                => m.pending
  <1> DEFINE m == Calibrated(Eligible(pool, s), s, b)[c]
  <1>1. /\ member[c] \in Member /\ entry[c] \in Entry /\ now \in Nat
        /\ watermark \in 0 .. MaxProgress /\ member[c].progress <= watermark
        /\ GroupOf[c] \in Groups
    BY GroupsAssumption DEF Inv, TypeOK, OneHistory
  <1>2. CASE c \in Eligible(pool, s) /\ MayCalibrate(c, s)
    <2>1. m = Admitted(member[c], b)
      BY <1>2, Zenon DEF Calibrated
    <2>2. /\ GroupOf[c] \in config.on /\ entry[c].blocked = {} /\ entry[c].until <= now
          /\ s.weight[GroupOf[c]] * entry[c].weight > 0
      BY <1>2, Zenon DEF Eligible, Available, EffectiveWeight, MayCalibrate
    <2>3. s.weight[GroupOf[c]] \in Int /\ entry[c].weight \in Int /\ entry[c].until \in Nat
      BY <1>1, WidthAssumption DEF Snapshot, Entry
    <2>4. entry[c].weight # 0
      BY <2>2, <2>3
    <2>5. ~Suspended(entry[c], now)
      BY <1>1, <2>2, <2>3, <2>4 DEF Suspended
    <2>6. /\ Admitted(member[c], b) \in Member
          /\ Admitted(member[c], b).gen = member[c].gen
          /\ Admitted(member[c], b).last = member[c].last
          /\ Admitted(member[c], b).progress <= watermark
      BY <1>1 DEF Admitted, Member
    <2> HIDE DEF m
    <2> QED BY <2>1, <2>2, <2>5, <2>6, Zenon DEF m
  <1>3. CASE ~(c \in Eligible(pool, s) /\ MayCalibrate(c, s))
    <2>1. m = member[c]
      BY <1>3, Zenon DEF Calibrated
    <2> HIDE DEF m
    <2>2. m \in Member /\ m.gen = member[c].gen /\ m.last = member[c].last /\ m.progress <= watermark
      BY <1>1, <2>1
    <2>3. entry[c].gen # 0 /\ (Suspended(entry[c], now) \/ GroupOf[c] \notin config.on)
                => m.pending
      BY <2>1, Zenon DEF Inv, AwayIsPending
    <2> QED BY <2>2, <2>3, Zenon DEF m
  <1> QED BY <1>2, <1>3, Zenon

\* A selection charges one member, under the next sequence number, and raises
\* the watermark with it.
LEMMA SelectKeepsInv ==
  ASSUME Inv, NEW q \in Requests, NEW pool \in SUBSET Credentials, NEW preferred,
         NEW replay \in BOOLEAN,
         SelectCredential(q, Eligible(pool, pinned[q]), preferred, replay)
  PROVE  Inv'
  <1> DEFINE E == Eligible(pool, pinned[q])
  <1>1. /\ pinned[q] \in Snapshot /\ member \in [Credentials -> Member]
        /\ watermark \in 0 .. MaxProgress /\ sequence \in 0 .. MaxSequence
        /\ entry \in [Credentials -> Entry]
        /\ streak \in [member : Credentials \cup {0}, count : 0 .. StreakCap]
        /\ chosen \in [Requests -> [id : Credentials \cup {0}, gen : Nat, replayed : BOOLEAN]]
    BY DEF Inv, TypeOK
  <1>2. E \subseteq Credentials
    BY ZenonT(40) DEF Eligible
  <1>3. PICK c \in E, b \in {watermark} \cup {member[d].progress : d \in E} :
          SelectCredential(q, E, preferred, replay)!(c, b)
    BY DEF SelectCredential
  <1> DEFINE ms == Calibrated(E, pinned[q], b)
             w == EffectiveWeight(c, pinned[q])
             next == Advance(ms[c].progress, w)
  <1>4. b \in 0 .. MaxProgress /\ b <= watermark
    BY <1>1, <1>2 DEF Inv, OneHistory, Member
  <1>5. ASSUME NEW d \in Credentials
        PROVE  /\ ms[d] \in Member
               /\ ms[d].gen = member[d].gen /\ ms[d].last = member[d].last
               /\ ms[d].progress <= watermark
               /\ entry[d].gen # 0 /\ (Suspended(entry[d], now) \/ GroupOf[d] \notin config.on)
                  => ms[d].pending
    BY <1>1, <1>4, CalibrationKeepsInv
  <1>6. ms \in [Credentials -> Member]
    <2>1. ms = [d \in Credentials |-> ms[d]]
      BY DEF Calibrated
    <2> HIDE DEF ms
    <2> QED BY <1>5, <2>1
  <1>7. /\ now' = now /\ identity' = identity /\ entry' = entry /\ config' = config
        /\ pinned' = pinned /\ sequence < MaxSequence
    BY <1>3, Zenon DEF registry
  <1>8. next \in Nat
    <2>1. w \in Int /\ w > 0
      BY <1>1, <1>2, GroupsAssumption, WidthAssumption
         DEF Eligible, EffectiveWeight, Snapshot, Entry
    <2>2. ms[c].progress \in Nat
      BY <1>2, <1>5, WidthAssumption DEF Member
    <2> HIDE DEF w, ms
    <2> QED BY <2>1, <2>2, StepIsNat DEF Advance
  <1>9. CASE next <= MaxProgress
    <2>1. /\ sequence' = sequence + 1
          /\ member' = [ms EXCEPT ![c] = Charged(ms[c], next)]
          /\ started' = TRUE
          /\ watermark' = HighWater(watermark, next)
          /\ streak' = NextStreak(c)
          /\ chosen' = [chosen EXCEPT ![q] =
                 [id |-> IF c \in Refreshable THEN c ELSE 0,
                  gen |-> IF c \in Refreshable THEN entry[c].gen ELSE 0,
                  replayed |-> replay]]
      BY SMTT(60), <1>1, <1>3, <1>8, <1>9, WidthAssumption
    <2> HIDE DEF ms, next, w, E
    <2>2. c \in Credentials
      BY <1>2
    <2>3. /\ sequence' \in 0 .. MaxSequence /\ watermark' \in 0 .. MaxProgress
          /\ watermark <= watermark' /\ next <= watermark'
      BY <1>1, <1>7, <1>8, <1>9, <2>1, WidthAssumption DEF HighWater
    <2>4. /\ Charged(ms[c], next) \in Member
          /\ Charged(ms[c], next).gen = member[c].gen
          /\ Charged(ms[c], next).progress = next
          /\ Charged(ms[c], next).last = sequence + 1
          /\ Charged(ms[c], next).pending = ms[c].pending
      BY <1>1, <1>5, <1>7, <1>8, <1>9, <2>2, WidthAssumption DEF Charged, Member
    <2>5. /\ member' \in [Credentials -> Member] /\ member'[c] = Charged(ms[c], next)
          /\ \A d \in Credentials : d # c => member'[d] = ms[d]
      BY <1>6, <2>1, <2>2, <2>4
    <2>6. NextStreak(c) \in [member : Credentials \cup {0}, count : 0 .. StreakCap]
      BY <1>1, <2>2, StreakCapPositive DEF NextStreak
    <2>7. chosen' \in [Requests -> [id : Credentials \cup {0}, gen : Nat, replayed : BOOLEAN]]
      BY <1>1, <2>1, <2>2 DEF Entry
    <2>8. TypeOK'
      BY <1>7, <2>1, <2>3, <2>5, <2>6, <2>7, Zenon DEF Inv, TypeOK
    <2>9. Mirror'
      BY <1>5, <1>7, <2>4, <2>5, Zenon DEF Inv, Mirror
    <2>10. OneHistory'
      <3>1. ASSUME NEW d \in Credentials
            PROVE  member'[d].progress <= watermark' /\ member'[d].last <= sequence'
        <4>1. /\ ms[d].progress \in Nat /\ ms[d].last <= sequence /\ ms[d].last \in Nat
              /\ ms[d].progress <= watermark /\ sequence \in Nat
          BY <1>1, <1>5, WidthAssumption DEF Inv, OneHistory, Member
        <4>2. CASE d = c
          BY SMTT(60), <1>1, <1>8, <2>1, <2>3, <2>4, <2>5, <4>2, WidthAssumption
        <4>3. CASE d # c
          BY <1>1, <2>1, <2>3, <2>5, <4>1, <4>3, WidthAssumption
        <4> QED BY <4>2, <4>3
      <3>2. ASSUME NEW x \in Credentials, NEW y \in Credentials, x # y,
                   member'[x].gen # 0, member'[y].gen # 0, member'[x].last = member'[y].last
            PROVE  member'[x].last = 0
        <4>1. \A d \in Credentials : ms[d].last <= sequence /\ ms[d].last \in Nat
          BY <1>1, <1>5, WidthAssumption DEF Inv, OneHistory, Member
        <4>2. x # c /\ y # c
          BY <1>1, <2>4, <2>5, <3>2, <4>1, WidthAssumption
        <4>3. /\ member'[x].last = member[x].last /\ member[x].gen # 0
              /\ member'[y].last = member[y].last /\ member[y].gen # 0
          BY <1>5, <2>5, <3>2, <4>2
        <4> QED BY <3>2, <4>3, Zenon DEF Inv, OneHistory
      <3> QED BY <3>1, <3>2, Zenon DEF OneHistory
    <2>11. AwayIsPending'
      <3>1. \A d \in Credentials : member'[d].pending = ms[d].pending
        BY <2>4, <2>5, Zenon
      <3> QED BY <1>5, <1>7, <3>1, Zenon DEF AwayIsPending
    <2> QED BY <2>8, <2>9, <2>10, <2>11, ZenonT(40) DEF Inv
  <1>10. CASE ~(next <= MaxProgress)
    <2>1. /\ member' = ms /\ started' = started /\ watermark' = watermark
          /\ sequence' = sequence /\ streak' = streak /\ chosen' = chosen
      BY <1>3, <1>10, Zenon
    <2> HIDE DEF ms, next, w, E
    <2>2. TypeOK'
      BY <1>6, <1>7, <2>1, Zenon DEF Inv, TypeOK
    <2>3. Mirror' /\ AwayIsPending'
      BY <1>5, <1>7, <2>1, Zenon DEF Inv, Mirror, AwayIsPending
    <2>4. OneHistory'
      BY <1>5, <2>1 DEF Inv, OneHistory
    <2> QED BY <2>2, <2>3, <2>4, Zenon DEF Inv
  <1> QED BY <1>9, <1>10

\* Requests and the clock.
LEMMA RequestsKeepInv == Inv /\ (Iterators \/ Tick) => Inv'
  <1> SUFFICES ASSUME Inv, Iterators \/ Tick PROVE Inv'
    OBVIOUS
  <1>1. ASSUME NEW q \in Requests, BeginRequest(q) \/ EndRequest(q) PROVE Inv'
    <2>1. /\ now' = now /\ identity' = identity /\ entry' = entry /\ config' = config
          /\ member' = member /\ started' = started /\ watermark' = watermark
          /\ sequence' = sequence /\ streak' = streak
      BY <1>1, Zenon DEF BeginRequest, EndRequest, registry, ledger
    <2>2. NoSnapshot \in Snapshot
      BY WidthAssumption DEF NoSnapshot, Snapshot
    <2>3. NoChoice \in [id : Credentials \cup {0}, gen : Nat, replayed : BOOLEAN]
      BY DEF NoChoice
    <2>4. /\ pinned' \in [Requests -> Snapshot]
          /\ chosen' \in [Requests -> [id : Credentials \cup {0}, gen : Nat, replayed : BOOLEAN]]
      BY <1>1, <2>2, <2>3 DEF Inv, TypeOK, BeginRequest, EndRequest
    <2>5. TypeOK'
      BY <2>1, <2>4, Zenon DEF Inv, TypeOK
    <2> QED BY <2>1, <2>5, Zenon DEF Inv, Mirror, OneHistory, AwayIsPending
  <1>2. ASSUME NEW q \in Requests, NEW pool \in Pools, NEW preferred \in Preferences,
               NextCredential(q, pool, preferred)
        PROVE  Inv'
    <2>1. /\ {c \in pool : GroupOf[c] \in pinned[q].on} \in SUBSET Credentials
          /\ chosen[q].replayed \in BOOLEAN
      BY PoolsAssumption DEF Inv, TypeOK
    <2> QED BY <1>2, <2>1, SelectKeepsInv, Zenon DEF NextCredential
  <1>3. ASSUME NEW q \in Requests, ChargeReplay(q) PROVE Inv'
    <2>1. {chosen[q].id} \in SUBSET Credentials
      BY <1>3, PoolsAssumption DEF ChargeReplay
    <2> QED BY <1>3, <2>1, SelectKeepsInv, Zenon DEF ChargeReplay
  <1>4. CASE Tick
    <2>1. /\ identity' = identity /\ entry' = entry /\ config' = config
          /\ member' = member /\ started' = started /\ watermark' = watermark
          /\ sequence' = sequence /\ streak' = streak /\ pinned' = pinned /\ chosen' = chosen
          /\ now' = now + 1
      BY <1>4, Zenon DEF Tick, registry, ledger, requests
    <2>2. now \in Nat /\ now' \in Nat /\ \A c \in Credentials : entry[c].until \in Nat
      BY <2>1 DEF Inv, TypeOK, Entry
    <2>3. \A c \in Credentials : Suspended(entry[c], now') => Suspended(entry[c], now)
      BY <2>1, <2>2 DEF Suspended
    <2>4. TypeOK' /\ Mirror' /\ OneHistory'
      BY <2>1, <2>2, Zenon DEF Inv, TypeOK, Mirror, OneHistory
    <2>5. AwayIsPending'
      BY <2>1, <2>3, Zenon DEF Inv, AwayIsPending
    <2> QED BY <2>4, <2>5, Zenon DEF Inv
  <1> QED BY <1>1, <1>2, <1>3, <1>4, Zenon DEF Iterators

-----------------------------------------------------------------------------
(* Restarts. *)

\* A member right after startup has no history, and is pending when its
\* credential or its group is out of service.
LEMMA FreshMemberFacts ==
  ASSUME NEW c \in Credentials, NEW e \in Entry, NEW on, now' \in Nat
  PROVE  /\ FreshMember(c, e, on) \in Member
         /\ FreshMember(c, e, on).gen = e.gen
         /\ FreshMember(c, e, on).progress = 0 /\ FreshMember(c, e, on).last = 0
         /\ e.gen # 0 /\ (Suspended(e, now') \/ GroupOf[c] \notin on)
            => FreshMember(c, e, on).pending
  <1> DEFINE f(begun) == Synced(c, NoMember, e, now', begun, on)
  <1>1. /\ NoMember \in Member /\ NoMember.gen = 0 /\ NoMember.progress = 0 /\ NoMember.last = 0
    BY WidthAssumption DEF NoMember, Member
  <1>2. ASSUME NEW begun \in BOOLEAN
        PROVE  /\ f(begun) \in Member /\ f(begun).gen = e.gen
               /\ f(begun).progress = 0 /\ f(begun).last = 0
               /\ e.gen # 0 /\ Suspended(e, now') => f(begun).pending
               /\ (e.gen # 0 /\ GroupOf[c] \notin on) => f(begun).pending
    BY <1>1, SyncedFacts
  <1> QED BY <1>2, Zenon DEF FreshMember

\* What holds of the requests, the configuration and the clock of a new process.
LEMMA NewProcessFacts ==
  ASSUME Inv, NewProcess
  PROVE  /\ now' \in Nat /\ now <= now' /\ now \in Nat
         /\ identity' \in [Credentials -> Nat]
         /\ config' \in Snapshot /\ config'.on = config.on
         /\ pinned' \in [Requests -> Snapshot]
         /\ chosen' \in [Requests -> [id : Credentials \cup {0}, gen : Nat, replayed : BOOLEAN]]
  <1>1. NoSnapshot \in Snapshot
    BY WidthAssumption DEF NoSnapshot, Snapshot
  <1>2. NoChoice \in [id : Credentials \cup {0}, gen : Nat, replayed : BOOLEAN]
    BY DEF NoChoice
  <1>3. config' \in Snapshot /\ config'.on = config.on
    BY Zenon DEF NewProcess, Inv, TypeOK, Snapshot
  <1>4. now' \in Nat /\ now <= now' /\ now \in Nat
    BY BoundsAssumption DEF NewProcess, Inv, TypeOK
  <1> QED BY <1>1, <1>2, <1>3, <1>4 DEF NewProcess, Inv, TypeOK

\* A ledger of members without history satisfies the invariant.
LEMMA EmptyLedger ==
  ASSUME Inv, NewProcess, entry' \in [Credentials -> Entry],
         member' \in [Credentials -> Member],
         started' = FALSE, watermark' = 0, sequence' = 0, streak' = NoStreak,
         \A c \in Credentials :
             /\ member'[c].gen = entry'[c].gen
             /\ member'[c].progress = 0 /\ member'[c].last = 0
             /\ entry'[c].gen # 0 /\ (Suspended(entry'[c], now') \/ GroupOf[c] \notin config.on)
                => member'[c].pending
  PROVE  Inv'
  <1>3. NoStreak \in [member : Credentials \cup {0}, count : 0 .. StreakCap]
    BY StreakCapPositive DEF NoStreak
  <1>4. 0 \in 0 .. MaxProgress /\ 0 \in 0 .. MaxSequence
    BY WidthAssumption
  <1>5. TypeOK'
    BY <1>3, <1>4, NewProcessFacts, Zenon DEF TypeOK
  <1>6. Mirror' /\ OneHistory'
    BY DEF Mirror, OneHistory
  <1>7. AwayIsPending'
    <2>1. config'.on = config.on
      BY NewProcessFacts
    <2> QED BY <2>1, Zenon DEF AwayIsPending
  <1> QED BY <1>5, <1>6, <1>7, Zenon DEF Inv

\* A crash.
LEMMA CrashKeepsInv == Inv /\ Crash => Inv'
  <1> SUFFICES ASSUME Inv, Crash PROVE Inv'
    OBVIOUS
  <1>1. entry \in [Credentials -> Entry] /\ NewProcess
    BY Zenon DEF Inv, TypeOK, Crash
  <1>2. entry' \in [Credentials -> Entry]
    <2>1. NoEntry \in Entry /\ \A c \in Credentials : Persistent(entry[c]) \in Entry
      BY <1>1, WidthAssumption DEF Entry, NoEntry, Persistent, Loaded
    <2> QED BY <2>1 DEF Crash
  <1> DEFINE f(c) == FreshMember(c, entry'[c], config.on)
  <1>3. \A c \in Credentials :
            /\ f(c) \in Member /\ f(c).gen = entry'[c].gen /\ f(c).progress = 0 /\ f(c).last = 0
            /\ entry'[c].gen # 0 /\ (Suspended(entry'[c], now') \/ GroupOf[c] \notin config.on)
               => f(c).pending
    BY <1>1, <1>2, NewProcessFacts, FreshMemberFacts
  <1>4. /\ member' = [c \in Credentials |-> f(c)]
        /\ started' = FALSE /\ watermark' = 0 /\ sequence' = 0 /\ streak' = NoStreak
    BY Zenon DEF Crash
  <1> HIDE DEF f
  <1>5. member' \in [Credentials -> Member] /\ \A c \in Credentials : member'[c] = f(c)
    BY <1>3, <1>4
  <1> QED BY <1>1, <1>2, <1>3, <1>4, <1>5, EmptyLedger, Zenon

\* A member after the health facts of its credential are restored.
LEMMA ReloadedFacts ==
  ASSUME Inv, NewProcess, NEW c \in Credentials
  PROVE  /\ Reloaded(c) \in Member /\ Reloaded(c).gen = entry[c].gen
         /\ Reloaded(c).progress = 0 /\ Reloaded(c).last = 0
         /\ entry[c].gen # 0 /\ (Suspended(entry[c], now') \/ GroupOf[c] \notin config.on)
            => Reloaded(c).pending
  <1> DEFINE p == Persistent(entry[c])
             f == FreshMember(c, p, config.on)
  <1>1. entry[c] \in Entry /\ now' \in Nat
    BY NewProcessFacts DEF Inv, TypeOK
  <1>2. p \in Entry /\ p.gen = entry[c].gen
    BY <1>1 DEF Entry, Persistent, Loaded
  <1>3. CASE entry[c].gen = 0
    <2>1. Reloaded(c) = NoMember
      BY <1>3, Zenon DEF Reloaded
    <2>2. /\ NoMember \in Member /\ NoMember.gen = 0 /\ NoMember.progress = 0 /\ NoMember.last = 0
      BY WidthAssumption DEF NoMember, Member
    <2> QED BY <1>3, <2>1, <2>2, Zenon
  <1>4. CASE entry[c].gen # 0
    <2>1. Reloaded(c) = Followed(f, entry[c], now')
      BY <1>4, Zenon DEF Reloaded
    <2> HIDE DEF p
    <2>2. /\ f \in Member /\ f.gen = p.gen /\ f.progress = 0 /\ f.last = 0
          /\ p.gen # 0 /\ (Suspended(p, now') \/ GroupOf[c] \notin config.on) => f.pending
      BY <1>1, <1>2, FreshMemberFacts
    <2> HIDE DEF f
    <2>3. /\ Followed(f, entry[c], now') \in Member
          /\ Followed(f, entry[c], now').gen = f.gen
          /\ Followed(f, entry[c], now').progress = f.progress
          /\ Followed(f, entry[c], now').last = f.last
          /\ Suspended(entry[c], now') => Followed(f, entry[c], now').pending
          /\ f.pending => Followed(f, entry[c], now').pending
      BY <1>1, <2>2, FollowedFacts
    <2> QED BY <1>2, <1>4, <2>1, <2>2, <2>3, Zenon
  <1> QED BY <1>3, <1>4

\* A clean restart, with or without a usable checkpoint.
LEMMA CleanRestartKeepsInv == Inv /\ CleanRestart => Inv'
  <1> SUFFICES ASSUME Inv, CleanRestart PROVE Inv'
    OBVIOUS
  <1>1. /\ NewProcess /\ entry' = entry /\ entry \in [Credentials -> Entry]
        /\ member \in [Credentials -> Member]
        /\ watermark \in 0 .. MaxProgress /\ sequence \in 0 .. MaxSequence
        /\ streak \in [member : Credentials \cup {0}, count : 0 .. StreakCap]
    BY Zenon DEF CleanRestart, Inv, TypeOK
  <1>2. ASSUME NEW c \in Credentials
        PROVE  /\ Reloaded(c) \in Member /\ Reloaded(c).gen = entry[c].gen
               /\ Reloaded(c).progress = 0 /\ Reloaded(c).last = 0
               /\ entry[c].gen # 0 /\ (Suspended(entry[c], now') \/ GroupOf[c] \notin config.on)
                  => Reloaded(c).pending
    BY <1>1, ReloadedFacts
  <1>3. CASE sequence = MaxSequence \/ watermark + Scale > MaxProgress
    <2>1. /\ member' = [c \in Credentials |-> Reloaded(c)]
          /\ started' = FALSE /\ watermark' = 0 /\ sequence' = 0 /\ streak' = NoStreak
      BY <1>1, <1>3, WidthAssumption DEF CleanRestart
    <2>2. member' \in [Credentials -> Member] /\ \A c \in Credentials : member'[c] = Reloaded(c)
      BY <1>2, <2>1
    <2> QED BY <1>1, <1>2, <2>1, <2>2, EmptyLedger, Zenon
  <1>4. CASE ~(sequence = MaxSequence \/ watermark + Scale > MaxProgress)
    <2> DEFINE r(c) == Restored(c, Reloaded(c), member[c])
    <2>1. /\ member' = [c \in Credentials |-> IF entry[c].gen = 0 THEN NoMember ELSE r(c)]
          /\ started' = (sequence # 0) /\ streak' \in {streak, NoStreak}
          /\ watermark' = watermark /\ sequence' = sequence
      BY <1>4 DEF CleanRestart
    <2>2. now <= now' /\ now \in Nat /\ now' \in Nat /\ config'.on = config.on
      BY <1>1, NewProcessFacts
    <2>3. \A c \in Credentials : Suspended(entry[c], now') => Suspended(entry[c], now)
      BY <1>1, <2>2 DEF Suspended, Entry
    <2>4. NoMember \in Member /\ NoMember.gen = 0 /\ NoMember.progress = 0 /\ NoMember.last = 0
      BY WidthAssumption DEF NoMember, Member
    <2>5. ASSUME NEW c \in Credentials, entry[c].gen # 0
          PROVE  /\ r(c) \in Member /\ r(c).gen = entry[c].gen
                 /\ \/ r(c).progress = member[c].progress /\ r(c).last = member[c].last
                    \/ r(c).progress = 0 /\ r(c).last = 0
                 /\ Suspended(entry[c], now') \/ GroupOf[c] \notin config.on => r(c).pending
      <3>1. Suspended(entry[c], now') \/ GroupOf[c] \notin config.on => member[c].pending
        BY <2>3, <2>5, Zenon DEF Inv, AwayIsPending
      <3>2. member[c] \in Member
        BY <1>1
      <3>3. CASE Restorable(member[c], Reloaded(c))
        <4> DEFINE due == member[c].pending \/ Reloaded(c).suspended \/ GroupOf[c] \notin config.on
        <4>1. r(c) = [gen |-> Reloaded(c).gen, progress |-> member[c].progress,
                      last |-> member[c].last, pending |-> due,
                      suspended |-> Reloaded(c).suspended, until |-> Reloaded(c).until]
          BY <3>3, Zenon DEF Restored
        <4>2. due \in BOOLEAN /\ (member[c].pending => due)
          BY Zenon
        <4> HIDE DEF due, r
        <4>3. r(c) \in Member
          BY <1>2, <3>2, <4>1, <4>2 DEF Member
        <4>4. /\ r(c).gen = Reloaded(c).gen /\ r(c).progress = member[c].progress
              /\ r(c).last = member[c].last /\ (due => r(c).pending)
          BY <4>1, <4>2
        <4> QED BY <1>2, <3>1, <4>2, <4>3, <4>4, Zenon
      <3>4. CASE ~Restorable(member[c], Reloaded(c))
        <4>1. r(c) = [gen |-> Reloaded(c).gen, progress |-> Reloaded(c).progress,
                      last |-> Reloaded(c).last, pending |-> TRUE,
                      suspended |-> Reloaded(c).suspended, until |-> Reloaded(c).until]
          BY <3>4, Zenon DEF Restored
        <4> HIDE DEF r
        <4>2. r(c) \in Member
          BY SMTT(60), <1>2, <4>1 DEF Member
        <4>3. /\ r(c).gen = Reloaded(c).gen /\ r(c).progress = Reloaded(c).progress
              /\ r(c).last = Reloaded(c).last /\ r(c).pending
          BY <4>1
        <4> QED BY <1>2, <4>2, <4>3, Zenon
      <3> QED BY <3>3, <3>4
    <2> HIDE DEF r
    <2>6. ASSUME NEW c \in Credentials
          PROVE  /\ member'[c] \in Member /\ member'[c].gen = entry[c].gen
                 /\ \/ member'[c].progress = member[c].progress /\ member'[c].last = member[c].last
                    \/ member'[c].progress = 0 /\ member'[c].last = 0
                 /\ entry[c].gen # 0 /\ (Suspended(entry[c], now') \/ GroupOf[c] \notin config.on)
                    => member'[c].pending
      <3>1. CASE entry[c].gen = 0
        <4>1. member'[c] = NoMember
          BY <2>1, <3>1
        <4> QED BY <2>4, <3>1, <4>1, Zenon
      <3>2. CASE entry[c].gen # 0
        <4>1. member'[c] = r(c)
          BY <2>1, <3>2
        <4> QED BY <2>5, <3>2, <4>1, Zenon
      <3> QED BY <3>1, <3>2
    <2>7. TypeOK'
      <3>1. member' \in [Credentials -> Member]
        BY <2>1, <2>6
      <3>2. NoStreak \in [member : Credentials \cup {0}, count : 0 .. StreakCap]
        BY StreakCapPositive DEF NoStreak
      <3>3. started' \in BOOLEAN
        BY <2>1
      <3> QED BY <1>1, <2>1, <3>1, <3>2, <3>3, NewProcessFacts DEF TypeOK
    <2>8. Mirror'
      BY <1>1, <2>6, Zenon DEF Mirror
    <2>9. OneHistory'
      <3>1. ASSUME NEW c \in Credentials
            PROVE  member'[c].progress <= watermark' /\ member'[c].last <= sequence'
        BY <1>1, <2>1, <2>6 DEF Inv, OneHistory
      <3>2. ASSUME NEW c \in Credentials, NEW d \in Credentials, c # d,
                   member'[c].gen # 0, member'[d].gen # 0, member'[c].last = member'[d].last
            PROVE  member'[c].last = 0
        BY <2>6, <3>2, ZenonT(40) DEF Inv, Mirror, OneHistory
      <3> QED BY <3>1, <3>2, Zenon DEF OneHistory
    <2>10. AwayIsPending'
      BY <1>1, <2>2, <2>6, Zenon DEF AwayIsPending
    <2> QED BY <2>7, <2>8, <2>9, <2>10, Zenon DEF Inv
  <1> QED BY <1>3, <1>4

-----------------------------------------------------------------------------
(* The theorems. *)

\* The empty registry and ledger of a first start.
LEMMA InitInv == Init => Inv
  <1> SUFFICES ASSUME Init PROVE Inv
    OBVIOUS
  <1>1. /\ NoMember \in Member /\ NoEntry \in Entry /\ NoSnapshot \in Snapshot
        /\ NoChoice \in [id : Credentials \cup {0}, gen : Nat, replayed : BOOLEAN]
    BY SMTT(60), WidthAssumption DEF NoMember, Member, NoEntry, Entry, NoSnapshot, Snapshot, NoChoice
  <1>2. NoStreak \in [member : Credentials \cup {0}, count : 0 .. StreakCap]
    BY StreakCapPositive DEF NoStreak
  <1>3. config \in Snapshot
    BY ConfigsAssumption DEF Init, Published, Snapshot
  <1>4. TypeOK
    <2>1. /\ now \in Nat /\ identity \in [Credentials -> Nat]
          /\ watermark \in 0 .. MaxProgress /\ sequence \in 0 .. MaxSequence
      <3>1. 0 \in Nat /\ 0 \in 0 .. MaxProgress /\ 0 \in 0 .. MaxSequence
        BY WidthAssumption
      <3> QED BY <3>1, Zenon DEF Init
    <2>2. /\ entry \in [Credentials -> Entry] /\ member \in [Credentials -> Member]
          /\ pinned \in [Requests -> Snapshot]
          /\ chosen \in [Requests -> [id : Credentials \cup {0}, gen : Nat, replayed : BOOLEAN]]
      BY <1>1, Zenon DEF Init
    <2> QED BY <1>2, <1>3, <2>1, <2>2, Zenon DEF Init, TypeOK
  <1>5. \A c \in Credentials :
            /\ member[c].gen = 0 /\ member[c].progress = 0 /\ member[c].last = 0
            /\ entry[c].gen = 0
    BY DEF Init, NoMember, NoEntry
  <1>6. Mirror /\ OneHistory /\ AwayIsPending
    BY <1>5 DEF Init, Mirror, OneHistory, AwayIsPending
  <1> QED BY <1>4, <1>6, Zenon DEF Inv

\* Every step keeps the invariant.
LEMMA NextInv == Inv /\ [Next]_vars => Inv'
  <1> SUFFICES ASSUME Inv, [Next]_vars PROVE Inv'
    OBVIOUS
  <1>1. CASE UNCHANGED vars
    <2>1. /\ now' = now /\ identity' = identity /\ entry' = entry /\ config' = config
          /\ member' = member /\ started' = started /\ watermark' = watermark
          /\ sequence' = sequence /\ streak' = streak /\ pinned' = pinned /\ chosen' = chosen
      BY <1>1, Zenon DEF vars, registry, ledger, requests
    <2> QED BY <2>1, Zenon DEF Inv, TypeOK, Mirror, OneHistory, AwayIsPending
  <1> QED
    BY <1>1, RegistryKeepsInv, PublishKeepsInv, RequestsKeepInv, CrashKeepsInv,
       CleanRestartKeepsInv, Zenon DEF Next

\* The invariant holds in every reachable state.
LEMMA AlwaysInv == Spec => []Inv
  BY InitInv, NextInv, PTL DEF Spec

\* Every variable of registry, ledger and requests keeps its type; no coordinate
\* and no sequence number leaves its range.
THEOREM TypeCorrect == Spec => []TypeOK
  <1>1. Inv => TypeOK
    BY Zenon DEF Inv
  <1> QED BY <1>1, AlwaysInv, PTL

\* The ledger stays one history through imports, removals, publications,
\* selections and restarts, for any number of credentials and requests.
THEOREM LedgerIsOneHistory == Spec => []OneHistory
  <1>1. Inv => OneHistory
    BY Zenon DEF Inv
  <1> QED BY <1>1, AlwaysInv, PTL

\* A credential out of service, or in a group that is off, always has its
\* calibration due, whatever sequence of operations took it there.
THEOREM AbsenceIsRemembered == Spec => []AwayIsPending
  <1>1. Inv => AwayIsPending
    BY Zenon DEF Inv
  <1> QED BY <1>1, AlwaysInv, PTL


-----------------------------------------------------------------------------
(* Joining. *)

\* What the admission of a member rests on besides Inv: a request holds the
\* published snapshot or an older one of this process, nothing has progressed
\* before the first selection, and nothing is due of a credential that is gone.
Current ==
    /\ config.revision >= 1
    /\ \A q \in Requests : /\ pinned[q].revision <= config.revision
                           /\ pinned[q].revision = config.revision => pinned[q] = config
    /\ sequence = 0 => watermark = 0
    /\ \A c \in Credentials : member[c].gen = 0 => ~member[c].pending

\* The part of Current that is about the ledger, and what a step that admits
\* nobody leaves of the pending marks.
Marks ==
    /\ \A c \in Credentials : member'[c].gen = 0 => ~member'[c].pending
    /\ \A c \in Credentials : member[c].pending /\ member'[c].gen = member[c].gen
                              => member'[c].pending

\* A member that is synchronised stays pending under its identity, and none is
\* left of a credential that is gone (syncCredentialLocked, removeLocked).
LEMMA SyncedMarks ==
  ASSUME NEW c \in Credentials, NEW m \in Member, NEW e \in Entry, NEW t \in Nat,
         NEW begun \in BOOLEAN, NEW on, m.gen = 0 => ~m.pending
  PROVE  LET s == Synced(c, m, e, t, begun, on)
         IN  (s.gen = 0 => ~s.pending) /\ (m.pending /\ s.gen = m.gen => s.pending)
  <1> DEFINE s == Synced(c, m, e, t, begun, on)
  <1>1. s.gen = e.gen
    BY SyncedFacts
  <1>2. CASE e.gen = 0
    <2>1. s = NoMember
      BY <1>2, Zenon DEF Synced
    <2>2. ~NoMember.pending /\ NoMember.gen = 0
      BY DEF NoMember
    <2> HIDE DEF s
    <2> QED BY <2>1, <2>2, Zenon DEF s
  <1>3. CASE e.gen # 0 /\ m.gen = e.gen
    <2>1. s = Followed(m, e, t)
      BY <1>3, Zenon DEF Synced
    <2>2. m.pending => Followed(m, e, t).pending
      BY FollowedFacts
    <2> HIDE DEF s
    <2> QED BY <1>1, <1>3, <2>1, <2>2, Zenon DEF s
  <1>4. CASE e.gen # 0 /\ m.gen # e.gen
    <2> HIDE DEF s
    <2> QED BY <1>1, <1>4, Zenon DEF s
  <1> QED BY <1>2, <1>3, <1>4, Zenon

\* Every operation of the registry but ReplaceCredentialSecretIfMatch, which
\* leaves the ledger alone, ends in a synchronisation.
LEMMA RegistrySyncs ==
  ASSUME Registry
  PROVE  \/ \E T \in SUBSET Credentials : SyncCredentials(T)
         \/ UNCHANGED <<config, ledger, requests>>
  <1>1. ASSUME NEW c \in Credentials, SyncCredentials({c})
        PROVE  \E T \in SUBSET Credentials : SyncCredentials(T)
    <2>1. {c} \in SUBSET Credentials
      OBVIOUS
    <2> QED BY <1>1, <2>1, Zenon
  <1>2. ASSUME NEW c \in Credentials, NEW gen, NEW w, ApplyCredentialImport(c, gen, w)
        PROVE  \E T \in SUBSET Credentials : SyncCredentials(T)
    BY <1>1, <1>2, Zenon DEF ApplyCredentialImport
  <1>3. ASSUME NEW c \in Credentials, RemoveCredential(c) \/ ClearCooldown(c) \/ RestoreRuntimeState(c)
        PROVE  \E T \in SUBSET Credentials : SyncCredentials(T)
    BY <1>1, <1>3, Zenon DEF RemoveCredential, ClearCooldown, RestoreRuntimeState
  <1>4. ASSUME NEW c \in Credentials, NEW o, Block(c, o) \/ Unblock(c, o) \/ UpdateWeight(c, o)
                                             \/ SetCooldown(c, o)
        PROVE  \E T \in SUBSET Credentials : SyncCredentials(T)
    BY <1>1, <1>4, Zenon DEF Block, Unblock, UpdateWeight, SetCooldown
  <1>5. ASSUME NEW c \in Credentials, NEW b, NEW w, NEW u, RestoreExact(c, b, w, u)
        PROVE  \E T \in SUBSET Credentials : SyncCredentials(T)
    BY <1>1, <1>5, Zenon DEF RestoreExact
  <1>6. ASSUME NEW T \in SUBSET Credentials, NEW R, ReloadCredentials(T, R)
        PROVE  \E U \in SUBSET Credentials : SyncCredentials(U)
    BY <1>6, Zenon DEF ReloadCredentials
  <1>7. ASSUME NEW c \in Credentials, ReplaceSecret(c)
        PROVE  UNCHANGED <<config, ledger, requests>>
    BY <1>7, Zenon DEF ReplaceSecret
  <1>8. Credentials \in SUBSET Credentials
        /\ \A g \in Groups : {c \in Credentials : GroupOf[c] = g} \in SUBSET Credentials
    OBVIOUS
  <1> QED BY <1>2, <1>3, <1>4, <1>5, <1>6, <1>7, <1>8, Zenon DEF Registry

\* Registry operations admit nobody.
LEMMA RegistryMarks ==
  ASSUME Inv, Current, Registry
  PROVE  Marks /\ sequence' = sequence /\ watermark' = watermark /\ config' = config
         /\ pinned' = pinned
  <1>1. Inv'
    BY RegistryKeepsInv
  <1>2. /\ member \in [Credentials -> Member] /\ entry' \in [Credentials -> Entry]
        /\ now \in Nat /\ started \in BOOLEAN
    BY <1>1, Zenon DEF Inv, TypeOK
  <1>3. CASE UNCHANGED <<config, ledger, requests>>
    BY <1>3, Zenon DEF ledger, requests, Marks, Current
  <1>4. ASSUME NEW T \in SUBSET Credentials, SyncCredentials(T)
        PROVE  Marks /\ sequence' = sequence /\ watermark' = watermark /\ config' = config
               /\ pinned' = pinned
    <2> DEFINE S(c) == Synced(c, member[c], entry'[c], now, started, config.on)
    <2>1. member' = [c \in Credentials |-> IF c \in T THEN S(c) ELSE member[c]]
          /\ sequence' = sequence /\ watermark' = watermark /\ config' = config /\ pinned' = pinned
      BY <1>4, Zenon DEF SyncCredentials, requests
    <2>2. \A c \in Credentials : member[c].gen = 0 => ~member[c].pending
      BY Zenon DEF Current
    <2>3. \A c \in Credentials : /\ S(c).gen = 0 => ~S(c).pending
                                 /\ member[c].pending /\ S(c).gen = member[c].gen => S(c).pending
      BY <1>2, <2>2, SyncedMarks
    <2> HIDE DEF S
    <2>4. \A c \in Credentials : member'[c] = S(c) \/ member'[c] = member[c]
      BY <2>1
    <2> QED BY <2>1, <2>2, <2>3, <2>4, Zenon DEF Marks
  <1> QED BY <1>3, <1>4, RegistrySyncs, Zenon

\* A new process either starts without a history or finds every pending member
\* pending again.
LEMMA RestartMarks ==
  ASSUME Inv, Current, Crash \/ CleanRestart
  PROVE  /\ \A c \in Credentials : member'[c].gen = 0 => ~member'[c].pending
         /\ \/ Marks /\ sequence' = sequence /\ watermark' = watermark
            \/ sequence' = 0 /\ watermark' = 0
  <1>1. /\ NewProcess /\ member \in [Credentials -> Member] /\ entry \in [Credentials -> Entry]
    BY Zenon DEF Inv, TypeOK, Crash, CleanRestart
  <1>2. now' \in Nat
    BY <1>1, NewProcessFacts
  <1>3. ~NoMember.pending /\ NoMember.gen = 0 /\ NoMember \in Member
    BY WidthAssumption DEF NoMember, Member
  <1>4. ASSUME NEW c \in Credentials, NEW e \in Entry
        PROVE  FreshMember(c, e, config.on).gen = 0 => ~FreshMember(c, e, config.on).pending
    <2> DEFINE f(begun) == Synced(c, NoMember, e, now', begun, config.on)
    <2>1. ASSUME NEW begun \in BOOLEAN
          PROVE  f(begun).gen = 0 => ~f(begun).pending
      BY <1>2, <1>3, SyncedMarks
    <2> QED BY <2>1, Zenon DEF FreshMember
  <1>5. ASSUME NEW c \in Credentials
        PROVE  Reloaded(c).gen = 0 => ~Reloaded(c).pending
    <2>1. Reloaded(c).gen = entry[c].gen
      BY <1>1, ReloadedFacts
    <2>2. entry[c].gen = 0 => Reloaded(c) = NoMember
      BY Zenon DEF Reloaded
    <2> QED BY <1>3, <2>1, <2>2, Zenon
  <1>6. CASE Crash
    <2>1. entry' \in [Credentials -> Entry]
      BY <1>6, CrashKeepsInv, Zenon DEF Inv, TypeOK
    <2>2. /\ \A c \in Credentials : member'[c] = FreshMember(c, entry'[c], config.on)
          /\ sequence' = 0 /\ watermark' = 0
      BY <1>6, Zenon DEF Crash
    <2>3. \A c \in Credentials : entry'[c] \in Entry
      BY <2>1
    <2> QED BY <1>4, <2>2, <2>3, Zenon
  <1>7. CASE CleanRestart
    <2>1. CASE /\ \A c \in Credentials : member'[c] = Reloaded(c)
               /\ sequence' = 0 /\ watermark' = 0
      BY <1>5, <2>1, Zenon
    <2>2. CASE /\ \A c \in Credentials :
                      member'[c] = IF entry[c].gen = 0 THEN NoMember
                                   ELSE Restored(c, Reloaded(c), member[c])
               /\ sequence' = sequence /\ watermark' = watermark
      <3>1. ASSUME NEW c \in Credentials
            PROVE  /\ member'[c].gen = 0 => ~member'[c].pending
                   /\ member[c].pending /\ member'[c].gen = member[c].gen => member'[c].pending
        <4>1. CASE entry[c].gen = 0
          <5>1. member'[c] = NoMember /\ ~member[c].pending
            BY <2>2, <4>1, Zenon DEF Inv, Mirror, Current
          <5> QED BY <1>3, <5>1, Zenon
        <4>2. CASE entry[c].gen # 0
          <5> DEFINE r == Restored(c, Reloaded(c), member[c])
          <5>1. member'[c] = r
            BY <2>2, <4>2, Zenon
          <5>2. Reloaded(c).gen = entry[c].gen
            BY <1>1, ReloadedFacts
          <5>3. r.gen = Reloaded(c).gen /\ (member[c].pending => r.pending)
            BY Zenon DEF Restored
          <5> HIDE DEF r
          <5> QED BY <4>2, <5>1, <5>2, <5>3, Zenon
        <4> QED BY <4>1, <4>2
      <3> QED BY <2>2, <3>1, Zenon DEF Marks
    <2> QED BY <1>7, <2>1, <2>2, Zenon DEF CleanRestart
  <1> QED BY <1>6, <1>7

\* What a selection for request q does to the ledger: it settles only candidates,
\* those of a request with the published snapshot, at the baseline or ahead of it.
Admits(q, pool) ==
    /\ config' = config /\ pinned' = pinned
    /\ (sequence' = sequence /\ watermark' = watermark) \/ sequence' = sequence + 1
    /\ \E b \in Nat :
          /\ IsBaseline(Eligible(pool, pinned[q]), b)
          /\ \A c \in Credentials :
                /\ member'[c].gen = member[c].gen
                /\ member'[c].pending => member[c].pending
                /\ member[c].pending /\ ~member'[c].pending
                   => /\ c \in Eligible(pool, pinned[q]) /\ MayCalibrate(c, pinned[q])
                      /\ member'[c].progress >= b

\* What a turn writes into a ledger row (the charge that ends selectCredential).
LEMMA ChargedFacts ==
  ASSUME NEW m, NEW v
  PROVE  Charged(m, v).gen = m.gen /\ Charged(m, v).pending = m.pending /\ Charged(m, v).progress = v
  BY DEF Charged

\* What an admission writes into a ledger row (SchedulingMember.Admit).
LEMMA AdmittedFacts ==
  ASSUME NEW m \in Member, NEW b \in Nat
  PROVE  ~Admitted(m, b).pending /\ Admitted(m, b).progress >= b
  BY WidthAssumption DEF Admitted, Member

\* A baseline is a coordinate of the ledger, at most its high-water mark.
LEMMA BaselineBound ==
  ASSUME Inv, NEW S \in SUBSET Credentials,
         NEW b \in {watermark} \cup {member[d].progress : d \in S}
  PROVE  b \in 0 .. MaxProgress /\ b \in Nat /\ b <= watermark
  <1>1. member \in [Credentials -> Member] /\ watermark \in 0 .. MaxProgress
    BY Zenon DEF Inv, TypeOK
  <1>2. \A c \in Credentials : member[c].progress <= watermark
    BY Zenon DEF Inv, OneHistory
  <1>3. \A c \in Credentials : member[c].progress \in 0 .. MaxProgress
    BY <1>1 DEF Member
  <1> QED BY <1>1, <1>2, <1>3, WidthAssumption

\* selectCredential, with SchedulingMember.Admit and SchedulingProgress.Advance.
LEMMA SelectAdmits ==
  ASSUME Inv, NEW q \in Requests, NEW pool \in SUBSET Credentials, NEW preferred, NEW replay,
         SelectCredential(q, Eligible(pool, pinned[q]), preferred, replay)
  PROVE  Admits(q, pool)
  <1> DEFINE E == Eligible(pool, pinned[q])
  <1>1. /\ pinned[q] \in Snapshot /\ member \in [Credentials -> Member]
        /\ watermark \in 0 .. MaxProgress /\ entry \in [Credentials -> Entry]
    BY DEF Inv, TypeOK
  <1>2. E \subseteq Credentials
    BY DEF Eligible
  <1>3. PICK k \in E, b \in {watermark} \cup {member[d].progress : d \in E} :
          SelectCredential(q, E, preferred, replay)!(k, b)
    BY Zenon DEF SelectCredential
  <1> DEFINE ms == Calibrated(E, pinned[q], b)
             w == EffectiveWeight(k, pinned[q])
             next == Advance(ms[k].progress, w)
  <1>4. b \in 0 .. MaxProgress /\ b \in Nat /\ b <= watermark /\ IsBaseline(E, b)
    <2>1. E \in SUBSET Credentials /\ IsBaseline(E, b)
      BY <1>2, <1>3, Zenon
    <2> HIDE DEF E
    <2> QED BY <2>1, BaselineBound, Zenon
  <1>5. ASSUME NEW c \in Credentials
        PROVE  /\ ms[c] \in Member /\ ms[c].gen = member[c].gen
               /\ ms[c].pending => member[c].pending
               /\ member[c].pending /\ ~ms[c].pending
                  => c \in E /\ MayCalibrate(c, pinned[q]) /\ ms[c].progress >= b
    <2>1. ms[c] \in Member /\ ms[c].gen = member[c].gen
      BY <1>1, <1>4, CalibrationKeepsInv
    <2>2. CASE c \in E /\ MayCalibrate(c, pinned[q])
      <3>1. ms[c] = Admitted(member[c], b)
        BY <2>2, Zenon DEF Calibrated
      <3>2. member[c] \in Member
        BY <1>1, Zenon
      <3> HIDE DEF ms, E
      <3>3. ~Admitted(member[c], b).pending /\ Admitted(member[c], b).progress >= b
        BY <1>4, <3>2, AdmittedFacts, Zenon
      <3> QED BY <2>1, <2>2, <3>1, <3>3, Zenon
    <2>3. CASE ~(c \in E /\ MayCalibrate(c, pinned[q]))
      <3>1. ms[c] = member[c]
        BY <2>3, Zenon DEF Calibrated
      <3> HIDE DEF ms, E
      <3> QED BY <2>1, <3>1, Zenon
    <2> QED BY <2>2, <2>3, Zenon
  <1>6. ms = [c \in Credentials |-> ms[c]]
    BY Zenon DEF Calibrated
  <1>7. /\ config' = config /\ pinned' = pinned
        /\ \/ /\ sequence' = sequence + 1
              /\ member' = [ms EXCEPT ![k] = Charged(ms[k], next)]
           \/ member' = ms /\ watermark' = watermark /\ sequence' = sequence
    BY <1>3, Zenon
  <1>8. w \in Int /\ w > 0
    BY <1>1, <1>2, GroupsAssumption, WidthAssumption
       DEF Eligible, EffectiveWeight, Snapshot, Entry
  <1>9. k \in Credentials
    BY <1>2, Zenon
  <1> HIDE DEF w, ms, E
  <1>10. ms[k].progress \in Nat
    BY <1>5, <1>9, WidthAssumption DEF Member
  <1>11. next \in Nat /\ ms[k].progress <= next
    BY <1>8, <1>10, StepIsNat DEF Advance
  <1> HIDE DEF next
  <1>12. ms[k].progress >= b => next >= b
    BY <1>4, <1>10, <1>11
  <1>13. CASE /\ sequence' = sequence + 1
              /\ member' = [ms EXCEPT ![k] = Charged(ms[k], next)]
    <2>1. \A c \in Credentials : member'[c] = IF c = k THEN Charged(ms[k], next) ELSE ms[c]
      BY <1>6, <1>9, <1>13, Zenon
    <2>2. ASSUME NEW c \in Credentials
          PROVE  /\ member'[c].gen = member[c].gen
                 /\ member'[c].pending => member[c].pending
                 /\ member[c].pending /\ ~member'[c].pending
                    => /\ c \in E /\ MayCalibrate(c, pinned[q]) /\ member'[c].progress >= b
      <3>1. CASE c = k
        <4>1. /\ member'[c].gen = ms[c].gen /\ member'[c].pending = ms[c].pending
              /\ member'[c].progress = next
          <5>1. member'[c] = Charged(ms[c], next)
            BY <2>1, <3>1, Zenon
          <5> QED BY ONLY <5>1, ChargedFacts
        <4> QED BY <1>5, <1>12, <3>1, <4>1, Zenon
      <3>2. CASE c # k
        BY <1>5, <2>1, <3>2, Zenon
      <3> QED BY <3>1, <3>2, Zenon
    <2> QED BY <1>4, <1>7, <1>13, <2>2, Zenon DEF E, Admits
  <1>14. CASE member' = ms /\ watermark' = watermark /\ sequence' = sequence
    <2>1. ASSUME NEW c \in Credentials
          PROVE  /\ member'[c].gen = member[c].gen
                 /\ member'[c].pending => member[c].pending
                 /\ member[c].pending /\ ~member'[c].pending
                    => /\ c \in E /\ MayCalibrate(c, pinned[q]) /\ member'[c].progress >= b
      BY <1>5, <1>14, Zenon
    <2>2. watermark' = watermark /\ sequence' = sequence
      BY <1>14, Zenon
    <2> QED BY <1>4, <1>7, <2>1, <2>2, Zenon DEF E, Admits
  <1> QED BY <1>7, <1>13, <1>14, Zenon

\* Every step keeps Current.
LEMMA NextCurrent == Inv /\ Current /\ [Next]_vars => Current'
  <1> SUFFICES ASSUME Inv, Current, [Next]_vars PROVE Current'
    OBVIOUS
  <1>1. /\ config \in Snapshot /\ pinned \in [Requests -> Snapshot]
        /\ sequence \in 0 .. MaxSequence
    BY Zenon DEF Inv, TypeOK
  <1>2. config.revision \in Nat /\ \A q \in Requests : pinned[q].revision \in Nat
    BY <1>1 DEF Snapshot
  <1>3. CASE UNCHANGED vars
    BY <1>3, Zenon DEF vars, registry, ledger, requests, Current
  <1>4. CASE Registry
    BY <1>4, RegistryMarks, Zenon DEF Current, Marks
  <1>5. ASSUME NEW p \in Configs, Publish(p) PROVE Current'
    <2>1. /\ config' = Published(config.revision + 1, p) /\ pinned' = pinned
          /\ sequence' = sequence /\ watermark' = watermark
          /\ member' = [x \in Credentials |->
                 IF member[x].gen # 0 /\ (config.priority # p.priority \/ GroupOf[x] \notin p.on)
                 THEN [member[x] EXCEPT !.pending = TRUE] ELSE member[x]]
      BY <1>5, Zenon DEF Publish, requests
    <2>2. config'.revision = config.revision + 1
      BY <2>1 DEF Published
    <2>3. /\ config'.revision >= 1
          /\ \A q \in Requests : /\ pinned'[q].revision <= config'.revision
                                 /\ pinned'[q].revision # config'.revision
      BY <1>2, <2>1, <2>2 DEF Current
    <2>4. \A x \in Credentials : member'[x].gen = 0 => ~member'[x].pending
      <3>1. member \in [Credentials -> Member]
        BY DEF Inv, TypeOK
      <3> QED BY <2>1, <3>1 DEF Current, Member
    <2> QED BY <2>1, <2>3, <2>4, Zenon DEF Current
  <1>6. ASSUME NEW q \in Requests, BeginRequest(q) \/ EndRequest(q) PROVE Current'
    <2>1. /\ config' = config /\ sequence' = sequence /\ watermark' = watermark
          /\ member' = member
          /\ pinned' = [pinned EXCEPT ![q] = config] \/ pinned' = [pinned EXCEPT ![q] = NoSnapshot]
      BY <1>6, Zenon DEF BeginRequest, EndRequest, ledger
    <2>2. NoSnapshot.revision = 0
      BY DEF NoSnapshot
    <2>3. \A p \in Requests : /\ pinned'[p].revision <= config.revision
                              /\ pinned'[p].revision = config.revision => pinned'[p] = config
      <3>1. \A p \in Requests : pinned'[p] \in {pinned[p], config, NoSnapshot}
        BY <1>1, <2>1
      <3> QED BY <1>2, <2>2, <3>1 DEF Current
    <2> QED BY <2>1, <2>3, Zenon DEF Current
  <1>7. ASSUME NEW q \in Requests, NEW pool \in SUBSET Credentials, NEW preferred, NEW replay,
               SelectCredential(q, Eligible(pool, pinned[q]), preferred, replay)
        PROVE  Current'
    <2>1. /\ config' = config /\ pinned' = pinned
          /\ \/ sequence' = sequence /\ watermark' = watermark
             \/ sequence' = sequence + 1
          /\ \A c \in Credentials : /\ member'[c].gen = member[c].gen
                                    /\ member'[c].pending => member[c].pending
      BY <1>7, SelectAdmits, Zenon DEF Admits
    <2>2. sequence + 1 # 0
      BY <1>1
    <2> QED BY <2>1, <2>2, Zenon DEF Current
  <1>8. CASE Iterators
    <2>1. ASSUME NEW q \in Requests, NEW pool \in Pools
          PROVE  {c \in pool : GroupOf[c] \in pinned[q].on} \in SUBSET Credentials
      BY PoolsAssumption
    <2>2. ASSUME NEW q \in Requests, ChargeReplay(q) PROVE Current'
      <3>1. {chosen[q].id} \in SUBSET Credentials
        BY <2>2, PoolsAssumption DEF ChargeReplay
      <3> QED BY <1>7, <2>2, <3>1, Zenon DEF ChargeReplay
    <2> QED BY <1>6, <1>7, <1>8, <2>1, <2>2, Zenon DEF Iterators, NextCredential
  <1>9. CASE Tick
    BY <1>9, Zenon DEF Tick, registry, ledger, requests, Current
  <1>10. CASE Crash \/ CleanRestart
    <2>1. /\ config' = [config EXCEPT !.revision = 1]
          /\ pinned' = [q \in Requests |-> NoSnapshot]
      BY <1>10, Zenon DEF Crash, CleanRestart, NewProcess
    <2>2. /\ config'.revision = 1
          /\ \A q \in Requests : pinned'[q].revision = 0
      BY <1>1, <2>1 DEF Snapshot, NoSnapshot
    <2>3. /\ \A c \in Credentials : member'[c].gen = 0 => ~member'[c].pending
          /\ \/ sequence' = sequence /\ watermark' = watermark
             \/ sequence' = 0 /\ watermark' = 0
      BY <1>10, RestartMarks, Zenon
    <2>4. sequence' = 0 => watermark' = 0
      BY <2>3, Zenon DEF Current
    <2> QED BY <2>2, <2>3, <2>4 DEF Current
  <1> QED BY <1>3, <1>4, <1>5, <1>8, <1>9, <1>10, Zenon DEF Next

\* The first state satisfies Current.
LEMMA InitCurrent == Init => Current
  BY DEF Init, Current, Published, NoSnapshot, NoMember

\* Between selections nobody is settled, and a selection settles a credential no
\* lower than any settled one in service.
LEMMA NextJoins ==
  ASSUME Pools = {Credentials}, Inv, Current, [Next]_vars
  PROVE  JoinsAtTheFront
  <1> SUFFICES ASSUME NEW c \in Credentials, NEW d \in Credentials,
                      member[c].pending, ~member'[c].pending, member'[c].gen = member[c].gen,
                      sequence' >= sequence,
                      Available(d), entry[d].weight > 0, GroupOf[d] \in config.on,
                      ~member[d].pending
               PROVE  member'[c].progress >= member[d].progress
    BY Zenon DEF JoinsAtTheFront
  <1>1. Inv'
    BY NextInv
  <1>2. /\ member[c] \in Member /\ member[d] \in Member /\ member'[c] \in Member
        /\ member[d].progress <= watermark /\ watermark \in Nat /\ sequence \in Nat
        /\ entry[d] \in Entry /\ member[d].gen = entry[d].gen
    <2>1. TypeOK /\ TypeOK' /\ OneHistory /\ Mirror
      BY <1>1, Zenon DEF Inv
    <2>2. /\ member \in [Credentials -> Member] /\ member' \in [Credentials -> Member]
          /\ watermark \in 0 .. MaxProgress /\ sequence \in 0 .. MaxSequence
          /\ entry \in [Credentials -> Entry]
      BY <2>1, Zenon DEF TypeOK
    <2>3. member[d].progress <= watermark
      BY <2>1, Zenon DEF OneHistory
    <2>4. member[d].gen = entry[d].gen
      BY <2>1, Zenon DEF Mirror
    <2> QED BY <2>2, <2>3, <2>4, WidthAssumption
  <1>3. member[d].progress \in Nat /\ member'[c].progress \in Nat
    BY <1>2, WidthAssumption DEF Member
  <1>4. ~Marks
    BY Zenon DEF Marks
  <1>5. member' # member
    BY Zenon
  <1>6. CASE sequence' = 0
    <2>1. sequence = 0
      BY <1>2, <1>6
    <2>2. watermark = 0
      BY <2>1, Zenon DEF Current
    <2> QED BY <1>2, <1>3, <2>2
  <1>7. CASE Crash \/ CleanRestart
    <2>1. sequence' = 0
      BY <1>4, <1>7, RestartMarks, Zenon
    <2> QED BY <1>6, <2>1
  <1>8. ASSUME NEW p \in Configs, Publish(p) PROVE FALSE
    <2>1. member'[c] = member[c] \/ member'[c] = [member[c] EXCEPT !.pending = TRUE]
      BY <1>8, Zenon DEF Publish
    <2>2. [member[c] EXCEPT !.pending = TRUE].pending
      BY <1>2 DEF Member
    <2> QED BY <2>1, <2>2, Zenon
  <1>9. ASSUME NEW q \in Requests, NEW preferred, NextCredential(q, Credentials, preferred)
        PROVE  member'[c].progress >= member[d].progress
    <2> DEFINE pool == {x \in Credentials : GroupOf[x] \in pinned[q].on}
    <2>1. /\ pool \in SUBSET Credentials
          /\ SelectCredential(q, Eligible(pool, pinned[q]), preferred, chosen[q].replayed)
      BY <1>9, Zenon DEF NextCredential
    <2>2. PICK b \in Nat :
             /\ IsBaseline(Eligible(pool, pinned[q]), b)
             /\ \A x \in Credentials :
                   /\ member[x].pending /\ ~member'[x].pending
                      => /\ x \in Eligible(pool, pinned[q]) /\ MayCalibrate(x, pinned[q])
                         /\ member'[x].progress >= b
      BY <2>1, SelectAdmits, Zenon DEF Admits
    <2>3. MayCalibrate(c, pinned[q]) /\ member'[c].progress >= b
      BY <2>2, Zenon
    <2>4. pinned[q] = config
      <3>1. /\ pinned[q].revision >= config.revision /\ pinned[q].revision <= config.revision
        BY <2>3, Zenon DEF MayCalibrate, Current
      <3>2. pinned[q].revision \in Nat /\ config.revision \in Nat
        <4>1. pinned[q] \in Snapshot /\ config \in Snapshot
          BY Zenon DEF Inv, TypeOK
        <4> QED BY <4>1, Zenon DEF Snapshot
      <3>3. pinned[q].revision = config.revision
        BY <3>1, <3>2
      <3> QED BY <3>3, Zenon DEF Current
    <2>5. d \in Eligible(pool, pinned[q])
      <3>1. config.weight[GroupOf[d]] \in Nat /\ config.weight[GroupOf[d]] > 0
        <4>1. config \in Snapshot
          BY Zenon DEF Inv, TypeOK
        <4>2. config.weight \in [Groups -> 1 .. MaxWeight]
          BY <4>1, Zenon DEF Snapshot
        <4> QED BY <4>2, GroupsAssumption, WidthAssumption
      <3>2. entry[d].weight \in Nat
        BY <1>2, WidthAssumption DEF Entry
      <3>3. config.weight[GroupOf[d]] * entry[d].weight > 0
        BY <3>1, <3>2
      <3>4. EffectiveWeight(d, pinned[q]) > 0
        BY <2>4, <3>3, Zenon DEF EffectiveWeight
      <3> QED BY <1>2, <2>4, <3>4, Zenon DEF Eligible
    <2>6. member[d].progress <= b
      BY <2>2, <2>5, Zenon DEF IsBaseline
    <2> QED BY <1>3, <2>3, <2>6
  <1>10. ASSUME NEW q \in Requests, ChargeReplay(q)
         PROVE  member'[c].progress >= member[d].progress
    <2> DEFINE E == Eligible({chosen[q].id}, pinned[q])
    <2>1. /\ {chosen[q].id} \in SUBSET Credentials
          /\ SelectCredential(q, E, chosen[q].id, TRUE)
      <3>1. SelectCredential(q, E, chosen[q].id, TRUE) /\ chosen[q].id \in Refreshable
        BY <1>10, Zenon DEF ChargeReplay
      <3>2. \A x \in Refreshable : {x} \in SUBSET Credentials
        BY PoolsAssumption
      <3> QED BY <3>1, <3>2, Zenon
    <2>2. PICK b \in Nat :
             /\ IsBaseline(E, b)
             /\ \A x \in Credentials :
                   /\ member[x].pending /\ ~member'[x].pending
                      => x \in E /\ member'[x].progress >= b
      BY <2>1, SelectAdmits, Zenon DEF Admits
    <2>3. c \in E /\ member'[c].progress >= b
      BY <2>2, Zenon
    <2>4. \A x \in E : x = c
      BY <2>3 DEF Eligible
    <2>5. {x \in E : ~member[x].pending} = {}
      <3> HIDE DEF E
      <3> QED BY <2>4
    <2>6. b = watermark
      BY <2>2, <2>5, Zenon DEF IsBaseline
    <2> QED BY <1>2, <1>3, <2>3, <2>6
  <1>11. CASE Registry
    BY <1>4, <1>11, RegistryMarks, Zenon
  <1>12. ASSUME NEW q \in Requests, BeginRequest(q) \/ EndRequest(q) PROVE FALSE
    BY <1>5, <1>12, Zenon DEF BeginRequest, EndRequest, ledger
  <1>13. CASE Tick \/ UNCHANGED vars
    BY <1>5, <1>13, Zenon DEF Tick, vars, ledger
  <1>14. CASE Iterators
    <2>1. \A pool \in Pools : pool = Credentials
      OBVIOUS
    <2> QED BY <1>9, <1>10, <1>12, <1>14, <2>1, Zenon DEF Iterators
  <1> QED BY <1>7, <1>8, <1>11, <1>13, <1>14, Zenon DEF Next

\* A credential that joins or comes back starts level with every settled one in
\* service, for any number of credentials, groups and requests with snapshots of
\* any age, as long as every request may use every credential of its snapshot
\* (selectCredential, Admit and the revision check; Pools = {Credentials} is the
\* case in which "every settled one" is within the request's sight).
THEOREM NewcomersJoinInFront ==
  ASSUME Pools = {Credentials}
  PROVE  Spec => [][JoinsAtTheFront]_vars
  <1>1. Inv /\ Current /\ [Next]_vars => [JoinsAtTheFront]_vars
    BY NextJoins
  <1> QED BY <1>1, InitCurrent, NextCurrent, AlwaysInv, PTL DEF Spec
=============================================================================
