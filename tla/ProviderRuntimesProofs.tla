------------------------ MODULE ProviderRuntimesProofs ------------------------
(***************************************************************************)
(* Proofs about ProviderRuntimes for every finite set of callers, every    *)
(* set of configurations and any number of entries and publications.       *)
(*                                                                         *)
(* The last section is about LiveSessions (instance Calling), for every    *)
(* finite set of calls and any number of attempts: the admission bound,    *)
(* and the single settlement of every call.                                *)
(***************************************************************************)
EXTENDS ProviderRuntimes, FiniteSetTheorems, TLAPS

States == {"none", "starting", "running", "stopping", "stopped", "failed"}
EntryType == [config : Configs \cup {"none"}, refs : Nat, retiring : BOOLEAN, runtime : States]
Places == {"idle", "try", "wait", "create", "leased"}
CallerType == [at : Places, want : Configs \cup {"none"}, on : 0 .. MaxEntries]

\* The types of the variables.
Types ==
  /\ entries \in [Configs -> 0 .. MaxEntries]
  /\ entry \in [EntryIds -> EntryType]
  /\ created \in 0 .. MaxEntries
  /\ closed \in BOOLEAN /\ done \in BOOLEAN /\ shuttingDown \in Nat
  /\ caller \in [Callers -> CallerType]

Live(e) == entry[e].runtime \in {"starting", "running"}

\* The map holds exactly the entries whose runtime starts or runs, each under
\* its own configuration.
MapIsLive ==
  /\ \A c \in Configs : entries[c] # 0 => /\ entry[entries[c]].config = c
                                          /\ Live(entries[c])
  /\ \A e \in EntryIds : Live(e) => /\ entry[e].config \in Configs
                                    /\ entries[entry[e].config] = e
  /\ \A e \in EntryIds : e > created => entry[e].runtime = "none"

\* The caller whose factory call makes the entry.
Creator(p, e) == caller[p].at = "create" /\ caller[p].on = e

\* A caller in the factory is the only one on a starting entry, and leases are
\* held on running entries only.
CallersAreApart ==
  /\ LeaseIsLive
  /\ \A p \in Callers : caller[p].at # "idle" => caller[p].want \in Configs
  /\ \A p \in Callers : caller[p].at \in {"wait", "create", "leased"} => caller[p].on \in EntryIds
  /\ \A p \in Callers : caller[p].at = "create" => entry[caller[p].on].runtime = "starting"
  /\ \A p, q \in Callers, e \in EntryIds : Creator(p, e) /\ Creator(q, e) => p = q
  /\ \A e \in EntryIds : entry[e].runtime = "starting" => \E p \in Callers : Creator(p, e)

Stopping == {e \in EntryIds : entry[e].runtime = "stopping"}

\* The number of shutdowns is counted, and the end is reported after the last.
DownIsCounted ==
  /\ shuttingDown = Cardinality(Stopping)
  /\ done => closed /\ Stopping = {} /\ \A e \in EntryIds : ~Live(e)

\* The inductive invariant.
Inv ==
  /\ Types /\ MapIsLive /\ CallersAreApart
  /\ RefsAreHolders /\ NoIdleRetiree /\ DownIsCounted

-----------------------------------------------------------------------------
\* The entries in the map are the live ones.
LEMMA MappedIsLive ==
  ASSUME Types, MapIsLive
  PROVE  Mapped = {e \in EntryIds : Live(e)}
BY DEF Types, MapIsLive, Mapped, EntryIds

\* The callers that hold an entry are finitely many.
LEMMA FiniteHolders ==
  ASSUME ConstantsAssumption, NEW e
  PROVE  /\ IsFiniteSet(Holders(e)) /\ Cardinality(Holders(e)) \in Nat
         /\ Cardinality(Holders(e)) = 0 <=> Holders(e) = {}
<1>1. IsFiniteSet(Holders(e))
  BY FS_Subset DEF ConstantsAssumption, Holders
<1> QED
  BY <1>1, FS_CardinalityType, FS_EmptySet

\* So are the entries that shut down.
LEMMA FiniteStopping ==
  ASSUME ConstantsAssumption
  PROVE  /\ \A S \in SUBSET EntryIds : IsFiniteSet(S) /\ Cardinality(S) \in Nat
         /\ \A S \in SUBSET EntryIds : Cardinality(S) = 0 <=> S = {}
<1>1. IsFiniteSet(EntryIds)
  BY FS_Interval DEF ConstantsAssumption, EntryIds
<1>2. \A S \in SUBSET EntryIds : IsFiniteSet(S)
  BY <1>1, FS_Subset
<1> QED
  BY <1>2, FS_CardinalityType, FS_EmptySet

\* The pool starts in the invariant.
LEMMA InitInv == ASSUME ConstantsAssumption PROVE Init => Inv
<1> SUFFICES ASSUME Init PROVE Inv
  OBVIOUS
<1>1. Types
  <2>1. NoEntry \in EntryType /\ Idle \in CallerType /\ 0 \in 0 .. MaxEntries /\ 0 \in Nat
    BY DEF ConstantsAssumption, EntryType, CallerType, NoEntry, Idle, States, Places
  <2> QED
    BY <2>1, Zenon DEF Init, Types
<1>2. MapIsLive /\ CallersAreApart /\ LeaseIsLive
  BY DEF Init, MapIsLive, CallersAreApart, LeaseIsLive, Live, Creator, NoEntry, Idle, EntryIds
<1>3. RefsAreHolders
  <2>1. \A e \in EntryIds : Holders(e) = {}
    BY DEF Init, Holders, Idle
  <2> QED
    BY <2>1, FS_EmptySet, Zenon DEF Init, RefsAreHolders, NoEntry
<1>4. NoIdleRetiree
  BY DEF Init, NoIdleRetiree, Mapped, EntryIds
<1>5. DownIsCounted
  <2>1. Stopping = {}
    BY DEF Init, Stopping, NoEntry
  <2> QED
    BY <2>1, FS_EmptySet DEF Init, DownIsCounted
<1> QED
  BY <1>1, <1>2, <1>3, <1>4, <1>5 DEF Inv

-----------------------------------------------------------------------------
\* Steps that leave the pool alone: a caller begins, waits or gives up.
LEMMA CallerStep ==
  ASSUME ConstantsAssumption, Inv, UNCHANGED pool, NEW p \in Callers,
         caller[p].at \notin {"create", "leased"},
         NEW k \in CallerType, k.at \notin {"create", "leased"},
         k.at # "idle" => k.want \in Configs,
         k.at = "wait" => k.on \in EntryIds,
         caller' = [caller EXCEPT ![p] = k]
  PROVE  Inv'
<1> USE DEF pool
<1>1. Types'
  BY DEF Inv, Types
<1>2. \A q \in Callers : caller'[q] = IF q = p THEN k ELSE caller[q]
  BY DEF Inv, Types
<1>3. \A e : Holders(e)' = Holders(e)
  BY <1>2 DEF Holders
<1>4. MapIsLive' /\ DownIsCounted'
  BY DEF Inv, MapIsLive, Live, DownIsCounted, Stopping
<1>5. CallersAreApart'
  BY <1>2 DEF Inv, CallersAreApart, LeaseIsLive, Creator
<1>6. RefsAreHolders' /\ NoIdleRetiree'
  BY <1>3 DEF Inv, RefsAreHolders, NoIdleRetiree, Mapped
<1> QED
  BY <1>1, <1>4, <1>5, <1>6 DEF Inv

\* acquire leases a running entry.
LEMMA LeaseStep ==
  ASSUME ConstantsAssumption, Inv, NEW p \in Callers, NEW e \in EntryIds,
         caller[p].at = "try", entry[e].runtime = "running",
         Lease(e), Become(p, "leased", e),
         UNCHANGED <<entries, created, active, closed, shuttingDown, done>>
  PROVE  Inv'
<1>1. \A q \in Callers : caller'[q] = IF q = p THEN [at |-> "leased", want |-> caller[p].want, on |-> e]
                                      ELSE caller[q]
  BY DEF Inv, Types, CallerType, Become
<1>2. \A x \in EntryIds : entry'[x] = IF x = e THEN [config |-> entry[e].config, refs |-> entry[e].refs + 1,
                                          retiring |-> entry[e].retiring, runtime |-> entry[e].runtime]
                                      ELSE entry[x]
  BY DEF Inv, Types, EntryType, Lease
<1>3. Types'
  <2>1. [at |-> "leased", want |-> caller[p].want, on |-> e] \in CallerType
    BY DEF Inv, Types, CallerType, Places, EntryIds
  <2>2. entry' \in [EntryIds -> EntryType]
    BY DEF Inv, Types, EntryType, Lease
  <2> QED
    BY <1>1, <2>1, <2>2 DEF Inv, Types, Become
<1>4. MapIsLive'
  <2>1. /\ \A x \in EntryIds : entry'[x].runtime = entry[x].runtime /\ entry'[x].config = entry[x].config
        /\ \A c \in Configs : entries[c] # 0 => entries[c] \in EntryIds
    BY <1>2 DEF Inv, Types, EntryIds
  <2> QED
    BY <2>1 DEF Inv, MapIsLive, Live
<1>5. CallersAreApart'
  BY <1>1, <1>2 DEF Inv, CallersAreApart, LeaseIsLive, Creator
<1>6. RefsAreHolders'
  <2>1. \A x \in EntryIds : x # e => Holders(x)' = Holders(x)
    BY <1>1 DEF Holders
  <2>2. Holders(e)' = Holders(e) \cup {p} /\ p \notin Holders(e)
    BY <1>1 DEF Holders
  <2>3. Cardinality(Holders(e) \cup {p}) = Cardinality(Holders(e)) + 1
    BY <2>2, FiniteHolders, FS_AddElement, Zenon
  <2>4. /\ entry'[e].refs = entry[e].refs + 1
        /\ \A x \in EntryIds : x # e => entry'[x].refs = entry[x].refs
    BY <1>2
  <2> QED
    BY <2>1, <2>2, <2>3, <2>4, Zenon DEF Inv, RefsAreHolders
<1>7. NoIdleRetiree'
  <2>1. \A x \in EntryIds : Holders(x) \subseteq Holders(x)'
    BY <1>1 DEF Holders
  <2>2. \A x \in EntryIds : entry'[x].retiring = entry[x].retiring /\ entry'[x].config = entry[x].config
    BY <1>2
  <2> QED
    BY <2>1, <2>2 DEF Inv, NoIdleRetiree, Mapped, IsActive
<1>8. DownIsCounted'
  <2>1. Stopping' = Stopping /\ \A x \in EntryIds : Live(x)' = Live(x)
    BY <1>2 DEF Stopping, Live
  <2> QED
    BY <2>1 DEF Inv, DownIsCounted
<1> QED
  BY <1>3, <1>4, <1>5, <1>6, <1>7, <1>8 DEF Inv

\* acquire puts a new entry into the map and goes to the factory.
LEMMA CreateStep ==
  ASSUME ConstantsAssumption, Inv, NEW p \in Callers, NEW c \in Configs, NEW flag \in BOOLEAN,
         caller[p].at = "try", entries[c] = 0, created < MaxEntries, ~closed,
         flag = (active # Unknown /\ ~IsActive(c, active)),
         created' = created + 1,
         entries' = [entries EXCEPT ![c] = created'],
         entry' = [entry EXCEPT ![created'] = [config |-> c, refs |-> 1, runtime |-> "starting",
                                               retiring |-> flag]],
         Become(p, "create", created'),
         UNCHANGED <<active, closed, shuttingDown, done>>
  PROVE  Inv'
<1> DEFINE new == [config |-> c, refs |-> 1, runtime |-> "starting", retiring |-> flag]
<1>0. PICK e \in EntryIds : e = created + 1
  BY DEF Inv, Types, EntryIds, ConstantsAssumption
<1>1. e = created + 1 /\ entry[e].runtime = "none" /\ created \in Nat /\ MaxEntries \in Nat
  BY <1>0 DEF Inv, Types, MapIsLive, EntryIds, ConstantsAssumption
<1>2. /\ \A q \in Callers : caller'[q] = IF q = p THEN [at |-> "create", want |-> caller[p].want, on |-> e]
                                         ELSE caller[q]
      /\ \A x \in EntryIds : entry'[x] = IF x = e THEN new ELSE entry[x]
      /\ \A d \in Configs : entries'[d] = IF d = c THEN e ELSE entries[d]
  BY <1>0 DEF Inv, Types, Become
<1>2a. /\ entry'[e].config = c /\ entry'[e].refs = 1 /\ entry'[e].runtime = "starting" /\ entry'[e].retiring = flag
      /\ \A x \in EntryIds : x # e => entry'[x] = entry[x]
      /\ created' = e
  BY <1>1, <1>2
<1> HIDE DEF new
<1>3. Types'
  <2>1. [at |-> "create", want |-> caller[p].want, on |-> e] \in CallerType /\ new \in EntryType
    BY <1>1 DEF Inv, Types, CallerType, EntryType, States, Places, EntryIds, new
  <2>2. entries' \in [Configs -> 0 .. MaxEntries] /\ created' \in 0 .. MaxEntries
    BY <1>1 DEF Inv, Types, EntryIds
  <2> QED
    BY <1>1, <2>1, <2>2 DEF Inv, Types, Become, new
<1>4. MapIsLive'
  <2>1. \A d \in Configs : entries[d] # 0 => entries[d] \in EntryIds /\ entries[d] # e
    BY <1>1 DEF Inv, Types, MapIsLive, Live, EntryIds
  <2>2. \A x \in EntryIds : x # e /\ Live(x) => entry[x].config # c
    BY <1>1 DEF Inv, MapIsLive, EntryIds
  <2>3. \A d \in Configs : entries'[d] # 0 => entry'[entries'[d]].config = d /\ Live(entries[d])'
    BY <1>1, <1>2, <1>2a, <2>1 DEF Inv, MapIsLive, Live
  <2>4. \A x \in EntryIds : Live(x)' => entry'[x].config \in Configs /\ entries'[entry'[x].config] = x
    BY <1>2, <1>2a, <2>2 DEF Inv, MapIsLive, Live
  <2>5. \A x \in EntryIds : x > created' => entry'[x].runtime = "none"
    <3>1. \A x \in EntryIds : x > created + 1 => x > created /\ x # e
      BY <1>1 DEF EntryIds
    <3> QED
      BY <1>2a, <3>1 DEF Inv, MapIsLive
  <2> QED
    BY <2>3, <2>4, <2>5 DEF MapIsLive
<1>5. \A q \in Callers : caller[q].at \in {"create", "leased"} => caller[q].on # e
  BY <1>1, Zenon DEF Inv, CallersAreApart, LeaseIsLive
<1>6. CallersAreApart'
  BY <1>1, <1>2, <1>2a, <1>5 DEF Inv, CallersAreApart, LeaseIsLive, Creator
<1>7. \A x \in EntryIds : Holders(x)' = IF x = e THEN {p} ELSE Holders(x)
  BY <1>2, <1>5 DEF Holders
<1>8. RefsAreHolders'
  <2>1. Cardinality({p}) = 1
    BY FS_Singleton, Zenon
  <2>2. \A x \in EntryIds : entry'[x].refs = IF x = e THEN 1 ELSE entry[x].refs
    BY <1>2a
  <2>3. \A x \in EntryIds : entry[x].refs = Cardinality(Holders(x))
    BY DEF Inv, RefsAreHolders
  <2>4. \A x \in EntryIds : Cardinality(Holders(x)') = IF x = e THEN 1 ELSE Cardinality(Holders(x))
    BY <1>7, <2>1, Zenon
  <2> QED
    BY <2>2, <2>3, <2>4 DEF RefsAreHolders
<1>9. NoIdleRetiree'
  <2>1. Mapped' \subseteq Mapped \cup {e}
    BY <1>2 DEF Mapped
  <2>2. e \in Mapped' => /\ entry'[e].retiring => Holders(e)' # {}
                         /\ active' # Unknown /\ ~IsActive(entry'[e].config, active') => entry'[e].retiring
    <3>1. Holders(e)' # {}
      BY <1>1, <1>7
    <3>2. active # Unknown /\ ~IsActive(entry'[e].config, active) => entry'[e].retiring
      BY <1>2a, Zenon
    <3> QED
      BY <3>1, <3>2
  <2>3. ASSUME NEW x \in Mapped, x # e
        PROVE  /\ entry'[x].retiring => Holders(x)' # {}
               /\ active' # Unknown /\ ~IsActive(entry'[x].config, active') => entry'[x].retiring
    <3>1. entry'[x] = entry[x] /\ Holders(x)' = Holders(x)
      BY <1>2a, <1>7, <2>3 DEF Mapped
    <3> QED
      BY <3>1 DEF Inv, NoIdleRetiree, IsActive
  <2> QED
    BY <2>1, <2>2, <2>3 DEF NoIdleRetiree, IsActive
<1>10. DownIsCounted'
  <2>1. Stopping' = Stopping
    BY <1>1, <1>2a DEF Stopping
  <2> QED
    BY <2>1 DEF Inv, DownIsCounted
<1> QED
  BY <1>3, <1>4, <1>6, <1>8, <1>9, <1>10 DEF Inv

\* The factory returns a runtime to the creator.
LEMMA StartedStep ==
  ASSUME ConstantsAssumption, Inv, NEW p \in Callers, NEW e \in EntryIds, Creator(p, e),
         entry' = [entry EXCEPT ![e].runtime = "running"],
         Become(p, "leased", e),
         UNCHANGED <<entries, created, active, closed, shuttingDown, done>>
  PROVE  Inv'
<1>1. \A q \in Callers : caller'[q] = IF q = p THEN [at |-> "leased", want |-> caller[p].want, on |-> e]
                                      ELSE caller[q]
  BY DEF Inv, Types, Become
<1>2. \A x \in EntryIds : entry'[x] = IF x = e THEN [config |-> entry[e].config, refs |-> entry[e].refs,
                                          retiring |-> entry[e].retiring, runtime |-> "running"]
                                      ELSE entry[x]
  BY DEF Inv, Types, EntryType
<1>3. /\ \A x \in EntryIds : /\ entry'[x].config = entry[x].config /\ entry'[x].refs = entry[x].refs
                             /\ entry'[x].retiring = entry[x].retiring
                             /\ entry'[x].runtime = IF x = e THEN "running" ELSE entry[x].runtime
      /\ entry[e].runtime = "starting"
      /\ \A x \in EntryIds : Live(x)' = Live(x)
      /\ Stopping' = Stopping
  <2>1. entry[e].runtime = "starting"
    BY DEF Inv, CallersAreApart, Creator
  <2> QED
    BY <1>2, <2>1 DEF Live, Stopping
<1>4. Types'
  <2>1. [at |-> "leased", want |-> caller[p].want, on |-> e] \in CallerType
    BY DEF Inv, Types, CallerType, Places, EntryIds
  <2>2. entry' \in [EntryIds -> EntryType]
    BY DEF Inv, Types, EntryType, States
  <2> QED
    BY <2>1, <2>2 DEF Inv, Types, Become
<1>5. MapIsLive'
  <2>1. \A c \in Configs : entries[c] # 0 => entries[c] \in EntryIds
    BY DEF Inv, Types, EntryIds
  <2> QED
    BY <1>3, <2>1 DEF Inv, MapIsLive
<1>6. CallersAreApart'
  BY <1>1, <1>3 DEF Inv, CallersAreApart, LeaseIsLive, Creator
<1>7. \A x \in EntryIds : Holders(x)' = Holders(x)
  BY <1>1 DEF Holders, Creator
<1>8. RefsAreHolders' /\ NoIdleRetiree'
  BY <1>3, <1>7 DEF Inv, RefsAreHolders, NoIdleRetiree, Mapped, IsActive
<1>9. DownIsCounted'
  BY <1>3 DEF Inv, DownIsCounted
<1> QED
  BY <1>4, <1>5, <1>6, <1>8, <1>9 DEF Inv

\* The factory fails: the entry leaves the map with its only holder.
LEMMA FailedStep ==
  ASSUME ConstantsAssumption, Inv, NEW p \in Callers, NEW e \in EntryIds, Creator(p, e),
         entry' = [entry EXCEPT ![e] = [config |-> entry[e].config, refs |-> 0,
                                        retiring |-> entry[e].retiring, runtime |-> "failed"]],
         entries' = [entries EXCEPT ![entry[e].config] = 0],
         done' = (done \/ AllGone(closed, Mapped \ {e}, shuttingDown)),
         Refuse(p),
         UNCHANGED <<created, active, closed, shuttingDown>>
  PROVE  Inv'
<1>1. \A q \in Callers : caller'[q] = IF q = p THEN Idle ELSE caller[q]
  BY DEF Inv, Types, Refuse
<1>2. \A x \in EntryIds : entry'[x] = IF x = e THEN [config |-> entry[e].config, refs |-> 0,
                                          retiring |-> entry[e].retiring, runtime |-> "failed"]
                                      ELSE entry[x]
  BY DEF Inv, Types
<1>3. /\ entry[e].runtime = "starting" /\ Live(e) /\ entry[e].config \in Configs
      /\ entries[entry[e].config] = e
      /\ \A c \in Configs : entries[c] # 0 => entries[c] \in EntryIds
  BY DEF Inv, Types, MapIsLive, CallersAreApart, Creator, Live, EntryIds
<1>4. /\ \A x \in EntryIds : Live(x)' <=> Live(x) /\ x # e
      /\ Stopping' = Stopping
  BY <1>2, <1>3 DEF Live, Stopping
<1>5. Types'
  <2>1. Idle \in CallerType
    BY DEF Inv, Types, ConstantsAssumption, CallerType, Places, Idle
  <2>2. entry' \in [EntryIds -> EntryType]
    BY DEF Inv, Types, EntryType, States
  <2>3. entries' \in [Configs -> 0 .. MaxEntries]
    BY <1>3 DEF Inv, Types, ConstantsAssumption
  <2> QED
    BY <2>1, <2>2, <2>3 DEF Inv, Types, Refuse, AllGone
<1>6. MapIsLive'
  <2>1. \A c \in Configs : entries'[c] = IF entries[c] = e THEN 0 ELSE entries[c]
    BY <1>3, Zenon DEF Inv, Types, MapIsLive
  <2> QED
    BY <1>2, <1>3, <1>4, <2>1 DEF Inv, MapIsLive
<1>7. CallersAreApart'
  BY <1>1, <1>2, <1>3 DEF Inv, CallersAreApart, LeaseIsLive, Creator, Idle
<1>8. \A x \in EntryIds : Holders(x)' = IF x = e THEN {} ELSE Holders(x)
  <2>1. \A q \in Callers : caller[q].on = e /\ caller[q].at \in {"create", "leased"} => q = p
    BY <1>3 DEF Inv, CallersAreApart, LeaseIsLive, Creator
  <2> QED
    BY <1>1, <2>1 DEF Holders, Creator, Idle
<1>9. RefsAreHolders'
  <2>1. entry'[e].refs = 0 /\ \A x \in EntryIds : x # e => entry'[x].refs = entry[x].refs
    BY <1>2
  <2> QED
    BY <1>8, <2>1, FS_EmptySet, Zenon DEF Inv, RefsAreHolders
<1>10. NoIdleRetiree'
  <2>1. Mapped' = Mapped \ {e}
    BY <1>4, <1>5, <1>6, MappedIsLive DEF Inv, Types, MapIsLive, Mapped, EntryIds
  <2> QED
    BY <1>2, <1>8, <2>1 DEF Inv, NoIdleRetiree, IsActive, Mapped
<1>11. DownIsCounted'
  <2>1. done' => closed /\ Stopping = {} /\ \A x \in EntryIds : ~Live(x)'
    <3>1. Mapped = {x \in EntryIds : Live(x)}
      BY MappedIsLive DEF Inv
    <3>2. shuttingDown = 0 => Stopping = {}
      BY FiniteStopping, Zenon DEF Inv, DownIsCounted, Stopping
    <3> QED
      BY <1>4, <3>1, <3>2, Zenon DEF Inv, DownIsCounted, AllGone
  <2> QED
    BY <1>4, <2>1 DEF Inv, DownIsCounted
<1> QED
  BY <1>5, <1>6, <1>7, <1>9, <1>10, <1>11 DEF Inv

-----------------------------------------------------------------------------
\* Entries that nobody holds leave the map and begin to shut down: what the
\* release of a lease, reconcile, retireCredential and beginShutdown share.
\* ent holds the references and flags they have set before.
LEMMA RetireStep ==
  ASSUME ConstantsAssumption, Inv, NEW ent \in [EntryIds -> EntryType], NEW R \in SUBSET EntryIds,
         \A x \in EntryIds : ent[x].config = entry[x].config /\ ent[x].runtime = entry[x].runtime,
         \A x \in EntryIds : ent[x].refs = Cardinality(Holders(x)'),
         \A x \in R : entry[x].runtime = "running" /\ Holders(x)' = {},
         \A q \in Callers : \/ caller'[q] = caller[q]
                            \/ caller[q].at = "leased" /\ caller'[q] = Idle,
         caller' \in [Callers -> CallerType], created' = created, closed' \in BOOLEAN, done' \in BOOLEAN,
         Retire(R, ent)
  PROVE  /\ Types' /\ MapIsLive' /\ CallersAreApart' /\ RefsAreHolders'
         /\ \A x \in EntryIds : Live(x)' <=> Live(x) /\ x \notin R
         /\ Stopping' = Stopping \cup R
         /\ shuttingDown' = Cardinality(Stopping')
         /\ Mapped' = Mapped \ R
         /\ \A x \in EntryIds : entry'[x].config = entry[x].config /\ entry'[x].retiring = ent[x].retiring
<1> DEFINE down(x) == [config |-> ent[x].config, refs |-> ent[x].refs,
                       retiring |-> ent[x].retiring, runtime |-> "stopping"]
<1>1. /\ \A x \in EntryIds : entry'[x] = IF x \in R THEN down(x) ELSE ent[x]
      /\ entry' \in [EntryIds -> EntryType]
  <2>1. \A x \in EntryIds : [ent[x] EXCEPT !.runtime = "stopping"] = down(x)
    BY DEF EntryType
  <2>2. \A x \in EntryIds : down(x) \in EntryType
    BY DEF EntryType, States
  <2>3. entry' = [x \in EntryIds |-> IF x \in R THEN down(x) ELSE ent[x]]
    BY <2>1 DEF Retire
  <2> QED
    BY <2>2, <2>3
<1>2. \A x \in EntryIds : /\ entry'[x].config = entry[x].config /\ entry'[x].retiring = ent[x].retiring
                          /\ entry'[x].refs = ent[x].refs
                          /\ entry'[x].runtime = IF x \in R THEN "stopping" ELSE entry[x].runtime
  BY <1>1
<1> HIDE DEF down
<1>3. \A c \in Configs : entries'[c] = IF entries[c] \in R THEN 0 ELSE entries[c]
  BY DEF Retire
<1>4. /\ \A x \in EntryIds : Live(x)' <=> Live(x) /\ x \notin R
      /\ Stopping' = Stopping \cup R /\ Stopping \cap R = {}
  BY <1>2 DEF Live, Stopping
<1>5. shuttingDown' = Cardinality(Stopping') /\ shuttingDown' \in Nat
  <2>1. /\ IsFiniteSet(Stopping) /\ IsFiniteSet(R) /\ Cardinality(Stopping) \in Nat
        /\ Cardinality(R) \in Nat
    BY FiniteStopping DEF Stopping
  <2>2. Cardinality(Stopping \cup R) = Cardinality(Stopping) + Cardinality(R) - Cardinality(Stopping \cap R)
    BY <2>1, FS_Union
  <2>3. Cardinality(Stopping \cap R) = 0
    BY <1>4, FS_EmptySet, Zenon
  <2>4. shuttingDown' = Cardinality(Stopping) + Cardinality(R)
    BY DEF Retire, Inv, DownIsCounted
  <2> QED
    BY <1>4, <2>1, <2>2, <2>3, <2>4
<1>6. Types'
  <2>1. entries' \in [Configs -> 0 .. MaxEntries]
    BY DEF Inv, Types, Retire, ConstantsAssumption
  <2> QED
    BY <1>1, <1>5, <2>1 DEF Inv, Types
<1>7. MapIsLive'
  <2>1. \A c \in Configs : entries[c] # 0 => entries[c] \in EntryIds
    BY DEF Inv, Types, EntryIds
  <2>2. \A c \in Configs : entries'[c] # 0 => entry'[entries'[c]].config = c /\ Live(entries[c])'
    BY <1>2, <1>3, <1>4, <2>1 DEF Inv, MapIsLive, Live
  <2>3. \A e \in EntryIds : Live(e)' => entry'[e].config \in Configs /\ entries'[entry'[e].config] = e
    BY <1>2, <1>3, <1>4 DEF Inv, MapIsLive
  <2>4. \A e \in EntryIds : e > created' => entry'[e].runtime = "none"
    BY <1>2, Zenon DEF Inv, MapIsLive
  <2> QED
    BY <2>2, <2>3, <2>4 DEF MapIsLive
<1>8. CallersAreApart'
  <2>1. \A q \in Callers : caller'[q].at = "leased" => entry'[caller'[q].on].runtime = "running"
    BY <1>2 DEF Inv, CallersAreApart, LeaseIsLive, Holders, Idle
  <2>2. \A q \in Callers : caller'[q].at # "idle" => caller'[q] = caller[q]
    BY DEF Idle
  <2>3. \A q \in Callers : caller[q].at = "create" => caller'[q] = caller[q]
    OBVIOUS
  <2>4. \A x \in EntryIds : entry'[x].runtime = "starting" <=> entry[x].runtime = "starting"
    BY <1>2, Zenon
  <2>5. \A q \in Callers : /\ caller'[q].at # "idle" => caller'[q].want \in Configs
                           /\ caller'[q].at \in {"wait", "create", "leased"} => caller'[q].on \in EntryIds
                           /\ caller'[q].at = "create" => entry'[caller'[q].on].runtime = "starting"
    BY <2>2, <2>4 DEF Inv, CallersAreApart
  <2>6. \A q \in Callers, x \in EntryIds : Creator(q, x)' <=> Creator(q, x)
    BY <2>2, <2>3 DEF Creator
  <2> QED
    BY <2>1, <2>4, <2>5, <2>6, Zenon DEF Inv, CallersAreApart, LeaseIsLive
<1>9. RefsAreHolders'
  BY <1>2 DEF RefsAreHolders
<1>10. Mapped' = Mapped \ R
  BY <1>3 DEF Mapped, EntryIds
<1> QED
  BY <1>2, <1>4, <1>5, <1>6, <1>7, <1>8, <1>9, <1>10

\* The last lease of a retiring entry takes it down, an earlier one does not.
LEMMA ReleaseStep ==
  ASSUME ConstantsAssumption, Inv, NEW p \in Callers, Release(p)
  PROVE  Inv'
<1>1. PICK e \in EntryIds : e = caller[p].on
  BY Zenon DEF Inv, CallersAreApart, Release
<1> DEFINE ent == Returned(e)
           R == {x \in {e} : Retirable(x, ent)}
<1>2. /\ caller[p].at = "leased" /\ entry[e].runtime = "running"
      /\ Refuse(p) /\ Retire(R, ent)
      /\ UNCHANGED <<created, active, closed, done>>
  BY <1>1 DEF Release, Inv, CallersAreApart, LeaseIsLive
<1>3. /\ \A q \in Callers : caller'[q] = IF q = p THEN Idle ELSE caller[q]
      /\ caller' \in [Callers -> CallerType]
  <2>1. Idle \in CallerType
    BY DEF ConstantsAssumption, CallerType, Places, Idle
  <2> QED
    BY <1>2, <2>1 DEF Inv, Types, Refuse
<1>4. \A x \in EntryIds : Holders(x)' = IF x = e THEN Holders(e) \ {p} ELSE Holders(x)
  BY <1>1, <1>2, <1>3 DEF Holders, Idle
<1>5. /\ Cardinality(Holders(e) \ {p}) = entry[e].refs - 1 /\ entry[e].refs - 1 \in Nat
      /\ \A x \in EntryIds : entry[x].refs = Cardinality(Holders(x))
  <2>1. p \in Holders(e)
    BY <1>1, <1>2 DEF Holders
  <2>2. Cardinality(Holders(e) \ {p}) = Cardinality(Holders(e)) - 1
    BY <2>1, FiniteHolders, FS_RemoveElement, Zenon
  <2>3. Cardinality(Holders(e)) \in Nat /\ Cardinality(Holders(e)) # 0
    BY <2>1, FiniteHolders
  <2> QED
    BY <2>2, <2>3 DEF Inv, RefsAreHolders
<1>6. /\ \A x \in EntryIds : /\ ent[x].config = entry[x].config /\ ent[x].runtime = entry[x].runtime
                             /\ ent[x].retiring = entry[x].retiring
                             /\ ent[x].refs = IF x = e THEN entry[e].refs - 1 ELSE entry[x].refs
      /\ ent \in [EntryIds -> EntryType]
  BY <1>5 DEF Inv, Types, EntryType, Returned
<1>7. \A x \in EntryIds : ent[x].refs = Cardinality(Holders(x)')
  BY <1>4, <1>5, <1>6, Zenon
<1>8. \A x \in EntryIds : ent[x].refs = 0 <=> Holders(x)' = {}
  BY <1>4, <1>5, <1>7, FiniteHolders, FS_RemoveElement, FS_EmptySet
<1> HIDE DEF ent
<1>9. \A x \in R : x = e /\ entry[x].runtime = "running" /\ Holders(x)' = {}
  BY <1>2, <1>8, ZenonT(40) DEF Retirable
<1>10. /\ Types' /\ MapIsLive' /\ CallersAreApart' /\ RefsAreHolders'
       /\ Stopping' = Stopping \cup R
       /\ shuttingDown' = Cardinality(Stopping')
       /\ Mapped' = Mapped \ R
       /\ \A x \in EntryIds : entry'[x].config = entry[x].config /\ entry'[x].retiring = ent[x].retiring
  <2>1. R \in SUBSET EntryIds /\ closed' \in BOOLEAN /\ done' \in BOOLEAN
    BY <1>2 DEF Inv, Types
  <2>2. \A q \in Callers : \/ caller'[q] = caller[q]
                           \/ caller[q].at = "leased" /\ caller'[q] = Idle
    BY <1>2, <1>3
  <2>3. \A x \in EntryIds : ent[x].config = entry[x].config /\ ent[x].runtime = entry[x].runtime
    BY <1>6
  <2>4. \A x \in R : entry[x].runtime = "running" /\ Holders(x)' = {}
    BY <1>9, Zenon
  <2>5. ent \in [EntryIds -> EntryType] /\ caller' \in [Callers -> CallerType] /\ created' = created /\ Retire(R, ent)
    BY <1>2, <1>3, <1>6, ZenonT(40)
  <2> HIDE DEF R
  <2> QED
    BY <1>7, <2>1, <2>2, <2>3, <2>4, <2>5, RetireStep, ZenonT(40)
<1>11. NoIdleRetiree'
  <2>1. ASSUME NEW x \in Mapped, x \notin R, entry[x].retiring
        PROVE  Holders(x)' # {}
    <3>1. CASE x # e
      BY <1>4, <2>1, <3>1 DEF Inv, NoIdleRetiree, Mapped
    <3>2. CASE x = e
      <4>1. entries[ent[e].config] = e
        BY <1>2, <1>6 DEF Inv, MapIsLive, Live
      <4>2. ent[e].retiring /\ ent[e].runtime = "running"
        BY <1>2, <1>6, <2>1, <3>2
      <4>3. ~Retirable(e, ent)
        BY <2>1, <3>2
      <4>4. ent[e].refs # 0
        BY <4>1, <4>2, <4>3, Zenon DEF Retirable
      <4> QED
        BY <1>8, <3>2, <4>4, Zenon
    <3> QED
      BY <3>1, <3>2, Zenon
  <2>2. \A x \in Mapped : x \in EntryIds /\ entry'[x].retiring = entry[x].retiring
    BY <1>6, <1>10 DEF Mapped
  <2> QED
    BY <1>2, <1>10, <2>1, <2>2 DEF Inv, NoIdleRetiree, IsActive, Mapped
<1>12. DownIsCounted'
  <2>1. ~done'
    BY <1>2, Zenon DEF Inv, DownIsCounted, Live
  <2> QED
    BY <1>10, <2>1 DEF DownIsCounted
<1> QED
  BY <1>10, <1>11, <1>12, Zenon DEF Inv

\* Part of NoIdleRetiree: an entry that is to go has a holder.
GoingAreHeld == \A x \in Mapped : entry[x].retiring => Holders(x) # {}

\* The step has set the flags of ent and kept the configurations.
Flagged(ent) ==
  \A x \in EntryIds : entry'[x].config = entry[x].config /\ entry'[x].retiring = ent[x].retiring

\* The flags of some mapped entries change, and those of them that nobody
\* holds go: what reconcile, retireCredential and beginShutdown share.
LEMMA MarkStep ==
  ASSUME ConstantsAssumption, Inv, NEW S \in SUBSET Mapped, NEW flag \in [EntryIds -> BOOLEAN],
         NEW R \in SUBSET S, \A e \in S : e \in R <=> Retirable(e, Marked(S, flag)),
         Retire(R, Marked(S, flag)),
         UNCHANGED <<caller, created>>, closed' \in BOOLEAN, done' \in BOOLEAN
  PROVE  /\ Types' /\ MapIsLive' /\ CallersAreApart' /\ RefsAreHolders'
         /\ \A x \in EntryIds : Live(x)' <=> Live(x) /\ x \notin R
         /\ Stopping' = Stopping \cup R
         /\ shuttingDown' = Cardinality(Stopping')
         /\ Mapped' = Mapped \ R
         /\ Flagged(Marked(S, flag))
         /\ GoingAreHeld'
<1> DEFINE ent == Marked(S, flag)
<1>1. S \subseteq EntryIds /\ R \in SUBSET EntryIds
  BY DEF Mapped
<1>2. /\ \A x \in EntryIds : /\ ent[x].config = entry[x].config /\ ent[x].runtime = entry[x].runtime
                             /\ ent[x].refs = entry[x].refs
                             /\ ent[x].retiring = IF x \in S THEN flag[x] ELSE entry[x].retiring
      /\ ent \in [EntryIds -> EntryType]
  <2>1. \A x \in EntryIds : [entry[x] EXCEPT !.retiring = flag[x]]
          = [config |-> entry[x].config, refs |-> entry[x].refs, retiring |-> flag[x], runtime |-> entry[x].runtime]
    BY DEF Inv, Types, EntryType
  <2>2. \A x \in EntryIds : ent[x] = IF x \in S THEN [config |-> entry[x].config, refs |-> entry[x].refs,
                                       retiring |-> flag[x], runtime |-> entry[x].runtime] ELSE entry[x]
    BY <2>1 DEF Marked
  <2>3. \A x \in EntryIds : ent[x] \in EntryType
    <3>1. \A x \in EntryIds : entry[x] \in EntryType /\ flag[x] \in BOOLEAN
      BY DEF Inv, Types
    <3>2. \A x \in EntryIds : [config |-> entry[x].config, refs |-> entry[x].refs,
                               retiring |-> flag[x], runtime |-> entry[x].runtime] \in EntryType
      BY <3>1 DEF EntryType
    <3> QED
      BY <2>2, <3>1, <3>2, Zenon
  <2>4. ent = [x \in EntryIds |-> ent[x]]
    BY DEF Marked
  <2>5. ent \in [EntryIds -> EntryType]
    BY <2>3, <2>4
  <2> QED
    BY <2>2, <2>5
<1>3. \A x \in EntryIds : Holders(x)' = Holders(x)
  BY DEF Holders
<1>4. \A x \in EntryIds : ent[x].refs = Cardinality(Holders(x)')
  BY <1>2, <1>3 DEF Inv, RefsAreHolders
<1>5. (\A e \in S : e \in R <=> Retirable(e, ent)) /\ Retire(R, ent)
  OBVIOUS
<1>6. \A x \in EntryIds : ent[x].refs = 0 <=> Holders(x)' = {}
  BY <1>3, <1>4, FiniteHolders, Zenon
<1> HIDE DEF ent
<1>7. \A x \in R : entry[x].runtime = "running" /\ Holders(x)' = {}
  BY <1>1, <1>2, <1>5, <1>6, Zenon DEF Retirable
<1>8. /\ Types' /\ MapIsLive' /\ CallersAreApart' /\ RefsAreHolders'
      /\ \A x \in EntryIds : Live(x)' <=> Live(x) /\ x \notin R
      /\ Stopping' = Stopping \cup R
      /\ shuttingDown' = Cardinality(Stopping')
      /\ Mapped' = Mapped \ R
      /\ \A x \in EntryIds : entry'[x].config = entry[x].config /\ entry'[x].retiring = ent[x].retiring
  <2>1. caller' \in [Callers -> CallerType] /\ created' = created /\ \A q \in Callers : caller'[q] = caller[q]
    BY DEF Inv, Types
  <2> QED
    BY <1>1, <1>2, <1>4, <1>5, <1>7, <2>1, RetireStep
<1>9. ASSUME NEW x \in Mapped, x \notin R, ent[x].retiring
      PROVE  Holders(x)' # {}
  <2>1. x \in EntryIds
    BY Zenon DEF Mapped
  <2>2. CASE x \notin S
    BY <1>2, <1>3, <1>9, <2>1, <2>2, Zenon DEF Inv, NoIdleRetiree
  <2>3. CASE x \in S
    <3>1. Live(x) /\ entries[entry[x].config] = x
      BY MappedIsLive, Zenon DEF Inv, MapIsLive
    <3>2. CASE entry[x].runtime = "running"
      BY <1>2, <1>5, <1>6, <1>9, <2>1, <2>3, <3>1, <3>2 DEF Retirable
    <3>3. CASE entry[x].runtime = "starting"
      BY <1>3, <2>1, <3>3 DEF Inv, CallersAreApart, Creator, Holders
    <3> QED
      BY <3>1, <3>2, <3>3, Zenon DEF Live
  <2> QED
    BY <2>2, <2>3
<1>10. GoingAreHeld'
  <2>1. \A x \in Mapped' : x \in Mapped /\ x \notin R /\ entry'[x].retiring = ent[x].retiring
    BY <1>8, Zenon DEF Mapped
  <2> QED
    BY <1>9, <2>1, Zenon DEF GoingAreHeld
<1>11. Flagged(ent)
  BY <1>8 DEF Flagged
<1> QED
  BY <1>8, <1>10, <1>11 DEF ent

\* reconcile leaves no idle entry that the new publication does not name.
LEMMA ReconcileStep ==
  ASSUME ConstantsAssumption, Inv, NEW act, Reconcile(act)
  PROVE  Inv'
<1>0. PICK S \in SUBSET Mapped, flag \in [EntryIds -> BOOLEAN], R \in SUBSET Mapped :
        /\ S = Mapped /\ flag = Reconciled(act)
        /\ R = {e \in S : Retirable(e, Marked(S, flag))}
  BY Zenon DEF Reconciled
<1>1. /\ ~closed /\ active' = act /\ Retire(R, Marked(S, flag))
      /\ UNCHANGED <<created, closed, done, caller>>
      /\ closed' \in BOOLEAN /\ done' \in BOOLEAN
  BY <1>0 DEF Reconcile, Inv, Types
<1>2. \A x \in S : Marked(S, flag)[x].retiring <=> ~IsActive(entry[x].config, act)
  BY <1>0, ZenonT(40) DEF Marked, Reconciled, Mapped, Inv, Types, EntryType
<1>3. /\ Types' /\ MapIsLive' /\ CallersAreApart' /\ RefsAreHolders'
      /\ shuttingDown' = Cardinality(Stopping')
      /\ Mapped' = Mapped \ R
      /\ Flagged(Marked(S, flag))
      /\ GoingAreHeld'
  <2>1. R \in SUBSET S /\ \A e \in S : e \in R <=> Retirable(e, Marked(S, flag))
    BY <1>0
  <2> QED
    BY <1>1, <2>1, MarkStep
<1>4. NoIdleRetiree'
  <2>1. \A x \in Mapped' : x \in Mapped /\ x \in EntryIds
    BY <1>3, Zenon DEF Mapped
  <2>2. \A x \in Mapped' : ~IsActive(entry'[x].config, act) => entry'[x].retiring
    BY <1>0, <1>2, <1>3, <2>1 DEF Flagged
  <2> QED
    BY <1>1, <1>3, <2>2 DEF GoingAreHeld, NoIdleRetiree, IsActive
<1>5. DownIsCounted'
  BY <1>1, <1>3 DEF Inv, DownIsCounted
<1> QED
  BY <1>3, <1>4, <1>5 DEF Inv

\* retireCredential, also after the shutdown has begun or has been reported.
LEMMA RetireCredentialStep ==
  ASSUME ConstantsAssumption, Inv, NEW c \in Configs, RetireCredential(c)
  PROVE  Inv'
<1>0. PICK mine \in SUBSET Mapped, flag \in [EntryIds -> BOOLEAN], R \in SUBSET Mapped :
        /\ mine = {e \in Mapped : entry[e].config = c} /\ flag = [e \in EntryIds |-> TRUE]
        /\ R = {e \in mine : Retirable(e, Marked(mine, flag))}
  BY Zenon
<1>1. /\ Retire(R, Marked(mine, flag))
      /\ UNCHANGED <<created, active, closed, done, caller>>
      /\ closed' \in BOOLEAN /\ done' \in BOOLEAN
  BY <1>0 DEF RetireCredential, Inv, Types
<1>2. \A x \in EntryIds : entry[x].retiring => Marked(mine, flag)[x].retiring
  BY <1>0 DEF Marked, Mapped, Inv, Types, EntryType
<1>3. /\ Types' /\ MapIsLive' /\ CallersAreApart' /\ RefsAreHolders'
      /\ \A x \in EntryIds : Live(x)' <=> Live(x) /\ x \notin R
      /\ Stopping' = Stopping \cup R
      /\ shuttingDown' = Cardinality(Stopping')
      /\ Mapped' = Mapped \ R
      /\ Flagged(Marked(mine, flag))
      /\ GoingAreHeld'
  <2>1. R \in SUBSET mine /\ \A e \in mine : e \in R <=> Retirable(e, Marked(mine, flag))
    BY <1>0, Zenon
  <2> QED
    BY <1>1, <2>1, MarkStep, Zenon
<1>4. NoIdleRetiree'
  <2>1. \A x \in Mapped' : x \in Mapped /\ x \in EntryIds
    BY <1>3, Zenon DEF Mapped
  <2>2. \A x \in Mapped' : entry[x].retiring => entry'[x].retiring
    BY <1>2, <1>3, <2>1, Zenon DEF Flagged
  <2>3. \A x \in Mapped' : active # Unknown /\ ~IsActive(entry'[x].config, active) => entry'[x].retiring
    BY <1>3, <2>1, <2>2 DEF Inv, NoIdleRetiree, Flagged
  <2> QED
    BY <1>1, <1>3, <2>3, Zenon DEF GoingAreHeld, NoIdleRetiree, IsActive
<1>5. DownIsCounted'
  <2>1. done => R = {}
    BY <1>0, MappedIsLive DEF Inv, DownIsCounted
  <2> QED
    BY <1>1, <1>3, <2>1 DEF Inv, DownIsCounted
<1> QED
  BY <1>3, <1>4, <1>5 DEF Inv

\* beginShutdown, which reports the end at once when nothing is left.
LEMMA BeginShutdownStep ==
  ASSUME ConstantsAssumption, Inv, BeginShutdown
  PROVE  Inv'
<1>0. PICK S \in SUBSET Mapped, flag \in [EntryIds -> BOOLEAN], R \in SUBSET Mapped :
        /\ S = Mapped /\ flag = [e \in EntryIds |-> TRUE]
        /\ R = {e \in S : Retirable(e, Marked(S, flag))}
  BY Zenon
<1>1. /\ closed' = TRUE /\ active' = {} /\ Retire(R, Marked(S, flag))
      /\ done' = AllGone(TRUE, Mapped \ R, shuttingDown')
      /\ UNCHANGED <<created, caller>>
      /\ closed' \in BOOLEAN /\ done' \in BOOLEAN
  BY <1>0 DEF BeginShutdown, AllGone
<1>2. \A x \in S : Marked(S, flag)[x].retiring
  BY <1>0 DEF Marked, Mapped, Inv, Types, EntryType
<1>3. /\ Types' /\ MapIsLive' /\ CallersAreApart' /\ RefsAreHolders'
      /\ \A x \in EntryIds : Live(x)' <=> Live(x) /\ x \notin R
      /\ shuttingDown' = Cardinality(Stopping')
      /\ Mapped' = Mapped \ R
      /\ Flagged(Marked(S, flag))
      /\ GoingAreHeld'
  <2>1. R \in SUBSET S /\ \A e \in S : e \in R <=> Retirable(e, Marked(S, flag))
    BY <1>0
  <2> QED
    BY <1>1, <2>1, MarkStep, Zenon
<1>4. NoIdleRetiree'
  <2>1. \A x \in Mapped' : x \in Mapped /\ x \in EntryIds
    BY <1>3 DEF Mapped
  <2>2. \A x \in Mapped' : entry'[x].retiring
    BY <1>0, <1>2, <1>3, <2>1, Zenon DEF Flagged
  <2> QED
    BY <1>3, <2>2, Zenon DEF GoingAreHeld, NoIdleRetiree
<1>5. DownIsCounted'
  <2>1. shuttingDown' = 0 => Stopping' = {}
    <3>1. Stopping' \in SUBSET EntryIds
      BY DEF Stopping
    <3> QED
      BY <1>3, <3>1, FiniteStopping, Zenon
  <2>2. Mapped \ R = {} => \A x \in EntryIds : ~Live(x)'
    BY <1>3, MappedIsLive DEF Inv
  <2> QED
    BY <1>1, <1>3, <2>1, <2>2, Zenon DEF DownIsCounted, AllGone
<1> QED
  BY <1>3, <1>4, <1>5 DEF Inv

\* The end of one shutdown; the last one is reported.
LEMMA StoppedStep ==
  ASSUME ConstantsAssumption, Inv, NEW e \in EntryIds, Stopped(e)
  PROVE  Inv'
<1>1. \A x \in EntryIds : entry'[x] = IF x = e THEN [config |-> entry[e].config, refs |-> entry[e].refs,
                                          retiring |-> entry[e].retiring, runtime |-> "stopped"]
                                      ELSE entry[x]
  BY DEF Inv, Types, EntryType, Stopped
<1>2. \A x \in EntryIds : /\ entry'[x].config = entry[x].config /\ entry'[x].refs = entry[x].refs
                          /\ entry'[x].retiring = entry[x].retiring
                          /\ entry'[x].runtime = IF x = e THEN "stopped" ELSE entry[x].runtime
  BY <1>1
<1>3. /\ entry[e].runtime = "stopping" /\ e \in Stopping
      /\ \A x \in EntryIds : Live(x)' <=> Live(x)
      /\ Stopping' = Stopping \ {e}
      /\ UNCHANGED <<entries, created, active, closed, caller>>
  BY <1>2 DEF Stopped, Live, Stopping
<1>4. shuttingDown' = Cardinality(Stopping') /\ shuttingDown' \in Nat
  <2>1. IsFiniteSet(Stopping) /\ Cardinality(Stopping) \in Nat /\ Cardinality(Stopping) # 0
    BY <1>3, FiniteStopping, Zenon DEF Stopping
  <2>2. Cardinality(Stopping \ {e}) = Cardinality(Stopping) - 1
    BY <1>3, <2>1, FS_RemoveElement, Zenon
  <2> QED
    BY <1>3, <2>1, <2>2 DEF Inv, DownIsCounted, Stopped
<1>5. Types'
  <2>1. entry' \in [EntryIds -> EntryType]
    BY DEF Inv, Types, EntryType, States, Stopped
  <2> QED
    BY <1>3, <1>4, <2>1 DEF Inv, Types, Stopped, AllGone
<1>6. MapIsLive'
  <2>1. \A c \in Configs : entries[c] # 0 => entries[c] \in EntryIds
    BY DEF Inv, Types, EntryIds
  <2>2. e > created => FALSE
    BY <1>3, Zenon DEF Inv, MapIsLive
  <2> QED
    BY <1>2, <1>3, <2>1, <2>2 DEF Inv, MapIsLive
<1>7. CallersAreApart'
  <2>1. \A x \in EntryIds : entry[x].runtime \in {"starting", "running"} => entry'[x].runtime = entry[x].runtime
    BY <1>2, <1>3, Zenon
  <2>2. \A x \in EntryIds : entry'[x].runtime = "starting" => entry[x].runtime = "starting"
    BY <1>2
  <2>3. CallersAreApart
    BY Zenon DEF Inv
  <2>4. LeaseIsLive'
    BY <1>3, <2>1, <2>3, Zenon DEF CallersAreApart, LeaseIsLive
  <2>5. \A q \in Callers, x \in EntryIds : Creator(q, x)' <=> Creator(q, x)
    BY <1>3, Zenon DEF Creator
  <2>6. \A q \in Callers : caller'[q].at = "create" => entry'[caller'[q].on].runtime = "starting"
    BY <1>3, <2>1, <2>3, Zenon DEF CallersAreApart
  <2> QED
    BY <1>3, <2>2, <2>3, <2>4, <2>5, <2>6, Zenon DEF CallersAreApart
<1>8. \A x \in EntryIds : Holders(x)' = Holders(x)
  BY <1>3, Zenon DEF Holders
<1>9. RefsAreHolders' /\ NoIdleRetiree'
  BY <1>2, <1>3, <1>8, Zenon DEF Inv, RefsAreHolders, NoIdleRetiree, Mapped, IsActive
<1>10. DownIsCounted'
  <2>1. shuttingDown' = 0 => Stopping' = {}
    <3>1. Stopping' \in SUBSET EntryIds
      BY Zenon DEF Stopping
    <3> QED
      BY <1>4, <3>1, FiniteStopping, Zenon
  <2>2. Mapped = {} => \A x \in EntryIds : ~Live(x)'
    BY <1>3, MappedIsLive DEF Inv
  <2>3. done' <=> done \/ (closed /\ Mapped = {} /\ shuttingDown' = 0)
    BY DEF Stopped, AllGone, Inv, Types
  <2> QED
    BY <1>3, <1>4, <2>1, <2>2, <2>3 DEF Inv, DownIsCounted
<1> QED
  BY <1>5, <1>6, <1>7, <1>9, <1>10 DEF Inv

-----------------------------------------------------------------------------
\* A round of acquire refuses, waits, leases or creates.
LEMMA AcquireStep ==
  ASSUME ConstantsAssumption, Inv, NEW p \in Callers, Acquire(p)
  PROVE  Inv'
<1> DEFINE c == caller[p].want
<1>1. PICK d \in Configs : d = c
  BY Zenon DEF Acquire, Inv, CallersAreApart
<1>2. caller[p].at = "try" /\ entries[d] \in 0 .. MaxEntries
  BY DEF Acquire, Inv, Types
<1>3. CASE closed /\ Refuse(p) /\ UNCHANGED pool
  <2>1. Idle \in CallerType /\ Idle.at = "idle" /\ caller' = [caller EXCEPT ![p] = Idle]
    BY <1>3 DEF ConstantsAssumption, CallerType, Places, Idle, Refuse
  <2> QED
    BY <1>2, <1>3, <2>1, CallerStep, Zenon
<1>4. CASE entries[d] # 0 /\ Become(p, "wait", entries[d]) /\ UNCHANGED pool
  <2> DEFINE k == [at |-> "wait", want |-> c, on |-> entries[d]]
  <2>1. k \in CallerType /\ k.at = "wait" /\ k.want \in Configs /\ k.on \in EntryIds /\ caller' = [caller EXCEPT ![p] = k]
    BY <1>1, <1>2, <1>4 DEF CallerType, Places, EntryIds, Become, ConstantsAssumption
  <2> HIDE DEF k
  <2> QED
    BY <1>2, <1>4, <2>1, CallerStep, Zenon
<1>5. CASE /\ entries[d] # 0 /\ entry[entries[d]].runtime = "running"
           /\ Lease(entries[d]) /\ Become(p, "leased", entries[d])
           /\ UNCHANGED <<entries, created, active, closed, shuttingDown, done>>
  <2>1. PICK e \in EntryIds : e = entries[d]
    BY <1>2, <1>5 DEF EntryIds, ConstantsAssumption
  <2> QED
    BY <1>2, <1>5, <2>1, LeaseStep, Zenon
<1>6. CASE /\ ~closed /\ entries[d] = 0 /\ created < MaxEntries
           /\ created' = created + 1
           /\ entries' = [entries EXCEPT ![d] = created']
           /\ entry' = [entry EXCEPT ![created'] = [config |-> d, refs |-> 1, runtime |-> "starting",
                           retiring |-> active # Unknown /\ ~IsActive(d, active)]]
           /\ Become(p, "create", created')
           /\ UNCHANGED <<active, closed, shuttingDown, done>>
  <2>1. PICK flag \in BOOLEAN : flag = (active # Unknown /\ ~IsActive(d, active))
    BY Zenon
  <2> QED
    BY <1>2, <1>6, <2>1, CreateStep, Zenon
<1> QED
  BY <1>1, <1>3, <1>4, <1>5, <1>6, Zenon DEF Acquire

\* Every step of the pool keeps the invariant.
LEMMA NextInv ==
  ASSUME ConstantsAssumption, Inv, [Next]_vars
  PROVE  Inv'
<1>1. CASE \E p \in Callers, c \in Configs : Want(p, c)
  <2>1. PICK p \in Callers, c \in Configs : Want(p, c)
    BY <1>1, Zenon
  <2> DEFINE k == [at |-> "try", want |-> c, on |-> 0]
  <2>2. /\ k \in CallerType /\ k.at = "try" /\ k.want \in Configs
        /\ caller' = [caller EXCEPT ![p] = k] /\ caller[p].at = "idle" /\ UNCHANGED pool
    BY <2>1 DEF Want, CallerType, Places, ConstantsAssumption
  <2> HIDE DEF k
  <2> QED
    BY <2>2, CallerStep, Zenon
<1>2. CASE \E p \in Callers : Wait(p)
  <2>1. PICK p \in Callers : Wait(p)
    BY <1>2
  <2> DEFINE k == [at |-> "try", want |-> caller[p].want, on |-> 0]
  <2>2. caller[p].at = "wait" /\ UNCHANGED pool
    BY <2>1 DEF Wait
  <2>3. CASE Refuse(p)
    <3>1. Idle \in CallerType /\ Idle.at = "idle" /\ caller' = [caller EXCEPT ![p] = Idle]
      BY <2>3 DEF ConstantsAssumption, CallerType, Places, Idle, Refuse
    <3> QED
      BY <2>2, <3>1, CallerStep, Zenon
  <2>4. CASE Become(p, "try", 0)
    <3>1. k \in CallerType /\ k.at = "try" /\ k.want \in Configs /\ caller' = [caller EXCEPT ![p] = k]
      BY <2>2, <2>4 DEF Become, CallerType, Places, ConstantsAssumption, Inv, CallersAreApart
    <3> HIDE DEF k
    <3> QED
      BY <2>2, <3>1, CallerStep, Zenon
  <2> QED
    BY <2>1, <2>3, <2>4 DEF Wait
<1>3. CASE \E p \in Callers : Created(p)
  <2>1. PICK p \in Callers : Created(p)
    BY <1>3
  <2>2. PICK e \in EntryIds : e = caller[p].on /\ Creator(p, e)
    BY <2>1 DEF Created, Creator, Inv, CallersAreApart
  <2> QED
    BY <2>1, <2>2, StartedStep, FailedStep, Zenon DEF Created
<1>4. CASE UNCHANGED vars
  <2>1. Types'
    BY <1>4 DEF vars, Inv, Types
  <2>2. Mapped' = Mapped /\ Stopping' = Stopping /\ \A e \in EntryIds : Holders(e)' = Holders(e)
    BY <1>4 DEF vars, Mapped, Stopping, Holders
  <2>3. MapIsLive' /\ CallersAreApart'
    <3>1. MapIsLive'
      BY <1>4, Zenon DEF vars, Inv, MapIsLive, Live
    <3>2. LeaseIsLive' /\ \A p \in Callers, e \in EntryIds : Creator(p, e)' <=> Creator(p, e)
      BY <1>4, Zenon DEF vars, Inv, CallersAreApart, LeaseIsLive, Creator
    <3>3. CallersAreApart'
      BY <1>4, <3>2, Zenon DEF vars, Inv, CallersAreApart
    <3> QED
      BY <3>1, <3>3, Zenon
  <2>4. RefsAreHolders' /\ DownIsCounted'
    BY <1>4, <2>2, Zenon DEF vars, Inv, RefsAreHolders, DownIsCounted, Live
  <2>5. NoIdleRetiree'
    <3>1. \A e \in Mapped : e \in EntryIds
      BY DEF Mapped
    <3> QED
      BY <1>4, <2>2, <3>1 DEF vars, Inv, NoIdleRetiree, IsActive
  <2> QED
    BY <2>1, <2>3, <2>4, <2>5 DEF Inv
<1> QED
  BY <1>1, <1>2, <1>3, <1>4, AcquireStep, ReleaseStep, ReconcileStep, RetireCredentialStep,
     BeginShutdownStep, StoppedStep, Zenon DEF Next

\* The invariant holds in every reachable state.
THEOREM Invariance ==
  ASSUME ConstantsAssumption
  PROVE  Spec => []Inv
<1>1. Init => Inv
  BY InitInv
<1>2. Inv /\ [Next]_vars => Inv'
  BY NextInv
<1> QED
  BY <1>1, <1>2, PTL DEF Spec

\* Every variable keeps its type: no entry has more references than there are
\* callers, and no more runtimes shut down than were ever created.
THEOREM TypeCorrect ==
  ASSUME ConstantsAssumption
  PROVE  Spec => []TypeOK
<1>1. Inv => TypeOK
  <2> SUFFICES ASSUME Inv PROVE TypeOK
    OBVIOUS
  <2>1. ASSUME NEW e \in EntryIds
        PROVE  entry[e].refs \in 0 .. Cardinality(Callers) /\ entry[e].runtime \in States
    <3>1. Holders(e) \subseteq Callers /\ IsFiniteSet(Callers)
      BY DEF Holders, ConstantsAssumption
    <3>2. /\ Cardinality(Holders(e)) <= Cardinality(Callers)
          /\ Cardinality(Callers) \in Nat
      BY <3>1, FS_Subset, FS_CardinalityType
    <3>3. entry[e].refs = Cardinality(Holders(e)) /\ entry[e].refs \in Nat
          /\ entry[e].runtime \in States
      BY DEF Inv, Types, EntryType, RefsAreHolders
    <3> QED
      BY <3>2, <3>3
  <2>2. shuttingDown \in 0 .. MaxEntries
    <3>1. MaxEntries \in Nat
      BY DEF ConstantsAssumption
    <3>2. /\ IsFiniteSet(1 .. MaxEntries)
          /\ Cardinality(1 .. MaxEntries) = IF 1 > MaxEntries THEN 0 ELSE MaxEntries - 1 + 1
      BY <3>1, FS_Interval
    <3>3. Stopping \in SUBSET (1 .. MaxEntries)
      BY DEF Stopping, EntryIds
    <3>4. Cardinality(Stopping) <= Cardinality(1 .. MaxEntries)
      BY <3>2, <3>3, FS_Subset, Zenon
    <3>5. shuttingDown = Cardinality(Stopping) /\ shuttingDown \in Nat
      BY DEF Inv, Types, DownIsCounted
    <3> QED
      BY <3>1, <3>2, <3>4, <3>5
  <2>3. entries \in [Configs -> 0 .. MaxEntries] /\ closed \in BOOLEAN /\ done \in BOOLEAN
    BY Zenon DEF Inv, Types
  <2> QED
    BY <2>1, <2>2, <2>3 DEF TypeOK, States
<1> QED
  BY <1>1, Invariance, PTL

\* No publication, credential retirement or process stop shuts a runtime down
\* under the attempt that has leased it.
THEOREM LeasesAreLive ==
  ASSUME ConstantsAssumption
  PROVE  Spec => []LeaseIsLive
<1>1. Inv => LeaseIsLive
  BY DEF Inv, CallersAreApart
<1> QED
  BY <1>1, Invariance, PTL

\* The references of an entry are exactly the callers that hold it, also
\* after failed factories and releases in any order.
THEOREM ReferencesAreExact ==
  ASSUME ConstantsAssumption
  PROVE  Spec => []RefsAreHolders
<1>1. Inv => RefsAreHolders
  BY DEF Inv
<1> QED
  BY <1>1, Invariance, PTL

\* An entry that is to go has a holder whose release will take it down, and
\* every entry the publication does not name is to go.
THEOREM NothingLingers ==
  ASSUME ConstantsAssumption
  PROVE  Spec => []NoIdleRetiree
<1>1. Inv => NoIdleRetiree
  BY Zenon DEF Inv
<1> QED
  BY <1>1, Invariance, PTL

\* The end of the shutdown is reported when every runtime is down.
THEOREM ReportIsTrue ==
  ASSUME ConstantsAssumption
  PROVE  Spec => []DoneMeansDown
<1>1. Inv => DoneMeansDown
  <2> SUFFICES ASSUME Inv, done, NEW e \in EntryIds
               PROVE  entry[e].runtime \in {"none", "failed", "stopped"}
    BY DEF DoneMeansDown
  <2>1. entry[e].runtime \in States /\ ~Live(e) /\ e \notin Stopping
    BY DEF Inv, Types, EntryType, DownIsCounted
  <2> QED
    BY <2>1 DEF States, Live, Stopping
<1> QED
  BY <1>1, Invariance, PTL

-----------------------------------------------------------------------------
(* LiveSessions *)

CONSTANTS Calls, Maximum, MaxAttempts, MaxClaims, MaxEnders
VARIABLES call, callsClosing, finish

Calling == INSTANCE LiveSessions WITH closing <- callsClosing

Reasons == {"none", "client_hangup", "key_revoked", "client_disconnected", "upstream_session_ended",
            "setup_failed", "expired", "control_timeout", "server_shutdown"}

CallRecord ==
  [at : {"none", "reserved", "opened", "stored", "gone"}, slot : BOOLEAN,
   terminating : BOOLEAN, reason : Reasons, attached : BOOLEAN, claims : Nat,
   timer : {"off", "lifetime", "retry"}, reconnect : BOOLEAN, generation : Nat,
   fired : SUBSET Nat, attempts : Nat, recorder : BOOLEAN, unnamed : BOOLEAN, relay : BOOLEAN,
   upstream : {"none", "live", "ended"}, released : Nat, logged : Nat]

FinishRecord == [queue : Nat, busy : BOOLEAN, hangup : BOOLEAN]

\* What a call that is not registered yet looks like, and what the reason of
\* an ending says about it.
Begins(k) ==
  /\ k.at \in {"none", "reserved", "opened"} =>
       ~k.terminating /\ ~k.relay /\ k.recorder /\ k.logged = 0
  /\ k.at \in {"none", "reserved"} => k.upstream = "none"
  /\ k.at \in {"reserved", "opened"} => k.slot
  /\ ~k.terminating => k.reason = "none"
  /\ k.relay \/ Calling!Ended(k.reason) => k.upstream = "ended"
  /\ k.attached => k.reason # "control_timeout"

\* The one that holds finishMu works on a registered call, and skips the
\* hang-up only when the upstream has ended the session.
Works(k, f) ==
  /\ f.busy => k.at = "stored" /\ f.queue > 0
  /\ f.busy /\ ~f.hangup => Calling!Ended(k.reason)
  /\ k.at = "stored" /\ k.terminating => f.queue > 0 \/ k.timer = "retry" \/ k.relay

\* What is given back and written at the end of a call.
Settled(k, stop) ==
  /\ k.released = IF k.at = "gone" THEN 1 ELSE 0
  /\ k.logged <= 1
  /\ k.at = "gone" \/ ~k.recorder => k.logged = 1
  /\ k.at = "gone" /\ k.upstream = "live" => stop \/ k.attempts >= MaxAttempts \/ k.unnamed

\* What holds of every call.
CallOK(k, f, stop) ==
  /\ k \in CallRecord /\ f \in FinishRecord
  /\ Begins(k) /\ Works(k, f) /\ Settled(k, stop)

CallsInv ==
  /\ callsClosing \in BOOLEAN
  /\ DOMAIN call = Calls /\ call = [c \in Calls |-> call[c]]
  /\ DOMAIN finish = Calls /\ finish = [c \in Calls |-> finish[c]]
  /\ \A c \in Calls : CallOK(call[c], finish[c], callsClosing)

\* The instance counts as FiniteSets does.
LEMMA LiveCardinality ==
  ASSUME NEW S
  PROVE  Calling!Cardinality(S) = Cardinality(S) /\ (Calling!IsFiniteSet(S) <=> IsFiniteSet(S))
BY Zenon DEF Calling!Cardinality, Cardinality, Calling!IsFiniteSet, IsFiniteSet

\* newLiveSessions starts in the invariant.
LEMMA CallsInit == Calling!Init => CallsInv
<1> SUFFICES ASSUME Calling!Init PROVE CallsInv
  BY ZenonT(40)
<1>1. CallOK(Calling!NewCall, Calling!NoFinish, FALSE)
  <2>1. Calling!NewCall \in CallRecord
    BY DEF Calling!NewCall, CallRecord, Reasons
  <2>2. Calling!NoFinish \in FinishRecord
    BY DEF Calling!NoFinish, FinishRecord
  <2>3. Begins(Calling!NewCall)
    BY DEF Calling!NewCall, Begins, Calling!Ended
  <2>4. Works(Calling!NewCall, Calling!NoFinish)
    BY DEF Calling!NewCall, Calling!NoFinish, Works
  <2>5. Settled(Calling!NewCall, FALSE)
    BY DEF Calling!NewCall, Settled
  <2> QED
    BY <2>1, <2>2, <2>3, <2>4, <2>5, Zenon DEF CallOK
<1> QED
  BY <1>1, Zenon DEF Calling!Init, CallsInv

\* A step of one call.
LEMMA OneCall ==
  ASSUME CallsInv, NEW c \in Calls, NEW k, NEW f, CallOK(k, f, callsClosing),
         call' = [call EXCEPT ![c] = k], finish' = [finish EXCEPT ![c] = f], UNCHANGED callsClosing
  PROVE  CallsInv'
<1>1. \A d \in Calls : CallOK(call'[d], finish'[d], callsClosing')
  BY Zenon DEF CallsInv
<1> QED
  BY <1>1, Zenon DEF CallsInv

\* A step of one call that leaves its endings alone.
LEMMA OneCallOnly ==
  ASSUME CallsInv, NEW c \in Calls, NEW k, CallOK(k, finish[c], callsClosing),
         call' = [call EXCEPT ![c] = k], UNCHANGED <<finish, callsClosing>>
  PROVE  CallsInv'
<1>1. finish' = [finish EXCEPT ![c] = finish[c]]
  BY Zenon DEF CallsInv
<1> QED
  BY <1>1, OneCall, Zenon

\* The counters of a call can be counted on.
LEMMA Counters ==
  ASSUME NEW k \in CallRecord
  PROVE  /\ k.released + 1 \in Nat /\ k.logged + 1 \in Nat /\ k.attempts + 1 \in Nat
         /\ k.generation + 1 \in Nat /\ k.claims + 1 \in Nat
BY DEF CallRecord

\* reserve, and the attempts to open the call.
LEMMA OpeningOK ==
  ASSUME CallsInv, NEW c \in Calls,
         Calling!Reserve(c) \/ Calling!OpenFails(c) \/ Calling!Opened(c)
  PROVE  CallsInv'
<1>0. call[c] \in CallRecord
  BY Zenon DEF CallsInv, CallOK
<1>1. CallOK(call[c], finish[c], callsClosing)
  BY Zenon DEF CallsInv
<1>2. CASE Calling!Reserve(c)
  <2> DEFINE k == [call[c] EXCEPT !.at = "reserved", !.slot = TRUE]
  <2>1. k \in CallRecord
    BY <1>0, Counters, Zenon DEF CallRecord
  <2>2. Begins(k)
    BY <1>1, <1>2 DEF Calling!Reserve, CallOK, CallRecord, Begins, Calling!Ended
  <2>3. Works(k, finish[c])
    BY <1>1, <1>2 DEF Calling!Reserve, CallOK, CallRecord, FinishRecord, Begins, Works, Calling!Ended
  <2>4. Settled(k, callsClosing)
    BY <1>1, <1>2 DEF Calling!Reserve, CallOK, CallRecord, Begins, Works, Settled, Calling!Ended
  <2> QED
    BY <1>1, <1>2, <2>1, <2>2, <2>3, <2>4, OneCallOnly, Zenon DEF CallOK, Calling!Reserve, Calling!Set
<1>3. CASE Calling!OpenFails(c)
  <2> DEFINE k == [call[c] EXCEPT !.at = "gone", !.slot = FALSE, !.released = @ + 1, !.logged = @ + 1]
  <2>1. k \in CallRecord
    BY <1>0, Counters, Zenon DEF CallRecord
  <2>2. Begins(k)
    BY <1>1, <1>3 DEF Calling!OpenFails, CallOK, CallRecord, Begins, Calling!Ended
  <2>3. Works(k, finish[c])
    BY <1>1, <1>3 DEF Calling!OpenFails, CallOK, CallRecord, FinishRecord, Begins, Works, Calling!Ended
  <2>4. Settled(k, callsClosing)
    BY <1>1, <1>3 DEF Calling!OpenFails, CallOK, CallRecord, Begins, Works, Settled, Calling!Ended
  <2> QED
    BY <1>1, <1>3, <2>1, <2>2, <2>3, <2>4, OneCallOnly, Zenon DEF CallOK, Calling!OpenFails, Calling!Set
<1>4. CASE Calling!Opened(c)
  <2> DEFINE k == [call[c] EXCEPT !.at = "opened", !.upstream = "live"]
  <2>1. k \in CallRecord
    BY <1>0, Counters, Zenon DEF CallRecord
  <2>2. Begins(k)
    BY <1>1, <1>4 DEF Calling!Opened, CallOK, CallRecord, Begins, Calling!Ended
  <2>3. Works(k, finish[c])
    BY <1>1, <1>4 DEF Calling!Opened, CallOK, CallRecord, FinishRecord, Begins, Works, Calling!Ended
  <2>4. Settled(k, callsClosing)
    BY <1>1, <1>4 DEF Calling!Opened, CallOK, CallRecord, Begins, Works, Settled, Calling!Ended
  <2> QED
    BY <1>1, <1>4, <2>1, <2>2, <2>3, <2>4, OneCallOnly, Zenon DEF CallOK, Calling!Opened, Calling!Set
<1> QED
  BY <1>2, <1>3, <1>4, Zenon

\* put, and a setup that fails after the upstream has created the call.
LEMMA PutOK ==
  ASSUME CallsInv, NEW c \in Calls,
         Calling!Put(c) \/ Calling!SetupFails(c)
  PROVE  CallsInv'
<1>0. call[c] \in CallRecord
  BY Zenon DEF CallsInv, CallOK
<1>1. CallOK(call[c], finish[c], callsClosing)
  BY Zenon DEF CallsInv
<1>2. CASE Calling!Put(c)
  <2>1. Calling!Registered(call[c]) \in CallRecord
    BY <1>0, Counters, Zenon DEF Calling!Registered, CallRecord
  <2>2. Begins(Calling!Registered(call[c]))
    BY <1>1, <1>2 DEF Calling!Put, Calling!Registered, CallOK, CallRecord, Begins, Calling!Ended
  <2>3. Works(Calling!Registered(call[c]), finish[c])
    BY <1>1, <1>2 DEF Calling!Put, Calling!Registered, CallOK, CallRecord, FinishRecord, Begins, Works, Calling!Ended
  <2>4. Settled(Calling!Registered(call[c]), callsClosing)
    BY <1>1, <1>2 DEF Calling!Put, Calling!Registered, CallOK, CallRecord, Begins, Works, Settled, Calling!Ended
  <2> QED
    BY <1>1, <1>2, <2>1, <2>2, <2>3, <2>4, OneCallOnly, Zenon DEF CallOK, Calling!Put, Calling!Set
<1>3. CASE /\ Calling!SetupFails(c) /\ ~callsClosing
           /\ Calling!Set(c, [Calling!Registered(call[c]) EXCEPT !.recorder = FALSE, !.logged = @ + 1])
  <2> DEFINE k == [Calling!Registered(call[c]) EXCEPT !.recorder = FALSE, !.logged = @ + 1]
  <2>1. k \in CallRecord
    BY <1>0, Counters, Zenon DEF Calling!Registered, CallRecord
  <2>2. Begins(k)
    BY <1>1, <1>3 DEF Calling!SetupFails, Calling!Registered, CallOK, CallRecord, Begins, Calling!Ended
  <2>3. Works(k, finish[c])
    BY <1>1, <1>3 DEF Calling!SetupFails, Calling!Registered, CallOK, CallRecord, FinishRecord, Begins, Works, Calling!Ended
  <2>4. Settled(k, callsClosing)
    BY <1>1, <1>3 DEF Calling!SetupFails, Calling!Registered, CallOK, CallRecord, Begins, Works, Settled, Calling!Ended
  <2> QED
    BY <1>1, <1>3, <2>1, <2>2, <2>3, <2>4, OneCallOnly, Zenon DEF CallOK, Calling!SetupFails, Calling!Set
<1>4. ASSUME Calling!SetupFails(c), NEW up \in {"live", "ended"},
             Calling!Set(c, [call[c] EXCEPT !.at = "gone", !.slot = FALSE, !.attempts = @ + 1, !.upstream = up,
                                      !.released = @ + 1, !.logged = @ + 1, !.unnamed = ~callsClosing])
      PROVE  CallsInv'
  <2> DEFINE k == [call[c] EXCEPT !.at = "gone", !.slot = FALSE, !.attempts = @ + 1, !.upstream = up,
                                  !.released = @ + 1, !.logged = @ + 1, !.unnamed = ~callsClosing]
  <2>1. callsClosing \in BOOLEAN
    BY Zenon DEF CallsInv
  <2>2. CallOK(k, finish[c], callsClosing)
      <3>1. k \in CallRecord
      BY <1>0, Counters, Zenon DEF CallRecord
      <3>2. Begins(k)
      BY <1>1, <1>4 DEF Calling!SetupFails, CallOK, CallRecord, Begins, Calling!Ended
      <3>3. Works(k, finish[c])
      BY <1>1, <1>4 DEF Calling!SetupFails, CallOK, CallRecord, FinishRecord, Begins, Works, Calling!Ended
      <3>4. Settled(k, callsClosing)
      BY <1>1, <1>4 DEF Calling!SetupFails, CallOK, CallRecord, Begins, Works, Settled, Calling!Ended
    <3> QED
      BY <1>1, <3>1, <3>2, <3>3, <3>4, Zenon DEF CallOK
  <2> QED
    BY <1>4, <2>1, <2>2, OneCallOnly, Zenon DEF Calling!SetupFails, Calling!Set
<1>5. CASE Calling!SetupFails(c)
  BY <1>3, <1>4, <1>5, Zenon DEF Calling!SetupFails
<1> QED
  BY <1>2, <1>5, Zenon

\* The return of the creating request, and the control connections.
LEMMA ControlOK ==
  ASSUME CallsInv, NEW c \in Calls,
         Calling!Return(c) \/ Calling!Claim(c) \/ Calling!Unclaim(c) \/ Calling!ReconnectFires(c)
  PROVE  CallsInv'
<1>0. call[c] \in CallRecord
  BY Zenon DEF CallsInv, CallOK
<1>1. CallOK(call[c], finish[c], callsClosing)
  BY Zenon DEF CallsInv
<1>2. CASE Calling!Return(c)
  <2> DEFINE k == [call[c] EXCEPT !.slot = FALSE]
  <2>1. k \in CallRecord
    BY <1>0, Counters, Zenon DEF CallRecord
  <2>2. Begins(k)
    BY <1>1, <1>2 DEF Calling!Return, CallOK, CallRecord, Begins, Calling!Ended
  <2>3. Works(k, finish[c])
    BY <1>1, <1>2 DEF Calling!Return, CallOK, CallRecord, FinishRecord, Begins, Works, Calling!Ended
  <2>4. Settled(k, callsClosing)
    BY <1>1, <1>2 DEF Calling!Return, CallOK, CallRecord, Begins, Works, Settled, Calling!Ended
  <2> QED
    BY <1>1, <1>2, <2>1, <2>2, <2>3, <2>4, OneCallOnly, Zenon DEF CallOK, Calling!Return, Calling!Set
<1>3. CASE Calling!Claim(c)
  <2> DEFINE k == [call[c] EXCEPT !.attached = TRUE, !.reconnect = FALSE, !.generation = @ + 1, !.claims = @ + 1]
  <2>1. k \in CallRecord
    BY <1>0, Counters, Zenon DEF CallRecord
  <2>2. Begins(k)
    BY <1>1, <1>3 DEF Calling!Claim, Calling!Stored, CallOK, CallRecord, Begins, Calling!Ended
  <2>3. Works(k, finish[c])
    BY <1>1, <1>3 DEF Calling!Claim, Calling!Stored, CallOK, CallRecord, FinishRecord, Begins, Works, Calling!Ended
  <2>4. Settled(k, callsClosing)
    BY <1>1, <1>3 DEF Calling!Claim, Calling!Stored, CallOK, CallRecord, Begins, Works, Settled, Calling!Ended
  <2> QED
    BY <1>1, <1>3, <2>1, <2>2, <2>3, <2>4, OneCallOnly, Zenon DEF CallOK, Calling!Claim, Calling!Set
<1>4. CASE Calling!Unclaim(c)
  <2> DEFINE k == [call[c] EXCEPT !.attached = FALSE, !.reconnect = TRUE, !.generation = @ + 1]
  <2>1. k \in CallRecord
    BY <1>0, Counters, Zenon DEF CallRecord
  <2>2. Begins(k)
    BY <1>1, <1>4 DEF Calling!Unclaim, Calling!Stored, CallOK, CallRecord, Begins, Calling!Ended
  <2>3. Works(k, finish[c])
    BY <1>1, <1>4 DEF Calling!Unclaim, Calling!Stored, CallOK, CallRecord, FinishRecord, Begins, Works, Calling!Ended
  <2>4. Settled(k, callsClosing)
    BY <1>1, <1>4 DEF Calling!Unclaim, Calling!Stored, CallOK, CallRecord, Begins, Works, Settled, Calling!Ended
  <2> QED
    BY <1>1, <1>4, <2>1, <2>2, <2>3, <2>4, OneCallOnly, Zenon DEF CallOK, Calling!Unclaim, Calling!Set
<1>5. CASE Calling!ReconnectFires(c)
  <2> DEFINE k == [call[c] EXCEPT !.reconnect = FALSE, !.fired = @ \cup {call[c].generation}]
  <2>1. k \in CallRecord
    BY <1>0, Counters, Zenon DEF CallRecord
  <2>2. Begins(k)
    BY <1>1, <1>5 DEF Calling!ReconnectFires, Calling!Stored, CallOK, CallRecord, Begins, Calling!Ended
  <2>3. Works(k, finish[c])
    BY <1>1, <1>5 DEF Calling!ReconnectFires, Calling!Stored, CallOK, CallRecord, FinishRecord, Begins, Works, Calling!Ended
  <2>4. Settled(k, callsClosing)
    BY <1>1, <1>5 DEF Calling!ReconnectFires, Calling!Stored, CallOK, CallRecord, Begins, Works, Settled, Calling!Ended
  <2> QED
    BY <1>1, <1>5, <2>1, <2>2, <2>3, <2>4, OneCallOnly, Zenon DEF CallOK, Calling!ReconnectFires, Calling!Set
<1> QED
  BY <1>2, <1>3, <1>4, <1>5, Zenon

\* beginFinishLocked leaves a record of a call.
LEMMA BegunIsCall ==
  ASSUME NEW k \in CallRecord, NEW reason \in Reasons
  PROVE  Calling!Begun(k, reason) \in CallRecord
  BY ZenonT(40) DEF CallRecord, Calling!Begun

\* beginFinishLocked, with one more goroutine on its way to attemptFinish.
LEMMA BegunOK ==
  ASSUME NEW k, NEW f, NEW stop \in BOOLEAN, CallOK(k, f, stop), k.at = "stored",
         NEW reason \in Reasons \ {"none"},
         Calling!Ended(reason) => k.upstream = "ended",
         reason = "control_timeout" => ~k.attached
  PROVE  CallOK(Calling!Begun(k, reason), [f EXCEPT !.queue = @ + 1], stop)
<1> DEFINE n == Calling!Begun(k, reason)
<1>0. k \in CallRecord /\ f \in FinishRecord /\ Begins(k) /\ Works(k, f) /\ Settled(k, stop)
  BY Zenon DEF CallOK
<1>1. n \in CallRecord
  BY <1>0, BegunIsCall, Zenon
<1>2. [f EXCEPT !.queue = @ + 1] \in FinishRecord
  BY <1>0 DEF FinishRecord
<1>3. Begins(n)
  BY <1>0 DEF CallRecord, Calling!Begun, Begins, Calling!Ended
<1>4. Works(n, [f EXCEPT !.queue = @ + 1])
  BY <1>0 DEF CallRecord, FinishRecord, Calling!Begun, Begins, Works, Calling!Ended
<1>5. Settled(n, stop)
  BY <1>0 DEF CallRecord, Calling!Begun, Settled
<1> QED
  BY <1>1, <1>2, <1>3, <1>4, <1>5, Zenon DEF CallOK

\* A relay that has reported the end is no longer needed once somebody is on
\* the way to attemptFinish.
LEMMA RelayOK ==
  ASSUME NEW k, NEW f, NEW stop \in BOOLEAN, CallOK(k, f, stop), f.queue > 0, NEW b \in BOOLEAN
  PROVE  CallOK([k EXCEPT !.relay = @ /\ b], f, stop)
<1> DEFINE n == [k EXCEPT !.relay = @ /\ b]
<1>0. k \in CallRecord /\ f \in FinishRecord /\ Begins(k) /\ Works(k, f) /\ Settled(k, stop)
  BY Zenon DEF CallOK
<1>1. n \in CallRecord
  BY <1>0 DEF CallRecord
<1>2. Begins(n)
  BY <1>0 DEF CallRecord, Begins, Calling!Ended
<1>3. Works(n, f)
  BY <1>0 DEF CallRecord, FinishRecord, Works, Calling!Ended
<1>4. Settled(n, stop)
  BY <1>0 DEF CallRecord, Settled
<1> QED
  BY <1>0, <1>1, <1>2, <1>3, <1>4, Zenon DEF CallOK

\* finishCall, for whatever reason but the reconnect timer.
LEMMA FinishOK ==
  ASSUME CallsInv, NEW c \in Calls, NEW reason \in Reasons \ {"none", "control_timeout"},
         Calling!FinishCall(c, reason), Calling!Ended(reason) => call[c].relay
  PROVE  CallsInv'
<1> DEFINE f == [finish[c] EXCEPT !.queue = @ + 1]
           b == ~Calling!Ended(reason)
<1>0. CallOK(call[c], finish[c], callsClosing) /\ callsClosing \in BOOLEAN /\ call[c].at = "stored"
  BY Zenon DEF CallsInv, Calling!FinishCall, Calling!Stored
<1>1. Calling!Ended(reason) => call[c].upstream = "ended"
  BY <1>0, Zenon DEF CallOK, Begins
<1>2. CallOK(Calling!Begun(call[c], reason), f, callsClosing)
  BY <1>0, <1>1, BegunOK
<1>3. f.queue > 0 /\ b \in BOOLEAN
  BY <1>0 DEF CallOK, FinishRecord, Calling!Ended
<1>4. CallOK([Calling!Begun(call[c], reason) EXCEPT !.relay = @ /\ b], f, callsClosing)
  BY <1>0, <1>2, <1>3, RelayOK, ZenonT(40)
<1> QED
  BY <1>4, OneCall, Zenon DEF Calling!FinishCall, Calling!Set, Calling!Enqueue

\* The six ways in which finishCall is called.
LEMMA EndingsOK ==
  ASSUME CallsInv, NEW c \in Calls,
         \/ Calling!HangUp(c) \/ Calling!KeyRevoked(c) \/ Calling!ClientGone(c) \/ Calling!RelayEnds(c)
         \/ Calling!FinishSetup(c) \/ Calling!LifetimeEnds(c)
  PROVE  CallsInv'
<1>1. \A r \in {"client_hangup", "key_revoked", "client_disconnected", "setup_failed", "expired"} :
         ~Calling!Ended(r)
  BY DEF Calling!Ended
<1>2. CASE Calling!RelayEnds(c)
  BY <1>2, FinishOK DEF Calling!RelayEnds, Reasons
<1>3. CASE ~Calling!RelayEnds(c)
  <2>1. PICK r \in {"client_hangup", "key_revoked", "client_disconnected", "setup_failed", "expired"} :
          Calling!FinishCall(c, r)
    BY <1>3, Zenon DEF Calling!HangUp, Calling!KeyRevoked, Calling!ClientGone, Calling!FinishSetup, Calling!LifetimeEnds
  <2>2. r \in Reasons \ {"none", "control_timeout"}
    BY DEF Reasons
  <2> QED
    BY <1>1, <2>1, <2>2, FinishOK, Zenon
<1> QED
  BY <1>2, <1>3

\* The relayed end of the session.
LEMMA UpstreamEndsOK ==
  ASSUME CallsInv, NEW c \in Calls, Calling!UpstreamEnds(c)
  PROVE  CallsInv'
<1> DEFINE k == [Calling!Begun(call[c], "upstream_session_ended") EXCEPT !.upstream = "ended", !.relay = TRUE]
<1>0. call[c] \in CallRecord
  BY Zenon DEF CallsInv, CallOK
<1>1. CallOK(call[c], finish[c], callsClosing) /\ call[c].at = "stored"
  BY Zenon DEF CallsInv, Calling!UpstreamEnds, Calling!Stored
<1>2. k \in CallRecord
  <2>1. Calling!Begun(call[c], "upstream_session_ended") \in CallRecord
    <3>1. "upstream_session_ended" \in Reasons
      BY Zenon DEF Reasons
    <3> QED
      BY <1>0, <3>1, BegunIsCall, Zenon
  <2> QED
    BY <2>1, Zenon DEF CallRecord
<1>3. Begins(k)
  BY <1>1 DEF CallOK, CallRecord, Begins, Calling!Begun, Calling!Ended
<1>4. Works(k, finish[c])
  BY <1>1 DEF CallOK, CallRecord, FinishRecord, Works, Calling!Begun, Calling!Ended
<1>5. Settled(k, callsClosing)
  BY <1>1 DEF CallOK, CallRecord, Settled, Calling!Begun, Calling!Ended
<1> QED
  BY <1>1, <1>2, <1>3, <1>4, <1>5, OneCallOnly, Zenon DEF CallOK, Calling!UpstreamEnds, Calling!Set

\* expireReconnect: the timer of an earlier detachment does nothing.
LEMMA ExpireReconnectOK ==
  ASSUME CallsInv, NEW c \in Calls, NEW g \in call[c].fired, Calling!ExpireReconnect(c, g)
  PROVE  CallsInv'
<1> DEFINE k == [call[c] EXCEPT !.fired = @ \ {g}]
           f == [finish[c] EXCEPT !.queue = @ + 1]
<1>0. call[c] \in CallRecord /\ callsClosing \in BOOLEAN
  BY Zenon DEF CallsInv, CallOK
<1>1. CallOK(call[c], finish[c], callsClosing)
  BY Zenon DEF CallsInv
<1>2. k \in CallRecord
  BY <1>0 DEF CallRecord
<1>3. Begins(k)
  BY <1>1 DEF CallOK, CallRecord, Begins, Calling!Ended
<1>4. Works(k, finish[c])
  BY <1>1 DEF CallOK, CallRecord, FinishRecord, Works, Calling!Ended
<1>5. Settled(k, callsClosing)
  BY <1>1 DEF CallOK, CallRecord, Settled, Calling!Ended
<1>6. CallOK(k, finish[c], callsClosing)
  BY <1>1, <1>2, <1>3, <1>4, <1>5, Zenon DEF CallOK
<1>7. CASE c \in Calling!Stored /\ Calling!StillDetached(k, g)
  <2>1. k.at = "stored" /\ ~k.attached
    BY <1>0, <1>7 DEF Calling!Stored, Calling!StillDetached, CallRecord
  <2>2. CallOK(Calling!Begun(k, "control_timeout"), f, callsClosing)
    BY <1>0, <1>6, <2>1, BegunOK, Zenon DEF Reasons, Calling!Ended
  <2> QED
    BY <1>7, <2>2, OneCall, Zenon DEF Calling!ExpireReconnect, Calling!Set, Calling!Enqueue
<1>8. CASE ~(c \in Calling!Stored /\ Calling!StillDetached(k, g))
  BY <1>6, <1>8, OneCallOnly, Zenon DEF Calling!ExpireReconnect, Calling!Set
<1> QED
  BY <1>7, <1>8

\* attemptFinish takes finishMu: a call that is gone needs nothing, else the
\* attempt owns it.
LEMMA AttemptStartsOK ==
  ASSUME CallsInv, NEW c \in Calls, Calling!AttemptStarts(c)
  PROVE  CallsInv'
<1> DEFINE hangup == ~Calling!Ended(call[c].reason)
           k == [call[c] EXCEPT !.timer = "off", !.attempts = IF hangup THEN @ + 1 ELSE @]
           f == [finish[c] EXCEPT !.busy = TRUE, !.hangup = hangup]
           g == [finish[c] EXCEPT !.queue = @ - 1]
<1>0. call[c] \in CallRecord /\ finish[c] \in FinishRecord
  BY Zenon DEF CallsInv, CallOK
<1>1. CallOK(call[c], finish[c], callsClosing)
  BY Zenon DEF CallsInv
<1>2. finish[c].queue > 0 /\ ~finish[c].busy
  BY Zenon DEF Calling!AttemptStarts
<1>3. CASE call[c].at = "stored"
  <2>1. k \in CallRecord
    BY <1>0, Counters, Zenon DEF CallRecord, Calling!Ended
  <2>2. f \in FinishRecord
    BY <1>0, Zenon DEF FinishRecord, Calling!Ended
  <2>3. Begins(k)
    BY <1>1 DEF CallOK, CallRecord, Begins, Calling!Ended
  <2>4. Works(k, f)
    BY <1>1, <1>2, <1>3, Zenon DEF CallOK, CallRecord, FinishRecord, Works, Calling!Ended
  <2>5. Settled(k, callsClosing)
    BY <1>1, <1>3 DEF CallOK, CallRecord, Settled, Calling!Ended
  <2>6. CallOK(k, f, callsClosing)
    BY <2>1, <2>2, <2>3, <2>4, <2>5, Zenon DEF CallOK
  <2>7. call' = [call EXCEPT ![c] = k] /\ finish' = [finish EXCEPT ![c] = f] /\ UNCHANGED callsClosing
    BY <1>3, Zenon DEF Calling!AttemptStarts, Calling!Stored, Calling!Set
  <2> QED
    BY <2>6, <2>7, OneCall, Zenon
<1>4. CASE call[c].at # "stored"
  <2>1. g \in FinishRecord
    BY <1>0, <1>2 DEF FinishRecord
  <2>2. Works(call[c], g)
    BY <1>1, <1>2, <1>4 DEF CallOK, FinishRecord, Works
  <2>3. CallOK(call[c], g, callsClosing)
    BY <1>1, <2>1, <2>2, Zenon DEF CallOK
  <2>4. call' = [call EXCEPT ![c] = call[c]] /\ finish' = [finish EXCEPT ![c] = g] /\ UNCHANGED callsClosing
    BY <1>4, Zenon DEF CallsInv, Calling!AttemptStarts, Calling!Stored
  <2> QED
    BY <2>3, <2>4, OneCall, Zenon
<1> QED
  BY <1>3, <1>4

\* The end of the attempt: the call is removed with its permits and its log
\* event, or the next attempt is set.
LEMMA AttemptEndsOK ==
  ASSUME Calling!ConstantsAssumption, CallsInv, NEW c \in Calls, NEW ok \in BOOLEAN, Calling!AttemptEnds(c, ok)
  PROVE  CallsInv'
<1> DEFINE up == IF finish[c].hangup /\ ok THEN "ended" ELSE call[c].upstream
           k == [call[c] EXCEPT !.upstream = IF finish[c].hangup /\ ok THEN "ended" ELSE @]
           failed == finish[c].hangup /\ ~ok /\ ~Calling!Ended(k.reason)
           retry == Calling!Retries(k, failed)
           n == [k EXCEPT !.timer = IF retry THEN "retry" ELSE @,
                          !.at = IF retry THEN @ ELSE "gone",
                          !.released = @ + Calling!Releases(retry), !.logged = @ + Calling!Logs(k)]
           f == [queue |-> finish[c].queue - 1, busy |-> FALSE, hangup |-> FALSE]
<1>0. call[c] \in CallRecord /\ finish[c] \in FinishRecord
  BY Zenon DEF CallsInv, CallOK
<1>1. CallOK(call[c], finish[c], callsClosing)
  BY Zenon DEF CallsInv
<1>2. finish[c].busy /\ call[c].at = "stored" /\ finish[c].queue > 0
  BY <1>1, Zenon DEF Calling!AttemptEnds, CallOK, Works
<1>3. k \in CallRecord
  BY <1>0 DEF CallRecord
<1>4. k.at = "stored" /\ k.reason = call[c].reason /\ k.logged = call[c].logged /\ k.released = 0
      /\ k.recorder = call[c].recorder /\ k.attempts = call[c].attempts /\ k.upstream = up
      /\ k.logged \in {0, 1} /\ (~k.recorder => k.logged = 1)
  BY <1>1, <1>2 DEF CallOK, CallRecord, Settled
<1>5. Calling!Releases(retry) = (IF retry THEN 0 ELSE 1) /\ k.logged + Calling!Logs(k) = 1
  BY <1>4 DEF Calling!Releases, Calling!Logs
<1> HIDE DEF retry, k
<1>6. /\ n.at = IF retry THEN "stored" ELSE "gone"
      /\ n.timer = IF retry THEN "retry" ELSE k.timer
      /\ n.released = (IF retry THEN 0 ELSE 1) /\ n.logged = 1
      /\ n.upstream = up /\ n.reason = call[c].reason /\ n.recorder = call[c].recorder
      /\ n.attempts = call[c].attempts
  BY <1>3, <1>4, <1>5 DEF CallRecord
<1>7. n.terminating = k.terminating /\ n.relay = k.relay /\ n.attached = k.attached
  BY <1>3 DEF CallRecord
<1>8. n \in CallRecord
  <2>1. k.released + Calling!Releases(retry) \in Nat /\ k.logged + Calling!Logs(k) \in Nat
    BY <1>4, <1>5
  <2> QED
    BY <1>3, <2>1, Zenon DEF CallRecord
<1>9. k.terminating = call[c].terminating /\ k.relay = call[c].relay /\ k.attached = call[c].attached
  BY <1>0 DEF CallRecord, k
<1>10. f \in FinishRecord
  BY <1>0, <1>2 DEF FinishRecord
<1>11. Begins(n)
  BY <1>1, <1>2, <1>6, <1>7, <1>9 DEF CallOK, Begins, Calling!Ended
<1>12. Works(n, f)
  BY <1>6, <1>10 DEF Works
<1>13. Settled(n, callsClosing)
  <2>1. ASSUME ~retry, up = "live"
        PROVE  callsClosing \/ call[c].attempts >= MaxAttempts
    <3>1. finish[c].hangup
      BY <1>1, <1>2, <2>1, ZenonT(40) DEF CallOK, Begins, Works
    <3>2. ~ok /\ ~Calling!Ended(call[c].reason)
      BY <1>1, <2>1, <3>1 DEF CallOK, Begins
    <3> QED
      BY <1>0, <1>4, <2>1, <3>1, <3>2 DEF retry, Calling!Retries, CallRecord, Calling!ConstantsAssumption
  <2> QED
    BY <1>6, <2>1 DEF Settled
<1>14. call' = [call EXCEPT ![c] = n] /\ finish' = [finish EXCEPT ![c] = f] /\ UNCHANGED callsClosing
  BY Zenon DEF Calling!AttemptEnds, Calling!Set, retry, k
<1> QED
  BY <1>8, <1>10, <1>11, <1>12, <1>13, <1>14, OneCall, Zenon DEF CallOK

\* The timer of the next attempt fires.
LEMMA RetryFiresOK ==
  ASSUME CallsInv, NEW c \in Calls, Calling!RetryFires(c)
  PROVE  CallsInv'
<1> DEFINE k == [call[c] EXCEPT !.timer = "off"]
           f == [finish[c] EXCEPT !.queue = @ + 1]
<1>0. call[c] \in CallRecord /\ finish[c] \in FinishRecord
  BY Zenon DEF CallsInv, CallOK
<1>1. CallOK(call[c], finish[c], callsClosing)
  BY Zenon DEF CallsInv
<1>2. k \in CallRecord /\ f \in FinishRecord
  BY <1>0 DEF CallRecord, FinishRecord
<1>3. Begins(k)
  BY <1>1 DEF CallOK, CallRecord, Begins, Calling!Ended
<1>4. Works(k, f)
  BY <1>1 DEF CallOK, CallRecord, FinishRecord, Works, Calling!Ended
<1>5. Settled(k, callsClosing)
  BY <1>1 DEF CallOK, CallRecord, Settled, Calling!Ended
<1> QED
  BY <1>2, <1>3, <1>4, <1>5, OneCall, Zenon DEF CallOK, Calling!RetryFires, Calling!Set, Calling!Enqueue

\* closeAll begins the end of every registered call.
LEMMA CloseAllOK ==
  ASSUME CallsInv, Calling!CloseAll
  PROVE  CallsInv'
<1>1. ASSUME NEW c \in Calls
      PROVE  CallOK(call'[c], finish'[c], callsClosing')
  <2>0. CallOK(call[c], finish[c], callsClosing)
    BY Zenon DEF CallsInv
  <2>1. Settled(call[c], TRUE)
    BY <2>0 DEF CallOK, Settled
  <2>2. CallOK(call[c], finish[c], TRUE)
    BY <2>0, <2>1, Zenon DEF CallOK
  <2>3. CASE c \in Calling!Stored
    <3>1. CallOK(Calling!Begun(call[c], "server_shutdown"), [finish[c] EXCEPT !.queue = @ + 1], TRUE)
      BY <2>2, <2>3, BegunOK, Zenon DEF Calling!Stored, Reasons, Calling!Ended
    <3> QED
      BY <2>3, <3>1, Zenon DEF Calling!CloseAll
  <2>4. CASE c \notin Calling!Stored
    BY <2>2, <2>4, Zenon DEF Calling!CloseAll
  <2> QED
    BY <2>3, <2>4
<1> QED
  BY <1>1, Zenon DEF CallsInv, Calling!CloseAll

\* Every step keeps the invariant.
LEMMA CallsNext ==
  ASSUME Calling!ConstantsAssumption
  PROVE  CallsInv /\ [Calling!Next]_(Calling!vars) => CallsInv'
<1> SUFFICES ASSUME CallsInv, [Calling!Next]_(Calling!vars) PROVE CallsInv'
  OBVIOUS
<1>1. CASE UNCHANGED Calling!vars
  BY <1>1, Zenon DEF Calling!vars, CallsInv
<1>2. CASE Calling!CloseAll
  BY <1>2, CloseAllOK
<1>3. CASE Calling!Next /\ ~Calling!CloseAll
  <2>1. PICK c \in Calls :
          \/ Calling!Reserve(c) \/ Calling!OpenFails(c) \/ Calling!Opened(c) \/ Calling!Put(c) \/ Calling!SetupFails(c)
          \/ Calling!Return(c) \/ Calling!Claim(c) \/ Calling!Unclaim(c) \/ Calling!HangUp(c) \/ Calling!KeyRevoked(c)
          \/ Calling!ClientGone(c) \/ Calling!UpstreamEnds(c) \/ Calling!RelayEnds(c) \/ Calling!FinishSetup(c)
          \/ Calling!LifetimeEnds(c) \/ Calling!ReconnectFires(c)
          \/ \E g \in call[c].fired : Calling!ExpireReconnect(c, g)
          \/ Calling!AttemptStarts(c) \/ (\E ok \in BOOLEAN : Calling!AttemptEnds(c, ok)) \/ Calling!RetryFires(c)
    BY <1>3, Zenon DEF Calling!Next
  <2> QED
    BY <2>1, OpeningOK, PutOK, ControlOK, EndingsOK, UpstreamEndsOK, ExpireReconnectOK,
       AttemptStartsOK, AttemptEndsOK, RetryFiresOK, Zenon
<1> QED
  BY <1>1, <1>2, <1>3

-----------------------------------------------------------------------------
Open(k) == k.at \in {"reserved", "opened", "stored"}
OpenCalls == {c \in Calls : Open(call[c])}

\* Every call that is open is registered, or its request counts in pending.
LEMMA OpenIsCounted ==
  ASSUME Calling!ConstantsAssumption, CallsInv
  PROVE  /\ IsFiniteSet(OpenCalls) /\ Cardinality(OpenCalls) \in Nat
         /\ Cardinality(OpenCalls) <= Calling!Cardinality(Calling!Stored) + Calling!Cardinality(Calling!Pending)
<1>1. IsFiniteSet(Calls)
  BY LiveCardinality, Zenon DEF Calling!ConstantsAssumption
<1>2. OpenCalls \subseteq Calls /\ Calling!Stored \subseteq Calls /\ Calling!Pending \subseteq Calls
  BY Zenon DEF OpenCalls, Calling!Stored, Calling!Pending
<1>3. IsFiniteSet(OpenCalls) /\ IsFiniteSet(Calling!Stored) /\ IsFiniteSet(Calling!Pending)
  BY <1>1, <1>2, FS_Subset
<1>4. OpenCalls \subseteq Calling!Stored \cup Calling!Pending
  BY DEF OpenCalls, Open, Calling!Stored, Calling!Pending, CallsInv, CallOK, Begins
<1>5. /\ IsFiniteSet(Calling!Stored \cup Calling!Pending)
      /\ Cardinality(Calling!Stored \cup Calling!Pending) =
           Cardinality(Calling!Stored) + Cardinality(Calling!Pending) - Cardinality(Calling!Stored \cap Calling!Pending)
  BY <1>3, FS_Union
<1>6. Cardinality(Calling!Stored \cap Calling!Pending) \in Nat
  BY <1>3, FS_Intersection, FS_CardinalityType
<1>7. Cardinality(OpenCalls) <= Cardinality(Calling!Stored \cup Calling!Pending)
  BY <1>4, <1>5, FS_Subset
<1>8. /\ Cardinality(OpenCalls) \in Nat /\ Cardinality(Calling!Stored) \in Nat /\ Cardinality(Calling!Pending) \in Nat
      /\ Cardinality(Calling!Stored \cup Calling!Pending) \in Nat
  BY <1>3, <1>5, FS_CardinalityType
<1>9. Cardinality(OpenCalls) <= Cardinality(Calling!Stored) + Cardinality(Calling!Pending)
  BY ONLY <1>5, <1>6, <1>7, <1>8
<1>10. Calling!Cardinality(Calling!Stored) = Cardinality(Calling!Stored)
       /\ Calling!Cardinality(Calling!Pending) = Cardinality(Calling!Pending)
  BY LiveCardinality, Zenon
<1> QED
  BY ONLY <1>3, <1>8, <1>9, <1>10

\* No step but reserve opens a call.
LEMMA NothingElseOpens ==
  ASSUME CallsInv, [Calling!Next]_(Calling!vars), \A c \in Calls : ~Calling!Reserve(c)
  PROVE  OpenCalls' \subseteq OpenCalls
<1>0. \A c \in Calls : call[c] \in CallRecord /\ (finish[c].busy => Open(call[c]))
  BY Zenon DEF CallsInv, CallOK, Works, Open
<1>1. ASSUME NEW c \in Calls, NEW k, Calling!Set(c, k), Open(k) => Open(call[c])
      PROVE  OpenCalls' \subseteq OpenCalls
  BY <1>1, Zenon DEF CallsInv, Calling!Set, OpenCalls
<1>2. CASE UNCHANGED call
  BY <1>2, Zenon DEF OpenCalls
<1>3. CASE Calling!CloseAll
  <2>1. ASSUME NEW c \in Calls, Open(call'[c])
        PROVE  Open(call[c])
    BY <2>1, <1>3, Zenon DEF Calling!CloseAll, Calling!Stored, Open
  <2> QED
    BY <2>1, Zenon DEF OpenCalls
<1>4. ASSUME NEW c \in Calls, Calling!Return(c)
      PROVE  OpenCalls' \subseteq OpenCalls
  BY <1>0, <1>1, <1>4 DEF Calling!Return, Open, CallRecord
<1>5. ASSUME NEW c \in Calls, NEW g \in call[c].fired, Calling!ExpireReconnect(c, g)
      PROVE  OpenCalls' \subseteq OpenCalls
  <2> DEFINE k == [call[c] EXCEPT !.fired = @ \ {g}]
  <2>1. Open(k) => Open(call[c])
    BY <1>0 DEF Open, CallRecord
  <2>2. CASE c \in Calling!Stored
    BY <1>1, <1>5, <2>2, Zenon DEF Calling!ExpireReconnect, Calling!Stored, Open
  <2>3. CASE c \notin Calling!Stored
    BY <1>1, <1>5, <2>1, <2>3, Zenon DEF Calling!ExpireReconnect
  <2> QED
    BY <2>2, <2>3
<1>6. ASSUME NEW c \in Calls, Open(call[c]), \E k : Calling!Set(c, k)
      PROVE  OpenCalls' \subseteq OpenCalls
  BY <1>1, <1>6, Zenon
<1>7. ASSUME NEW c \in Calls,
             \/ Calling!OpenFails(c) \/ Calling!Opened(c) \/ Calling!Put(c) \/ Calling!SetupFails(c)
             \/ Calling!Claim(c) \/ Calling!Unclaim(c) \/ Calling!UpstreamEnds(c) \/ Calling!ReconnectFires(c)
             \/ Calling!RetryFires(c)
      PROVE  OpenCalls' \subseteq OpenCalls
  BY <1>6, <1>7, Zenon DEF Calling!OpenFails, Calling!Opened, Calling!Put, Calling!SetupFails, Calling!Claim, Calling!Unclaim,
     Calling!UpstreamEnds, Calling!ReconnectFires, Calling!RetryFires, Calling!Stored, Open
<1>8. ASSUME NEW c \in Calls,
             \/ Calling!HangUp(c) \/ Calling!KeyRevoked(c) \/ Calling!ClientGone(c) \/ Calling!RelayEnds(c)
             \/ Calling!FinishSetup(c) \/ Calling!LifetimeEnds(c)
      PROVE  OpenCalls' \subseteq OpenCalls
  BY <1>6, <1>8, Zenon DEF Calling!HangUp, Calling!KeyRevoked, Calling!ClientGone, Calling!RelayEnds, Calling!FinishSetup,
     Calling!LifetimeEnds, Calling!FinishCall, Calling!Stored, Open
<1>9. ASSUME NEW c \in Calls, Calling!AttemptStarts(c) \/ \E ok \in BOOLEAN : Calling!AttemptEnds(c, ok)
      PROVE  OpenCalls' \subseteq OpenCalls
  BY <1>0, <1>2, <1>6, <1>9, Zenon DEF Calling!AttemptStarts, Calling!AttemptEnds, Calling!Stored, Open
<1> QED
  BY <1>2, <1>3, <1>4, <1>5, <1>7, <1>8, <1>9, Zenon DEF Calling!Next, Calling!vars

\* The check of reserve keeps the maximum, for nothing else opens a call.
LEMMA MaximumNext ==
  ASSUME Calling!ConstantsAssumption, CallsInv, Calling!WithinMaximum, [Calling!Next]_(Calling!vars)
  PROVE  Calling!WithinMaximum'
<1>1. Calling!WithinMaximum <=> Cardinality(OpenCalls) <= Maximum
  BY LiveCardinality, Zenon DEF Calling!WithinMaximum, OpenCalls, Open
<1>2. Calling!WithinMaximum' <=> Cardinality(OpenCalls') <= Maximum
  BY LiveCardinality, Zenon DEF Calling!WithinMaximum, OpenCalls, Open
<1>3. IsFiniteSet(OpenCalls) /\ Cardinality(OpenCalls) \in Nat /\ Maximum \in Nat
  BY OpenIsCounted DEF Calling!ConstantsAssumption
<1>4. CASE \A c \in Calls : ~Calling!Reserve(c)
  <2>1. IsFiniteSet(OpenCalls') /\ Cardinality(OpenCalls') <= Cardinality(OpenCalls)
    BY <1>3, <1>4, NothingElseOpens, FS_Subset
  <2>2. Cardinality(OpenCalls') \in Nat
    BY <2>1, FS_CardinalityType
  <2> QED
    BY <1>1, <1>2, <1>3, <2>1, <2>2
<1>5. ASSUME NEW c \in Calls, Calling!Reserve(c)
      PROVE  Calling!WithinMaximum'
  <2>1. Cardinality(OpenCalls) < Maximum
    <3>1. Calling!Cardinality(Calling!Stored) + Calling!Cardinality(Calling!Pending) < Maximum
      BY <1>5, ZenonT(40) DEF Calling!Reserve, Calling!HasRoom
    <3>2. Calling!Cardinality(Calling!Stored) \in Nat /\ Calling!Cardinality(Calling!Pending) \in Nat
      BY OpenIsCounted, LiveCardinality, FS_CardinalityType, FS_Subset
         DEF Calling!Stored, Calling!Pending, Calling!ConstantsAssumption
    <3> QED
      BY <1>3, <3>1, <3>2, OpenIsCounted
  <2>2. OpenCalls' \subseteq OpenCalls \cup {c}
    BY <1>5, Zenon DEF Calling!Reserve, Calling!Set, OpenCalls, CallsInv
  <2>3. IsFiniteSet(OpenCalls \cup {c}) /\ Cardinality(OpenCalls \cup {c}) <= Cardinality(OpenCalls) + 1
    BY <1>3, FS_AddElement
  <2>4. Cardinality(OpenCalls') <= Cardinality(OpenCalls \cup {c}) /\ IsFiniteSet(OpenCalls')
    BY <2>2, <2>3, FS_Subset
  <2>5. Cardinality(OpenCalls') \in Nat /\ Cardinality(OpenCalls \cup {c}) \in Nat
    BY <2>3, <2>4, FS_CardinalityType
  <2> QED
    BY <1>2, <1>3, <2>1, <2>3, <2>4, <2>5
<1> QED
  BY <1>4, <1>5

\* The invariant of the calls, for every finite set of calls, every maximum
\* and every number of hang-up attempts.
THEOREM CallsInvariance ==
  ASSUME Calling!ConstantsAssumption
  PROVE  Calling!Spec => [](CallsInv /\ Calling!WithinMaximum)
<1>1. Calling!Init => CallsInv /\ Calling!WithinMaximum
  <2> SUFFICES ASSUME Calling!Init PROVE CallsInv /\ Calling!WithinMaximum
    OBVIOUS
  <2>1. {c \in Calls : call[c].at \in {"reserved", "opened", "stored"}} = {}
    BY DEF Calling!Init, Calling!NewCall
  <2> QED
    BY <2>1, CallsInit, LiveCardinality, FS_EmptySet DEF Calling!WithinMaximum, Calling!ConstantsAssumption
<1>2. CallsInv /\ Calling!WithinMaximum /\ [Calling!Next]_(Calling!vars) => (CallsInv /\ Calling!WithinMaximum)'
  BY CallsNext, MaximumNext
<1> QED
  BY <1>1, <1>2, PTL DEF Calling!Spec

\* Calls and calls that are being created never exceed the configured maximum.
THEOREM CallsStayWithinMaximum ==
  ASSUME Calling!ConstantsAssumption
  PROVE  Calling!Spec => []Calling!WithinMaximum
BY CallsInvariance, PTL

\* The permits of a call are given back exactly once and its log event is
\* written exactly once, whoever ends it.
THEOREM CallsAreSettledOnce ==
  ASSUME Calling!ConstantsAssumption
  PROVE  Calling!Spec => [](Calling!PermitsReturnOnce /\ Calling!LoggedOnce)
<1>1. CallsInv => Calling!PermitsReturnOnce /\ Calling!LoggedOnce
  BY ZenonT(40) DEF CallsInv, CallOK, Settled, Calling!PermitsReturnOnce, Calling!LoggedOnce
<1> QED
  BY <1>1, CallsInvariance, PTL

\* A call that was attached again is not ended by the reconnect timer of an
\* earlier detachment, and no call is given up while the upstream runs it
\* unless all hang-ups failed, the process stops or it could not be registered.
THEOREM CallsEndForAReason ==
  ASSUME Calling!ConstantsAssumption
  PROVE  Calling!Spec => [](Calling!NoStaleTimeout /\ Calling!NotAbandoned)
<1>1. CallsInv => Calling!NoStaleTimeout /\ Calling!NotAbandoned
  BY DEF CallsInv, CallOK, Begins, Settled, Calling!NoStaleTimeout, Calling!NotAbandoned
<1> QED
  BY <1>1, CallsInvariance, PTL

\* A call whose end has begun always has an attempt, a relay or a timer that
\* will go on with it.
THEOREM EndingsAreDriven ==
  ASSUME Calling!ConstantsAssumption
  PROVE  Calling!Spec => []Calling!EndingIsDriven
<1>1. CallsInv => Calling!EndingIsDriven
  BY DEF CallsInv, CallOK, Works, Calling!EndingIsDriven, Calling!Stored
<1> QED
  BY <1>1, CallsInvariance, PTL
=============================================================================
