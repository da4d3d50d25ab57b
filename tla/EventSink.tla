----------------------------- MODULE EventSink -----------------------------
(***************************************************************************)
(* What the request log promises the gateway that emits into it.  Events   *)
(* are only counted.  While the sink is open it may accept an event;       *)
(* every event it accepted is settled once, as kept or as lost, and none   *)
(* is left unsettled for ever.  A closed sink accepts nothing and never    *)
(* opens again.                                                            *)
(***************************************************************************)
EXTENDS Naturals

CONSTANT MaxEvents          \* bound on the events offered

VARIABLES phase,            \* "new", "open" or "closed"
          accepted, kept, lost

vars == <<phase, accepted, kept, lost>>

Init == phase = "new" /\ accepted = 0 /\ kept = 0 /\ lost = 0

Open == phase = "new" /\ phase' = "open" /\ UNCHANGED <<accepted, kept, lost>>

Accept ==
  /\ phase = "open"
  /\ accepted' = accepted + 1
  /\ UNCHANGED <<phase, kept, lost>>

Unsettled == accepted - kept - lost

Settle ==
  \E k, l \in 0 .. MaxEvents :
    /\ 0 < k + l /\ kept + lost + k + l <= accepted
    /\ kept' = kept + k /\ lost' = lost + l
    /\ UNCHANGED <<phase, accepted>>

Close == phase # "closed" /\ phase' = "closed" /\ UNCHANGED <<accepted, kept, lost>>

Next == Open \/ Accept \/ Settle \/ Close

Spec == Init /\ [][Next]_vars /\ WF_vars(Settle)
=============================================================================
