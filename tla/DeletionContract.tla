-------------------------- MODULE DeletionContract --------------------------
(***************************************************************************)
(* What the deletion of a community promises, without executors, leases or *)
(* stages: data appears only while the community serves or closes, goes    *)
(* only once the point of no return is behind, the community reopens       *)
(* before that point with everything it had, and it is reported gone only  *)
(* when nothing is left.  The promise excepts strays: writes a store       *)
(* applied after their writer's lease had ended.                           *)
(***************************************************************************)
CONSTANTS Item,      \* what the stores may hold of the community
          NoStray    \* the items whose store checks the writer's lease itself

VARIABLES phase, data, strays

vars == <<phase, data, strays>>

Init == phase = "serving" /\ data \subseteq Item /\ strays = {}

Write(x) ==
    /\ phase \in {"serving", "closing"}
    /\ data' = data \cup {x}
    /\ UNCHANGED <<phase, strays>>

Stray(x) ==
    /\ phase # "serving" /\ x \notin NoStray
    /\ data' = data \cup {x} /\ strays' = strays \cup {x}
    /\ UNCHANGED phase

Close == phase = "serving" /\ phase' = "closing" /\ UNCHANGED <<data, strays>>
Shut == phase = "closing" /\ phase' = "closed" /\ UNCHANGED <<data, strays>>

Reopen ==
    /\ phase \in {"closing", "closed"}
    /\ phase' = "serving"
    /\ UNCHANGED <<data, strays>>

PassNoReturn == phase = "closed" /\ phase' = "erasing" /\ UNCHANGED <<data, strays>>

Erase(S) ==
    /\ phase \in {"erasing", "gone"}
    /\ data' = data \ S /\ strays' = strays \ S
    /\ UNCHANGED phase

ReportGone ==
    /\ phase = "erasing" /\ data \subseteq strays
    /\ phase' = "gone"
    /\ UNCHANGED <<data, strays>>

Next ==
    \/ \E x \in Item : Write(x) \/ Stray(x)
    \/ Close \/ Shut \/ Reopen \/ PassNoReturn \/ ReportGone
    \/ \E S \in SUBSET Item : Erase(S)

Spec == Init /\ [][Next]_vars
=============================================================================
