------------------------------- MODULE MCHub -------------------------------
(* Three hubs: a packet for both others, one for one hub, and one of a single   *)
(* flit for several destinations that all belong to one hub.                   *)
EXTENDS Hub, TLC
MCGroupOf   == [v \in Vcs |-> "g"]
MCGroupSize == [g \in Groups |-> 0]
MCFrom == [p \in Packets |-> IF p \in {"some", "more"} THEN 2 ELSE 0]
MCVcsOf == [p \in Packets |-> IF p \in {"all", "some"} THEN {0} ELSE {1}]
MCTo   == [p \in Packets |-> IF p = "all" THEN {1, 2} ELSE {1}]
MCSize == [p \in Packets |-> IF p = "short" THEN 1 ELSE 2]
=============================================================================
