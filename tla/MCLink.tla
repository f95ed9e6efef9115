------------------------------- MODULE MCLink -------------------------------
(* Packets of one to three flits over two VCs; p3 has several destinations. *)
EXTENDS Link

CONSTANTS p1, p2, p3, p4, v1, v2, v3, g1

MCSize  == [p \in Packets |-> CASE p = p1 -> 3 [] p = p2 -> 1 [] OTHER -> 2]
MCMulti == {p3} \cap Packets
OneGroup == [v \in Vcs |-> g1]
OwnGroup == [v \in Vcs |-> v]
One      == [g \in Groups |-> 1]
NotGiven == -1
=============================================================================
