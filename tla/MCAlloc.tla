------------------------------ MODULE MCAlloc ------------------------------
(* Every allocator with three inputs and two outputs, the trees with four     *)
(* inputs.                                                                 *)
EXTENDS Allocators, TLC

MCInputsOf  == [k \in Kinds |-> IF k \in {"tree_rr", "tree_matrix"} THEN 4 ELSE IF k = "tables" THEN 2 ELSE 3]
MCOutputsOf == [k \in Kinds |-> IF k \in {"tree_rr", "tree_matrix"} THEN 1 ELSE 2]
MCTypeOf == [k \in Kinds |-> CASE k \in {"tree_rr", "tree_matrix"} -> "tree"
                             [] k \in {"in_rr", "in_matrix"} -> "separable_input_first"
                             [] k \in {"out_rr", "out_matrix"} -> "separable_output_first"
                             [] k = "select_twice" -> "select"
                             [] OTHER -> k]
MCArbType == [k \in Kinds |-> IF k \in {"tree_matrix", "in_matrix", "out_matrix"} THEN "matrix"
                              ELSE "round_robin"]
(* All requests have the same priority, or one that depends on the ports.    *)
Mixed(S) == [c \in S |-> <<c[2] % 2, c[1] % 2>>]
MCRequestsOf == [k \in Kinds |->
  LET cells == SUBSET (Ports(MCInputsOf[k]) \X Ports(MCOutputsOf[k]))
  IN  {Flat(S) : S \in cells}
        \cup {Mixed(S) : S \in {S \in cells : Cardinality(S) >= MCInputsOf[k] * MCOutputsOf[k] - 1}}]

(* Only the first input has VCs of several priorities.                       *)
MCPrisOf == [k \in Kinds |-> [i \in Ports(MCInputsOf[k]) |-> IF i = 0 THEN {0, 1} ELSE {0}]]
MCIters == [k \in Kinds |-> IF k = "select" THEN 1 ELSE 2]
=============================================================================
