------------------------------- MODULE MCDDR -------------------------------
(* Two outputs over three input transfers: x1 joins i1 and i2 and goes to    *)
(* two cores, x2 needs i2 alone, x3 was in DRAM from the start.             *)
EXTENDS DDR

CONSTANTS c1, c2, i1, i2, x1, x2, x3

MCTids == {i1, i2, x1, x2, x3}
MCDramIn == [t \in MCTids |-> CASE t = i1 -> {x1} [] t = i2 -> {x1, x2} [] OTHER -> {}]
MCDramOut == {[tid |-> x1, ifmaps |-> 2, size |-> 6, dst |-> {c1, c2}],
              [tid |-> x2, ifmaps |-> 1, size |-> 4, dst |-> {c1}],
              [tid |-> x3, ifmaps |-> 0, size |-> 2, dst |-> {c2}]}
P(n, e) == [size |-> n, end |-> e]
MCStreams == [t \in MCTids |-> CASE t = i1 -> <<P(2, FALSE), P(1, TRUE)>>
                                 [] t = i2 -> <<P(2, TRUE)>> [] OTHER -> << >>]
=============================================================================
