------------------------------- MODULE MCCore -------------------------------
(* A core with two consumers and one supplier core besides the DDRs.        *)
EXTENDS Core

CONSTANTS c0, c1, c2, A, B, t1, t2, t3, t4, t5, t6

MCCores == {c0, c1, c2}
MCTids  == {t1, t2, t3, t4, t5, t6}

Out(t, n, d) == [tid |-> t, size |-> n, dst |-> d]
In(t, s, n, l) == [tid |-> t, from |-> s, size |-> n, layer |-> l]
Alone(jobs) == [c \in MCCores |-> IF c = c0 THEN jobs ELSE << >>]

(* Inputs from a core and from DRAM, weights prefetched for the next layer; *)
(* an output for the core itself, one multicast to two cores and DRAM.      *)
First  == [time |-> 5, ofsize |-> 7, layer |-> A, need |-> {t1, t2},
           fetch |-> {In(t1, c1, 3, A), In(t2, DRAM, 4, A), In(t6, DRAM, 2, B)},
           outs |-> <<Out(t3, 3, <<c0>>), Out(t4, 7, <<c1, DRAM, c2>>)>>]
(* The same core twice as a destination: it must ask for both its layers.   *)
Second == [time |-> 7, ofsize |-> 4, layer |-> B, need |-> {t3, t6},
           fetch |-> {In(t3, c0, 3, B)},
           outs |-> <<Out(t5, 4, <<c1, c1>>)>>]
Jobs2  == Alone(<<First, Second>>)

(* As many cycles as tiles: all tiles but the last take no time.            *)
ShortTile == Alone(<<[First EXCEPT !.time = 3]>>)
=============================================================================
