----------------------------- MODULE MCManyCore -----------------------------
(***************************************************************************)
(* Two cores in a pipeline, directly and through DRAM:                      *)
(*   c1: t1 -> t2, t3    then t6 -> t7        t1 comes from DRAM, t3 goes to  *)
(*   c2: t2 -> t6        then t4, t7 -> t5    it and comes back as t4         *)
(* c2 asks for t7 with its first job, long before c1 can think of it.       *)
(***************************************************************************)
EXTENDS ManyCore

CONSTANTS c1, c2, A, B, t1, t2, t3, t4, t5, t6, t7

MCTids  == {t1, t2, t3, t4, t5, t6, t7}
MCCores == {c1, c2}

Out(t, n, d) == [tid |-> t, size |-> n, dst |-> d]
In(t, s, n, l) == [tid |-> t, from |-> s, size |-> n, layer |-> l]

One(dram) == [time |-> 3, ofsize |-> 4, layer |-> A, need |-> {t1},
              fetch |-> {In(t1, DRAM, dram, A)},
              outs |-> <<Out(t2, 2, <<c2>>), Out(t3, 3, <<DRAM>>)>>]
Two   == [time |-> 3, ofsize |-> 2, layer |-> A, need |-> {t2},
          fetch |-> {In(t2, c1, 2, A), In(t7, c1, 2, B)},
          outs |-> <<Out(t6, 2, <<c1>>)>>]
Three == [time |-> 3, ofsize |-> 2, layer |-> B, need |-> {t6},
          fetch |-> {In(t6, c2, 2, B)},
          outs |-> <<Out(t7, 2, <<c2>>)>>]
Four  == [time |-> 3, ofsize |-> 2, layer |-> B, need |-> {t4, t7},
          fetch |-> {In(t4, DRAM, 2, B)},
          outs |-> <<Out(t5, 2, <<DRAM>>)>>]

Jobs(dram) == [c \in MCCores |-> IF c = c1 THEN <<One(dram), Three>> ELSE <<Two, Four>>]
EvenJobs == Jobs(2)
OddJobs  == Jobs(3)

MCDramIn == [t \in MCTids |-> IF t = t3 THEN {t4} ELSE {}]
DramOuts(n) == {[tid |-> t1, ifmaps |-> 0, size |-> n, dst |-> {c1}],
                [tid |-> t4, ifmaps |-> 1, size |-> 2, dst |-> {c2}]}
EvenOut == DramOuts(2)
OddOut  == DramOuts(3)
=============================================================================
