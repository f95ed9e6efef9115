------------------------------ MODULE Dataflow ------------------------------
(***************************************************************************)
(* What the accelerator promises: every core runs its jobs in order, one at *)
(* a time, and starts a job only when the jobs it depends on, directly or   *)
(* through DRAM, have finished, wherever they ran.                          *)
(***************************************************************************)
EXTENDS Integers

CONSTANTS
  Workers,      \* the cores
  Count,        \* Count[c]: the number of jobs of worker c
  After         \* After[<<c, n>>]: the jobs <<d, m>> job n of c depends on

VARIABLES
  begun,        \* begun[c]: the jobs c has started
  ended         \* ended[c]: the jobs c has finished

vars == <<begun, ended>>

Init == begun = [c \in Workers |-> 0] /\ ended = [c \in Workers |-> 0]

Begin(c) ==
  /\ begun[c] = ended[c] /\ begun[c] < Count[c]
  /\ \A j \in After[<<c, begun[c] + 1>>] : j[2] <= ended[j[1]]
  /\ begun' = [begun EXCEPT ![c] = @ + 1]
  /\ UNCHANGED ended

End(c) ==
  /\ ended[c] < begun[c]
  /\ ended' = [ended EXCEPT ![c] = @ + 1]
  /\ UNCHANGED begun

Next == \E c \in Workers : Begin(c) \/ End(c)
Spec == Init /\ [][Next]_vars

(* All jobs get done.                                                      *)
Done == \A c \in Workers : ended[c] = Count[c]
=============================================================================
