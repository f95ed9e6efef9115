-------------------------------- MODULE Lanes --------------------------------
(***************************************************************************)
(* What a link promises: a lane per VC, a queue of bounded length that one   *)
(* packet writes at a time, from its first flit to its last.                *)
(***************************************************************************)
EXTENDS Sequences, Integers

CONSTANTS
  Lane,        \* the lanes
  Packets,     \* the packets
  Size,        \* Size[p]: the flits of packet p
  Capacity     \* the flits a lane holds at most

VARIABLES
  lane,        \* lane[l]: the flits in it, <<p, k>> being flit k of packet p
  writer,      \* writer[l]: the packets being written to lane l, at most one
  put          \* put[p]: how many flits of p have been written

vars == <<lane, writer, put>>

Init ==
  /\ lane = [l \in Lane |-> << >>]
  /\ writer = [l \in Lane |-> {}]
  /\ put = [p \in Packets |-> 0]

Open(l, p) ==
  /\ writer[l] = {} /\ put[p] = 0 /\ \A m \in Lane : p \notin writer[m]
  /\ writer' = [writer EXCEPT ![l] = {p}]
  /\ UNCHANGED <<lane, put>>

Put(l, p) ==
  /\ p \in writer[l] /\ Len(lane[l]) < Capacity
  /\ lane' = [lane EXCEPT ![l] = Append(@, <<p, put[p] + 1>>)]
  /\ put' = [put EXCEPT ![p] = @ + 1]
  /\ writer' = [writer EXCEPT ![l] = IF put[p] + 1 = Size[p] THEN {} ELSE @]

Get(l) ==
  /\ lane[l] # << >>
  /\ lane' = [lane EXCEPT ![l] = Tail(@)]
  /\ UNCHANGED <<writer, put>>

Next == \E l \in Lane : Get(l) \/ \E p \in Packets : Open(l, p) \/ Put(l, p)
Spec == Init /\ [][Next]_vars
=============================================================================
