------------------------------- MODULE DDROps -------------------------------
(***************************************************************************)
(* A DDR of ddr.cpp as operators on the record of its state.  run is called *)
(* once per cycle for each of its routers, in the order of the node ids;    *)
(* time is kept relative to the cycle: granted stands for                   *)
(* _grant_timer = _time and ticked for _time_minus = _time.                 *)
(***************************************************************************)
EXTENDS Platform

CONSTANTS
  Bandwidth,     \* DDR_bw: units per cycle
  DramIn,        \* DramIn[t]: the outputs input transfer t contributes to (_ifm_to_ofm)
  DramOut        \* the JSON "out": [tid, ifmaps, size, dst] records

ASSUME DDRAssumption ==
  /\ IsFiniteSet(Tids)
  /\ Bandwidth \in Nat \ {0}
  /\ DramIn \in [Tids -> SUBSET Tids]
  /\ \A o \in DramOut : /\ o.tid \in Tids /\ o.ifmaps \in Nat /\ o.size \in Nat
                        /\ o.dst \in SUBSET Cores /\ o.dst # {}

WriteTurn == 0
ReadTurn  == 1
NoGrant == -1
NoRouter == -1

OutIds == {o.tid : o \in DramOut}
OutOf(t) == CHOOSE o \in DramOut : o.tid = t

(* The share of this DDR; the remainder is dropped, the constructor's test  *)
(* _ddr_id != _ddr_num being true of every DDR.                            *)
Share(o) == o.size \div DdrNum

(* The JSON input relates inputs to outputs it lists, an output to at least   *)
(* as many inputs as name it, and has a byte of every output for each DDR:    *)
(* a share of nothing would set _time_cnt to -1, and stop the DDR for good.  *)
ASSUME RelationAssumption ==
  /\ \A t \in Tids : DramIn[t] \subseteq OutIds
  /\ \A o \in DramOut : /\ Cardinality({i \in Tids : o.tid \in DramIn[i]}) <= o.ifmaps
                        /\ o.size >= DdrNum /\ IsFiniteSet(o.dst)

Erased == [open |-> FALSE, ifmaps |-> 0, requests |-> 0]

DDRInit == [
  fifo |-> << >>, in_fifo |-> [t \in Tids |-> 0], end_set |-> {},
  ofm |-> [t \in Tids |-> IF t \in OutIds
                          THEN [open |-> TRUE, ifmaps |-> OutOf(t).ifmaps,
                                requests |-> Cardinality(OutOf(t).dst)]
                          ELSE Erased],
  data |-> << >>, packets |-> << >>,
  grant |-> NoGrant, router |-> NoRouter, time_cnt |-> 0,
  granted |-> TRUE, ticked |-> FALSE]

Cycles(size) == (size + Bandwidth - 1) \div Bandwidth

-----------------------------------------------------------------------------
(* The AND-join: an output is queued when its last ifmap has drained and    *)
(* its last request has come, in either order.                              *)
Join(s, T) ==
  LET ready == {t \in T : s.ofm[t].ifmaps = 0 /\ s.ofm[t].requests = 0}
  IN  [s EXCEPT !.data = @ \o SetToSeq({[tid |-> t, left |-> Share(OutOf(t))] : t \in ready}),
                !.ofm = [t \in Tids |-> IF t \in ready THEN Erased ELSE @[t]]]

(* The arbiter between the write queue and the read side: once per cycle,   *)
(* when the channel is idle; g and q are the two random draws.              *)
WantsToServe(s, free) == (s.packets # << >> \/ s.data # << >>) /\ free # {}

Arbitrates(s, free) ==
  s.time_cnt = 0 /\ ~s.granted /\ (s.fifo # << >> \/ WantsToServe(s, free))

GrantChoices(s, free) ==
  (IF s.fifo # << >> THEN {WriteTurn} ELSE {}) \cup (IF WantsToServe(s, free) THEN {ReadTurn} ELSE {})

Arbitrate(s, free, g, q) ==
  IF Arbitrates(s, free)
  THEN [s EXCEPT !.grant = g, !.granted = TRUE, !.router = IF g = ReadTurn THEN q ELSE @]
  ELSE IF s.time_cnt # 0 /\ ~s.ticked /\ ~s.granted
       THEN [s EXCEPT !.time_cnt = @ - 1, !.ticked = TRUE]
  ELSE s

(* One queued packet is written; the last packet of an ended transfer       *)
(* counts for the outputs it belongs to.                                   *)
Drains(s) == s.fifo # << >> /\ s.grant = WriteTurn
Counted(s, p) ==
  Join([s EXCEPT !.ofm = [t \in Tids |-> IF t \in DramIn[p.tid]
                                          THEN [s.ofm[t] EXCEPT !.ifmaps = @ - 1]
                                          ELSE s.ofm[t]]],
       DramIn[p.tid])

DrainOneKept(s) ==   \* mutant: the end mark is not forgotten
  LET p    == Head(s.fifo)
      last == s.in_fifo[p.tid] = 1 /\ p.tid \in s.end_set
      d    == [s EXCEPT !.grant = NoGrant, !.time_cnt = Cycles(p.size) - 1,
                        !.fifo = Tail(@), !.in_fifo[p.tid] = @ - 1]
  IN  IF last THEN Counted(d, p) ELSE d

DrainOne(s) ==
  LET p    == Head(s.fifo)
      last == s.in_fifo[p.tid] = 1 /\ p.tid \in s.end_set
      d    == [s EXCEPT !.grant = NoGrant, !.time_cnt = Cycles(p.size) - 1,
                        !.fifo = Tail(@), !.in_fifo[p.tid] = @ - 1]
  IN  IF last THEN Counted([d EXCEPT !.end_set = @ \ {p.tid}], p) ELSE d

(* The read side: every queued output in turn contributes one packet.       *)
CutPacketsNoEnd(data) ==   \* mutant: no end when the last packet is full
  [i \in DOMAIN data |->
     [tid |-> data[i].tid,
      size |-> IF data[i].left > PacketBytes THEN PacketBytes ELSE data[i].left,
      end |-> data[i].left < PacketBytes]]

CutPackets(data) ==
  [i \in DOMAIN data |->
     [tid |-> data[i].tid,
      size |-> IF data[i].left > PacketBytes THEN PacketBytes ELSE data[i].left,
      end |-> data[i].left <= PacketBytes]]
CutRest(data) ==
  LET long   == {i \in DOMAIN data : data[i].left > PacketBytes}
      nth(k) == CHOOSE i \in long : Cardinality({h \in long : h <= i}) = k
  IN  [k \in 1 .. Cardinality(long) |-> [data[nth(k)] EXCEPT !.left = @ - PacketBytes]]

Refill(s) == IF s.packets # << >> THEN s
             ELSE [s EXCEPT !.packets = CutPackets(s.data), !.data = CutRest(s.data)]

Serves(s, r) == s.router = r /\ (s.packets # << >> \/ s.data # << >>)
ServedPacket(s) == Head(Refill(s).packets)

ServeOne(s) ==
  LET f == Refill(s)
  IN  [f EXCEPT !.packets = Tail(@), !.time_cnt = Cycles(Head(f.packets).size) - 1,
                !.grant = NoGrant, !.router = NoRouter]

(* DDR::run up to the point where a packet may leave through router r.      *)
Run1(s, free, g, q) ==
  LET a == Arbitrate(s, free, g, q) IN IF Drains(a) THEN DrainOne(a) ELSE a

NextCycle(s) == [s EXCEPT !.granted = FALSE, !.ticked = FALSE]

-----------------------------------------------------------------------------
(* DDR::receive_message.                                                   *)
DDRRequestOnly(s, t) == [s EXCEPT !.ofm[t].requests = @ - 1]   \* mutant: no join
DDRRequest(s, t) == Join([s EXCEPT !.ofm[t].requests = @ - 1], {t})

DDRData(s, t, size, end) ==
  [s EXCEPT !.fifo = Append(@, [tid |-> t, size |-> size]),
            !.in_fifo[t] = @ + 1,
            !.end_set = IF end THEN @ \cup {t} ELSE @]
=============================================================================
