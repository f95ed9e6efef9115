-------------------------------- MODULE DDR --------------------------------
(***************************************************************************)
(* One DDR of ddr.cpp under the cycle of the traffic manager: _Inject calls *)
(* run for the routers of the DDR in turn, with the list of routers whose   *)
(* injection queue was empty when the cycle began; between two cycles the   *)
(* network takes packets from the queues and receive_message is called.     *)
(* Streams is what the cores send this DDR; with Overtaking the packets of  *)
(* one transfer may arrive in another order than they were sent, as they do *)
(* when they were sent to different routers of the DDR (core.cpp draws the  *)
(* router of every packet at random).                                      *)
(***************************************************************************)
EXTENDS DDROps

CONSTANTS
  Routers,     \* 1 .. number of routers of the DDR, in the order of _Inject
  Streams,     \* Streams[t]: the packets [size, end] cores send of input t
  Overtaking   \* may packets of a transfer overtake each other?

ASSUME RoutersAssumption ==
  IsFiniteSet(Routers) /\ Routers # {} /\ Routers = 1 .. Cardinality(Routers)

(* A core sends every DDR packets of at least a byte, the last one, and only *)
(* that, marked end.                                                       *)
ASSUME StreamsAssumption ==
  /\ Streams \in [Tids -> Seq([size : Nat \ {0}, end : BOOLEAN])]
  /\ \A t \in Tids : \A k \in DOMAIN Streams[t] : Streams[t][k].end <=> k = Len(Streams[t])

Packet == [tid : Tids, size : Int, end : BOOLEAN]
ASSUME QueueAssumption == NoPacket \notin Packet   \* an empty queue holds no packet

VARIABLES
  ddr,      \* the state of the DDR object
  queue,    \* queue[r]: _partial_packets of router r, at most one packet
  turn,     \* the router to be run next in this cycle; 0 between cycles
  free,     \* empty_router: the queues that were empty when the cycle began
  coming,   \* what is left of Streams
  asked,    \* asked[t]: the cores whose request for t has arrived
  served    \* bytes and ends of every output taken by the network

vars == <<ddr, queue, turn, free, coming, asked, served>>

LastRouter == CHOOSE n \in Routers : \A r \in Routers : r <= n

Init ==
  /\ ddr = DDRInit
  /\ queue = [r \in Routers |-> NoPacket]
  /\ turn = 0 /\ free = Routers
  /\ coming = Streams
  /\ asked = [t \in Tids |-> {}]
  /\ served = [t \in Tids |-> [bytes |-> 0, ends |-> 0]]

(* _Inject collects the empty routers, then runs the nodes in order.        *)
BeginCycle ==
  /\ turn = 0
  /\ turn' = 1
  /\ free' = {r \in Routers : queue[r] = NoPacket}
  /\ UNCHANGED <<ddr, queue, coming, asked, served>>

(* DDR::run for router turn; g and q are the draws of the arbiter.          *)
RunRouter(g, q) ==
  /\ turn # 0
  /\ LET a == Arbitrate(ddr, free, g, q)
         s == Run1(ddr, free, g, q)
         e == IF Serves(s, turn) THEN ServeOne(s) ELSE s
     IN  /\ Arbitrates(ddr, free) => g \in GrantChoices(ddr, free)
         /\ ddr' = IF turn = LastRouter THEN NextCycle(e) ELSE e
         /\ queue' = IF Serves(s, turn) THEN [queue EXCEPT ![turn] = ServedPacket(s)] ELSE queue
  /\ turn' = IF turn = LastRouter THEN 0 ELSE turn + 1
  /\ UNCHANGED <<free, coming, asked, served>>

(* Draws matter only where the arbiter decides.                            *)
Run ==
  IF Arbitrates(ddr, free)
  THEN \/ RunRouter(WriteTurn, NoRouter)
       \/ \E q \in free : RunRouter(ReadTurn, q)
  ELSE RunRouter(WriteTurn, NoRouter)

Take(r) ==
  /\ turn = 0 /\ queue[r] # NoPacket
  /\ queue' = [queue EXCEPT ![r] = NoPacket]
  /\ served' = [served EXCEPT ![queue[r].tid].bytes = @ + queue[r].size,
                              ![queue[r].tid].ends = IF queue[r].end THEN @ + 1 ELSE @]
  /\ UNCHANGED <<ddr, turn, free, coming, asked>>

ReceiveRequest(t, c) ==
  /\ turn = 0 /\ t \in OutIds /\ c \in OutOf(t).dst \ asked[t]
  /\ asked' = [asked EXCEPT ![t] = @ \cup {c}]
  /\ ddr' = DDRRequest(ddr, t)
  /\ UNCHANGED <<queue, turn, free, coming, served>>

ReceiveData(t, k) ==
  /\ turn = 0 /\ k \in DOMAIN coming[t] /\ (k = 1 \/ Overtaking)
  /\ coming' = [coming EXCEPT ![t] = RemoveAt(@, k)]
  /\ ddr' = DDRData(ddr, t, coming[t][k].size, coming[t][k].end)
  /\ UNCHANGED <<queue, turn, free, asked, served>>

Receive == \/ \E t \in Tids, c \in Cores : ReceiveRequest(t, c)
           \/ \E t \in Tids : \E k \in DOMAIN coming[t] : ReceiveData(t, k)

Cycle == BeginCycle \/ Run
Next == Cycle \/ Receive \/ \E r \in Routers : Take(r)

(* The loop of _Step never stops; the network, which is given a chance only  *)
(* between two runs, moves in the end what is injected and what was sent;   *)
(* and rand() gives either side of the arbiter, and every free router, its  *)
(* turn again and again.                                                   *)
DrainTurn   == turn # 0 /\ Arbitrates(ddr, free) /\ RunRouter(WriteTurn, NoRouter)
ServeTurn(r) == turn # 0 /\ Arbitrates(ddr, free) /\ r \in free /\ RunRouter(ReadTurn, r)
Fairness ==
  /\ WF_vars(Cycle) /\ SF_vars(Receive) /\ SF_vars(DrainTurn)
  /\ \A r \in Routers : SF_vars(Take(r)) /\ SF_vars(ServeTurn(r))

Spec     == Init /\ [][Next]_vars
FairSpec == Spec /\ Fairness

-----------------------------------------------------------------------------
TypeOK ==
  /\ ddr.grant \in {WriteTurn, ReadTurn, NoGrant} /\ ddr.router \in Routers \cup {NoRouter}
  /\ ddr.time_cnt \in Nat
  /\ ddr.in_fifo \in [Tids -> Nat] /\ ddr.end_set \subseteq Tids
  /\ ddr.ofm \in [Tids -> [open : BOOLEAN, ifmaps : Nat, requests : Nat]]
  /\ \A i \in DOMAIN ddr.data : ddr.data[i].left \in Nat
  /\ turn \in Routers \cup {0} /\ free \subseteq Routers

(* The counter of a transfer agrees with the write queue, and an end that    *)
(* was seen keeps its packet, or a later one, in the queue until it drains:  *)
(* otherwise the last drain would never be noticed.                         *)
FifoCounted ==
  /\ \A t \in Tids : ddr.in_fifo[t] = Cardinality({i \in DOMAIN ddr.fifo : ddr.fifo[i].tid = t})
  /\ \A t \in ddr.end_set : ddr.in_fifo[t] > 0

(* A router chosen by the arbiter has an empty injection queue when its turn *)
(* comes, however many cycles later (assert(time_emty)).                    *)
GrantedRouterFree == ddr.router # NoRouter => queue[ddr.router] = NoPacket

(* The two queues and the arbiter between them agree with their counters:     *)
(* what the code pops, counts down and injects without a test is there.      *)
QueueSafe == FifoCounted /\ GrantedRouterFree

(* The bytes of output t that are somewhere, and the packets marked its end:  *)
(* not cut yet, cut, in the queues of the routers, taken by the network.     *)
Queued(t) == {i \in DOMAIN ddr.data : ddr.data[i].tid = t}
LeftIn(q, t) ==
  SumFunctionOnSet([i \in DOMAIN q |-> IF q[i].tid = t THEN q[i].left ELSE 0], DOMAIN q)
SizeIn(q, t) ==
  SumFunctionOnSet([i \in DOMAIN q |-> IF q[i] # NoPacket /\ q[i].tid = t THEN q[i].size ELSE 0],
                   DOMAIN q)
EndsIn(q, t) ==
  SumFunctionOnSet([i \in DOMAIN q |-> IF q[i] # NoPacket /\ q[i].tid = t /\ q[i].end THEN 1 ELSE 0],
                   DOMAIN q)
Moving(t) == LeftIn(ddr.data, t) + SizeIn(ddr.packets, t) + SizeIn(queue, t) + served[t].bytes
Ends(t)   == EndsIn(ddr.packets, t) + EndsIn(queue, t) + served[t].ends

(* "drain all": an output that depends on a transfer is released only when   *)
(* every packet of the transfer has been written.                           *)
DrainedMeansAll ==
  \A t \in OutIds : ~ddr.ofm[t].open =>
    \A i \in Tids : t \in DramIn[i] => coming[i] = << >> /\ ddr.in_fifo[i] = 0

(* An output leaves its entry exactly when it is complete, and everything    *)
(* about it is then in the queues: no byte is lost, doubled or early, and    *)
(* one packet in all, the last that is cut, is marked as its end.  Packets    *)
(* of a transfer that come in order are all written before an output that    *)
(* depends on it is released.                                              *)
ServedExactly ==
  /\ TypeOK /\ (~Overtaking => DrainedMeansAll)
  /\ \A t \in OutIds :
       /\ ddr.ofm[t].open => Moving(t) = 0 /\ ddr.ofm[t].ifmaps + ddr.ofm[t].requests > 0
       /\ ~ddr.ofm[t].open => Moving(t) = Share(OutOf(t)) /\ asked[t] = OutOf(t).dst
       /\ ~ddr.ofm[t].open => (Ends(t) = IF Queued(t) = {} THEN 1 ELSE 0)

(* Every output is delivered, end included.                                *)
Delivers == \A t \in OutIds : <>(served[t].ends = 1)
=============================================================================
