------------------------------ MODULE ManyCore ------------------------------
(***************************************************************************)
(* The accelerator: cores and DDRs exchanging requests and data over a      *)
(* network that delivers every packet once, after any time and in any       *)
(* order, one copy to each of its destinations.  This is what               *)
(* TrafficManager::_Step composes: _Inject calls run on the cores and DDRs, *)
(* the injection queues feed the network, and _Step calls receive_message   *)
(* with the tail of each packet that leaves it.                             *)
(*                                                                         *)
(* The cores share no state, so that running them one by one instead of in  *)
(* lockstep only adds delays.  A DDR has one router here (DDR.tla has the   *)
(* general case).                                                          *)
(***************************************************************************)
EXTENDS CoreOps, DDROps, Bags

VARIABLES
  core,    \* core[c]: the Core object of node c
  ddr,     \* ddr[d]: the DDR objects
  queue,   \* queue[n]: the packet waiting for injection at node n
  net      \* the bag of packet copies in flight

vars == <<core, ddr, queue, net>>

Nodes == Cores \cup DdrNodes

-----------------------------------------------------------------------------
(* What the JSON inputs of the cores and the DDRs say of each other.         *)

(* The jobs of the input, what each hands over, and the transfers t is made   *)
(* of: itself, and for one out of DRAM those in it.                        *)
JobsOf(c) == {<<c, n>> : n \in DOMAIN Workloads[c]}
AllJobs   == UNION {JobsOf(c) : c \in Cores}
Job(j)    == Workloads[j[1]][j[2]]
Writes(j) == {Job(j).outs[i].tid : i \in DOMAIN Job(j).outs}
Sources(t) == {t} \cup {i \in Tids : t \in DramIn[i]}

ASSUME NodesAssumption == IsFiniteSet(Cores) /\ Cores \cap DdrNodes = {}

(* An id is that of one output, of a core or of the DRAM, and what others    *)
(* announce to fetch under it has its size.  What a core announces to fetch  *)
(* from itself was written by an earlier job of it.                         *)
ASSUME InputAssumption ==
  /\ \A c \in Cores : OutputsOwn(c)
  /\ \A j, k \in AllJobs : Writes(j) \cap Writes(k) # {} => j[1] = k[1]
  /\ \A j \in AllJobs : Writes(j) \cap OutIds = {}
  /\ \A j, k \in AllJobs : \A f \in Job(j).fetch :
       IF f.from = j[1]
       THEN Writes(k) \cap Sources(f.tid) # {} => k[1] = j[1] /\ k[2] < j[2]
       ELSE \A i \in DOMAIN Job(k).outs :
              Job(k).outs[i].tid = f.tid => Job(k).outs[i].size = f.size

-----------------------------------------------------------------------------
Init ==
  /\ core = [c \in Cores |-> CoreInit]
  /\ ddr = [d \in Ddrs |-> DDRInit]
  /\ queue = [n \in Nodes |-> NoPacket]
  /\ net = EmptyBag

-----------------------------------------------------------------------------
RunOnly(c) ==
  LET s == Work(c, core[c])
  IN  /\ ~(queue[c] = NoPacket /\ (CanRequest(s) \/ CanSend(s)))
      /\ core' = [core EXCEPT ![c] = s]
      /\ UNCHANGED <<ddr, queue, net>>

RunRequest(c) ==
  LET s == Work(c, core[c])
  IN  /\ queue[c] = NoPacket /\ CanRequest(s)
      /\ \E r \in Head(s.to_request) :
            /\ core'  = [core EXCEPT ![c] = RequestSent(s, r)]
            /\ queue' = [queue EXCEPT ![c] = RequestPacket(c, r)]
      /\ UNCHANGED <<ddr, net>>

RunSend(c) ==
  LET s == Work(c, core[c])
  IN  /\ queue[c] = NoPacket /\ ~CanRequest(s) /\ CanSend(s)
      /\ \E d \in DdrChoices(s, MiniTile(s).tid) :
            /\ core'  = [core EXCEPT ![c] = DataSent(s, d)]
            /\ queue' = [queue EXCEPT ![c] = DataPacket(c, s, d)]
      /\ UNCHANGED <<ddr, net>>

RunCore(c) == RunOnly(c) \/ RunRequest(c) \/ RunSend(c)

(* A cycle of DDR d: its one router is run with the draw g.                 *)
DdrPacket(p) ==
  [kind |-> "data", tid |-> p.tid, src |-> DRAM, size |-> p.size, end |-> p.end,
   to |-> OutOf(p.tid).dst]

RunDdr(d, g) ==
  LET n    == DdrNode(d)
      open == IF queue[n] = NoPacket THEN {1} ELSE {}
      s    == Run1(ddr[d], open, g, 1)
  IN  /\ Arbitrates(ddr[d], open) => g \in GrantChoices(ddr[d], open)
      /\ IF Serves(s, 1)
         THEN /\ ddr' = [ddr EXCEPT ![d] = NextCycle(ServeOne(s))]
              /\ queue' = [queue EXCEPT ![n] = DdrPacket(ServedPacket(s))]
         ELSE /\ ddr' = [ddr EXCEPT ![d] = NextCycle(s)]
              /\ UNCHANGED queue
      /\ UNCHANGED <<core, net>>

(* A packet enters the network and is copied for each destination.          *)
Copies(p) == SetToBag({[p EXCEPT !.to = n] : n \in p.to})

Inject(n) ==
  /\ queue[n] # NoPacket
  /\ queue' = [queue EXCEPT ![n] = NoPacket]
  /\ net' = net (+) Copies(queue[n])
  /\ UNCHANGED <<core, ddr>>

Deliver(p) ==
  /\ net' = net (-) SetToBag({p})
  /\ IF p.to \in Cores
     THEN /\ core' = [core EXCEPT ![p.to] =
                        IF p.kind = "request" THEN RequestReceived(@, p.tid, p.src, p.num)
                        ELSE DataReceived(@, p.tid, p.size, p.end)]
          /\ UNCHANGED <<ddr, queue>>
     ELSE /\ ddr' = [ddr EXCEPT ![p.to[2]] =
                        IF p.kind = "request" THEN DDRRequest(@, p.tid)
                        ELSE DDRData(@, p.tid, p.size, p.end)]
          /\ UNCHANGED <<core, queue>>

Next ==
  \/ \E c \in Cores : RunCore(c)
  \/ \E d \in Ddrs, g \in {WriteTurn, ReadTurn} : RunDdr(d, g)
  \/ \E n \in Nodes : Inject(n)
  \/ \E p \in BagToSet(net) : Deliver(p)

(* Every cycle runs every core and DDR, the network delivers what it took,  *)
(* and the DDR's coin shows both sides.  The first conjunct is weak         *)
(* fairness of RunCore, its ENABLED spelled out for TLC.                    *)
CoreMoves(c) == LET s == Work(c, core[c])
                IN  s # core[c] \/ (queue[c] = NoPacket /\ (CanRequest(s) \/ CanSend(s)))
Fairness ==
  /\ \A c \in Cores : []<>(~CoreMoves(c)) \/ []<><<RunCore(c)>>_vars
  /\ \A d \in Ddrs, g \in {WriteTurn, ReadTurn} : SF_vars(RunDdr(d, g))
  /\ \A n \in Nodes : WF_vars(Inject(n))
  /\ WF_vars(\E p \in BagToSet(net) : Deliver(p))

Spec     == Init /\ [][Next]_vars
FairSpec == Spec /\ Fairness

-----------------------------------------------------------------------------
(* The packets that carry data of t to node n and have not arrived: waiting *)
(* for injection, or in flight.                                            *)
Carries(p, t) == p.kind = "data" /\ p.tid = t
QueuedFor(t, n) == {m \in Nodes : /\ queue[m] # NoPacket
                                  /\ Carries(queue[m], t) /\ n \in queue[m].to}
FlyingTo(t, n)  == {p \in BagToSet(net) : Carries(p, t) /\ p.to = n}

UnderWay(t, n) ==
  MapThenSumSet(LAMBDA m : queue[m].size, QueuedFor(t, n))
    + MapThenSumSet(LAMBDA p : net[p] * p.size, FlyingTo(t, n))
EndsUnderWay(t, n) ==
  Cardinality({m \in QueuedFor(t, n) : queue[m].end})
    + MapThenSumSet(LAMBDA p : net[p], {p \in FlyingTo(t, n) : p.end})

(* No core gets data it has not asked for or no longer expects: the entry   *)
(* of _s_rq_list is there when a packet arrives (receive_message indexes it *)
(* without a test), and the packets under way never exceed what it counts.  *)
Expected ==
  \A t \in Tids, c \in Cores :
    /\ QueuedFor(t, c) # {} \/ FlyingTo(t, c) # {} => core[c].s_rq[t] # NoEntry
    /\ UnderWay(t, c) <= core[c].s_rq[t].left
    /\ EndsUnderWay(t, c) <= core[c].s_rq[t].ends

(* _s_rq_list: "Each entry is decremented and should end up at 0".  When the *)
(* last end mark of a transfer has arrived, what is still missing is under   *)
(* way.                                                                    *)
EndsUpAtZero ==
  \A t \in Tids, c \in Cores :
    core[c].s_rq[t] # NoEntry /\ core[c].s_rq[t].ends = 0
      => core[c].s_rq[t].left = UnderWay(t, c)

(* Early requests kept for a later workload never exceed what that workload  *)
(* will match: no request is counted twice or negative.                     *)
RequestsMatch ==
  \A c \in Cores, t \in Tids, d \in Cores :
    /\ core[c].cur_rq[t][d] >= 0 /\ core[c].r_rq[t][d] >= 0
    /\ core[c].r_rq[t][d] > 0 => \E n \in DOMAIN Workloads[c] :
          n > core[c].cur /\ core[c].r_rq[t][d] <= Wanted(c, Workloads[c][n], t, d)

(* A DDR is asked once for an output by each destination, and gets only      *)
(* transfers it knows (its maps are indexed without a test).                *)
DdrsConsistent ==
  \A d \in Ddrs, t \in Tids :
    /\ ddr[d].ofm[t].requests >= 0 /\ ddr[d].ofm[t].ifmaps >= 0
    /\ ~ddr[d].ofm[t].open => ddr[d].ofm[t] = Erased

(* What one node counts as still to come is what the others still have to     *)
(* send it, requests and data alike, at every core and every DDR.           *)
TransfersMatch == Expected /\ EndsUpAtZero /\ RequestsMatch /\ DdrsConsistent

-----------------------------------------------------------------------------
(* The promise: the jobs of the input, with the dependences it implies.      *)
DependsOn == [j \in AllJobs |->
                {k \in AllJobs : \E t \in Job(j).need : Writes(k) \cap Sources(t) # {}}]

Promise == INSTANCE Dataflow WITH
  Workers <- Cores,
  Count <- [c \in Cores |-> Len(Workloads[c])],
  After <- DependsOn,
  begun <- [c \in Cores |-> BegunOf(core[c])],
  ended <- [c \in Cores |-> EndedOf(core[c])]

(* The cores and DDRs together keep the promise of Dataflow.                *)
Implements == Promise!Spec

(* Every core that has something to hand over reports its end.              *)
AllEnd == \A c \in Cores : <>core[c].overall_end
=============================================================================
