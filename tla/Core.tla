-------------------------------- MODULE Core --------------------------------
(***************************************************************************)
(* One core of core.cpp with the traffic manager's view of it: run is       *)
(* called every cycle, the packet it hands over waits in the injection      *)
(* queue (_partial_packets) until the network takes it, and                 *)
(* receive_message is called with requests and data in any order.           *)
(*                                                                         *)
(* The environment keeps to the protocol of the JSON input: core d asks for *)
(* transfer t as often as its destination list names d, and every supplier  *)
(* of t delivers its share in packets, the last of them marked end.  asked,  *)
(* supply and sent are the books of the environment, not state of the code. *)
(***************************************************************************)
EXTENDS CoreOps

CONSTANT Self

VARIABLES
  core,    \* the state of the Core object
  out,     \* _partial_packets[Self][0]: the packet waiting for injection
  asked,   \* asked[t][d]: requests of d for t received so far
  supply,  \* supply[t][p]: bytes supplier p of t still has to deliver
  sent     \* sent[t]: bytes and ends of t taken by the network

vars == <<core, out, asked, supply, sent>>

ASSUME SelfAssumption == Self \in Cores

Jobs == Workloads[Self]

ASSUME OutputAssumption == OutputsOwn(Self)

(* How often the input makes core d a destination of transfer t.            *)
TotalWanted(t, d) ==
  SumFunctionOnSet([n \in DOMAIN Jobs |-> Wanted(Self, Jobs[n], t, d)], DOMAIN Jobs)

(* A transfer comes from one core, or in equal shares from every DDR, and    *)
(* it comes once.                                                          *)
NoSupply == << >>
Shares(t) == IF core.s_rq[t].from = DRAM
             THEN [p \in Ddrs |-> core.s_rq[t].left \div DdrNum]
             ELSE [p \in {0}  |-> core.s_rq[t].left]

-----------------------------------------------------------------------------
Init ==
  /\ core = CoreInit
  /\ out = NoPacket
  /\ asked = NoRequests
  /\ supply = [t \in Tids |-> NoSupply]
  /\ sent = [t \in Tids |-> [bytes |-> 0, ends |-> 0]]

(* Core::run when there is nothing to send or nowhere to put it.            *)
RunOnly ==
  LET s == Work(Self, core)
  IN  /\ ~(out = NoPacket /\ (CanRequest(s) \/ CanSend(s)))
      /\ core' = s
      /\ UNCHANGED <<out, asked, supply, sent>>

(* Core::run sending one request.                                          *)
RunRequest ==
  LET s == Work(Self, core)
  IN  /\ out = NoPacket /\ CanRequest(s)
      /\ \E r \in Head(s.to_request) :
            /\ core' = RequestSent(s, r)
            /\ out'  = RequestPacket(Self, r)
      /\ UNCHANGED <<asked, supply, sent>>

(* Core::run sending one packet of the buffer being drained.                *)
RunSend ==
  LET s == Work(Self, core)
  IN  /\ out = NoPacket /\ ~CanRequest(s) /\ CanSend(s)
      /\ \E d \in DdrChoices(s, MiniTile(s).tid) :
            /\ core' = DataSent(s, d)
            /\ out'  = DataPacket(Self, s, d)
      /\ UNCHANGED <<asked, supply, sent>>

Run == RunOnly \/ RunRequest \/ RunSend

(* The network takes the waiting packet; a request opens the supply.        *)
Inject ==
  /\ out # NoPacket
  /\ out' = NoPacket
  /\ IF out.kind = "request"
     THEN /\ supply' = [supply EXCEPT ![out.tid] = IF @ = NoSupply THEN Shares(out.tid) ELSE @]
          /\ UNCHANGED sent
     ELSE /\ sent' = [sent EXCEPT ![out.tid].bytes = @ + out.size,
                                  ![out.tid].ends  = IF out.end THEN @ + 1 ELSE @]
          /\ UNCHANGED supply
  /\ UNCHANGED <<core, asked>>

ReceiveRequest(t, d) ==
  /\ asked[t][d] < TotalWanted(t, d)
  /\ asked' = [asked EXCEPT ![t][d] = @ + 1]
  /\ core'  = RequestReceived(core, t, d, 1)
  /\ UNCHANGED <<out, supply, sent>>

ReceiveData(t, p) ==
  /\ p \in DOMAIN supply[t] /\ supply[t][p] > 0
  /\ LET size == Smaller(supply[t][p], PacketBytes)
     IN  /\ supply' = [supply EXCEPT ![t][p] = @ - size]
         /\ core' = DataReceived(core, t, size, size = supply[t][p])
  /\ UNCHANGED <<out, asked, sent>>

Receive == \/ \E t \in Tids, d \in Cores : ReceiveRequest(t, d)
           \/ \E t \in Tids, p \in Ddrs : ReceiveData(t, p)

Next == Run \/ Inject \/ Receive

(* _Step calls run on every core in every cycle; the environment's packets  *)
(* arrive because the other cores and the network run in the same loop.     *)
(* RunFair is WF_vars(Run) with its ENABLED spelled out: TLC evaluates a    *)
(* state predicate much faster than it searches for a successor.           *)
RunMoves == LET s == Work(Self, core)
            IN  s # core \/ (out = NoPacket /\ (CanRequest(s) \/ CanSend(s)))
RunFair  == []<>(~RunMoves) \/ []<><<Run>>_vars
Fairness == RunFair /\ WF_vars(Inject) /\ WF_vars(Receive)

Spec     == Init /\ [][Next]_vars
FairSpec == Spec /\ Fairness

-----------------------------------------------------------------------------
Packet ==
  [kind : {"request"}, tid : Tids, src : Cores, num : Nat, to : SUBSET (Cores \cup DdrNodes)]
    \cup [kind : {"data"}, tid : Tids, src : Cores, size : Int, end : BOOLEAN,
          to : SUBSET (Cores \cup DdrNodes)]
ASSUME QueueAssumption == NoPacket \notin Packet   \* an empty queue holds no packet

(* The Core object and the packet it hands over are well formed.            *)
TypeOK == CoreTypes(Self, core) /\ out \in Packet \cup {NoPacket}

(* The counters the code asserts to be nonnegative, or erases when they are  *)
(* zero, never pass zero: bytes and ends still to come, requests still to    *)
(* come and requests come early, bytes still to send.                       *)
CountsSound ==
  /\ \A t \in Tids : core.s_rq[t].left >= 0 /\ core.s_rq[t].ends >= 0
  /\ \A t \in Tids, d \in Cores : core.cur_rq[t][d] >= 0 /\ core.r_rq[t][d] >= 0
  /\ \A t \in Tids : core.send_list[t] >= 0

(* The buffer computed into and the buffer being drained are never the same *)
(* one: the first is empty, the second is not and mini points into it       *)
(* (o_buf[...].first[_sd_mini_tile_id] is read without a test in _send_data). *)
ObufsApart == BuffersApart(core)

(* The buffer being drained belongs to an earlier workload, or all requests  *)
(* for the current one have come: the choice made once stays justified      *)
(* while requests arrive and workloads change.                             *)
DrainsOnlyRequested == DrainJustified(core)

(* While a tile is being computed there is a buffer for it, so that         *)
(* _write_obuf never indexes o_buf with -1.                                 *)
TileHasRoom == HasRoom(core)

(* The output buffers are handled safely: together, what _write_obuf and      *)
(* _send_data rely on when they index o_buf.                               *)
BuffersSafe == TypeOK /\ ObufsApart /\ DrainsOnlyRequested /\ TileHasRoom

(* The tile being computed will end: _end_tile_time ("ending time of the     *)
(* current tile") lies ahead of _time whenever the core is computing.       *)
TileWillEnd == core.running /\ ~core.wl_fn /\ ~core.pending => core.due > 0

(* No output is handed over before every consumer has asked for it: a data  *)
(* packet waiting for injection goes to cores whose requests for that       *)
(* transfer have all arrived, however early or late they came.              *)
DataOnlyOnRequest ==
  out # NoPacket /\ out.kind = "data" =>
    \A d \in out.to \cap Cores : asked[out.tid][d] = TotalWanted(out.tid, d)

(* What _send_data_list counts for a transfer is exactly what the core      *)
(* still holds of it: buffered mini tiles and tiles not yet computed.  The  *)
(* last byte is therefore the one sent with the end mark, never an earlier. *)
NothingLost == \A t \in Tids : core.send_list[t] = Buffered(core, t) + Uncomputed(Self, core, t)

(* The consumers of a transfer see one end mark and, with it, every byte:   *)
(* nothing follows the end, nothing is missing when it comes.               *)
SizeOf(t) == (CHOOSE o \in UNION {{Jobs[n].outs[i] : i \in DOMAIN Jobs[n].outs} : n \in DOMAIN Jobs} :
                o.tid = t).size
EndIsLast ==
  \A t \in Tids : sent[t].ends # 0 => sent[t].ends = 1 /\ sent[t].bytes = SizeOf(t)

(* Every output is sent whole: to those who asked, no byte lost or counted    *)
(* twice between _send_data_list, the buffers and the tiles to come, and one *)
(* end, with the last byte.                                                *)
OutputsComplete == CountsSound /\ DataOnlyOnRequest /\ NothingLost /\ EndIsLast

(* A running workload has all its inputs: the core starts only when every   *)
(* ifmap and weight transfer of its layer is in the buffer.                 *)
InputsPresent ==
  core.running /\ ~core.wl_fn =>
    \A t \in Jobs[core.cur].need : <<Jobs[core.cur].layer, t>> \in core.buffer

(* The core finishes: all tiles computed, all outputs handed over.          *)
Finishes == <>core.overall_end
=============================================================================
