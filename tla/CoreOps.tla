------------------------------ MODULE CoreOps ------------------------------
(***************************************************************************)
(* The compute core of core.cpp as operators on the record of its state.   *)
(* One phase of Core::run is one operator; CoreRun is the whole handler.    *)
(* The module has no variables: Core.tla runs one core against an open      *)
(* environment, ManyCore.tla runs several against each other and the DDRs.  *)
(*                                                                         *)
(* Sizes are in abstract units and PacketBytes is the payload of a full     *)
(* packet.  Output buffers are numbered from 1,   *)
(* workloads from 1; NoBuf (0) stands for the -1 of _cur_rc_obuf and        *)
(* _cur_sd_obuf.  A count of zero in a map stands for an absent entry, as   *)
(* in the code, which erases an entry when it reaches zero.                 *)
(***************************************************************************)
EXTENDS Platform

CONSTANTS
  Layers,        \* layer names
  NumObuf,       \* num_obuf
  Gran0,         \* sending_granularity
  GranLB,        \* sending_granularity_lowerbound
  Workloads      \* the JSON input: Workloads[c] is the sequence core c runs

(***************************************************************************)
(* A workload is a record                                                  *)
(*   time   compute time in cycles          ofsize  ofmap_size              *)
(*   layer  layer_name                      need    ifmap and weight ids    *)
(*   outs   sequence of [tid, size, dst], dst a sequence of nodes           *)
(*   fetch  set of newly added buffer entries [tid, from, size, layer]      *)
(***************************************************************************)
ASSUME CoreAssumption ==
  /\ NumObuf \in Nat \ {0}
  /\ Gran0 \in Nat \ {0}
  /\ GranLB \in Nat \ {0}

Obufs == 1 .. NumObuf
NoBuf == 0
NoDdr == -1

Outputs == [tid : Tids, size : Nat, dst : Seq(Cores \cup {DRAM})]
Fetches == [tid : Tids, from : Cores \cup {DRAM}, size : Nat, layer : Layers]
Workload == [time : Nat \ {0}, ofsize : Nat \ {0}, layer : Layers,
             need : SUBSET Tids, outs : Seq(Outputs), fetch : SUBSET Fetches]

ASSUME WorkloadAssumption ==
  /\ Workloads \in [Cores -> Seq(Workload)]
  /\ \A c \in Cores : \A n \in DOMAIN Workloads[c] : IsFiniteSet(Workloads[c][n].fetch)

(* The JSON input announces every transfer a layer needs as a newly added    *)
(* buffer entry of that layer, at this workload or before it: receive_message *)
(* strikes a transfer off _left_data by its id alone.                      *)
ASSUME FetchAssumption ==
  \A c \in Cores : \A n \in DOMAIN Workloads[c] : \A t \in Workloads[c][n].need :
    \E m \in 1 .. n : \E f \in Workloads[c][m].fetch :
       f.tid = t /\ f.layer = Workloads[c][n].layer

(* An output nobody outside the core wants is never tiled. *)
Remote(c, o)  == {o.dst[k] : k \in DOMAIN o.dst} \ {c}
RemoteOuts(c, w) == {w.outs[i] : i \in {i \in DOMAIN w.outs : Remote(c, w.outs[i]) # {}}}

(* The JSON input has an id of its own for every output of a core, each with *)
(* at least a byte for every tile it may be cut into: an empty tile would be *)
(* sent as a packet without bytes, and announced as the last one if none are *)
(* left.                                                                   *)
OutputsOwn(c) ==
  LET jobs == Workloads[c]
  IN  /\ \A m, n \in DOMAIN jobs : \A i \in DOMAIN jobs[m].outs, j \in DOMAIN jobs[n].outs :
           jobs[m].outs[i].tid = jobs[n].outs[j].tid => m = n /\ i = j
      /\ \A n \in DOMAIN jobs : \A i \in DOMAIN jobs[n].outs :
           jobs[n].outs[i].size >= Gran0 /\ jobs[n].outs[i].size >= GranLB

(* How many requests for t core d must send before the workload may be sent. *)
Wanted(c, w, t, d) ==
  IF d = c THEN 0
  ELSE Cardinality({p \in UNION {{i} \X DOMAIN w.outs[i].dst : i \in DOMAIN w.outs} :
                       w.outs[p[1]].tid = t /\ w.outs[p[1]].dst[p[2]] = d})

(* Tile k (counted from 1) of g: equal parts, the remainder in the last.    *)
TileTime(w, g, k) == IF k < g THEN (w.time - 1) \div g
                     ELSE w.time - (g - 1) * ((w.time - 1) \div g)
TileSizeNoRest(o, g, k) == o.size \div g   \* mutant: the remainder is dropped
TileSize(o, g, k) == IF k < g THEN o.size \div g
                     ELSE o.size - (g - 1) * (o.size \div g)

(* _sd_gran: kept from the workload before unless its packets would be too  *)
(* small, in which case it shrinks to what fills packets, above the bound.  *)
Granularity(g, of) ==
  LET fit == (of - 1) \div PacketBytes + 1
  IN  IF of \div g < PacketBytes THEN (IF fit > GranLB THEN fit ELSE GranLB) ELSE g

NoEntry == [layers |-> {}, left |-> 0, ends |-> 0, from |-> DRAM]
NoRequests == [t \in Tids |-> [d \in Cores |-> 0]]

CoreInit == [
  cur |-> 0, wl_end |-> FALSE, overall_end |-> FALSE, gran |-> Gran0,
  wl_fn |-> TRUE, next_start |-> TRUE, dataready |-> FALSE, running |-> FALSE,
  cnt1 |-> 0, pending |-> FALSE, due |-> -1, tiles |-> 0,
  rc |-> 1, sd |-> NoBuf, mini |-> 1,
  obuf |-> [i \in Obufs |-> << >>], obuf_wl |-> [i \in Obufs |-> 0],
  cur_rq |-> NoRequests, r_rq |-> NoRequests,
  s_rq |-> [t \in Tids |-> NoEntry], to_request |-> << >>,
  buffer |-> {}, left_data |-> {},
  send_list |-> [t \in Tids |-> 0], ddr_rel |-> [t \in Tids |-> NoDdr]]

CurWl(c, s) == Workloads[c][s.cur]

MiniTileType == [tid : Tids, size : Int, dst : SUBSET (Cores \cup {DRAM})]
EntryType    == [layers : SUBSET Layers, left : Int, ends : Int, from : Cores \cup {DRAM}]
RequestType  == [tid : Tids, num : Nat, from : Cores \cup {DRAM}]

(* The types of the fields of a Core.                                       *)
CoreTypes(c, s) ==
  /\ DOMAIN s = DOMAIN CoreInit
  /\ s.cur \in 0 .. Len(Workloads[c]) + 1
  /\ s.wl_end \in BOOLEAN /\ s.overall_end \in BOOLEAN /\ s.wl_fn \in BOOLEAN
  /\ s.next_start \in BOOLEAN /\ s.dataready \in BOOLEAN /\ s.running \in BOOLEAN
  /\ s.pending \in BOOLEAN /\ s.cnt1 \in {0, 1}
  /\ s.gran \in Nat \ {0} /\ s.tiles \in 0 .. s.gran /\ s.due \in Nat \cup {-1}
  /\ s.rc \in Obufs \cup {NoBuf} /\ s.sd \in Obufs \cup {NoBuf} /\ s.mini \in Nat \ {0}
  /\ s.obuf \in [Obufs -> Seq(MiniTileType)] /\ s.obuf_wl \in [Obufs -> 0 .. s.cur]
  /\ s.cur_rq \in [Tids -> [Cores -> Int]] /\ s.r_rq \in [Tids -> [Cores -> Int]]
  /\ s.s_rq \in [Tids -> EntryType] /\ s.to_request \in Seq(SUBSET RequestType)
  /\ s.buffer \subseteq Layers \X Tids /\ s.left_data \subseteq Tids
  /\ s.send_list \in [Tids -> Int] /\ s.ddr_rel \in [Tids -> Ddrs \cup {NoDdr}]

(* The buffer computed into is empty, the one being drained is another one   *)
(* and holds the mini tile that mini points to.                            *)
BuffersApart(s) ==
  /\ s.rc # NoBuf => s.obuf[s.rc] = << >>
  /\ s.sd # NoBuf => s.sd # s.rc /\ s.mini \in DOMAIN s.obuf[s.sd]
  /\ s.sd = NoBuf => s.mini = 1

(* A tile being computed has a buffer to go to.                            *)
HasRoom(s) == s.running /\ ~s.wl_fn /\ ~s.pending => s.rc # NoBuf

-----------------------------------------------------------------------------
(* Choice of the output buffers: the lowest index, not the oldest content.  *)

LowestOf(S) == IF S = {} THEN NoBuf ELSE CHOOSE i \in S : \A j \in S : i <= j

NextRcAny(s) == LowestOf(Obufs \ {s.sd})   \* mutant: not tested for being empty
NextRc(s) == LowestOf({i \in Obufs : s.obuf[i] = << >>})

AllRequested(s) == s.cur_rq = NoRequests

(* What is being drained is of an earlier workload or wanted by everybody.  *)
DrainJustified(s) == s.sd # NoBuf => s.obuf_wl[s.sd] < s.cur \/ AllRequested(s)

SendableAny(s) == {i \in Obufs : i # s.rc /\ s.obuf[i] # << >>}   \* mutant: requests ignored
Sendable(s) == {i \in Obufs : /\ i # s.rc
                              /\ s.obuf[i] # << >>
                              /\ s.obuf_wl[i] < s.cur \/ AllRequested(s)}

NextSdKept(s) == IF s.sd # NoBuf THEN s.sd ELSE LowestOf(Sendable(s))   \* mutant: kept when drained
NextSd(s) == IF s.sd # NoBuf /\ s.obuf[s.sd] # << >> THEN s.sd ELSE LowestOf(Sendable(s))

-----------------------------------------------------------------------------
(* The phases of Core::run, in the order of the code.                      *)

(* _time is _end_tile_time - due; a due time that was missed stays missed.  *)
Tick(s) == [s EXCEPT !.due = IF @ < 0 THEN -1 ELSE @ - 1]

StartEarly(c, s) ==   \* mutant: the inputs are not waited for
  IF s.wl_fn /\ s.next_start /\ s.cur > 0 /\ s.rc # NoBuf /\ ~s.wl_end
  THEN [s EXCEPT !.next_start = FALSE, !.running = TRUE, !.wl_fn = FALSE,
                 !.dataready = FALSE, !.due = TileTime(CurWl(c, s), s.gran, 1)]
  ELSE s

Start(c, s) ==
  IF s.wl_fn /\ s.next_start /\ s.dataready /\ s.rc # NoBuf /\ ~s.wl_end
  THEN [s EXCEPT !.next_start = FALSE, !.running = TRUE, !.wl_fn = FALSE,
                 !.dataready = FALSE, !.due = TileTime(CurWl(c, s), s.gran, 1)]
  ELSE s

PickRc(s) == IF s.pending \/ s.rc = NoBuf THEN [s EXCEPT !.rc = NextRc(s)] ELSE s
PickSd(s) == IF s.sd = NoBuf THEN [s EXCEPT !.sd = NextSd(s)] ELSE s

NextTileTime(c, s) == TileTime(CurWl(c, s), s.gran, s.gran - s.tiles + 1)

(* _write_obuf: the finished tile of every output goes to the rc buffer.    *)
(* Their order in the buffer matters to no property and is left open.       *)
MiniTiles(c, s) ==
  LET outs == SetToSeq(RemoteOuts(c, CurWl(c, s)))
  IN  [i \in DOMAIN outs |-> [tid  |-> outs[i].tid,
                              size |-> TileSize(outs[i], s.gran, s.gran - s.tiles + 1),
                              dst  |-> Remote(c, outs[i])]]

WriteObuf(c, s) ==
  IF MiniTiles(c, s) = << >> THEN s
  ELSE LET t == [s EXCEPT !.obuf[s.rc] = MiniTiles(c, s), !.obuf_wl[s.rc] = s.cur]
       IN  [t EXCEPT !.rc = NextRc(t)]

TileDoneNoReset(c, s) ==   \* mutant: cnt1 is not reset when the workload is done
  LET w == WriteObuf(c, s)
      n == [w EXCEPT !.sd = NextSd(w), !.tiles = @ - 1]
  IN  IF n.tiles = 0 THEN [n EXCEPT !.wl_fn = TRUE]
      ELSE IF n.rc = NoBuf THEN [n EXCEPT !.pending = TRUE]
      ELSE [n EXCEPT !.due = NextTileTime(c, n)]

TileDone(c, s) ==
  LET w == WriteObuf(c, s)
      n == [w EXCEPT !.sd = NextSd(w), !.tiles = @ - 1]
  IN  IF n.tiles = 0 THEN [n EXCEPT !.wl_fn = TRUE, !.cnt1 = 0]
      ELSE IF n.rc = NoBuf THEN [n EXCEPT !.pending = TRUE]
      ELSE [n EXCEPT !.due = NextTileTime(c, n)]

Compute(c, s) ==
  IF ~s.running \/ s.wl_end THEN s
  ELSE IF s.due = 0 THEN TileDone(c, s)
  ELSE IF s.pending /\ s.rc # NoBuf
       THEN [s EXCEPT !.pending = FALSE, !.due = NextTileTime(c, s)]
  ELSE s

-----------------------------------------------------------------------------
(* _update: load the next workload, match early requests, ask for its data. *)

(* _buffer_update: what is computed here is in the buffer at once, anything *)
(* else not yet there is requested, once per transfer with a count.        *)
LocalData(c, w)  == {<<f.layer, f.tid>> : f \in {g \in w.fetch : g.from = c}}
Missing(c, w, b) == {f \in w.fetch : <<f.layer, f.tid>> \notin b \cup LocalData(c, w)}

Requested(F, t, e) ==
  LET G == {f \in F : f.tid = t}
  IN  IF G = {} THEN e
      ELSE LET f == CHOOSE f \in G : TRUE
               new == IF e # NoEntry THEN e
                      ELSE [layers |-> {}, left |-> f.size, from |-> f.from,
                            ends |-> IF f.from = DRAM THEN DdrNum ELSE 1]
           IN  [new EXCEPT !.layers = @ \cup {g.layer : g \in G}]

Batch(F) == {[tid |-> t, num |-> Cardinality({f \in F : f.tid = t}),
              from |-> (CHOOSE f \in F : f.tid = t).from] : t \in {f.tid : f \in F}}

LoadWorkload(c, s, w) ==
  LET wanted(t, d) == Wanted(c, w, t, d)
      early(t, d)  == Smaller(wanted(t, d), s.r_rq[t][d])
      F  == Missing(c, w, s.buffer)
      b  == s.buffer \cup LocalData(c, w)
      lost == {t \in w.need : <<w.layer, t>> \notin b}
      g  == Granularity(s.gran, w.ofsize)
      outs == RemoteOuts(c, w)
  IN  [s EXCEPT
        !.cur_rq = [t \in Tids |-> [d \in Cores |-> wanted(t, d) - early(t, d)]],
        !.r_rq   = [t \in Tids |-> [d \in Cores |-> @[t][d] - early(t, d)]],
        !.send_list = [t \in Tids |-> IF \E o \in outs : o.tid = t
                                      THEN (CHOOSE o \in outs : o.tid = t).size ELSE @[t]],
        !.gran   = g, !.tiles = g,
        !.buffer = b,
        !.s_rq   = [t \in Tids |-> Requested(F, t, @[t])],
        !.to_request = IF F = {} THEN @ ELSE Append(@, Batch(F)),
        !.left_data = lost, !.dataready = (lost = {})]

Update(c, s) ==
  LET n == [s EXCEPT !.cur = @ + 1, !.next_start = TRUE, !.running = FALSE, !.cnt1 = 1]
  IN  IF n.cur = Len(Workloads[c]) + 1 THEN [n EXCEPT !.wl_end = TRUE]
      ELSE LoadWorkload(c, n, Workloads[c][n.cur])

Advance(c, s) ==
  IF s.wl_fn /\ AllRequested(s) /\ ~s.wl_end /\ s.cnt1 = 0 THEN Update(c, s) ELSE s

(* Everything Core::run does before it looks at the network.               *)
Work(c, s) == Advance(c, Compute(c, PickSd(PickRc(Start(c, Tick(s))))))

-----------------------------------------------------------------------------
(* The sending half of Core::run: at most one packet, only into an empty    *)
(* injection queue.                                                        *)

CanRequest(s) == s.to_request # << >> /\ ~s.wl_end
CanSend(s)    == s.to_request = << >> /\ s.sd # NoBuf /\ ~s.overall_end

(* One request leaves; the order inside a batch is that of an unordered_map. *)
RequestSent(s, r) ==
  LET rest == Head(s.to_request) \ {r}
  IN  [s EXCEPT !.to_request = IF rest = {} THEN Tail(@) ELSE <<rest>> \o Tail(@)]

RequestPacket(c, r) ==
  [kind |-> "request", tid |-> r.tid, src |-> c, num |-> r.num,
   to   |-> IF r.from = DRAM THEN DdrNodes ELSE {r.from}]

(* The packet cut from the mini tile in turn, and what is left of it.       *)
MiniTile(s)   == s.obuf[s.sd][s.mini]
PacketSize(s) == Smaller(MiniTile(s).size, PacketBytes)
IsEndOfTile(s) == MiniTile(s).size = PacketSize(s)   \* mutant: every tile has an end
IsEnd(s)      == s.send_list[MiniTile(s).tid] = PacketSize(s)

(* The DDR the next packet of t goes to: a random one first, then in turn.  *)
DdrChoices(s, t) == IF s.ddr_rel[t] = NoDdr THEN Ddrs ELSE {(s.ddr_rel[t] + 1) % DdrNum}

(* The mini tile loses the packet; a finished one leaves the buffer, and a  *)
(* finished buffer is released to the computation and a next one chosen.    *)
Drain(s) ==
  LET left  == MiniTile(s).size - PacketSize(s)
      tiles == RemoveAt(s.obuf[s.sd], s.mini)
  IN  IF left > 0
      THEN [s EXCEPT !.obuf[s.sd][s.mini].size = left,
                     !.mini = IF @ < Len(s.obuf[s.sd]) THEN @ + 1 ELSE 1]
      ELSE LET t == [s EXCEPT !.obuf[s.sd] = tiles,
                              !.mini = IF @ = Len(s.obuf[s.sd]) THEN 1 ELSE @,
                              !.rc = IF tiles = << >> /\ @ = NoBuf THEN s.sd ELSE @]
           IN  IF tiles = << >> THEN [t EXCEPT !.sd = NextSd(t)] ELSE t

ToDram(s)  == DRAM \in MiniTile(s).dst

(* _send_data and the end-of-core test that follows it; d is the DDR picked. *)
DataSent(s, d) ==
  LET t == MiniTile(s).tid
      n == [Drain(s) EXCEPT
              !.send_list[t] = @ - PacketSize(s),
              !.ddr_rel[t] = IF IsEnd(s) THEN NoDdr ELSE IF ToDram(s) THEN d ELSE @]
  IN  IF n.wl_end /\ \A i \in Obufs : n.obuf[i] = << >>
      THEN [n EXCEPT !.overall_end = TRUE] ELSE n

DataPacket(c, s, d) ==
  [kind |-> "data", tid |-> MiniTile(s).tid, src |-> c, size |-> PacketSize(s),
   end  |-> IsEnd(s),
   to   |-> (MiniTile(s).dst \ {DRAM}) \cup
            (IF ~ToDram(s) THEN {} ELSE IF IsEnd(s) THEN DdrNodes ELSE {DdrNode(d)})]

-----------------------------------------------------------------------------
(* Core::receive_message, called with the tail of a packet.                 *)

RequestReceived(s, t, from, num) ==
  IF \A d \in Cores : s.cur_rq[t][d] = 0
  THEN [s EXCEPT !.r_rq[t][from] = @ + num]
  ELSE [s EXCEPT !.cur_rq[t][from] = @ - num]

DataReceived(s, t, size, end) ==
  LET e == [s.s_rq[t] EXCEPT !.left = @ - size, !.ends = IF end THEN @ - 1 ELSE @]
      lost == s.left_data \ {t}
  IN  IF e.left = 0
      THEN [s EXCEPT !.s_rq[t] = NoEntry,
                     !.buffer = @ \cup {<<l, t>> : l \in e.layers},
                     !.left_data = lost, !.dataready = (lost = {})]
      ELSE [s EXCEPT !.s_rq[t] = e]
-----------------------------------------------------------------------------
(* What a core still holds of transfer t: the mini tiles in its buffers, and *)
(* the tiles of the current workload not yet computed.                      *)
BytesIn(q, t) ==
  SumFunctionOnSet([k \in DOMAIN q |-> IF q[k].tid = t THEN q[k].size ELSE 0], DOMAIN q)
Buffered(s, t) == SumFunctionOnSet([i \in Obufs |-> BytesIn(s.obuf[i], t)], Obufs)
TilesFrom(o, g, k) == SumFunctionOnSet([i \in k .. g |-> TileSize(o, g, i)], k .. g)
Uncomputed(c, s, t) ==
  IF s.tiles = 0 THEN 0
  ELSE LET outs == Workloads[c][s.cur].outs
           I == {i \in DOMAIN outs : outs[i].tid = t /\ Remote(c, outs[i]) # {}}
       IN  SumFunctionOnSet([i \in I |-> TilesFrom(outs[i], s.gran, s.gran - s.tiles + 1)], I)

(* The jobs a core has begun and ended, read off its flags: between two jobs *)
(* the next one is loaded already.                                         *)
Between(s) == s.wl_end \/ s.next_start
Before(s)  == IF s.cur = 0 THEN 0 ELSE s.cur - 1
BegunOf(s) == IF Between(s) THEN Before(s) ELSE s.cur
EndedOf(s) == IF Between(s) THEN Before(s) ELSE IF s.wl_fn THEN s.cur ELSE s.cur - 1
=============================================================================
