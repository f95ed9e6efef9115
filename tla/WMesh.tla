-------------------------------- MODULE WMesh --------------------------------
(* The mesh with hubs, networks/wmesh.cpp, and its routing by wire or by air.   *)
(* It has g.k by g.k routers; a router at a hub has one more output, to it.     *)
(* In g.multicast a packet is for several nodes and is copied where their       *)
(* ways part; of its destinations dests are still reached by wire and air by   *)
(* the next hub.                                                            *)
EXTENDS Cubes, TLC

ToHub == 5
Row(g, v) == v \div g.k
Col(g, v) == v % g.k
Abs(x)    == IF x < 0 THEN -x ELSE x
Dist(g, a, b) == Abs(Row(g, a) - Row(g, b)) + Abs(Col(g, a) - Col(g, b))

(* inserter_helper: the mesh is cut in half 2log(g.m) times, by turns across    *)
(* and along, and each part has its hub in the middle.                       *)
Cut(b, x) ==
  IF x % 2 = 1
  THEN LET mid == (b.si + b.ei) \div 2 IN {[b EXCEPT !.ei = mid], [b EXCEPT !.si = mid + 1]}
  ELSE LET mid == (b.sj + b.ej) \div 2 IN {[b EXCEPT !.ej = mid], [b EXCEPT !.sj = mid + 1]}
Boxes(g) ==
  LET left[x \in 0 .. g.cuts] ==
        IF x = g.cuts THEN {[si |-> 0, sj |-> 0, ei |-> g.k - 1, ej |-> g.k - 1]}
        ELSE UNION {Cut(b, x + 1) : b \in left[x + 1]}
  IN  left[0]
HubLocations(g) == {((b.si + b.ei) \div 2) * g.k + (b.sj + b.ej) \div 2 : b \in Boxes(g)}

(* closest_hub_finder: of equally near hubs the first.                        *)
ClosestHub(g, hubs, v) == Min({h \in hubs : \A i \in hubs : Dist(g, v, h) <= Dist(g, v, i)})
WithHubs(g, hubs) == [hubs |-> hubs, hubOf |-> [v \in 0 .. g.k * g.k - 1 |-> ClosestHub(g, hubs, v)]] @@ g
BuildWMesh(g) == WithHubs(g, HubLocations(g))
HubOf(g, v)   == g.hubOf[v]

WMeshOutputs(g, v) == (0 .. 3) \cup {Eject(g)} \cup IF v \in g.hubs THEN {ToHub} ELSE {}

-----------------------------------------------------------------------------
(* xy_wireless: the way by air costs three hops for the hubs.                 *)
ByWire(g, cur, dest) ==
  Dist(g, cur, dest) <= Dist(g, cur, HubOf(g, cur)) + 3 + Dist(g, dest, HubOf(g, dest))
XyTo(g, cur, to) ==
  CASE Col(g, cur) < Col(g, to) -> 0
    [] Col(g, cur) > Col(g, to) -> 1
    [] Col(g, cur) = Col(g, to) /\ Row(g, cur) < Row(g, to) -> 2
    [] OTHER -> 3
XyWireless(g, p, dest) ==
  CASE p.at = dest -> Eject(g)
    [] p.at # dest /\ ByWire(g, p.at, dest) -> XyTo(g, p.at, dest)
    [] OTHER -> IF p.at = HubOf(g, p.at) /\ p.via # ToHub THEN ToHub ELSE XyTo(g, p.at, HubOf(g, p.at))

(* The table of copies: which destinations leave by which output, by wire and   *)
(* by air.  The VCs of a packet for several nodes are not restricted.         *)
Copies(g, p, wired, air) ==
  {Leg([p EXCEPT !.dests = {x[2] : x \in {y \in wired : y[1] = port}},
                 !.air = {x[2] : x \in {y \in air : y[1] = port}}], {To(port, <<0, g.vcs - 1>>)}) :
     port \in {x[1] : x \in wired \cup air}}

(* At the source each destination goes its cheaper way.  Later those by wire     *)
(* are routed one by one and those by air all as the first of them.            *)
DimOrderWmesh(g, p, r) ==
  CASE ~g.multicast -> {Only(p, XyWireless(g, p, Dest(p)), r)}
    [] g.multicast /\ p.at = p.src ->
         LET wired == {d \in p.dests : d = p.at \/ ByWire(g, p.at, d)}
         IN  {Copies(g, p, {<<XyWireless(g, p, d), d>> : d \in wired},
                     {<<XyWireless(g, p, d), d>> : d \in p.dests \ wired})}
    [] OTHER -> {Copies(g, p, {<<XyWireless(g, p, d), d>> : d \in p.dests},
                        {<<XyWireless(g, p, first), d>> : d \in p.air}) :
                   first \in IF p.air = {} THEN {p.at} ELSE p.air}

(* dim_order_mesh for several nodes.                                        *)
DimOrderMulticast(g, p, r) ==
  {Copies(g, p, {<<DorMesh(g, p.at, d, FALSE), d>> : d \in p.dests}, {})}

(* A copy that a hub has sent to all the others goes on from those that are      *)
(* the hub of some destination, for these by wire.                           *)
CrossedWhole(g, q) ==               \* mutant: for all that were to go by air
  {[q EXCEPT !.at = h, !.from = q.at, !.via = ToHub,
             !.dests = IF g.multicast THEN q.air ELSE q.dests, !.air = {}] :
     h \in {HubOf(g, d) : d \in IF g.multicast THEN q.air ELSE q.dests} \ {q.at}}
Crossed(g, q) ==
  LET To1(h) == [q EXCEPT !.at = h, !.from = q.at, !.via = ToHub,
                          !.dests = {d \in q.air : HubOf(g, d) = h}, !.air = {}]
  IN  IF ~g.multicast THEN {[q EXCEPT !.at = HubOf(g, Dest(q)), !.from = q.at, !.via = ToHub]} \ {q}
      ELSE {To1(h) : h \in {HubOf(g, d) : d \in q.air} \ {q.at}}
=============================================================================
