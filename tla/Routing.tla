------------------------------- MODULE Routing -------------------------------
(* A packet on its way through a network: at each router the routing function   *)
(* makes its offers and the packet takes one of them, copies of a packet for    *)
(* several nodes each on their own.  Networks is a set of settings: rf, the     *)
(* routing function, is also the kind of network.  A setting names the sources  *)
(* srcs and the sets of destinations dests to try.                           *)
EXTENDS WMesh
T == INSTANCE Trees
M == INSTANCE CMesh
F == INSTANCE FlatFly
D == INSTANCE Dragonfly
N == INSTANCE AnyNet
P == INSTANCE Patterns

CONSTANT Networks

(* The network; the copies that wait for a route and those that have one; the   *)
(* destinations and those reached.                                          *)
VARIABLES net, waiting, routed, want, got
vars == <<net, waiting, routed, want, got>>

Kind(g) ==
  CASE g.rf = "dest_tag_fly" -> "fly"
    [] g.rf \in {"fattree_nca", "fattree_anca"} -> "fattree"
    [] g.rf = "qtree_nca" -> "qtree"
    [] g.rf \in {"tree4_nca", "tree4_anca"} -> "tree4"
    [] g.rf \in {"xy_yx_cmesh", "xy_yx_no_express_cmesh", "dor_cmesh", "dor_no_express_cmesh"} -> "cmesh"
    [] g.rf \in {"ran_min_flatfly", "xyyx_flatfly", "adaptive_xyyx_flatfly", "valiant_flatfly",
                 "ugal_flatfly", "ugal_pni_flatfly", "ugal_xyyx_flatfly"} -> "flatfly"
    [] g.rf \in {"min_dragonflynew", "ugal_dragonflynew"} -> "dragonfly"
    [] g.rf = "min_anynet" -> "anynet"
    [] g.rf = "dim_order_wmesh" -> "wmesh"
    [] g.rf \in {"dim_order_torus", "dim_order_ni_torus", "dim_order_bal_torus", "valiant_torus", "valiant_ni_torus",
                 "min_adapt_torus", "chaos_torus"} -> "torus"
    [] OTHER -> "mesh"

(* Where a node is attached, the outputs of a router and where they lead.      *)
Attached(g, d) ==
  CASE Kind(g) = "fly"       -> T!FlyStart(g, d)
    [] Kind(g) = "fattree"   -> T!FatTreeStart(g, d)
    [] Kind(g) = "qtree"     -> T!QTreeStart(g, d)
    [] Kind(g) = "tree4"     -> T!Tree4Start(g, d)
    [] Kind(g) = "cmesh"     -> M!NodeToRouter(g, d)
    [] Kind(g) = "flatfly"   -> F!RouterOf(g, d)
    [] Kind(g) = "dragonfly" -> d \div g.p
    [] Kind(g) = "anynet"    -> N!AnyStart(g, d)
    [] OTHER -> d
Outputs(g, v) ==
  CASE Kind(g) = "fly"       -> T!FlyOutputs(g, v)
    [] Kind(g) = "fattree"   -> T!FatTreeOutputs(g, v)
    [] Kind(g) = "qtree"     -> T!QTreeOutputs(g, v)
    [] Kind(g) = "tree4"     -> T!Tree4Outputs(g, v)
    [] Kind(g) = "cmesh"     -> M!CMeshOutputs(g, v)
    [] Kind(g) = "flatfly"   -> F!FlatFlyOutputs(g, v)
    [] Kind(g) = "dragonfly" -> D!DragonflyOutputs(g, v)
    [] Kind(g) = "anynet"    -> N!AnyOutputs(g, v)
    [] Kind(g) = "wmesh"     -> WMeshOutputs(g, v)
    [] OTHER -> CubeOutputs(g)
End(g, v, port) ==
  CASE Kind(g) = "fly"       -> T!FlyEnd(g, v, port)
    [] Kind(g) = "fattree"   -> T!FatTreeEnd(g, v, port)
    [] Kind(g) = "qtree"     -> T!QTreeEnd(g, v, port)
    [] Kind(g) = "tree4"     -> T!Tree4End(g, v, port)
    [] Kind(g) = "cmesh"     -> M!CMeshEnd(g, v, port)
    [] Kind(g) = "flatfly"   -> F!FlatFlyEnd(g, v, port)
    [] Kind(g) = "dragonfly" -> D!DragonflyEnd(g, v, port)
    [] Kind(g) = "anynet"    -> N!AnyEnd(g, v, port)
    [] OTHER -> CubeEnd(g, v, port)

(* The table gRoutingFunctionMap.                                           *)
Route(g, p, r) ==
  CASE g.rf = "dim_order_mesh" -> IF g.multicast THEN DimOrderMulticast(g, p, r) ELSE DimOrderMesh(g, p, r)
    [] g.rf = "xy_yx_mesh" -> XyYxMesh(g, p, r)
    [] g.rf = "adaptive_xy_yx_mesh" -> AdaptiveXyYxMesh(g, p, r)
    [] g.rf = "dim_order_ni_mesh" -> DimOrderNiMesh(g, p, r)
    [] g.rf = "dim_order_pni_mesh" -> DimOrderPniMesh(g, p, r)
    [] g.rf = "romm_mesh" -> RommMesh(g, p, r)
    [] g.rf = "romm_ni_mesh" -> RommNiMesh(g, p, r)
    [] g.rf = "valiant_mesh" -> ValiantMesh(g, p, r)
    [] g.rf = "min_adapt_mesh" -> MinAdaptMesh(g, p, r)
    [] g.rf = "planar_adapt_mesh" -> PlanarAdaptMesh(g, p, r)
    [] g.rf = "chaos_mesh" -> ChaosMesh(g, p)
    [] g.rf = "dim_order_wmesh" -> DimOrderWmesh(g, p, r)
    [] g.rf = "dim_order_torus" -> DimOrderTorus(g, p, r)
    [] g.rf = "dim_order_ni_torus" -> DimOrderNiTorus(g, p, r)
    [] g.rf = "dim_order_bal_torus" -> DimOrderBalTorus(g, p, r)
    [] g.rf = "valiant_torus" -> ValiantTorus(g, p, r)
    [] g.rf = "valiant_ni_torus" -> ValiantNiTorus(g, p, r)
    [] g.rf = "min_adapt_torus" -> MinAdaptTorus(g, p, r)
    [] g.rf = "chaos_torus" -> ChaosTorus(g, p)
    [] g.rf = "dest_tag_fly" -> T!DestTagFly(g, p, r)
    [] g.rf = "fattree_nca" -> T!FatTreeNca(g, p, r)
    [] g.rf = "fattree_anca" -> T!FatTreeAnca(g, p, r)
    [] g.rf = "qtree_nca" -> T!QTreeNca(g, p, r)
    [] g.rf = "tree4_nca" -> T!Tree4Nca(g, p, r)
    [] g.rf = "tree4_anca" -> T!Tree4Anca(g, p, r)
    [] g.rf = "xy_yx_cmesh" -> M!XyYxCmesh(g, p, r)
    [] g.rf = "xy_yx_no_express_cmesh" -> M!XyYxNoExpressCmesh(g, p, r)
    [] g.rf = "dor_cmesh" -> M!DorCmesh(g, p, r)
    [] g.rf = "dor_no_express_cmesh" -> M!DorNoExpressCmesh(g, p, r)
    [] g.rf = "ran_min_flatfly" -> F!MinFlatfly(g, p, r)
    [] g.rf = "xyyx_flatfly" -> F!XyyxFlatfly(g, p, r)
    [] g.rf = "adaptive_xyyx_flatfly" -> F!AdaptiveXyyxFlatfly(g, p, r)
    [] g.rf = "valiant_flatfly" -> F!ValiantFlatfly(g, p, r)
    [] g.rf = "ugal_flatfly" -> F!UgalFlatfly(g, p, r)
    [] g.rf = "ugal_pni_flatfly" -> F!UgalPniFlatfly(g, p, r)
    [] g.rf = "ugal_xyyx_flatfly" -> F!UgalXyyxFlatfly(g, p, r)
    [] g.rf = "min_dragonflynew" -> D!MinDragonfly(g, p, r)
    [] g.rf = "ugal_dragonflynew" -> D!UgalDragonfly(g, p, r)
    [] g.rf = "min_anynet" -> N!MinAnynet(g, p, r)

-----------------------------------------------------------------------------
(* The sets of destinations of a source: those listed, or what a pattern draws. *)
Wanted(g, src) == IF "pattern" \in DOMAIN g THEN {{d} : d \in P!Dests(g.pattern, src)} ELSE g.dests

Init ==
  /\ \E g \in Networks :
       net = CASE Kind(g) = "anynet" -> N!BuildNet(g)
               [] Kind(g) = "wmesh"  -> BuildWMesh(g)
               [] OTHER              -> g
  /\ \E src \in net.srcs : \E ds \in Wanted(net, src) :
       /\ src \notin ds
       /\ want = ds
       /\ waiting = {[Packet(src, src, Attached(net, src), VcRange(net)[1]) EXCEPT !.dests = ds]}
  /\ routed = {} /\ got = {}

RouteIt(p) ==
  /\ \E o \in Route(net, p, VcRange(net)) : routed' = routed \cup o
  /\ waiting' = waiting \ {p}
  /\ UNCHANGED <<net, want, got>>

(* The channel that a leg takes, and the packet at its far end.              *)
Through(q, port, vc) == [q EXCEPT !.from = q.at, !.via = port, !.vc = vc]
Moved(q) == LET e == End(net, q.at, q.via) IN
  CASE Kind(net) = "wmesh" /\ q.via = ToHub -> Crossed(net, q)
    [] ~(Kind(net) = "wmesh" /\ q.via = ToHub) /\ e[1] = "router" -> {[q EXCEPT !.at = e[2]]}
    [] OTHER -> {}
Ejected(q) == LET e == End(net, q.at, q.via) IN
  IF ~(Kind(net) = "wmesh" /\ q.via = ToHub) /\ e[1] = "node" THEN {e[2]} ELSE {}

Go(l) ==
  /\ \E f \in l.offers : \E vc \in f.lo .. f.hi :
       LET q == Through(l.p, f.port, vc)
       IN  waiting' = waiting \cup Moved(q) /\ got' = got \cup Ejected(q)
  /\ routed' = routed \ {l}
  /\ UNCHANGED <<net, want>>

Next == (\E p \in waiting : RouteIt(p)) \/ (\E l \in routed : Go(l))
Spec == Init /\ [][Next]_vars
FairSpec == Spec /\ WF_vars(Next)

-----------------------------------------------------------------------------
(* Functions that promise no order of their channels, or do not keep one: see    *)
(* the README.                                                             *)
Unordered == {"chaos_torus", "min_anynet", "dim_order_wmesh", "valiant_mesh", "valiant_torus",
              "valiant_ni_torus", "ugal_dragonflynew"}
Astray == {"valiant_ni_torus"}
Lowest(g)  == VcRange(g)[1]
InUpper(g, p) == p.vc >= Lowest(g) + Half(VcRange(g))
InQuarter(g, p) == (p.vc - Lowest(g)) % Half(VcRange(g)) >= Half(VcRange(g)) \div 2
Rank(g, p) ==
  CASE g.rf \in {"dim_order_mesh", "dim_order_pni_mesh", "min_adapt_mesh", "planar_adapt_mesh", "chaos_mesh"} ->
          MeshRank(g, p, FALSE, 0)
    [] g.rf \in {"xy_yx_mesh", "adaptive_xy_yx_mesh"} -> MeshRank(g, p, InUpper(g, p), 0)
    [] g.rf = "romm_mesh" -> MeshRank(g, p, FALSE, IF InUpper(g, p) THEN 1 ELSE 0)
    [] g.rf \in {"dim_order_ni_mesh", "romm_ni_mesh", "dim_order_ni_torus"} -> NiRank(g, p)
    [] g.rf = "dim_order_torus" -> TorusRank(g, p, (p.via % 2 = 0) = InUpper(g, p))
    [] g.rf = "dim_order_bal_torus" -> TorusRank(g, p, InUpper(g, p))
    [] g.rf = "min_adapt_torus" -> TorusRank(g, p, (p.via % 2 = 0) = (p.vc = Lowest(g) + 1))
    [] Kind(g) = "fly" -> T!FlyRank(p)
    [] Kind(g) \in {"fattree", "qtree", "tree4"} -> T!TreeRank(g, p)
    [] g.rf \in {"xy_yx_cmesh", "xy_yx_no_express_cmesh"} -> M!CMeshRank(g, p, IF InUpper(g, p) THEN 1 ELSE 0)
    [] g.rf \in {"dor_cmesh", "dor_no_express_cmesh"} -> M!CMeshRank(g, p, 0)
    [] g.rf = "ran_min_flatfly" -> F!FlatFlyRank(g, p, 0, FALSE)
    [] g.rf \in {"xyyx_flatfly", "adaptive_xyyx_flatfly"} -> F!FlatFlyRank(g, p, 0, InUpper(g, p))
    [] g.rf \in {"valiant_flatfly", "ugal_flatfly", "ugal_pni_flatfly"} ->
         F!FlatFlyRank(g, p, IF InUpper(g, p) THEN 1 ELSE 0, FALSE)
    [] g.rf = "ugal_xyyx_flatfly" -> F!FlatFlyRank(g, p, IF InQuarter(g, p) THEN 1 ELSE 0, InUpper(g, p))
    [] g.rf = "min_dragonflynew" -> D!DragonflyRank(g, p)

(* The VCs by which a packet can always get away.                            *)
Escapes(g) ==
  CASE g.rf = "min_adapt_mesh" -> {Lowest(g)}
    [] g.rf = "min_adapt_torus" -> {Lowest(g), Lowest(g) + 1}
    [] OTHER -> 0 .. g.vcs - 1

-----------------------------------------------------------------------------
(* Every leg has a channel to take: its outputs exist and lead on, or to a node   *)
(* it is for, no offer is without VC, and none uses a VC of another type.       *)
AlwaysARoute ==
  \A l \in routed :
    /\ l.offers # {}
    /\ \A f \in l.offers :
         /\ f.lo <= f.hi
         /\ f.lo >= (IF net.multicast THEN 0 ELSE VcRange(net)[1])
         /\ f.hi <= (IF net.multicast THEN net.vcs - 1 ELSE VcRange(net)[2])
         /\ f.port \in Outputs(net, l.p.at)
         /\ Ejected(Through(l.p, f.port, f.lo)) \subseteq l.p.dests \ got
         /\ Kind(net) \in {"mesh", "wmesh"} /\ f.port < 2 * net.n => LET d == f.port \div 2 IN
              At(net, l.p.at, d) # (IF f.port % 2 = 0 THEN net.k - 1 ELSE 0)

(* A traffic pattern sends to nodes that exist; a permutation reaches each of     *)
(* them once and the same whatever is drawn, and the bit complement, reversal    *)
(* and transposition undo themselves; hot spots have the shares of their rates.  *)
PatternsSpread == "pattern" \in DOMAIN net /\ routed = {} /\ got = {} => P!Promises(net.pattern)

(* No circle of channels in which packets wait for each other: a packet always    *)
(* has an escape VC among its offers, and once it is in one it goes on in       *)
(* escape VCs only, and in their order.                                     *)
Ascends ==
  \A l \in routed :
    net.rf \notin Unordered =>
      /\ \E f \in l.offers : f.lo \in Escapes(net)
      /\ ~Injected(l.p) /\ l.p.vc \in Escapes(net) =>
           \A f \in l.offers : \A vc \in f.lo .. f.hi : \A q \in Moved(Through(l.p, f.port, vc)) :
             vc \in Escapes(net) /\ Rank(net, l.p) < Rank(net, q)

(* Copies for a hub keep together: all destinations by air of a copy are still    *)
(* worth the air where it is and go the same way, and what is to go by wire is   *)
(* never sent to a hub, which would forget it.                               *)
AirAgrees ==
  Kind(net) = "wmesh" => \A p \in {x \in waiting : ~Injected(x)} :
    /\ net.multicast => \A d \in p.dests : d = p.at \/ ByWire(net, p.at, d)
    /\ \A d \in p.air : d # p.at /\ ~ByWire(net, p.at, d)

(* Every destination is reached, and nothing goes on for ever, save with       *)
(* valiant_ni_torus, whose packets may pass their destination round after round. *)
Delivered == net.rf \in Astray \/ <>(waiting = {} /\ routed = {} /\ got = want)
=============================================================================
