------------------------------ MODULE MCRouting ------------------------------
(* A small network for each routing function.                               *)
EXTENDS Routing, TLC
Base(rf, vcs, type, srcs, nodes) ==
  [rf |-> rf, vcs |-> vcs, type |-> type, multicast |-> FALSE, srcs |-> srcs, dests |-> {{d} : d \in nodes}]
Cube(rf, k, n, vcs, type) == [k |-> k, n |-> n] @@ Base(rf, vcs, type, 0 .. k^n - 1, 0 .. k^n - 1)
WMeshOf(multicast, srcs, dests) ==
  [k |-> 8, n |-> 2, cuts |-> 2, multicast |-> multicast, srcs |-> srcs, dests |-> dests]
    @@ Base("dim_order_wmesh", 1, "any", {}, {})
FlatFlyOf(rf, k, n, xr, xcount, vcs, srcs, nodes) ==
  [k |-> k, n |-> n, xr |-> xr, yr |-> xr, xcount |-> xcount] @@ Base(rf, vcs, "any", srcs, nodes)
Item(type, id, weight) == [type |-> type, id |-> id, weight |-> weight]
Line(id, body) == [head |-> [type |-> "router", id |-> id], body |-> body]
Lines == <<Line(0, <<Item("node", 0, 0), Item("router", 1, 5), Item("router", 2, 0)>>),
           Line(1, <<Item("node", 1, 0), Item("node", 5, 0), Item("router", 3, 0)>>),
           Line(2, <<Item("node", 3, 0), Item("router", 3, 2)>>),
           Line(3, <<Item("router", 4, 0)>>),
           Line(5, <<Item("node", 4, 0), Item("router", 4, 3)>>),
           [head |-> [type |-> "node", id |-> 2], body |-> <<Item("router", 4, 0)>>]>>
Far2(S) == {{a, b} : a \in S, b \in S}

Pattern(name, nodes, k, n) ==
  [name |-> name, nodes |-> nodes, k |-> k, n |-> n, xr |-> 1, excluded |-> {0, 2},
   hotspots |-> <<1, 0, 5>>, rates |-> <<2, 1, 3>>]
Sent(name, k, n) == [pattern |-> Pattern(name, k^n, k, n)] @@ Cube("dim_order_mesh", k, n, 1, "any")
Patterned ==
  {Sent(name, 4, 2) : name \in {"bitcomp", "transpose", "bitrev", "shuffle", "uniform", "background", "asymmetric", "badperm_yarc", "hotspot"}} \cup
  {Sent(name, 3, 2) : name \in {"tornado", "neighbor", "diagonal"}} \cup
  {Sent("shuffle", 2, 3), Sent("randperm", 2, 2), [Sent("taper64", 8, 2) EXCEPT !.srcs = {0, 27}]} \cup
  {[pattern |-> Pattern("bad_dragon", 72, 2, 1)] @@ [p |-> 2] @@ Base("min_dragonflynew", 2, "any", {0, 71}, {})}

MCNetworks == Patterned \cup
  {Cube("dim_order_mesh", 3, 2, 2, "reply"), Cube("xy_yx_mesh", 3, 2, 4, "reply"), Cube("adaptive_xy_yx_mesh", 3, 2, 2, "any"), Cube("dim_order_ni_mesh", 2, 2, 4, "any"),
   Cube("dim_order_pni_mesh", 3, 2, 3, "any"), Cube("romm_mesh", 3, 2, 2, "any"), Cube("romm_ni_mesh", 2, 2, 4, "any"),
   Cube("valiant_mesh", 2, 2, 2, "any"), Cube("min_adapt_mesh", 3, 2, 3, "any"), Cube("planar_adapt_mesh", 4, 2, 3, "any"),
   Cube("chaos_mesh", 3, 2, 1, "any"), Cube("dim_order_torus", 5, 1, 2, "any"), Cube("dim_order_torus", 4, 2, 2, "any"),
   Cube("dim_order_ni_torus", 4, 1, 4, "any"), Cube("dim_order_bal_torus", 6, 1, 2, "any"),
   Cube("valiant_torus", 4, 1, 4, "any"), [Cube("valiant_ni_torus", 4, 1, 16, "any") EXCEPT !.srcs = {0}], Cube("min_adapt_torus", 4, 2, 4, "any"), Cube("chaos_torus", 4, 1, 1, "any"),
   [Cube("dim_order_mesh", 3, 2, 1, "any") EXCEPT !.multicast = TRUE, !.srcs = {0, 4}, !.dests = Far2(0 .. 8)],
   WMeshOf(FALSE, {0, 9, 27, 50}, {{d} : d \in 0 .. 63}), WMeshOf(TRUE, {0, 9, 28}, {{a, b, c} : a \in {2, 13}, b \in {15, 41, 63}, c \in {10, 13, 41, 45, 63}}),
   [k |-> 2, n |-> 3] @@ Base("dest_tag_fly", 1, "any", 0 .. 7, 0 .. 7),
   [k |-> 2, n |-> 3] @@ Base("fattree_nca", 1, "any", 0 .. 7, 0 .. 7), [k |-> 2, n |-> 4] @@ Base("fattree_anca", 1, "any", {0, 9}, 0 .. 15),
   [k |-> 4, n |-> 3] @@ Base("qtree_nca", 1, "any", 0 .. 63, {0, 5, 17, 63}),
   [k |-> 4, n |-> 3] @@ Base("tree4_nca", 1, "any", {0, 6, 22, 63}, 0 .. 63),
   [k |-> 4, n |-> 3] @@ Base("tree4_anca", 1, "any", {0, 63}, 0 .. 63),
   [k |-> 4] @@ Base("xy_yx_cmesh", 2, "any", {0, 1, 9, 27, 36, 63}, 0 .. 63),
   [k |-> 4] @@ Base("xy_yx_no_express_cmesh", 2, "any", {0, 27}, 0 .. 63),
   [k |-> 8] @@ Base("dor_cmesh", 1, "any", {0, 17, 255}, 0 .. 255),
   [k |-> 4] @@ Base("dor_no_express_cmesh", 1, "any", {0, 27}, 0 .. 63),
   FlatFlyOf("ran_min_flatfly", 4, 2, 2, 4, 1, {0, 6, 63}, 0 .. 63), FlatFlyOf("xyyx_flatfly", 4, 2, 2, 4, 2, {0, 6}, 0 .. 63),
   FlatFlyOf("adaptive_xyyx_flatfly", 3, 3, 1, 3, 2, {0, 7}, 0 .. 26),
   FlatFlyOf("valiant_flatfly", 3, 2, 1, 3, 2, 0 .. 8, 0 .. 8), FlatFlyOf("ugal_flatfly", 3, 2, 1, 3, 2, 0 .. 8, 0 .. 8),
   FlatFlyOf("ugal_pni_flatfly", 4, 2, 2, 4, 8, {0}, {5, 42}), FlatFlyOf("ugal_xyyx_flatfly", 3, 2, 1, 3, 4, 0 .. 8, 0 .. 8),
   [p |-> 2] @@ Base("min_dragonflynew", 2, "any", {0, 5, 34, 71}, 0 .. 71),
   [p |-> 1] @@ Base("ugal_dragonflynew", 3, "any", 0 .. 5, 0 .. 5),
   [lines |-> Lines] @@ Base("min_anynet", 1, "any", 0 .. 5, 0 .. 5)}
=============================================================================
