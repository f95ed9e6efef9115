------------------------------ MODULE Dragonfly ------------------------------
(* The dragonfly, networks/dragonfly.cpp: 2p * p + 1 groups of 2p routers with  *)
(* g.p nodes each.  Behind the nodes a router has an output to each other      *)
(* router of its group and p global ones; the global outputs of a group lead   *)
(* to all the other groups in order.                                        *)
EXTENDS Routes

A(g)      == 2 * g.p
Groups(g) == 0 .. A(g) * g.p
DragonflyNodes(g) == 0 .. A(g) * g.p * (A(g) * g.p + 1) - 1
GroupOf(g, v) == v \div A(g)

IsGlobal(g, port) == port >= g.p + A(g) - 1
DragonflyEnd(g, v, port) ==
  LET s == GroupOf(g, v)
      x == v % A(g)
      o == x * g.p + (port - g.p - (A(g) - 1))
      i == port - g.p
      d == IF o >= s THEN o + 1 ELSE o
  IN  CASE port < g.p -> Node(v * g.p + port)
        [] port >= g.p /\ ~IsGlobal(g, port) -> Router(s * A(g) + (IF i >= x THEN i + 1 ELSE i))
        [] OTHER -> Router(d * A(g) + (IF d > s THEN s ELSE s - 1) \div g.p)
DragonflyOutputs(g, v) == 0 .. 2 * g.p + A(g) - 2

(* dragonfly_port: through the router of the group that holds the global       *)
(* output to the group of the destination.                                  *)
DragonflyPort(g, v, node) ==
  LET s == GroupOf(g, v)
      d == GroupOf(g, node \div g.p)
      o == IF s > d THEN d ELSE d - 1
      via == IF s = d THEN node \div g.p ELSE o \div g.p + s * A(g)
  IN  CASE v = node \div g.p -> node % g.p
        [] v # node \div g.p /\ v = via -> g.p + A(g) - 1 + (o % g.p)
        [] OTHER -> (via % A(g)) + g.p - (IF v < via THEN 1 ELSE 0)

(* The VC is the phase: 1 from the global channel on.  Whatever the phase the   *)
(* packet had before, it begins with 0, in its own group too.                *)
Numbered(g, q, port) == Only(q, port, <<q.ph, q.ph>>)
MinDragonfly(g, p, r) ==
  LET out == DragonflyPort(g, p.at, Dest(p))
  IN  {Numbered(g, [p EXCEPT !.ph = IF IsGlobal(g, out) THEN 1 ELSE IF Injected(p) THEN 0 ELSE @], out)}

(* Phase 0 is the way to a node drawn at the source, taken or not by the        *)
(* credits, 1 the way to the destination and 2 that from its global channel on. *)
UgalStart(g, p) ==
  IF GroupOf(g, Dest(p) \div g.p) = GroupOf(g, p.at) THEN {[p EXCEPT !.ph = 2]}
  ELSE {[p EXCEPT !.ph = 1]}
         \cup {[p EXCEPT !.ph = 0, !.intm = i] :
                 i \in {i \in DragonflyNodes(g) : GroupOf(g, i \div g.p) # GroupOf(g, p.at)}}
UgalDragonfly(g, p, r) ==
  LET There(q) == IF q.ph = 0 /\ q.at = q.intm \div g.p THEN [q EXCEPT !.ph = 1] ELSE q
      Way(q) == LET out == DragonflyPort(g, q.at, IF q.ph = 0 THEN q.intm ELSE Dest(q))
                IN  Numbered(g, [q EXCEPT !.ph = IF @ = 1 /\ IsGlobal(g, out) THEN 2 ELSE @], out)
  IN  {Way(There(q)) : q \in IF Injected(p) THEN UgalStart(g, p) ELSE {p}}

(* A group is left from VC 0 and entered in VC 1.                            *)
DragonflyRank(g, p) == 3 * p.vc + (IF IsGlobal(g, p.via) THEN 1 ELSE 2)
=============================================================================
