-------------------------------- MODULE CMesh --------------------------------
(* The concentrated mesh, networks/cmesh.cpp: g.k by g.k routers with 2 by 2   *)
(* nodes each.  After the four nodes output 4 of a router leads to +X, 5 to    *)
(* -X, 6 to +Y and 7 to -Y; at an edge the output that has no neighbour is an  *)
(* express channel along the edge over half of it.                          *)
EXTENDS Routes

C == 4

(* d is 0 for x and 1 for y.                                                *)
Coord(g, v, d) == Digit(g.k, v, d)
NodeToRouter(g, node) == (node \div (4 * g.k)) * g.k + (node % (2 * g.k)) \div 2
NodeToPort(g, node)   == 2 * ((node \div (2 * g.k)) % 2) + (node % 2)

Half2(g, x) == IF x < g.k \div 2 THEN x + g.k \div 2 ELSE x - g.k \div 2
With(g, v, d, x) == v + (x - Coord(g, v, d)) * g.k^d

(* The dimension in which an output leads and the coordinate it leads to.     *)
AtEdge(g, v, port) ==
  Coord(g, v, (port - C) \div 2) = IF port % 2 = 0 THEN g.k - 1 ELSE 0
Moves(g, v, port) ==
  LET d == (port - C) \div 2
  IN  IF AtEdge(g, v, port) THEN <<1 - d, Half2(g, Coord(g, v, 1 - d))>>
      ELSE <<d, Coord(g, v, d) + (IF port % 2 = 0 THEN 1 ELSE -1)>>
CMeshEnd(g, v, port) ==
  IF port < C
  THEN Node((2 * g.k) * (2 * Coord(g, v, 1) + port \div 2) + 2 * Coord(g, v, 0) + (port % 2))
  ELSE LET m == Moves(g, v, port) IN Router(With(g, v, m[1], m[2]))
CMeshOutputs(g, v) == 0 .. C + 3

-----------------------------------------------------------------------------
(* cmesh_xy, cmesh_yx and cmesh_next: over a distance of more than far, from   *)
(* an edge along the dimension, by its express channel.                      *)
NextInFar(g, cur, dest, d, far) ==       \* mutant: from any place, by the port of an edge
  LET a == Coord(g, cur, d)  b == Coord(g, dest, d)
  IN  IF a - b > far \/ b - a > far THEN C + 2 * (1 - d) + 1
      ELSE C + 2 * d + (IF a < b THEN 0 ELSE 1)
NextIn(g, cur, dest, d, far) ==
  LET a == Coord(g, cur, d)  b == Coord(g, dest, d)  other == Coord(g, cur, 1 - d)
  IN  IF (a - b > far \/ b - a > far) /\ other \in {0, g.k - 1}
      THEN C + 2 * (1 - d) + (IF other = 0 THEN 1 ELSE 0)
      ELSE C + 2 * d + (IF a < b THEN 0 ELSE 1)
CMeshNext(g, cur, dest, first, far) ==
  NextIn(g, cur, dest, IF Coord(g, cur, first) # Coord(g, dest, first) THEN first ELSE 1 - first, far)
NoExpress(g) == g.k

XyYx(g, p, r, far) ==
  LET to == NodeToRouter(g, Dest(p))
  IN  IF p.at = to THEN {Only(p, NodeToPort(g, Dest(p)), r)}
      ELSE {Only(p, CMeshNext(g, p.at, to, IF xy THEN 0 ELSE 1, far), Class(r, ~xy)) :
              xy \in IF Injected(p) THEN BOOLEAN ELSE {p.vc < r[1] + Half(r)}}
XyYxCmesh(g, p, r)          == XyYx(g, p, r, 1)
XyYxNoExpressCmesh(g, p, r) == XyYx(g, p, r, NoExpress(g))

Dor(g, p, r, far) ==
  LET to == NodeToRouter(g, Dest(p))
  IN  {Only(p, IF p.at = to THEN NodeToPort(g, Dest(p)) ELSE CMeshNext(g, p.at, to, 0, far), r)}
DorCmesh(g, p, r)          == Dor(g, p, r, g.k \div 2 - 1)
DorNoExpressCmesh(g, p, r) == Dor(g, p, r, NoExpress(g))

-----------------------------------------------------------------------------
(* The order of the channels: the first dimension before the second, and in   *)
(* each along the way.                                                     *)
CMeshRank(g, p, first) ==
  LET m == Moves(g, p.from, p.via)
      x == Coord(g, p.from, m[1])
  IN  (IF m[1] = first THEN 0 ELSE g.k) + (IF x < m[2] THEN x ELSE g.k - 1 - x)
=============================================================================
