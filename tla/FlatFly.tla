------------------------------- MODULE FlatFly -------------------------------
(* The flattened butterfly, networks/flatfly_onchip.cpp: g.k ^ g.n routers,    *)
(* each linked to every other one that differs in one digit, with g.xr by     *)
(* g.yr nodes at each.  g.xcount routers lie in a row.                       *)
EXTENDS Routes

Conc(g) == g.xr * g.yr
FlatFlyNodes(g) == 0 .. Conc(g) * g.k ^ g.n - 1
RouterDigit(g, v, d) == Digit(g.k, v, d)

(* flatfly_transformation: the nodes numbered router by router, and the node   *)
(* behind a router and an output.                                          *)
Transformed(g, node) ==
  LET row == g.xcount * g.xr
      x == node % row
      y == node \div row
  IN  ((y \div g.yr) * g.xcount + x \div g.xr) * Conc(g) + g.xr * (y % g.yr) + (x % g.xr)
RouterOf(g, node) == Transformed(g, node) \div Conc(g)
PortOf(g, node)   == Transformed(g, node) % Conc(g)
NodeAt(g, v, port) ==
  (g.xcount * g.xr) * (g.yr * (v \div g.xcount) + port \div g.xr) + g.xr * (v % g.xcount) + (port % g.xr)

(* Each dimension has k - 1 outputs, in the order of the other digits.        *)
DimOf(g, port) == (port - Conc(g)) \div (g.k - 1)
DigitTo(g, v, port) ==
  LET i == (port - Conc(g)) % (g.k - 1)
  IN  IF i >= RouterDigit(g, v, DimOf(g, port)) THEN i + 1 ELSE i
FlatFlyEnd(g, v, port) ==
  IF port < Conc(g) THEN Node(NodeAt(g, v, port))
  ELSE LET d == DimOf(g, port)
       IN  Router(v + (DigitTo(g, v, port) - RouterDigit(g, v, d)) * g.k^d)
FlatFlyOutputs(g, v) == 0 .. Conc(g) + g.n * (g.k - 1) - 1

-----------------------------------------------------------------------------
(* flatfly_outport and flatfly_outport_yx: the output to the lowest, or the     *)
(* highest, digit in which a router differs.                                *)
Differ(g, a, b) == {d \in 0 .. g.n - 1 : RouterDigit(g, a, d) # RouterDigit(g, b, d)}
Outport(g, cur, node, yx) ==
  LET to == RouterOf(g, node)
      d == IF yx THEN Max(Differ(g, cur, to)) ELSE Min(Differ(g, cur, to))
      a == RouterDigit(g, cur, d)
      b == RouterDigit(g, to, d)
  IN  IF cur = to THEN PortOf(g, node)
      ELSE Conc(g) + (g.k - 1) * d + (IF b > a THEN b - 1 ELSE b)

MinFlatfly(g, p, r) == {Only(p, Outport(g, p.at, Dest(p), FALSE), r)}

XyyxFlatfly(g, p, r) ==
  IF p.at = RouterOf(g, Dest(p)) THEN {Only(p, PortOf(g, Dest(p)), r)}
  ELSE {Only(p, Outport(g, p.at, Dest(p), ~xy), Class(r, ~xy)) :
          xy \in IF Injected(p) THEN BOOLEAN ELSE {p.vc < r[1] + Half(r)}}
AdaptiveXyyxFlatfly(g, p, r) == XyyxFlatfly(g, p, r)

(* A node drawn at the source comes first, unless the destination is met.      *)
ValiantFlatfly(g, p, r) ==
  LET drawn == IF Injected(p) THEN {[p EXCEPT !.ph = 0, !.intm = i] : i \in FlatFlyNodes(g)} ELSE {p}
      Phase(q) == IF q.at \in {RouterOf(g, q.intm), RouterOf(g, Dest(q))} THEN [q EXCEPT !.ph = 1] ELSE q
      Way(q) == Only(q, Outport(g, q.at, IF q.ph = 0 THEN q.intm ELSE Dest(q), FALSE),
                     IF q.at = RouterOf(g, Dest(q)) THEN r ELSE Class(r, q.ph = 1))
  IN  {Way(Phase(q)) : q \in drawn}

-----------------------------------------------------------------------------
(* UGAL: phase 0 at the source, 1 on the way to a node between, 2 to the        *)
(* destination.  find_ran_intm draws a digit wherever source and destination   *)
(* differ.  Whether the detour is taken hangs on the credits in use; a detour   *)
(* that ends here is none.                                                 *)
RanIntm(g, src, node) ==
  {i \in FlatFlyNodes(g) : \A d \in 0 .. g.n - 1 :
     d \in Differ(g, RouterOf(g, src), RouterOf(g, node))
       \/ RouterDigit(g, RouterOf(g, i), d) = RouterDigit(g, RouterOf(g, src), d)}
Detours(g, p) ==
  {[p EXCEPT !.ph = 1, !.intm = i] : i \in {i \in RanIntm(g, p.src, Dest(p)) : RouterOf(g, i) # p.at}}
UgalPhase(g, p) ==
  CASE Injected(p) -> IF p.at = RouterOf(g, Dest(p)) THEN {[p EXCEPT !.ph = 0]}
                      ELSE {[p EXCEPT !.ph = 2]} \cup Detours(g, p)
    [] ~Injected(p) /\ p.ph = 1 -> IF p.at = RouterOf(g, p.intm) THEN {[p EXCEPT !.ph = 2]} ELSE {p}
    [] OTHER -> {p}
UgalOut(g, q, yx) == Outport(g, q.at, IF q.ph = 1 THEN q.intm ELSE Dest(q), yx)

UgalFlatfly(g, p, r) ==
  {LET out == UgalOut(g, q, FALSE)
   IN  Only(q, out, IF out >= Conc(g) THEN Class(r, q.ph = 2) ELSE r) : q \in UgalPhase(g, p)}

(* Also one share of the VCs for each digit that comes next.                  *)
NextCoord(g, p, dim) ==
  LET t == Transformed(g, Dest(p))
  IN  IF dim = g.n THEN t % Conc(g) ELSE ((t \div Conc(g)) \div g.k^dim) % g.k
PniRange(g, q, out, r) ==
  IF out >= Conc(g) THEN Share(Class(r, q.ph = 2), g.k, NextCoord(g, q, DimOf(g, out) + 1)) ELSE r
UgalPniFlatfly(g, p, r) ==
  {LET out == UgalOut(g, q, FALSE) IN Only(q, out, PniRange(g, q, out, r)) : q \in UgalPhase(g, p)}

(* The order of the dimensions drawn as well: four classes.                   *)
Quarter(r, xy, ph) ==
  LET c == Class(r, ~xy)  quarter == Half(r) \div 2
  IN  IF ph = 1 THEN <<c[1], c[2] - quarter>> ELSE <<c[1] + quarter, c[2]>>
UgalXyyxFlatfly(g, p, r) ==
  LET Way(q, xy) == LET out == UgalOut(g, q, ~xy)
                    IN  Only(q, out, IF out >= Conc(g) THEN Quarter(r, xy, q.ph) ELSE r)
  IN  {Way(q, xy) : q \in UgalPhase(g, p),
                    xy \in IF Injected(p) THEN BOOLEAN ELSE {p.vc < r[1] + Half(r)}}

-----------------------------------------------------------------------------
(* One hop settles a dimension: they come in order within a phase.            *)
FlatFlyRank(g, p, phase, yx) ==
  phase * g.n + (IF yx THEN g.n - 1 - DimOf(g, p.via) ELSE DimOf(g, p.via))
=============================================================================
