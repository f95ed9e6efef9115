-------------------------------- MODULE Cubes --------------------------------
(* Meshes and tori, networks/kncube.cpp, and the routing functions of         *)
(* routefunc.cpp for them.  A network has g.k nodes in each of g.n            *)
(* dimensions.  Output 2 * d of a router leads right in dimension d, output    *)
(* 2 * d + 1 left, and 2 * n to the node.                                   *)
EXTENDS Routes

Nodes(g)    == 0 .. g.k ^ g.n - 1
CubeOutputs(g) == 0 .. 2 * g.n
Dims(g)     == 0 .. g.n - 1
Eject(g)    == 2 * g.n
At(g, v, d) == Digit(g.k, v, d)

(* The neighbours of a router: all rings are closed, in a mesh too.           *)
RightNode(g, v, d) == IF At(g, v, d) = g.k - 1 THEN v - (g.k - 1) * g.k^d ELSE v + g.k^d
LeftNode(g, v, d)  == IF At(g, v, d) = 0 THEN v + (g.k - 1) * g.k^d ELSE v - g.k^d
Neighbour(g, v, port) ==
  IF port % 2 = 0 THEN RightNode(g, v, port \div 2) ELSE LeftNode(g, v, port \div 2)

CubeEnd(g, v, port) == IF port = Eject(g) THEN Node(v) ELSE Router(Neighbour(g, v, port))

(* in_channel: what leaves to the right enters from the left, so that the      *)
(* number of the input is that of the output back.                          *)
Back(port)  == IF port % 2 = 0 THEN port + 1 ELSE port - 1
InPort(g, p) == IF Injected(p) THEN Eject(g) ELSE Back(p.via)

-----------------------------------------------------------------------------
(* dor_next_mesh: the lowest dimension left, or the highest.                 *)
Left(g, a, b) == {d \in Dims(g) : At(g, a, d) # At(g, b, d)}
Toward(g, cur, dest, d) == IF At(g, cur, d) < At(g, dest, d) THEN 2 * d ELSE 2 * d + 1
DorMesh(g, cur, dest, descending) ==
  LET ds == Left(g, cur, dest)
  IN  IF ds = {} THEN Eject(g)
      ELSE Toward(g, cur, dest, IF descending THEN Max(ds) ELSE Min(ds))

(* dor_next_torus: the shorter way, either when both are as short, and on      *)
(* entering a dimension the half of the VCs to use there; Kept when the       *)
(* packet just goes on.                                                    *)
Kept == -1
Shorter(g, cur, dest, d) ==
  LET twice == 2 * ((At(g, dest, d) - At(g, cur, d) + g.k) % g.k)
  IN  IF twice < g.k THEN {0} ELSE IF twice > g.k THEN {1} ELSE {0, 1}
PartitionsAny(g, c, t, dir, balance) == {0}     \* mutant: no dateline
Partitions(g, c, t, dir, balance) ==
  LET mid == (g.k - 1) \div 2
      wraps == IF dir = 0 THEN c > t ELSE c < t
      halves == IF dir = 0 THEN c <= mid /\ t > mid ELSE c > mid /\ t <= mid
  IN  IF ~balance THEN IF c > t THEN {1} ELSE {0}
      ELSE IF wraps THEN {1} ELSE IF halves THEN {0} ELSE {0, 1}
DorTorus(g, cur, dest, in, balance) ==
  LET ds == Left(g, cur, dest)
      d == Min(ds)
  IN  IF ds = {} THEN {<<Eject(g), Kept>>}
      ELSE IF in \div 2 = d THEN {<<Back(in), Kept>>}
      ELSE UNION {{<<2 * d + dir, part>> :
                      part \in Partitions(g, At(g, cur, d), At(g, dest, d), dir, balance)} :
                  dir \in Shorter(g, cur, dest, d)}

-----------------------------------------------------------------------------
(* The functions for meshes.  What hangs on the credits of other packets is a  *)
(* free choice.                                                            *)
DimOrderMesh(g, p, r) == {Only(p, DorMesh(g, p.at, Dest(p), FALSE), r)}

XyYxMesh(g, p, r) ==
  IF p.at = Dest(p) THEN {Only(p, Eject(g), r)}
  ELSE {Only(p, DorMesh(g, p.at, Dest(p), ~xy), Class(r, ~xy)) :
          xy \in IF Injected(p) THEN BOOLEAN ELSE {p.vc < r[1] + Half(r)}}
AdaptiveXyYxMesh(g, p, r) == XyYxMesh(g, p, r)

DimOrderNiMesh(g, p, r) ==
  {Only(p, DorMesh(g, p.at, Dest(p), FALSE),
        IF p.at = Dest(p) THEN r ELSE Share(r, g.k ^ g.n, Dest(p)))}

DimOrderPniMesh(g, p, r) ==
  LET port == DorMesh(g, p.at, Dest(p), FALSE)
  IN  {Only(p, port, IF p.at = Dest(p) THEN r ELSE Share(r, g.k, At(g, Dest(p), port \div 2)))}

(* Two phases: first to a node drawn at the source, then to the destination.  *)
Phased(p, intms) ==
  LET drawn == IF Injected(p) THEN {[p EXCEPT !.ph = 0, !.intm = i] : i \in intms} ELSE {p}
  IN  {IF q.ph = 0 /\ q.at = q.intm THEN [q EXCEPT !.ph = 1] ELSE q : q \in drawn}
Aim(p) == IF p.ph = 0 THEN p.intm ELSE Dest(p)

(* rand_min_intr_mesh: a node of the box between two others.                  *)
Between(g, a, b) ==
  {v \in Nodes(g) : \A d \in Dims(g) :
     At(g, v, d) \in Min({At(g, a, d), At(g, b, d)}) .. Max({At(g, a, d), At(g, b, d)})}

PhasedMesh(g, p, r, intms) ==
  {Only(q, DorMesh(g, q.at, Aim(q), FALSE), IF q.at = Dest(q) THEN r ELSE Class(r, q.ph = 1)) :
     q \in Phased(p, intms)}
RommMesh(g, p, r)    == PhasedMesh(g, p, r, Between(g, p.at, Dest(p)))
ValiantMesh(g, p, r) == PhasedMesh(g, p, r, Nodes(g))
RommNiMesh(g, p, r) ==
  {Only(q, DorMesh(g, q.at, Aim(q), FALSE),
        IF q.at = Dest(q) THEN r ELSE Share(r, g.k ^ g.n, Dest(q))) :
     q \in Phased(p, Between(g, p.at, Dest(p)))}

InVc(p, r) == IF Injected(p) THEN r[2] ELSE p.vc

(* The way of escape is in dimension order, with the arguments of AddRange       *)
(* taken as they stand: VCs 0 to the first one at the priority of the first     *)
(* one's number.  A packet that has not taken it may go nearer in another VC, in *)
(* the lowest dimension left, for the offers of the others are not kept.        *)
MinAdaptMesh(g, p, r) ==
  LET escape == Prior(DorMesh(g, p.at, Dest(p), FALSE), <<0, r[1]>>, r[1])
      nearer == Prior(Toward(g, p.at, Dest(p), Min(Left(g, p.at, Dest(p)))), <<r[1] + 1, r[2]>>, 1)
  IN  IF p.at = Dest(p) THEN {Only(p, Eject(g), r)}
      ELSE {Outcome(p, IF InVc(p, r) = r[1] THEN {escape} ELSE AddRange({escape}, nearer))}

(* One plane at a time: the first dimension left in the upper third of the VCs, *)
(* and the next one in the first third while that increases, in the second    *)
(* while it decreases, an offer that is not kept.  Links never fail (see the     *)
(* README).  The dimension after the last is the first, of which there is then  *)
(* nothing left to see.                                                    *)
PlanarAdaptMesh(g, p, r) ==
  LET third == Width(r) \div 3
      skip(d) == InPort(g, p) \div 2 = 0 /\ d = 0 /\ p.vc < r[1] + 2 * third
      d1 == Min({d \in Left(g, p.at, Dest(p)) : ~skip(d)})
      up == At(g, p.at, d1) < At(g, Dest(p), d1)
      lo == IF up THEN r[1] ELSE r[1] + third
      second == IF d1 + 1 \in Left(g, p.at, Dest(p))
                THEN {Toward(g, p.at, Dest(p), d1 + 1)} \ {InPort(g, p)} ELSE {}
  IN  IF p.at = Dest(p) THEN {Only(p, Eject(g), r)}
      ELSE LET first == {To(Toward(g, p.at, Dest(p), d1), <<r[1] + 2 * third, r[2]>>)}
           IN  {Outcome(p, IF second = {} THEN first
                           ELSE AddRange(first, To(Min(second), <<lo, lo + third - 1>>)))}

(* Every way nearer is added, the lowest dimension first, which alone is kept.  *)
ChaosMesh(g, p) ==
  {Only(p, DorMesh(g, p.at, Dest(p), FALSE), <<0, 0>>)}

-----------------------------------------------------------------------------
(* The functions for tori.                                                 *)
Parted(p, part) == IF part = Kept THEN p ELSE [p EXCEPT !.ph = part]
DimTorus(g, p, r, balance) ==
  {Only(Parted(p, x[2]), x[1],
        IF p.at = Dest(p) THEN r ELSE Class(r, Parted(p, x[2]).ph # 0)) :
     x \in DorTorus(g, p.at, Dest(p), InPort(g, p), balance)}
DimOrderTorus(g, p, r)    == DimTorus(g, p, r, FALSE)
DimOrderBalTorus(g, p, r) == DimTorus(g, p, r, TRUE)
DimOrderNiTorus(g, p, r) ==
  {Only(p, x[1], IF p.at = Dest(p) THEN r ELSE Share(r, g.k ^ g.n, Dest(p))) :
     x \in DorTorus(g, p.at, Dest(p), InPort(g, p), FALSE)}

(* ph is 2 * phase + ring_part, and ring_part, which dor_next_torus leaves      *)
(* alone when the packet just goes on, is whatever is on the stack.          *)
ValiantTorus(g, p, r) ==
  LET drawn == IF Injected(p) THEN {[p EXCEPT !.ph = 0, !.intm = i] : i \in Nodes(g)} ELSE {p}
      Ring(q) ==
        LET there == q.ph \div 2 = 0 /\ q.at = q.intm
            phase == IF there THEN 1 ELSE q.ph \div 2
            aim == IF phase = 0 THEN q.intm ELSE Dest(q)
        IN  {Only([q EXCEPT !.ph = 2 * phase + part], x[1],
                  IF q.at = Dest(q) THEN r ELSE Class(Class(r, part = 1), phase = 1)) :
               x \in DorTorus(g, q.at, aim, IF there THEN Eject(g) ELSE InPort(g, q), FALSE),
               part \in {0, 1}}
  IN  UNION {Ring(q) : q \in drawn}

(* The same with VCs for each destination.  But ph is taken for the phase, which  *)
(* it is not: only a packet in ring part 0 aims at the node between, and none    *)
(* is ever in phase 1.                                                     *)
ValiantNiTorus(g, p, r) ==
  LET drawn == IF Injected(p) THEN {[p EXCEPT !.intm = i] : i \in Nodes(g)} ELSE {p}
      phase == IF Injected(p) THEN 0 ELSE p.ph \div 2
      own   == Share(r, Cardinality(Nodes(g)), Dest(p))
      Ring(q) ==
        LET there == q.ph = 0 /\ q.at = q.intm
            aim == IF q.ph = 0 /\ ~there THEN q.intm ELSE Dest(q)
        IN  {Only([q EXCEPT !.ph = 2 * phase + part], x[1],
                  IF q.at = Dest(q) THEN r ELSE Class(Class(own, part = 1), phase = 1)) :
               x \in DorTorus(g, q.at, aim, IF there THEN Eject(g) ELSE InPort(g, q), FALSE),
               part \in {0, 1}}
  IN  UNION {Ring(q) : q \in drawn}

(* Two VCs of escape by partition, and the fourth VC, which is left for good    *)
(* when an escape VC is taken, for the nearer in the lowest dimension left.    *)
MinAdaptTorus(g, p, r) ==
  LET free == Injected(p) \/ p.vc > r[1] + 1
      in == IF free THEN Eject(g) ELSE InPort(g, p)
      d == Min(Left(g, p.at, Dest(p)))
      near == Prior(2 * d + Max(Shorter(g, p.at, Dest(p), d)), <<r[1] + 3, r[1] + 3>>, 1)
  IN  IF p.at = Dest(p) THEN {Only(p, Eject(g), r)}
      ELSE {LET q == Parted(p, x[2])
                e == IF q.ph = 0 THEN r[1] ELSE r[1] + 1
            IN  Outcome(q, AddRange(IF free THEN {near} ELSE {}, To(x[1], <<e, e>>))) :
              x \in DorTorus(g, p.at, Dest(p), in, FALSE)}

(* Both ways round are added when they are as short, and every dimension, but   *)
(* the lowest dimension and the way to the right come first.                 *)
ChaosTorus(g, p) ==
  LET d == Min(Left(g, p.at, Dest(p)))
  IN  IF p.at = Dest(p) THEN {Only(p, Eject(g), <<0, 0>>)}
      ELSE {Only(p, 2 * d + Min(Shorter(g, p.at, Dest(p), d)), <<0, 0>>)}

-----------------------------------------------------------------------------
(* The order of the channels.  In a dimension it is that of the way; in a torus  *)
(* the ring is opened where the packets of the VC do not pass: at the dateline  *)
(* between k - 1 and 0, or opposite to it.                                  *)
Upstream(g, p) == LET x == At(g, p.from, p.via \div 2) IN IF p.via % 2 = 0 THEN x ELSE g.k - 1 - x
InOrder(g, p, descending) ==
  LET d == p.via \div 2 IN (IF descending THEN g.n - 1 - d ELSE d) * g.k
MeshRank(g, p, descending, phase) == phase * g.n * g.k + InOrder(g, p, descending) + Upstream(g, p)
TorusRank(g, p, crosses) ==
  InOrder(g, p, FALSE) + (IF crosses THEN (Upstream(g, p) + g.k \div 2) % g.k ELSE Upstream(g, p))

(* A VC of one destination alone is ordered by the distance that is left.      *)
Apart(g, a, b, d) ==
  LET x == (At(g, b, d) - At(g, a, d) + g.k) % g.k
  IN  IF g.rf = "dim_order_ni_torus" THEN Min({x, g.k - x})
      ELSE Max({At(g, a, d), At(g, b, d)}) - Min({At(g, a, d), At(g, b, d)})
NiRank(g, p) == -MapThenSumSet(LAMBDA d : Apart(g, p.at, Dest(p), d), Dims(g))
=============================================================================
