-------------------------------- MODULE Trees --------------------------------
(* Networks in stages, networks/fly.cpp, fattree.cpp, qtree.cpp and tree4.cpp, *)
(* and the routing functions of routefunc.cpp for them.  A router is          *)
(* <<level, position>>; the nodes are at the first g.k outputs of the last     *)
(* level.                                                                  *)
EXTENDS Routes

(* Digit d of x in base k becomes e.                                        *)
WithDigit(k, x, d, e) == x + (e - Digit(k, x, d)) * k^d

(* The only way for a packet, or one way of several drawn at random.         *)
OneOf(p, ports, r) == {Only(p, port, r) : port \in ports}

-----------------------------------------------------------------------------
(* The butterfly of g.n stages: output o of stage s sets the digit of the     *)
(* position that the next stage exchanges.                                  *)
FlyStart(g, node) == <<0, node \div g.k>>
FlyEnd(g, v, port) ==
  IF v[1] = g.n - 1 THEN Node(v[2] * g.k + port)
  ELSE Router(<<v[1] + 1, WithDigit(g.k, v[2], g.n - 2 - v[1], port)>>)
FlyOutputs(g, v) == 0 .. g.k - 1

DestTagFlyFirst(g, p, r) == {Only(p, Digit(g.k, Dest(p), p.at[1]), r)}   \* mutant: from the wrong end
DestTagFly(g, p, r) == {Only(p, Digit(g.k, Dest(p), g.n - 1 - p.at[1]), r)}

-----------------------------------------------------------------------------
(* The fat tree: level 0 on top, outputs 0 .. k - 1 down and k .. 2k - 1 up.   *)
FatTreeStart(g, node) == <<g.n - 1, node \div g.k>>
FatTreeEnd(g, v, port) ==
  IF port < g.k
  THEN IF v[1] = g.n - 1 THEN Node(v[2] * g.k + port)
       ELSE Router(<<v[1] + 1, WithDigit(g.k, v[2], g.n - 2 - v[1], port)>>)
  ELSE Router(<<v[1] - 1, WithDigit(g.k, v[2], g.n - 1 - v[1], port - g.k)>>)
FatTreeOutputs(g, v) == 0 .. (IF v[1] = 0 THEN g.k ELSE 2 * g.k) - 1

(* Down as soon as the destination is below, up by any way before.  The two    *)
(* functions differ in how they draw the way up.                            *)
FatTreeCovers(g, v, node) == v[2] \div g.k ^ (g.n - 1 - v[1]) = node \div g.k ^ (g.n - v[1])
FatTreeNca(g, p, r) ==
  IF FatTreeCovers(g, p.at, Dest(p)) THEN {Only(p, Digit(g.k, Dest(p), g.n - 1 - p.at[1]), r)}
  ELSE OneOf(p, g.k .. 2 * g.k - 1, r)
FatTreeAnca(g, p, r) == FatTreeNca(g, p, r)

-----------------------------------------------------------------------------
(* The quad tree, with one output up.                                       *)
QTreeStart(g, node) == <<g.n - 1, node \div g.k>>
QTreeEnd(g, v, port) ==
  IF port = g.k THEN Router(<<v[1] - 1, v[2] \div g.k>>)
  ELSE IF v[1] = g.n - 1 THEN Node(g.k * v[2] + port)
       ELSE Router(<<v[1] + 1, g.k * v[2] + port>>)
QTreeOutputs(g, v) == 0 .. (IF v[1] = 0 THEN g.k - 1 ELSE g.k)

QTreeNca(g, p, r) ==
  LET below == Dest(p) \div g.k ^ (g.n - 1 - p.at[1])
  IN  {Only(p, IF p.at[2] = below \div g.k THEN below % g.k ELSE g.k, r)}

-----------------------------------------------------------------------------
(* The 4-ary tree of three levels with 4, 8 and 16 routers.  One on top leads  *)
(* to every one in the middle, and each of these to four below, which it        *)
(* shares with its twin.                                                   *)
Tree4Start(g, node) == <<2, node \div 4>>
Tree4End(g, v, port) ==
  CASE v[1] = 0 -> Router(<<1, port>>)
    [] v[1] = 1 -> IF port < 4 THEN Router(<<2, 4 * (v[2] \div 2) + port>>) ELSE Router(<<0, port - 4>>)
    [] v[1] = 2 -> IF port < 4 THEN Node(4 * v[2] + port) ELSE Router(<<1, 2 * (v[2] \div 4) + port - 4>>)
Tree4Outputs(g, v) == 0 .. (IF v[1] = 2 THEN 5 ELSE 7)

Tree4Down(p) ==
  CASE p.at[1] = 0 -> {2 * (Dest(p) \div 16), 2 * (Dest(p) \div 16) + 1}
    [] p.at[1] = 1 -> IF Dest(p) \div 16 = p.at[2] \div 2 THEN {(Dest(p) \div 4) % 4} ELSE {}
    [] p.at[1] = 2 -> IF Dest(p) \div 4 = p.at[2] THEN {Dest(p) % 4} ELSE {}
Tree4Up(p) == IF p.at[1] = 1 THEN 4 .. 7 ELSE {4, 5}

(* On the way up one output drawn at random, or all of them, of which the        *)
(* OutputSet keeps the first.                                              *)
Tree4Nca(g, p, r) == OneOf(p, IF Tree4Down(p) = {} THEN Tree4Up(p) ELSE Tree4Down(p), r)
Tree4Anca(g, p, r) ==
  OneOf(p, IF Tree4Down(p) = {} THEN {Min(Tree4Up(p))} ELSE Tree4Down(p), r)

-----------------------------------------------------------------------------
(* Packets go up first and then down: the place of a channel in that order.   *)
FlyRank(p)     == p.from[1]
TreeRank(g, p) == IF p.via >= g.k /\ p.from[1] > 0 THEN g.n - p.from[1] ELSE g.n + p.from[1]
=============================================================================
