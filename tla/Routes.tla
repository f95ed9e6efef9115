------------------------------- MODULE Routes -------------------------------
(* What every routing function of routefunc.cpp and networks/ works with: a  *)
(* packet on its way, the VCs its type may use, and the offers it adds to    *)
(* the OutputSet.  A network is a record g of its options; the fields all    *)
(* have are g.vcs, the number of VCs, and g.type, the type of the packets.   *)
EXTENDS Integers, FiniteSets, FiniteSetsExt

Inject  == -1    \* the way in of a packet that has just been injected

(* A packet: its source, the router it is at, the one it came from and the    *)
(* output it took there, the VC it is in, the nodes it is for by wire and by  *)
(* air, and ph and intm of the flit.                                       *)
Packet(src, node, at, vc) ==
  [src |-> src, at |-> at, from |-> at, via |-> Inject, vc |-> vc, dests |-> {node}, air |-> {},
   ph |-> -1, intm |-> -1]
Dest(p)      == CHOOSE d \in p.dests : TRUE
Injected(p)  == p.via = Inject

(* The range vcBegin .. vcEnd of a type.                                    *)
VcRange(g) ==
  CASE g.type = "any"     -> <<0, g.vcs - 1>>
    [] g.type = "request" -> <<0, g.vcs \div 2 - 1>>
    [] g.type = "reply"   -> <<g.vcs \div 2, g.vcs - 1>>

(* The lower and upper half of a range, and one of several equal parts.       *)
Width(r)   == r[2] - r[1] + 1
Half(r)    == Width(r) \div 2
Upper(r)   == <<r[1] + Half(r), r[2]>>
Lower(r)   == <<r[1], r[2] - Half(r)>>
Class(r, second) == IF second THEN Upper(r) ELSE Lower(r)
Share(r, parts, i) ==
  LET w == Width(r) \div parts IN <<r[1] + i * w, r[1] + i * w + w - 1>>

(* An offer is an output, a range of VCs and a priority.  The OutputSet is     *)
(* ordered by priority alone: of the offers with the same one it keeps that    *)
(* which is added first.                                                   *)
Prior(port, r, pri) == [port |-> port, lo |-> r[1], hi |-> r[2], pri |-> pri]
To(port, r)         == Prior(port, r, 0)
AddRange(offers, offer) ==
  IF \E o \in offers : o.pri = offer.pri THEN offers ELSE offers \cup {offer}

(* An outcome of a routing function is a set of legs: the packet as it goes on, *)
(* a copy of it where it goes more than one way, and the offers of which it    *)
(* takes one.                                                              *)
Leg(p, offers)      == [p |-> p, offers |-> offers]
Outcome(p, offers)  == {Leg(p, offers)}
Only(p, port, r)    == Outcome(p, {To(port, r)})

(* Where an output leads: to a router, to a node, or nowhere.                *)
Router(v) == <<"router", v>>
Node(d)   == <<"node", d>>

(* Digit d of x in base k: the coordinate of a node in a dimension.           *)
Digit(k, x, d) == (x \div k^d) % k
=============================================================================
