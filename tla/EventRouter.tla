----------------------------- MODULE EventRouter -----------------------------
(***************************************************************************)
(* The event-driven router (routers/event_router.cpp), without cut-through    *)
(* (vct = 0).  A flit that arrives is an arrival event; each output takes one *)
(* arrival event in a cycle and makes of it a transport event if the VC is    *)
(* the packet's and has a credit; each input serves one transport event in a  *)
(* cycle.  An output's VC has one packet; the heads of others wait in line,   *)
(* with a count of their flits that have come.  The state is one record.      *)
(***************************************************************************)
EXTENDS Router

(* The single output and VC of a packet: GetPortVC.                          *)
OutputOf(p) == CHOOSE o \in O : o \in RouteOf[p][1]
VcOf(p)     == CHOOSE w \in Vcs : w \in RouteOf[p][2]

(* EventNextVCState of one VC: its packet, the flits of it that wait for a     *)
(* credit, and the packets that wait for the VC.                            *)
IdleVc == [busy |-> FALSE, from |-> Nothing, credits |-> ConfVcBufSize, pres |-> 0, waiting |-> << >>]

EventInit == [
  buf |-> [i \in I |-> [v \in Vcs |-> << >>]], on |-> [i \in I |-> [v \in Vcs |-> FALSE]],
  arrivals |-> [i \in I |-> << >>], transports |-> [o \in O |-> << >>],
  vc |-> [o \in O |-> [w \in Vcs |-> IdleVc]], back |-> [o \in O |-> << >>],
  aptr |-> [o \in O |-> 0], tptr |-> [i \in I |-> 0],
  xbar |-> << >>, obuf |-> [o \in O |-> << >>], credits |-> {}, error |-> FALSE]

-----------------------------------------------------------------------------
(* A head at a VC that still has a packet, or another flit at one that has      *)
(* none, ends the program with an error.                                   *)
IncomingFlits(s) ==
  LET Add(i, t) ==
        LET f == inq[i][1].f  v == inq[i][1].v
        IN  [t EXCEPT !.buf[i][v] = Append(@, f), !.on[i][v] = TRUE,
                      !.arrivals[i] = Append(@, [f |-> f, v |-> v]),
                      !.error = @ \/ t.on[i][v] = (f[2] = 1)]
  IN  Fold({i \in I : inq[i] # << >>}, Add, s)

ToTransport(s, o, w, c) == [s EXCEPT !.transports[o] = Append(@, [from |-> c, w |-> w])]

(* A flit of the packet that has the VC goes on if there is a credit.         *)
SendTransport(s, o, w, c) ==
  IF s.vc[o][w].credits > 0 THEN ToTransport([s EXCEPT !.vc[o][w].credits = @ - 1], o, w, c)
  ELSE [s EXCEPT !.vc[o][w].pres = @ + 1]

(* The next packet in line takes the VC.                                    *)
ProcessWaiting(s, o, w) ==
  LET q == s.vc[o][w]
      h == q.waiting[1]
      t == [s EXCEPT !.vc[o][w] = [@ EXCEPT !.busy = TRUE, !.from = h.from, !.waiting = Tail(@), !.pres = h.pres]]
  IN  CASE q.waiting = << >> -> [s EXCEPT !.vc[o][w].busy = FALSE]
        [] q.waiting # << >> /\ q.credits > 0 ->
             ToTransport([t EXCEPT !.vc[o][w].credits = @ - 1, !.vc[o][w].pres = @ - 1], o, w, h.from)
        [] OTHER -> t

(* A credit of a tail gives the VC back; any other lets a waiting flit go.      *)
TakeCredit(s, o) ==
  LET w == s.back[o][1].w
      q == s.vc[o][w]
      t == [s EXCEPT !.back[o] = Tail(@), !.vc[o][w].credits = @ + 1]
  IN  CASE s.back[o] = << >> -> s
        [] s.back[o] # << >> /\ s.back[o][1].tail ->
             ProcessWaiting([t EXCEPT !.error = @ \/ ~q.busy], o, w)
        [] s.back[o] # << >> /\ ~s.back[o][1].tail /\ q.busy /\ q.pres > 0 ->
             ToTransport([t EXCEPT !.vc[o][w].credits = @ - 1, !.vc[o][w].pres = @ - 1], o, w, q.from)
        [] OTHER -> t

InLine(q, c) == {k \in DOMAIN q.waiting : q.waiting[k].from = c}

(* An arrival event that its output takes.                                   *)
Arrival(s, o, c, f) ==
  LET w == VcOf(f[1])
      q == s.vc[o][w]
      n == InLine(q, c)
  IN  CASE f[2] = 1 /\ ~q.busy ->
             SendTransport([s EXCEPT !.vc[o][w].busy = TRUE, !.vc[o][w].from = c], o, w, c)
        [] f[2] = 1 /\ q.busy -> [s EXCEPT !.vc[o][w].waiting = Append(@, [from |-> c, pres |-> 1])]
        [] f[2] # 1 /\ q.busy /\ n = {} /\ q.from = c -> SendTransport(s, o, w, c)
        [] f[2] # 1 /\ q.busy /\ n # {} -> [s EXCEPT !.vc[o][w].waiting[Min(n)].pres = @ + 1]
        [] OTHER -> [s EXCEPT !.error = TRUE]

(* The inputs whose oldest arrival event is for an output.                    *)
ArrivalRequests(s) ==
  [o \in O |-> {i \in I : s.arrivals[i] # << >> /\ OutputOf(s.arrivals[i][1].f[1]) = o}]
Arbitrated(asking, ptr, n) == RoundRobin([x \in asking |-> 0], ptr, n)
ArrivalArb(s, o, asking) ==
  LET t == TakeCredit(s, o)
      i == Arbitrated(asking, t.aptr[o], Ins)
      a == t.arrivals[i][1]
  IN  IF asking = {} THEN t
      ELSE Arrival([t EXCEPT !.arrivals[i] = Tail(@), !.aptr[o] = After(i, Ins)], o, <<i, a.v>>, a.f)

-----------------------------------------------------------------------------
(* The outputs whose oldest transport event is for a flit of an input.         *)
TransportRequests(s) ==
  [i \in I |-> {o \in O : s.transports[o] # << >> /\ s.transports[o][1].from[1] = i}]
TransportArb(s, i, asking) ==
  LET o == Arbitrated(asking, s.tptr[i], Outs)
      e == s.transports[o][1]
      v == e.from[2]
      f == FrontFlit(s, i, v)
      t == [s EXCEPT !.tptr[i] = After(o, Outs)]
  IN  CASE asking = {} -> s
        [] asking # {} /\ IsEmpty(s, i, v) -> [t EXCEPT !.error = @ \/ ~s.on[i][v]]
        [] OTHER -> [t EXCEPT !.error = @ \/ ~s.on[i][v] \/ VcOf(f[1]) # e.w,
                              !.buf[i][v] = Tail(@), !.transports[o] = Tail(@),
                              !.on[i][v] = ~IsTail(f), !.credits = @ \cup {<<i, v>>},
                              !.xbar = Append(@, [f |-> f, b |-> <<o, e.w>>])]

(* What entered the crossbar in the cycle before comes out.                   *)
OutputQueuing(s, out) ==
  FoldLeft(LAMBDA t, c : [t EXCEPT !.obuf[c.b[1]] = Append(@, [f |-> c.f, w |-> c.b[2]])], s, out)

EventStep(s) ==
  LET a == IncomingFlits([s EXCEPT !.xbar = << >>])
      q == ArrivalRequests(a)
      b == Fold(O, LAMBDA o, t : ArrivalArb(t, o, q[o]), a)
      u == TransportRequests(b)
  IN  OutputQueuing(Fold(I, LAMBDA i, t : TransportArb(t, i, u[i]), b), s.xbar)

EventOutcomes == {WriteOutputs(EventStep(r))}

(* A credit says whether it is that of a tail.                               *)
EventCredited(o, w) == [r EXCEPT !.back[o] = Append(@, [w |-> w, tail |-> IsTail(down[o][w][1])])]

-----------------------------------------------------------------------------
Count(s, Test(_)) == Len(SelectSeq(s, Test))

(* No error is ever reached, and every flit in a buffer is accounted for once: *)
(* by an event, or in the count of its packet.  The first waits for a credit,   *)
(* with the VC; the others are in line.                                    *)
CountIn(q, c) == IF q.busy /\ q.from = c THEN q.pres ELSE 0
CountInLine(q, c) == MapThenSumSet(LAMBDA k : q.waiting[k].pres, InLine(q, c))
Accounted(i, v) ==
  Len(r.buf[i][v]) =
    Count(r.arrivals[i], LAMBDA a : a.v = v)
    + MapThenSumSet(LAMBDA o : Count(r.transports[o], LAMBDA e : e.from = <<i, v>>), O)
    + MapThenSumSet(LAMBDA b : CountIn(r.vc[b[1]][b[2]], <<i, v>>) + CountInLine(r.vc[b[1]][b[2]], <<i, v>>), O \X Vcs)
NextVcTypes(q) ==
  /\ DOMAIN q = DOMAIN IdleVc /\ q.busy \in BOOLEAN
  /\ q.from \in {Nothing} \cup (I \X Vcs) /\ q.credits \in 0 .. ConfVcBufSize /\ q.pres \in Nat
  /\ \A k \in DOMAIN q.waiting : q.waiting[k].from \in I \X Vcs /\ q.waiting[k].pres \in Nat \ {0}
EventTypes(s) ==
  /\ DOMAIN s = DOMAIN EventInit /\ s.on \in [I -> [Vcs -> BOOLEAN]] /\ s.buf \in [I -> [Vcs -> Seq(Flit)]]
  /\ \A o \in O, w \in Vcs : NextVcTypes(s.vc[o][w])
  /\ s.arrivals \in [I -> Seq([f : Flit, v : Vcs])] /\ s.aptr \in [O -> I]
  /\ s.transports \in [O -> Seq([from : I \X Vcs, w : Vcs])] /\ s.tptr \in [I -> O]
  /\ s.back \in [O -> Seq([w : Vcs, tail : BOOLEAN])] /\ s.credits \subseteq I \X Vcs
  /\ s.xbar \in Seq([f : Flit, b : O \X Vcs]) /\ s.obuf \in [O -> Seq([f : Flit, w : Vcs])]
EventSound == EventTypes(r) /\ ~r.error /\ \A i \in I, v \in Vcs : Accounted(i, v)

(* A VC without packet has nothing under way and nobody in line, and flits wait *)
(* for a credit only while one is still to come.                            *)
EventApart == \A o \in O, w \in Vcs :
  LET q == r.vc[o][w]
  IN  /\ ~q.busy => q.waiting = << >> /\ q.pres = 0 /\ Through(o, w) = << >> /\ q.credits = ConfVcBufSize
      /\ q.pres > 0 => q.credits < ConfVcBufSize

(* Each credit is free, spent on a transport event or on a flit that is on its *)
(* way, or on its way back.                                                *)
EventCounts == \A o \in O, w \in Vcs :
  r.vc[o][w].credits + Count(r.transports[o], LAMBDA e : e.w = w) + Len(Through(o, w))
    + Count(r.back[o], LAMBDA c : c.w = w) = ConfVcBufSize

(* All packets gone, and every VC idle with all its credits.                 *)
EventGone ==
  /\ \A p \in Sent : got[p][OutputOf(p)] = Size[p]
  /\ \A o \in O, w \in Vcs : r.vc[o][w] = [IdleVc EXCEPT !.from = r.vc[o][w].from]
  /\ \A i \in I, v \in Vcs : ~r.on[i][v]
=============================================================================
