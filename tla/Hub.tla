-------------------------------- MODULE Hub --------------------------------
(***************************************************************************)
(* The wireless hubs of a wmesh (routers/hub.cpp) and the token that goes    *)
(* round them (the end of TrafficManager::_Step).  A hub gathers packets from *)
(* its router; when it has the token and the receivers have room it sends a   *)
(* whole packet to all other hubs at once, and those it is not for drop it.   *)
(* What it keeps goes flit by flit to its router.  A step is one cycle of all *)
(* hubs, one after the other, as they share token_hold and ready_receive.     *)
(***************************************************************************)
EXTENDS FlowControl, Sequences, SequencesExt

CONSTANTS
  Hubs,          \* _nhubs
  Packets,
  From,          \* From[p]: the hub of its source
  VcsOf,         \* VcsOf[p]: the VCs it may come on
  To,            \* To[p]: the hubs that some destination of p is mapped to
  Multi,         \* packets with mflag
  Size,          \* Size[p]: flits_num
  PacketSize,    \* packet_size: what the sender takes the size of any packet to be
  RecSize,       \* received_queue_size
  BusyWhenFull   \* vc_busy_when_full

H == 0 .. Hubs - 1
Others(h) == H \ {h}

ASSUME HubAssumption ==
  /\ IsFiniteSet(Packets) /\ Multi \subseteq Packets
  /\ Hubs \in Nat \ {0} /\ PacketSize \in Nat \ {0} /\ RecSize \in Nat \ {0} /\ BusyWhenFull \in BOOLEAN
  /\ From \in [Packets -> H] /\ VcsOf \in [Packets -> SUBSET Vcs] /\ Size \in [Packets -> 1 .. PacketSize]
  /\ \A p \in Packets : /\ To[p] \in (SUBSET Others(From[p])) \ {{}}
                        /\ p \notin Multi => Cardinality(To[p]) = 1

(* The VC that is written into all that is sent.                             *)
ASSUME VcAssumption == 0 \in Vcs

VARIABLES
  hub,           \* hub[h]: its record
  token,         \* the position of the token in token_ring
  token_hold,
  ready_receive, \* free places of each _receive_queue that nobody has been promised
  up,            \* up[h]: the BufferState of the router before hub h
  sending,       \* sending[h][v]: the packet under way on VC v, at most one
  put,           \* put[p]: flits of p that its router sent
  down,          \* down[h][w]: flits that the router behind hub h holds on VC w
  got            \* got[h]: flits the router behind hub h took on

vars == <<hub, token, token_hold, ready_receive, up, sending, put, down, got>>

Idle   == -1
IsTail(f) == f[2] = Size[f[1]]
IsHead(f) == f[2] = 1

HubInit == [
  inq |-> << >>, air |-> << >>, buf |-> [v \in Vcs |-> << >>], outq |-> << >>, trav |-> << >>,
  recv |-> << >>, drop |-> {}, cur |-> Idle, swq |-> << >>, xbar |-> << >>,
  next |-> StateInit, credits |-> << >>, active |-> FALSE]

-----------------------------------------------------------------------------
(* s is what a cycle works on: the hubs, hold and ready.                    *)

(* A flit from the router; a packet is ready to go when its tail is here.  What *)
(* is queued is the tail: its packet and the VC in it.                      *)
FromRouterHead(s, h) ==      \* mutant: ready when its head is here
  LET i == s.hub[h].inq
      f == i[1].f
  IN  IF i = << >> THEN s
      ELSE [s EXCEPT !.hub[h].buf[i[1].v] = Append(@, f), !.hub[h].inq = << >>,
                     !.hub[h].outq = IF IsHead(f) THEN Append(@, <<f[1], i[1].v>>) ELSE @]
FromRouter(s, h) ==
  LET i == s.hub[h].inq
      f == i[1].f
  IN  IF i = << >> THEN s
      ELSE [s EXCEPT !.hub[h].buf[i[1].v] = Append(@, f), !.hub[h].inq = << >>,
                     !.hub[h].outq = IF IsTail(f) THEN Append(@, <<f[1], i[1].v>>) ELSE @]

(* A flit from the air.  A hub it is not for drops it; one place had been     *)
(* promised for it only if it was for several hubs.                         *)
DropUni(s, h, f) ==
  [s EXCEPT !.hub[h].drop = CASE IsHead(f) -> @ \cup {f[1]}
                              [] IsTail(f) /\ ~IsHead(f) -> @ \ {f[1]}
                              [] OTHER -> @]
DropAll(s, h, f) == DropUni(s, h, f)      \* mutant: the promised place is lost
Drop(s, h, f) == IF f[1] \in Multi THEN [s EXCEPT !.ready[h] = @ + 1] ELSE DropUni(s, h, f)

NotForHubHead(s, h, f) == (f[1] \in Multi \/ IsHead(f)) /\ h \notin To[f[1]]      \* mutant: a body is kept
NotForHub(s, h, f) ==
  CASE f[1] \in Multi -> h \notin To[f[1]]
    [] f[1] \notin Multi /\ IsHead(f) -> h \notin To[f[1]]
    [] OTHER -> f[1] \in s.hub[h].drop
FromAir(s, h, payload) ==
  FoldLeft(LAMBDA t, f : IF NotForHub(t, h, f) THEN Drop(t, h, f)
                         ELSE [t EXCEPT !.hub[h].recv = Append(@, f)], s, payload)

(* All receivers have room for a packet, and the hub has the token: then it is *)
(* held, and the packet goes out in the next cycle.                         *)
RoomForFlit(ready, j) == ready[j] > 0      \* mutant: for a flit of it
RoomFor(ready, j) == ready[j] - PacketSize >= 0
ReceiveStatus(s, h, p) ==
  \A j \in IF p \in Multi THEN Others(h) ELSE To[p] : RoomFor(s.ready, j)

MayStart(s, h) ==
  /\ token = h /\ ~s.hold /\ s.hub[h].outq # << >>
  /\ ReceiveStatus(s, h, s.hub[h].outq[1][1])
Start(s, h) ==
  IF ~MayStart(s, h) THEN s
  ELSE [s EXCEPT !.hold = TRUE,
                 !.hub[h].trav = IF @ = << >> THEN <<[v |-> s.hub[h].outq[1][2], new |-> TRUE]>> ELSE @]

InputQueuing(s, h, payload) == Start(FromAir(FromRouter(s, h), h, payload), h)

-----------------------------------------------------------------------------
(* The head at the front of the receive queue takes a VC, any that is free,    *)
(* and goes to the switch queue; it is looked at again if it is still there.  *)
UsableInUse(b, w) == ~(BusyWhenFull /\ IsFullFor(b, w))      \* mutant: in use or not
Usable(b, w) == IsAvailableFor(b, w) /\ ~(BusyWhenFull /\ IsFullFor(b, w))
WantsVc(s, h) == s.hub[h].recv # << >> /\ IsHead(s.hub[h].recv[1])
VCAlloc(s, h, w) ==
  CASE ~WantsVc(s, h) -> s
    [] WantsVc(s, h) /\ ~Usable(s.hub[h].next, w) -> [s EXCEPT !.hub[h].cur = Idle]
    [] OTHER -> [s EXCEPT !.hub[h].cur = w, !.hub[h].next = TakeBuffer(@, w),
                          !.hub[h].swq = Append(@, <<s.hub[h].recv[1], w>>)]

(* One flit to the crossbar; the next one of its packet follows on its VC.    *)
SwitchTraverse(s, h) ==
  LET r == s.hub[h]
      f == r.swq[1][1]
      w == r.swq[1][2]
      rest == Tail(r.recv)
      Follow(q) == IF rest # << >> /\ ~IsHead(rest[1]) THEN Append(q, <<rest[1], w>>) ELSE q
  IN  IF r.swq = << >> \/ IsFullFor(r.next, w) THEN s
      ELSE [s EXCEPT !.hub[h].next = SendingFlit(@, w, IsTail(f)), !.hub[h].recv = rest,
                     !.hub[h].xbar = Append(@, [f |-> f, w |-> w, new |-> TRUE]),
                     !.hub[h].swq = Follow(Tail(@)), !.ready[h] = @ + 1]

(* What waits for its turn is the tail flit itself (see FromRouter), and the VC   *)
(* in it becomes 0 when it is sent: e is its entry.  The hub that hears it       *)
(* writes another VC when it passes it on; that is not followed.              *)
Overwritten(q, e) == [k \in DOMAIN q |-> IF q[k] = e THEN <<e[1], 0>> ELSE q[k]]

(* All that is in the VC goes out, each flit with a credit to the router; the  *)
(* tail ends the turn.                                                      *)
UpdateReceiveStatus(ready, h, p) ==
  [j \in H |-> IF j \in Others(h) /\ (p \in Multi \/ j \in To[p]) THEN ready[j] - 1 ELSE ready[j]]
EndTurnNot(s, h, e) == [s EXCEPT !.hub[h].outq = Tail(@)]      \* mutant: the token stays held
EndTurn(s, h, e) == [s EXCEPT !.hold = FALSE, !.hub[h].outq = IF @ = << >> THEN @ ELSE Tail(Overwritten(@, e))]
CreditLast(q, v, f) == IF IsTail(f) THEN Append(q, v) ELSE q      \* mutant: one for the packet
CreditFor(q, v, f) == Append(q, v)
HubTraverse(s, h) ==
  LET r == s.hub[h]
      v == r.trav[1].v
      Out(t, f) ==
        LET u == [t EXCEPT !.hub[h].air = Append(@, f), !.hub[h].credits = CreditFor(@, v, f),
                           !.ready = UpdateReceiveStatus(@, h, f[1])]
        IN  IF IsTail(f) THEN EndTurn(u, h, <<f[1], v>>) ELSE u
  IN  CASE r.trav = << >> -> s
        [] r.trav # << >> /\ r.trav[1].new -> [s EXCEPT !.hub[h].trav[1].new = FALSE]
        [] OTHER -> FoldLeft(Out, [s EXCEPT !.hub[h].trav = << >>, !.hub[h].buf[v] = << >>], r.buf[v])

(* What a hub does when it is active; it stays so while a queue is not empty.  *)
StaysActiveNot(r) == r.swq # << >> \/ r.trav # << >> \/ r.outq # << >>      \* mutant: not for the receive queue
StaysActive(r) == \/ r.swq # << >> \/ r.trav # << >> \/ r.outq # << >> \/ r.recv # << >>
                  \/ \E k \in DOMAIN r.xbar : r.xbar[k].new
SwitchEvaluate(s, h) == [s EXCEPT !.hub[h].xbar = [k \in DOMAIN @ |-> [@[k] EXCEPT !.new = FALSE]]]
ReceiveFlits(s, h, payload) == s.hub[h].inq # << >> \/ payload # << >>
Evaluate(s, h, payload, w) ==
  LET a == VCAlloc(InputQueuing(s, h, payload), h, w)
      c == HubTraverse(SwitchTraverse(SwitchEvaluate(a, h), h), h)
  IN  IF s.hub[h].active \/ ReceiveFlits(s, h, payload) THEN [c EXCEPT !.hub[h].active = StaysActive(c.hub[h])] ELSE s

(* What the others sent in the cycle before: one hub at a time, see OneTalker. *)
Payload(h) == FlattenSeq([k \in 1 .. Hubs - 1 |-> hub[(h + Hubs - k) % Hubs].air])

Evaluated(w) ==
  FoldLeft(LAMBDA s, h : Evaluate(s, h, Payload(h), w[h]),
           [hub |-> [h \in H |-> [hub[h] EXCEPT !.air = << >>]], hold |-> token_hold, ready |-> ready_receive],
           [k \in 1 .. Hubs |-> k - 1])

-----------------------------------------------------------------------------
Init ==
  /\ hub = [h \in H |-> HubInit] /\ token = 0 /\ token_hold = FALSE
  /\ ready_receive = [h \in H |-> RecSize]
  /\ up = [h \in H |-> StateInit] /\ sending = [h \in H |-> [v \in Vcs |-> {}]]
  /\ put = [p \in Packets |-> 0] /\ down = [h \in H |-> [w \in Vcs |-> << >>]]
  /\ got = [h \in H |-> [p \in Packets |-> 0]]

(* The router before a hub is the sender of a link: see Link.                *)
MaySend(h, v, p) ==
  /\ From[p] = h /\ v \in VcsOf[p] /\ put[p] < Size[p] /\ hub[h].inq = << >>
  /\ IF put[p] = 0 THEN IsAvailableFor(up[h], v) ELSE sending[h][v] = {p}
  /\ ~IsFullFor(up[h], v)
Send(h, v, p) ==
  LET k == put[p] + 1
      b == IF k = 1 THEN TakeBuffer(up[h], v) ELSE up[h]
  IN  /\ MaySend(h, v, p)
      /\ up' = [up EXCEPT ![h] = SendingFlit(b, v, k = Size[p])]
      /\ sending' = [sending EXCEPT ![h][v] = IF k = Size[p] THEN {} ELSE {p}]
      /\ put' = [put EXCEPT ![p] = k]
      /\ hub' = [hub EXCEPT ![h].inq = <<[f |-> <<p, k>>, v |-> v]>>]
      /\ UNCHANGED <<token, token_hold, ready_receive, down, got>>

(* A hub that may have to takes any free VC: w[h].                          *)
Picks ==
  LET Free(h) == {v \in Vcs : Usable(hub[h].next, v)}
      None(h) == Free(h) = {} \/ (hub[h].recv = << >> /\ Payload(h) = << >>)
  IN  {w \in [H -> Vcs] : \A h \in H : w[h] \in IF None(h) THEN {CHOOSE v \in Vcs : TRUE} ELSE Free(h)}

(* Its flit leaves the crossbar after a cycle, and one credit goes back in     *)
(* each.  The token moves on unless it is held.                             *)
Arrives(h, s) == s.hub[h].xbar # << >> /\ ~s.hub[h].xbar[1].new
MovedFree(t, hold) == (t + Hubs - 1) % Hubs      \* mutant: held or not
Moved(t, hold) == IF hold THEN t ELSE (t + Hubs - 1) % Hubs
WriteOutputs(s) ==
  [hub  |-> [h \in H |-> [s.hub[h] EXCEPT !.xbar = IF Arrives(h, s) THEN Tail(@) ELSE @,
                                          !.credits = IF @ = << >> THEN @ ELSE Tail(@)]],
   down |-> [h \in H |-> [v \in Vcs |->
               IF Arrives(h, s) /\ s.hub[h].xbar[1].w = v THEN Append(down[h][v], s.hub[h].xbar[1].f)
               ELSE down[h][v]]],
   up   |-> [h \in H |-> IF s.hub[h].credits = << >> THEN up[h] ELSE ProcessCredit(up[h], s.hub[h].credits[1])],
   hold |-> s.hold, ready |-> s.ready, token |-> Moved(token, s.hold)]

(* What a cycle may lead to.                                               *)
Outcomes == {WriteOutputs(Evaluated(w)) : w \in Picks}
Cycle ==
  /\ \E c \in Outcomes : /\ hub' = c.hub /\ down' = c.down /\ up' = c.up
                         /\ token_hold' = c.hold /\ ready_receive' = c.ready /\ token' = c.token
  /\ UNCHANGED <<sending, put, got>>

(* The router behind a hub takes a flit on and returns its credit.          *)
ReceiveCredit(r, w) == [r EXCEPT !.next = ProcessCredit(@, w), !.active = TRUE]
Drain(h, w) ==
  /\ down[h][w] # << >>
  /\ down' = [down EXCEPT ![h][w] = Tail(@)]
  /\ got' = [got EXCEPT ![h][down[h][w][1][1]] = @ + 1]
  /\ hub' = [hub EXCEPT ![h] = ReceiveCredit(@, w)]
  /\ UNCHANGED <<token, token_hold, ready_receive, up, sending, put>>

Next == \/ Cycle
        \/ \E h \in H, v \in Vcs, p \in Packets : Send(h, v, p)
        \/ \E h \in H, w \in Vcs : Drain(h, w)

(* The clock, the routers before the hubs and those behind: see Router.      *)
NoneToSend == \A h \in H, v \in Vcs, p \in Packets : ~MaySend(h, v, p)
NoneToTake == \A h \in H, w \in Vcs : down[h][w] = << >>
Still == NoneToSend /\ NoneToTake /\ Outcomes = {[hub |-> hub, down |-> down, up |-> up, hold |-> token_hold,
                                                  ready |-> ready_receive, token |-> token]}
Spec     == Init /\ [][Next]_vars
FairSpec == Spec /\ ([]<>Still \/ []<><<TRUE>>_vars) /\ []<>NoneToSend /\ []<>NoneToTake

-----------------------------------------------------------------------------
One(b) == IF b THEN 1 ELSE 0
Holds(s, p) == Cardinality({k \in DOMAIN s : s[k][1] = p})
InCrossbar(h, w) == LET x == hub[h].xbar IN IF x # << >> /\ x[1].w = w THEN <<x[1].f>> ELSE << >>
Through(h, w) == down[h][w] \o InCrossbar(h, w)
IsPart(s) == \A k \in 1 .. Len(s) - 1 :
               s[k + 1] = IF IsTail(s[k]) THEN <<s[k + 1][1], 1>> ELSE <<s[k][1], s[k][2] + 1>>

(* What a hub keeps, and how much of it there can be: one flit a cycle comes   *)
(* from the router, one packet at a time goes out, one flit is switched.     *)
FlitType  == Packets \X (Nat \ {0})
HubTypes(s) ==
  /\ s.active \in BOOLEAN /\ s.cur \in Vcs \cup {Idle} /\ s.drop \subseteq Packets
  /\ s.buf \in [Vcs -> Seq(FlitType)] /\ s.air \in Seq(FlitType) /\ s.recv \in Seq(FlitType)
  /\ Len(s.inq) <= 1 /\ \A k \in DOMAIN s.inq : s.inq[k].f \in FlitType
  /\ Len(s.swq) <= 1 /\ Len(s.trav) <= 1 /\ s.outq \in Seq(Packets \X Vcs)
  /\ Len(s.xbar) <= 1 /\ \A k \in DOMAIN s.xbar : s.xbar[k].f \in FlitType
  /\ s.credits \in Seq(Vcs)

TypeOK ==
  /\ token \in H /\ token_hold \in BOOLEAN /\ ready_receive \in [H -> 0 .. RecSize]
  /\ \A h \in H : HubTypes(hub[h])

(* Every place of a receive queue is free, taken, or promised to one flit that *)
(* is in the air: what the asserts before each push and each promise rely on.  *)
Promised(h) == SumFunctionOnSet([p \in Packets |-> Holds(Payload(h), p)],
                                {p \in Packets : p \in Multi \/ To[p] = {h}})
SlotsPromised == \A h \in H : ready_receive[h] + Len(hub[h].recv) + Promised(h) = RecSize

(* One hub at a time uses the air, the one with the token: what is in the air  *)
(* is from one hub, and a hub is about to send only while the token is held.   *)
OneTalker ==
  /\ \A h, k \in H : hub[h].air # << >> /\ hub[k].air # << >> => h = k
  /\ \A h \in H : hub[h].trav # << >> => token_hold /\ token = h
  /\ token_hold => hub[token].trav # << >>

(* A hub sends the packet it queued first, all of it and nothing else.       *)
WholePackets ==
  /\ \A h \in H : LET a == hub[h].air
       IN  a # << >> => a = [k \in 1 .. Size[a[1][1]] |-> <<a[1][1], k>>]
  /\ \A h \in H : hub[h].trav # << >> =>
       LET q == hub[h].outq  b == hub[h].buf[hub[h].trav[1].v]
       IN  q # << >> /\ q[1][2] = hub[h].trav[1].v /\ b # << >> /\ b[1] = <<q[1][1], 1>>

(* A hub that is about to send has a packet to send: the assert on entry of the *)
(* traversal.                                                              *)
HasPacket == \A h \in H : hub[h].trav # << >> => hub[h].buf[hub[h].trav[1].v] # << >>

(* Each hub passes on what is for it, once and in order, and nothing else.    *)
EachHubOnce ==
  \A h \in H, p \in Packets :
    LET n == got[h][p] + Holds(hub[h].recv, p)
             + SumFunctionOnSet([w \in Vcs |-> Holds(Through(h, w), p)], Vcs)
    IN  IF h \in To[p] THEN \/ n = Size[p]
                            \/ n = 0 /\ (put[p] < Size[p] \/ \E v \in Vcs : Holds(hub[From[p]].buf[v], p) = Size[p]
                                         \/ hub[From[p]].inq # << >> \/ Holds(hub[From[p]].air, p) = Size[p])
        ELSE n = 0

(* On a VC to the router packets follow each other whole, and the VC is taken  *)
(* for the one packet that is under way, never for a second.               *)
NoMixing ==
  \A h \in H : /\ \A w \in Vcs : IsPart(Through(h, w))
               /\ IsPart(hub[h].recv)
               /\ Cardinality({w \in Vcs : hub[h].next.in_use[w] /\ ~hub[h].next.tail_sent[w]})
                  = One(hub[h].recv # << >> /\ ~IsHead(hub[h].recv[1]))

(* A credit for each flit, on both sides of a hub.                          *)
CreditsConserved ==
  /\ \A h \in H, v \in Vcs : up[h].vc_occupancy[v] =
       Len(hub[h].buf[v]) + One(hub[h].inq # << >> /\ hub[h].inq[1].v = v)
       + Cardinality({k \in DOMAIN hub[h].credits : hub[h].credits[k] = v})
  /\ \A h \in H, w \in Vcs : hub[h].next.vc_occupancy[w] = Len(Through(h, w))

(* Every place promised on either side is there: in the receive queues, which  *)
(* other hubs reserve before they talk, and in the buffers credits count.    *)
PromisesKept == TypeOK /\ SlotsPromised /\ CreditsConserved

(* Hubs talk in turn, each all of what it is to say.                           *)
TalkInTurn == OneTalker /\ WholePackets

(* What is heard stays whole, in the receive queue and on the way to the router, *)
(* at each hub it is for exactly once.                                      *)
HeardWhole == EachHubOnce /\ NoMixing

(* A hub sleeps only when it has nothing to do.                             *)
NeverAsleep ==
  \A h \in H : hub[h].active \/ /\ hub[h].outq = << >> /\ hub[h].recv = << >> /\ hub[h].swq = << >>
                                /\ hub[h].trav = << >> /\ hub[h].xbar = << >>

(* Every packet gets to all the hubs it is for, and everything is free again.  *)
AllGone ==
  /\ \A h \in H, p \in Packets : h \in To[p] => got[h][p] = Size[p]
  /\ ready_receive = [h \in H |-> RecSize] /\ ~token_hold
  /\ \A h \in H, v \in Vcs : ~up[h].in_use[v] /\ ~hub[h].next.in_use[v]
Delivered == <>AllGone
=============================================================================
