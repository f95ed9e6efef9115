------------------------------- MODULE Routers -------------------------------
(***************************************************************************)
(* A router of any type (Router::NewRouter) between its upstreams and its      *)
(* downstreams.                                                            *)
(***************************************************************************)
EXTENDS EventRouter, ChaosRouter

(* The state a router of this type starts with.                             *)
NewRouter(type) ==
  CASE type = "iq" -> RouterInit [] type = "event" -> EventInit [] type = "chaos" -> ChaosInit

Init ==
  /\ opt \in Options /\ r = NewRouter(opt.router)
  /\ up = [i \in I |-> StateInit] /\ sending = [i \in I |-> [v \in Vcs |-> {}]]
  /\ put = [p \in Packets |-> 0] /\ inq = [i \in I |-> << >>]
  /\ down = [o \in O |-> [w \in Vcs |-> << >>]]
  /\ got = [p \in Packets |-> [o \in O |-> 0]]

(* The event-driven router wants an upstream that gives a VC to the next      *)
(* packet when the tail of the last has left it.  The chaos router has no VCs, *)
(* and wants one of its kind: it sends a packet without a gap, and with the      *)
(* option eager also one packet after the other.                             *)
Is(type) == opt.router = type
HasRoom(i, v) == IF Is("chaos") THEN v = 0 /\ up[i].occupancy < opt.flits ELSE ~IsFullFor(up[i], v)
MaySend(i, v, p) ==
  /\ IsNext(i, v, p) /\ HasRoom(i, v)
  /\ Is("event") /\ put[p] = 0 => up[i].vc_occupancy[v] = 0

Outcomes == CASE Is("iq") -> IqOutcomes [] Is("event") -> EventOutcomes [] Is("chaos") -> ChaosOutcomes
Credited(o, w) ==
  CASE Is("iq") -> IqCredited(o, w) [] Is("event") -> EventCredited(o, w) [] Is("chaos") -> ChaosCredited(o)

NoneToSend == \A i \in I, v \in Vcs, p \in Packets : ~MaySend(i, v, p)
NoGap == Is("chaos") => IF opt.eager THEN NoneToSend
                        ELSE \A i \in I : sending[i][0] # {} => inq[i] # << >> \/ ~HasRoom(i, 0)
Next == \/ NoGap /\ Cycle(Outcomes)
        \/ \E i \in I, v \in Vcs, p \in Packets : MaySend(i, v, p) /\ Send(i, v, p)
        \/ \E o \in O, w \in Vcs : down[o][w] # << >> /\ Drain(o, w, Credited(o, w))

(* The clock never stops, the upstream sends what it may and the downstream   *)
(* takes every flit on.  Flits are finite in number, so for the last two it is *)
(* enough that again and again nothing is left to send, or to take: the weak   *)
(* fairness of Send and Drain, in a form that TLC decides state by state, as  *)
(* the first line is that of Next.                                         *)
NoneToTake == \A o \in O, w \in Vcs : down[o][w] = << >>
Still == NoneToSend /\ NoneToTake /\ Outcomes = {[r |-> r, down |-> down, got |-> got, up |-> up]}

Spec     == Init /\ [][Next]_vars
FairSpec == Spec /\ ([]<>Still \/ []<><<TRUE>>_vars) /\ []<>NoneToSend /\ []<>NoneToTake

-----------------------------------------------------------------------------
(* Every entry that an allocation stage looks at once more has its time: what   *)
(* the assertions on entry of its last loop say.                            *)
EntriesTimed == Is("iq") => IqTimed

(* The pipeline is in order.  IQ: each VC is in the stage its requests say, a   *)
(* held switch is held for it alone, and the crossbar takes what it can.      *)
(* Event-driven: no error is reached and no flit is without its event.  Chaos:  *)
(* no error is reached and each place is in the state its flits say.         *)
PipelineSound == /\ opt \in Options
                 /\ Is("iq") => IqTypeOK /\ IqTimed /\ Staged /\ HeldAgree /\ CrossbarKept
                 /\ Is("event") => EventSound
                 /\ Is("chaos") => ChaosSound

(* Packets stay apart: a VC of an output has one owner until its tail.       *)
PacketsApart == /\ Is("iq") => NoMixing /\ OneOwner
                /\ Is("event") => NoMixing /\ EventApart
                /\ Is("chaos") => ChaosApart /\ ChaosApartOut

(* A flit for several outputs goes once to each; any other goes to one         *)
(* output, the same for all its packet: one of its route, or, from the chaos    *)
(* router's multi-queue, any but the ejection channel.                       *)
EveryCopyOnce == IF Is("chaos") THEN ChaosCopies ELSE IqCopies

(* Nothing is sent without its place: credits add up on both sides, no VC      *)
(* overflows, and a packet for several outputs that has begun has room for   *)
(* all of it at each.                                                      *)
PlacesKept == /\ CreditsBack
              /\ ~Is("chaos") => NeverOverflows
              /\ Is("chaos") => ChaosCounts
              /\ Is("iq") => IqCounts /\ MulticastGoesOn
              /\ Is("event") => EventCounts

(* The IQ router sleeps only when it has nothing to do.                      *)
NeverAsleep == Is("iq") => IqAwake

(* Every packet gets to its output, or to all of them, and leaves nothing      *)
(* behind: no VC in use, no switch held.                                    *)
Delivered == <>(CASE Is("iq") -> IqGone [] Is("event") -> EventGone [] Is("chaos") -> ChaosGone)
=============================================================================
