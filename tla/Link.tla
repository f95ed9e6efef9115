-------------------------------- MODULE Link --------------------------------
(***************************************************************************)
(* A link of the network: a sender with a BufferState, the flit channel, the *)
(* input buffer (buffer.cpp, vc.cpp) at the other end and the credit        *)
(* channel.  The sender is a router or an injecting node; who forwards the   *)
(* flits from the input buffer is left open.  A channel keeps the order of    *)
(* what it carries; a VC sees only its own part, so there is one queue per   *)
(* VC here, with any delay.                                                *)
(***************************************************************************)
EXTENDS FlowControl, Sequences

CONSTANTS
  Packets,     \* the packets to be sent
  Size,        \* Size[p]: flits_num
  Multi        \* those with more than one destination (mflag)

ASSUME PacketAssumption == Size \in [Packets -> Nat \ {0}] /\ Multi \subseteq Packets

VARIABLES
  up,         \* the BufferState of the sender
  packet,     \* packet[v]: the packet the sender has given VC v to, at most one
  put,        \* put[p]: flits of p sent
  flying,     \* flying[v]: flits of VC v in the channel
  buf,        \* buf[v]: flits in VC v of the input buffer
  expected,   \* expected[v]: _expected_pid, at most one packet
  back        \* back[v]: credits for VC v on their way back

vars == <<up, packet, put, flying, buf, expected, back>>

Init ==
  /\ up = StateInit
  /\ packet = [v \in Vcs |-> {}] /\ put = [p \in Packets |-> 0]
  /\ flying = [v \in Vcs |-> << >>] /\ buf = [v \in Vcs |-> << >>]
  /\ expected = [v \in Vcs |-> {}] /\ back = [v \in Vcs |-> 0]

(* VC allocation.  A packet for several outputs takes a VC only if all of it *)
(* fits; which free VC the allocator grants is left open.                   *)
MayTakeAny(v, p) == p \notin Multi \/ AvailableFor(up, v) >= Size[p]   \* mutant: in use or not
MayTake(v, p) == /\ IsAvailableFor(up, v)
                 /\ p \in Multi => AvailableFor(up, v) >= Size[p]

Take(v, p) ==
  /\ put[p] = 0 /\ \A w \in Vcs : p \notin packet[w]
  /\ MayTake(v, p)
  /\ up' = TakeBuffer(up, v)
  /\ packet' = [packet EXCEPT ![v] = {p}]
  /\ UNCHANGED <<put, flying, buf, expected, back>>

(* The next flit of the packet leaves when the policy finds room.           *)
Send(v, p) ==
  LET k == put[p] + 1
  IN  /\ p \in packet[v] /\ ~IsFullFor(up, v)
      /\ up' = SendingFlit(up, v, k = Size[p])
      /\ put' = [put EXCEPT ![p] = k]
      /\ flying' = [flying EXCEPT ![v] = Append(@, <<p, k>>)]
      /\ packet' = [packet EXCEPT ![v] = IF k = Size[p] THEN {} ELSE @]
      /\ UNCHANGED <<buf, expected, back>>

(* Buffer::AddFlit and VC::AddFlit, which ends the program if the flit is    *)
(* not of the packet it expects.                                           *)
IsTail(f) == f[2] = Size[f[1]]
Arrive(v) ==
  /\ flying[v] # << >>
  /\ LET f == Head(flying[v])
     IN  /\ expected[v] = {} \/ f[1] \in expected[v]
         /\ expected' = [expected EXCEPT ![v] = IF IsTail(f) THEN {} ELSE {f[1]}]
         /\ buf' = [buf EXCEPT ![v] = Append(@, f)]
         /\ flying' = [flying EXCEPT ![v] = Tail(@)]
  /\ UNCHANGED <<up, packet, put, back>>

(* A flit goes on, and a credit for its VC back.                            *)
ForwardTail(v) ==   \* mutant: a credit for the tail only
  /\ buf[v] # << >>
  /\ buf' = [buf EXCEPT ![v] = Tail(@)]
  /\ back' = [back EXCEPT ![v] = IF IsTail(Head(buf[v])) THEN @ + 1 ELSE @]
  /\ UNCHANGED <<up, packet, put, flying, expected>>

Forward(v) ==
  /\ buf[v] # << >>
  /\ buf' = [buf EXCEPT ![v] = Tail(@)]
  /\ back' = [back EXCEPT ![v] = @ + 1]
  /\ UNCHANGED <<up, packet, put, flying, expected>>

ReceiveCredit(v) ==
  /\ back[v] > 0
  /\ up' = ProcessCredit(up, v)
  /\ back' = [back EXCEPT ![v] = @ - 1]
  /\ UNCHANGED <<packet, put, flying, buf, expected>>

Next == \E v \in Vcs : \/ Arrive(v) \/ Forward(v) \/ ReceiveCredit(v)
                       \/ \E p \in Packets : Take(v, p) \/ Send(v, p)

(* The routers do all of this in every cycle they can; the VC allocator, with *)
(* a round robin over the requests, grants one that comes up again and again. *)
Fairness ==
  /\ \A v \in Vcs : WF_vars(Arrive(v)) /\ WF_vars(Forward(v)) /\ WF_vars(ReceiveCredit(v))
  /\ \A v \in Vcs, p \in Packets : WF_vars(Send(v, p))
  /\ \A p \in Packets : SF_vars(\E v \in Vcs : Take(v, p))

Spec     == Init /\ [][Next]_vars
FairSpec == Spec /\ Fairness

-----------------------------------------------------------------------------
OnTheWay(v) == Len(flying[v]) + Len(buf[v])

StateTypes(b) ==
  /\ DOMAIN b = DOMAIN StateInit
  /\ b.occupancy \in Int /\ b.vc_occupancy \in [Vcs -> Nat]
  /\ b.in_use \in [Vcs -> BOOLEAN] /\ b.tail_sent \in [Vcs -> BOOLEAN]
  /\ b.group \in [Groups -> Int] /\ b.shared \in Int /\ b.reserved \in [Vcs -> {0, 1}]
  /\ b.active \in Int
  /\ b.timed \in [Vcs -> Nat] /\ b.ahead \in [Vcs -> Nat]

(* The sender's state, the channels and the buffers are well formed: no      *)
(* counter of a VC is negative and at most one slot is reserved for it.     *)
TypeOK ==
  /\ StateTypes(up)
  /\ packet \in [Vcs -> SUBSET Packets] /\ put \in [Packets -> Nat]
  /\ flying \in [Vcs -> Seq(Packets \X Nat)] /\ buf \in [Vcs -> Seq(Packets \X Nat)]
  /\ expected \in [Vcs -> SUBSET Packets] /\ back \in [Vcs -> Nat]

(* What the sender counts for a VC is where it says: in the channel, in the  *)
(* input buffer, or coming back as credits.  None is lost or counted twice,  *)
(* so _vc_occupancy never falls below zero, and a VC that waits for its last *)
(* credit gets none when idle (the Errors in ProcessCredit).                *)
CreditsConserved ==
  \A v \in Vcs : /\ up.vc_occupancy[v] = OnTheWay(v) + back[v]
                 /\ WaitForTail /\ ~up.in_use[v] => back[v] = 0

(* The input buffer never overflows ("Flit buffer overflow.", "Buffer        *)
(* overflow."), not even with all that may still arrive.                    *)
NeverOverflows ==
  /\ up.occupancy <= BufSize
  /\ SumFunctionOnSet([v \in Vcs |-> OnTheWay(v)], Vcs) <= up.occupancy

(* No VC and no group takes more than the policy has ("Buffer overflow for   *)
(* VC", "Shared buffer overflow.").                                        *)
PolicyHasRoom ==
  IF Policy = "private" THEN \A v \in Vcs : up.vc_occupancy[v] <= VcBufSize
  ELSE up.shared <= SharedSize

(* Every flit the sender counts has one place and one credit, and no VC       *)
(* exceeds what its policy allows.                                         *)
CreditsSafe == CreditsConserved /\ PolicyHasRoom

(* Packets never mix in a VC: the flit that arrives is of the packet that    *)
(* began there ("Received flit with unexpected packet ID").                 *)
NoMixing == \A v \in Vcs : flying[v] # << >> /\ expected[v] # {}
                             => Head(flying[v])[1] \in expected[v]

(* The slots of the shared policies add up: a group has what its VCs hold or *)
(* have reserved, the common part what the groups have beyond their own.    *)
Kept(b)   == [v \in Vcs |-> b.vc_occupancy[v] + b.reserved[v]]
Beyond(b) == [g \in Groups |-> Larger(b.group[g] - GroupSize[g], 0)]
Members(g) == {v \in Vcs : GroupOf[v] = g}
SlotsAddUp ==
  Policy # "private" =>
    /\ \A g \in Groups : up.group[g] = SumFunctionOnSet(Kept(up), Members(g))
    /\ up.shared = SumFunctionOnSet(Beyond(up), Groups)

(* A packet that has begun and has nothing left on the way can go on at once: *)
(* the slot its VC had is kept for it, whatever the other VCs take.         *)
BegunGoesOn ==
  \A v \in Vcs, p \in Packets :
    p \in packet[v] /\ put[p] > 0 /\ up.vc_occupancy[v] = 0 => ~IsFullFor(up, v)

(* A VC counts as active from TakeBuffer to the tail, and its share of the    *)
(* buffer is never nothing (assert(_max_held_slots > 0)).                   *)
ActiveCounted == Policy \in Limiting =>
                   up.active = Cardinality({v \in Vcs : packet[v] # {}})
SomethingHeld == up.held \in Nat \ {0}

(* Slots, reservations, groups and active VCs, which the shared policies keep *)
(* as separate counters, stay sums of each other, and all that is sent has    *)
(* room.                                                                   *)
SharesAddUp ==
  TypeOK /\ SlotsAddUp /\ PolicyHasRoom /\ ActiveCounted /\ SomethingHeld /\ NeverOverflows

(* A flit that is being timed has its credit still to come, behind those     *)
(* that are known to come first (assert(!_flit_sent_time[vc].empty())).     *)
TimedComesBack ==
  \A v \in Vcs :
    /\ Policy = "feedback" => up.timed[v] = up.vc_occupancy[v]
    /\ Policy = "simplefeedback" =>
         IF up.timed[v] = 0 THEN up.ahead[v] = 0
         ELSE up.timed[v] = 1 /\ up.ahead[v] < up.vc_occupancy[v]

(* The link implements lanes: what is in the channel and the input buffer is *)
(* a bounded queue per VC that one packet writes at a time.                 *)
LanesOf == INSTANCE Lanes WITH
  Lane <- Vcs,
  Capacity <- IF Policy = "private" THEN VcBufSize ELSE BufSize,
  lane <- [v \in Vcs |-> buf[v] \o flying[v]],
  writer <- packet
Implements == LanesOf!Spec

(* Every packet gets a VC and all its flits arrive.                         *)
AllArrive == \A p \in Packets : <>(put[p] = Size[p] /\ \A v \in Vcs : flying[v] = << >>)
=============================================================================
