------------------------------- MODULE Router -------------------------------
(***************************************************************************)
(* The IQ router (routers/iq_router.cpp): one router between an upstream     *)
(* that sends packets under credits and a downstream that takes flits and    *)
(* returns credits.  A packet waits for its route, for an output VC and then, *)
(* flit by flit, for the switch; a packet for several outputs (mflag) goes    *)
(* through the same stages in queues of its own, and its flits are copied.    *)
(* The object is one record r; a step is one cycle.  Allocators grant any     *)
(* matching, not empty, of what is requested: what Allocators shows of them. *)
(***************************************************************************)
EXTENDS FlowControl, Arbiters, Sequences, SequencesExt

CONSTANTS
  Ins, Outs,     \* numbers of inputs and outputs
  Packets,
  InOf,          \* InOf[p]: the input p comes to
  VcsOf,         \* VcsOf[p]: the VCs p may come on
  Size,          \* Size[p]: flits_num
  RouteOf,       \* RouteOf[p]: outputs and VCs of its route set: <<outputs, vcs>>
  Multi,         \* packets that go to all outputs of their route, not to one
  Options        \* the settings looked at, see below

I == Ports(Ins)
O == Ports(Outs)

ASSUME RouterAssumption ==
  /\ Ins \in Nat \ {0} /\ Outs \in Nat \ {0} /\ Vcs = Ports(Cardinality(Vcs))
  /\ InOf \in [Packets -> I] /\ VcsOf \in [Packets -> SUBSET Vcs]
  /\ Size \in [Packets -> Nat \ {0}] /\ Multi \subseteq Packets
  /\ \A p \in Packets : RouteOf[p] \in (SUBSET O) \X (SUBSET Vcs)

(* An option o: o.spec is "no", or where a speculative request goes: "prio",  *)
(* the switch allocator itself with a low priority, or "own", one of its own; *)
(* o.piggyback: no VC allocator; o.routing, o.vc, o.sw: the delays; o.obuf is *)
(* output_buffer_size; o.hold, o.busyfull, o.elig, o.cred and o.mask are      *)
(* hold_switch_for_packet, vc_busy_when_full, spec_check_elig,              *)
(* spec_check_cred and spec_mask_by_reqs.                                  *)
VARIABLES
  opt,           \* the option in use
  r,             \* the router
  up,            \* up[i]: the sender's BufferState
  sending,       \* sending[i][v]: the packet being sent on VC v, at most one
  put,           \* put[p]: flits of p sent by the upstream
  inq,           \* inq[i]: the flit arriving at input i in this cycle, at most one
  down,          \* down[o][w]: flits of output o and VC w that the downstream holds
  got            \* got[p][o]: flits of p that came out of output o

vars == <<opt, r, up, sending, put, inq, down, got>>

N == Cardinality(Vcs)
Speculative == opt.spec # "no"
HasVcAlloc  == ~opt.piggyback
IsTail(f)   == f[2] = Size[f[1]]
FrontFlit(s, i, v) == s.buf[i][v][1]
IsEmpty(s, i, v) == s.buf[i][v] = << >>

(* An entry of a queue: its VC, the branch it is for, how many cycles it      *)
(* still takes (Fresh: not evaluated), and what it was given.               *)
Fresh   == -1
Nothing == <<Nobody, Nobody>>
Yes     == <<0, 0>>
Entry(i, v) == [i |-> i, v |-> v, b |-> Nothing, t |-> Fresh, g |-> Nothing]
Branches(s, i, v) == {[Entry(i, v) EXCEPT !.b = b] : b \in s.out[i][v]}
Due(S)     == {x \in S : x.t = 0}
AgainKept(x) == [x EXCEPT !.g = Nothing]      \* mutant: it is not evaluated again
Again(x)   == [x EXCEPT !.t = Fresh, !.g = Nothing]

(* Evaluation stops at the first entry that has its time already.  New entries  *)
(* come behind, and those evaluated together leave together: a queue waits for   *)
(* evaluation as a whole, or none of it does.                               *)
Waiting(S) == IF \A x \in S : x.t = Fresh THEN S ELSE {}
Evaluated(S, delay, given) ==
  {IF x \in Waiting(S) THEN [x EXCEPT !.t = delay - 1, !.g = given[x]] ELSE x : x \in S}

(* With a longer delay the entries that are due are looked at once more, and     *)
(* with them the one behind the last: assert(time >= 0) ends the program if it   *)
(* is not evaluated.                                                        *)
Aborts(S) == Due(S) # {} /\ \E x \in S : x.t = Fresh
Fold(S, op(_, _), s) == FoldSet(op, s, S)

RouterInit == [
  buf |-> [i \in I |-> [v \in Vcs |-> << >>]], st |-> [i \in I |-> [v \in Vcs |-> "idle"]],
  out |-> [i \in I |-> [v \in Vcs |-> {}]], copies |-> [i \in I |-> [v \in Vcs |-> 0]],
  route |-> {}, vca |-> {}, hold |-> {}, swa |-> {},
  routem |-> {}, vcam |-> << >>, swam |-> {},
  next |-> [o \in O |-> StateInit], held |-> {}, xbar |-> << >>, obuf |-> [o \in O |-> << >>], failed |-> FALSE,
  credits |-> {}, swrr |-> [i \in I |-> 0], vcrr |-> [o \in O |-> 0], active |-> FALSE]

-----------------------------------------------------------------------------
(* A head flit at the front of a VC starts at the route, or with lookahead    *)
(* routing at the allocation.                                              *)
ToAllocation(s, i, v) ==
  [s EXCEPT !.st[i][v] = "vc_alloc", !.out[i][v] = {},
            !.swa = IF Speculative THEN @ \cup {Entry(i, v)} ELSE @,
            !.vca = IF HasVcAlloc THEN @ \cup {Entry(i, v)} ELSE @]

StartHead(s, i, v) ==
  IF opt.routing = 0 THEN ToAllocation(s, i, v)
  ELSE IF FrontFlit(s, i, v)[1] \in Multi
       THEN [s EXCEPT !.st[i][v] = "routing", !.routem = @ \cup {Entry(i, v)}]
       ELSE [s EXCEPT !.st[i][v] = "routing", !.route = @ \cup {Entry(i, v)}]

(* A flit that comes to an empty VC of a packet under way goes for the switch *)
(* at once.                                                                *)
ContinueToOne(s, i, v) ==      \* mutant: whatever the number of its outputs
  IF \E h \in s.held : h[1] = i /\ h[2] = v THEN [s EXCEPT !.hold = @ \cup {Entry(i, v)}]
  ELSE [s EXCEPT !.swa = @ \cup {Entry(i, v)}]
Continue(s, i, v) ==
  CASE \E h \in s.held : h[1] = i /\ h[2] = v -> [s EXCEPT !.hold = @ \cup {Entry(i, v)}]
    [] FrontFlit(s, i, v)[1] \in Multi -> [s EXCEPT !.swam = @ \cup Branches(s, i, v)]
    [] OTHER -> [s EXCEPT !.swa = @ \cup {Entry(i, v)}]

(* The inputs at which a flit arrives.                                       *)
ReceiveFlits == {i \in I : inq[i] # << >>}

InputQueuing(s) ==
  LET Add(i, t) ==
        LET f == inq[i][1].f  v == inq[i][1].v
            u == [t EXCEPT !.buf[i][v] = Append(@, f)]
        IN  CASE t.st[i][v] = "idle" -> StartHead(u, i, v)
              [] t.st[i][v] = "active" /\ IsEmpty(t, i, v) -> Continue(u, i, v)
              [] OTHER -> u
  IN  Fold(ReceiveFlits, Add, s)

RouteEvaluate(s) == [s EXCEPT !.route = Evaluated(@, opt.routing, [x \in @ |-> Nothing])]
RouteUpdate(s) ==
  Fold(Due(s.route), LAMBDA x, t : ToAllocation([t EXCEPT !.route = @ \ {x}], x.i, x.v), s)

-----------------------------------------------------------------------------
(* VC allocation.                                                          *)
UsableAny(b, w) == ~(opt.busyfull /\ IsFullFor(b, w))      \* mutant: in use or not
Usable(b, w) == IsAvailableFor(b, w) /\ ~(opt.busyfull /\ IsFullFor(b, w))
VcRequests(s) ==
  {<<<<x.i, x.v>>, <<o, w>>>> : x \in Waiting(s.vca), o \in O, w \in Vcs} \cap
  {q \in (I \X Vcs) \X (O \X Vcs) :
     LET p == FrontFlit(s, q[1][1], q[1][2])[1]
     IN  /\ q[2][1] \in RouteOf[p][1] /\ q[2][2] \in RouteOf[p][2]
         /\ Usable(s.next[q[2][1]], q[2][2])}

Matchings(R) == {M \in SUBSET R : /\ R # {} => M # {}
                                  /\ \A a, b \in M : a[1] = b[1] \/ a[2] = b[2] => a = b}

AssignedIn(M, a) == IF \E m \in M : m[1] = a THEN (CHOOSE m \in M : m[1] = a)[2] ELSE Nothing

(* With a longer delay the VC may have been taken since it was granted.      *)
StillUsableAny(s, x) == x      \* mutant: a grant is not looked at again
StillUsable(s, x) ==
  IF x.t # 0 \/ x.g = Nothing \/ Usable(s.next[x.g[1]], x.g[2]) THEN x ELSE [x EXCEPT !.g = Nothing]

VCAllocEvaluate(s, M) ==
  LET e == Evaluated(s.vca, opt.vc, [x \in s.vca |-> AssignedIn(M, <<x.i, x.v>>)])
  IN  [s EXCEPT !.vca = IF opt.vc > 1 THEN {StillUsable(s, x) : x \in e} ELSE e,
                !.failed = @ \/ (opt.vc > 1 /\ Aborts(e))]

VCAllocUpdate(s) ==
  LET Step(x, t) ==
        LET u == [t EXCEPT !.vca = @ \ {x}]
        IN  IF x.g = Nothing THEN [u EXCEPT !.vca = @ \cup {Again(x)}]
            ELSE [u EXCEPT !.next[x.g[1]] = TakeBuffer(@, x.g[2]),
                           !.out[x.i][x.v] = {x.g}, !.st[x.i][x.v] = "active",
                           !.swa = IF Speculative THEN @ ELSE @ \cup {Entry(x.i, x.v)}]
  IN  Fold(Due(s.vca), Step, s)

-----------------------------------------------------------------------------
(* A flit leaves: into the crossbar, with a credit to the upstream.          *)
Full(s, o) == opt.obuf >= 0 /\ Len(s.obuf[o]) >= opt.obuf
Pass(s, f, b) ==
  [s EXCEPT !.next[b[1]] = SendingFlit(@, b[2], IsTail(f)),
            !.xbar = Append(@, [f |-> f, b |-> b, t |-> Fresh])]
RemoveFlit(s, i, v) == [s EXCEPT !.buf[i][v] = Tail(@), !.credits = @ \cup {<<i, v>>}]
ReleasedNot(s, i) == s      \* mutant: the switch stays held
Released(s, i) == [s EXCEPT !.held = {h \in @ : h[1] # i}]

(* After the tail the VC is idle or begins with the next packet.            *)
EndPacketIdle(s, i, v) == [s EXCEPT !.st[i][v] = "idle"]      \* mutant: the next head is forgotten
EndPacket(s, i, v) ==
  IF IsEmpty(s, i, v) THEN [s EXCEPT !.st[i][v] = "idle"] ELSE StartHead(s, i, v)

Go(s, x, b) == Pass(RemoveFlit(s, x.i, x.v), FrontFlit(s, x.i, x.v), b)

(* A switch that is held for a packet.                                      *)
OutOf(s, x) == CHOOSE b \in s.out[x.i][x.v] : TRUE
SWHoldEvaluate(s) ==
  [s EXCEPT !.hold = Evaluated(@, 1, [x \in @ |-> LET b == OutOf(s, x)
                                                  IN  IF IsFullFor(s.next[b[1]], b[2]) THEN Nothing ELSE b])]

(* The switch is let go with the tail, or when there is no flit to send.      *)
NextHeld(s, x, f) ==
  CASE IsTail(f)                         -> EndPacket(Released(s, x.i), x.i, x.v)
    [] ~IsTail(f) /\ IsEmpty(s, x.i, x.v) -> Released(s, x.i)
    [] OTHER                             -> [s EXCEPT !.hold = @ \cup {Entry(x.i, x.v)}]

SWHoldUpdate(s) ==
  LET Step(x, t) ==
        LET u == [t EXCEPT !.hold = @ \ {x}]
        IN  IF x.g = Nothing \/ Full(t, OutOf(t, x)[1])
            THEN [Released(u, x.i) EXCEPT !.swa = @ \cup {Entry(x.i, x.v)}]
            ELSE NextHeld(Go(u, x, x.g), x, FrontFlit(t, x.i, x.v))
  IN  Fold(Due(s.hold), Step, s)

-----------------------------------------------------------------------------
(* Switch allocation.  The outputs an entry asks for: that of its VC, or     *)
(* speculatively those of its route.  One output of the route that is not    *)
(* eligible marks the entry as stalled, whatever it asked of the others.     *)
IsSpec(s, x)    == s.st[x.i][x.v] = "vc_alloc"
Eligible(s, x, o) ==
  LET ws == {w \in RouteOf[FrontFlit(s, x.i, x.v)[1]][2] : IsAvailableFor(s.next[o], w) /\ ~Full(s, o)}
  IN  /\ opt.elig => ws # {}
      /\ opt.elig /\ opt.cred => \E w \in ws : ~IsFullFor(s.next[o], w)
      /\ opt.cred => opt.elig
OutputsFor(s, x) ==
  IF IsSpec(s, x) THEN {o \in RouteOf[FrontFlit(s, x.i, x.v)[1]][1] : Eligible(s, x, o)}
  ELSE LET b == OutOf(s, x) IN {b[1]} \ {o \in O : IsFullFor(s.next[o], b[2]) \/ Full(s, o)}
Stalled(s, x) == \/ ~IsSpec(s, x) /\ OutputsFor(s, x) = {}
                 \/ IsSpec(s, x) /\ \E o \in RouteOf[FrontFlit(s, x.i, x.v)[1]][1] : ~Eligible(s, x, o)

IsHeldInput(s, i, o) == \E h \in s.held : h[1] = i      \* mutant: only the input is held
IsHeld(s, i, o) == \E h \in s.held : h[1] = i \/ h[3] = o

(* Of the VCs of an input that want an output one is put forward, by its      *)
(* priority and round robin.                                               *)
Wanting(s, S, i, o) == {x \in S : x.i = i /\ o \in OutputsFor(s, x)}
Forward(s, S, i, o) ==
  LET pri == [v \in {x.v : x \in Wanting(s, S, i, o)} |->
                IF s.st[i][v] = "vc_alloc" THEN 0 ELSE 1]
  IN  RoundRobin(pri, s.swrr[i], N)
SwRequests(s, S) ==
  {<<i, o>> \in I \X O : ~IsHeld(s, i, o) /\ Wanting(s, S, i, o) # {}}

Committed(s) == {x \in Waiting(s.swa) : opt.spec # "own" \/ ~IsSpec(s, x)}
Hopeful(s)   == Waiting(s.swa) \ Committed(s)

(* A speculative grant does not count against a committed one.              *)
Masked(s, M, o) == IF opt.mask THEN \E q \in SwRequests(s, Committed(s)) : q[2] = o
                   ELSE \E m \in M : m[2] = o
Given(s, M, H, x) ==
  LET In(G, S) == \E o \in O : <<x.i, o>> \in G /\ Forward(s, S, x.i, o) = x.v
      Take(G)  == <<CHOOSE o \in O : <<x.i, o>> \in G, 0>>
  IN  CASE Stalled(s, x) -> Nothing
        [] ~Stalled(s, x) /\ (\E m \in M : m[1] = x.i) -> IF In(M, Committed(s)) THEN Take(M) ELSE Nothing
        [] ~Stalled(s, x) /\ ~(\E m \in M : m[1] = x.i) ->
             IF In(H, Hopeful(s)) /\ ~Masked(s, M, Take(H)[1]) THEN Take(H) ELSE Nothing

(* A later look at a grant that was speculative, or is some cycles old.  mv   *)
(* is what the VC allocator granted in this cycle.                         *)
Roomy(s, o, p) == \E w \in RouteOf[p][2] : IsAvailableFor(s.next[o], w) /\ ~IsFullFor(s.next[o], w)
HasCredit(s, x) == ~IsFullFor(s.next[x.g[1]], OutOf(s, x)[2])
Stands(s, x, mv) ==
  LET a == AssignedIn(mv, <<x.i, x.v>>)
  IN  /\ ~IsHeld(s, x.i, x.g[1])
      /\ IsSpec(s, x) /\ HasVcAlloc => /\ a # Nothing /\ a[1] = x.g[1]
                                       /\ ~IsFullFor(s.next[a[1]], a[2])
      /\ IsSpec(s, x) /\ ~HasVcAlloc => Roomy(s, x.g[1], FrontFlit(s, x.i, x.v)[1])
      /\ ~IsSpec(s, x) => HasCredit(s, x)

SWAllocEvaluate(s, M, H, mv) ==
  LET e == Evaluated(s.swa, opt.sw, [x \in s.swa |-> Given(s, M, H, x)])
      c == {IF x.t = 0 /\ x.g # Nothing /\ ~Stands(s, x, mv) THEN [x EXCEPT !.g = Nothing] ELSE x : x \in e}
      w == {x \in e : x.g # Nothing /\ Entry(x.i, x.v) \in s.swa}
      again == Speculative \/ opt.sw > 1
  IN  [s EXCEPT !.swa = IF again THEN c ELSE e, !.failed = @ \/ (again /\ Aborts(e)),
                !.swrr = [i \in I |-> IF \E x \in w : x.i = i
                                      THEN After((CHOOSE x \in w : x.i = i).v, N) ELSE @[i]]]

(* Without VC allocator the packet takes its VC with its first flit.        *)
TakeVc(s, x) ==
  LET o  == x.g[1]
      ws == {w \in RouteOf[FrontFlit(s, x.i, x.v)[1]][2] : Usable(s.next[o], w) /\ ~IsFullFor(s.next[o], w)}
      w  == RoundRobin([w \in ws |-> 0], s.vcrr[o], N)
  IN  IF HasVcAlloc \/ ~IsSpec(s, x) THEN s
      ELSE [s EXCEPT !.st[x.i][x.v] = "active", !.out[x.i][x.v] = {<<o, w>>},
                     !.next[o] = TakeBuffer(@, w), !.vcrr[o] = After(w, N)]

(* The next flit asks again, or has the switch held for it.                  *)
BodyFlit(s, x) ==
  IF opt.hold THEN [s EXCEPT !.held = @ \cup {<<x.i, x.v, x.g[1]>>}, !.hold = @ \cup {Entry(x.i, x.v)}]
  ELSE [s EXCEPT !.swa = @ \cup {Entry(x.i, x.v)}]

SWAllocUpdate(s) ==
  LET Step(x, t) ==
        LET u == TakeVc([t EXCEPT !.swa = @ \ {x}], x)
            g == Go(u, x, OutOf(u, x))
        IN  CASE x.g = Nothing -> [t EXCEPT !.swa = (@ \ {x}) \cup {Again(x)}]
              [] x.g # Nothing /\ IsTail(FrontFlit(t, x.i, x.v)) -> EndPacket(g, x.i, x.v)
              [] OTHER -> IF IsEmpty(g, x.i, x.v) THEN g ELSE BodyFlit(g, x)
  IN  Fold(Due(s.swa), Step, s)

-----------------------------------------------------------------------------
(* A packet for several outputs.  It takes a VC at each of them at once, and  *)
(* only where all of it fits; the VCs of its route set are not looked at.     *)
RouteEvaluateMulti(s) == [s EXCEPT !.routem = Evaluated(@, opt.routing, [x \in @ |-> Nothing])]
RouteUpdateMulti(s) ==
  Fold(Due(s.routem),
       LAMBDA x, t : [t EXCEPT !.routem = @ \ {x}, !.st[x.i][x.v] = "vc_alloc", !.out[x.i][x.v] = {},
                               !.vcam = IF HasVcAlloc THEN Append(@, Entry(x.i, x.v)) ELSE @], s)

RoomForOne(s, p, o) ==      \* mutant: room for a flit of it
  {w \in Vcs : AvailableFor(s.next[o], w) >= 1 /\ Usable(s.next[o], w)}
RoomFor(s, p, o) ==
  {w \in Vcs : AvailableFor(s.next[o], w) >= Size[p] /\ Usable(s.next[o], w)}

TakeVcs(s, x, b) ==
  [s EXCEPT !.out[x.i][x.v] = b, !.copies[x.i][x.v] = 0,
            !.next = [o \in O |-> IF \E c \in b : c[1] = o
                                  THEN TakeBuffer(@[o], (CHOOSE c \in b : c[1] = o)[2]) ELSE @[o]]]

VCAllocEvaluateMulti(s) ==
  LET waiting == \A k \in DOMAIN s.vcam : s.vcam[k].t = Fresh
      Step(t, k) ==
        LET x == s.vcam[k]
            p == FrontFlit(s, x.i, x.v)[1]
            b == {<<o, Min(RoomFor(t, p, o))>> : o \in RouteOf[p][1]}
        IN  CASE ~waiting -> t
              [] waiting /\ (\E o \in RouteOf[p][1] : RoomFor(t, p, o) = {}) ->
                   [t EXCEPT !.vcam[k].t = opt.vc - 1]
              [] OTHER -> TakeVcs([t EXCEPT !.vcam[k].t = opt.vc - 1, !.vcam[k].g = Yes], x, b)
  IN  FoldLeft(Step, s, [k \in 1 .. Len(s.vcam) |-> k])

VCAllocUpdateMulti(s) ==
  LET Step(t, x) ==
        CASE x.t # 0 -> [t EXCEPT !.vcam = Append(@, x)]
          [] x.t = 0 /\ x.g = Nothing -> [t EXCEPT !.vcam = Append(@, Again(x))]
          [] OTHER -> [t EXCEPT !.st[x.i][x.v] = "active", !.swam = @ \cup Branches(t, x.i, x.v)]
  IN  FoldLeft(Step, [s EXCEPT !.vcam = << >>], s.vcam)

(* No allocator decides here: every branch with room is granted.            *)
RoomAt(s, b) == ~IsFullFor(s.next[b[1]], b[2]) /\ ~Full(s, b[1])
GrantMulti(s, w) ==
  [s EXCEPT !.swam = Evaluated(@, opt.sw, [x \in @ |-> IF x \in w THEN x.b ELSE Nothing]),
            !.swrr = [i \in I |-> IF \E x \in w : x.i = i
                                  THEN After((CHOOSE x \in w : x.i = i).v, N) ELSE @[i]]]
SWAllocEvaluateMulti(s) == GrantMulti(s, {x \in Waiting(s.swam) : RoomAt(s, x.b)})

(* Each branch gets a copy; the last one takes the flit, sends the credit and *)
(* goes on to the next flit.                                               *)
IsLast(s, x) == s.copies[x.i][x.v] + 1 = Cardinality(s.out[x.i][x.v])
NextMulti(s, i, v, f) ==
  CASE IsTail(f)                     -> EndPacket([s EXCEPT !.out[i][v] = {}], i, v)
    [] ~IsTail(f) /\ IsEmpty(s, i, v) -> s
    [] OTHER                         -> [s EXCEPT !.swam = @ \cup Branches(s, i, v)]

SWAllocUpdateMulti(s) ==
  LET Step(x, t) ==
        LET i == x.i  v == x.v
            f == FrontFlit(t, i, v)
            u == [t EXCEPT !.swam = @ \ {x}]
            c == [Pass(u, f, x.b) EXCEPT !.copies[i][v] = @ + 1]
        IN  CASE x.g = Nothing -> [u EXCEPT !.swam = @ \cup {Again(x)}]
              [] x.g # Nothing /\ ~IsLast(t, x) -> c
              [] OTHER -> NextMulti([RemoveFlit(c, i, v) EXCEPT !.copies[i][v] = 0], i, v, f)
  IN  Fold(Due(s.swam), Step, s)

-----------------------------------------------------------------------------
(* The crossbar takes one cycle from its evaluation.                        *)
SwitchEvaluate(s) == [s EXCEPT !.xbar = [k \in DOMAIN @ |-> [@[k] EXCEPT !.t = IF @ = Fresh THEN 0 ELSE @]]]
SwitchUpdate(s) ==
  LET Step(t, c) == IF c.t = 0 THEN [t EXCEPT !.obuf[c.b[1]] = Append(@, [f |-> c.f, w |-> c.b[2]])]
                    ELSE [t EXCEPT !.xbar = Append(@, c)]
  IN  FoldLeft(Step, [s EXCEPT !.xbar = << >>], s.xbar)

(* Packets for several outputs are served first, and in full, in each cycle.  *)
(* The router stays active if any queue is found not empty after its stage.  *)
NotedLast(s, q) == [s EXCEPT !.active = s[q] # RouterInit[q]]      \* mutant: the last queue decides
Noted(s, q) == [s EXCEPT !.active = @ \/ s[q] # RouterInit[q]]

EvaluateMulti(s) ==
  SWAllocEvaluateMulti(VCAllocEvaluateMulti(
    RouteEvaluateMulti(s)))
MultiSubStep(s) ==
  Noted(SWAllocUpdateMulti(
    Noted(VCAllocUpdateMulti(
      Noted(RouteUpdateMulti(EvaluateMulti(s)), "routem")), "vcam")), "swam")

(* mv, M, H: what the VC and the switch allocators grant.                   *)
EvaluateAll(s, mv, M, H) ==
  SwitchEvaluate(SWAllocEvaluate(SWHoldEvaluate(VCAllocEvaluate(RouteEvaluate(s), mv)), M, H, mv))
UpdateAll(s) ==
  Noted(SwitchUpdate(
    Noted(SWAllocUpdate(
      Noted(SWHoldUpdate(
        Noted(VCAllocUpdate(
          Noted(RouteUpdate(s), "route")), "vca")), "hold")), "swa")), "xbar")
SubStep(s, mv, M, H) == UpdateAll(EvaluateAll(s, mv, M, H))

SoonerAlways(t) == t - 1      \* mutant: zero counts on
Sooner(t) == IF t > 0 THEN t - 1 ELSE t
Ticked(S) == {[x EXCEPT !.t = Sooner(@)] : x \in S}
Tick(s) == [s EXCEPT !.route = Ticked(@), !.vca = Ticked(@), !.swa = Ticked(@),
                     !.routem = Ticked(@), !.swam = Ticked(@),
                     !.vcam = [k \in DOMAIN @ |-> [@[k] EXCEPT !.t = Sooner(@)]]]

-----------------------------------------------------------------------------
(* Packets for several outputs need a route computed here, a VC allocator, a   *)
(* switch that is not held and an output buffer without limit: with another    *)
(* setting the code loses them or fails an assertion (see README).          *)
Suits(p) == p \in Multi => opt.routing > 0 /\ ~opt.piggyback /\ ~opt.hold /\ opt.obuf < 0
Sent     == {p \in opt.packets : Suits(p)}

(* The sender of a link: see Link.                                          *)
IsNext(i, v, p) ==
  /\ InOf[p] = i /\ v \in VcsOf[p] /\ p \in Sent /\ put[p] < Size[p] /\ inq[i] = << >>
  /\ IF put[p] = 0 THEN IsAvailableFor(up[i], v) ELSE sending[i][v] = {p}

Send(i, v, p) ==
  LET k == put[p] + 1
      b == IF k = 1 THEN TakeBuffer(up[i], v) ELSE up[i]
  IN  /\ up' = [up EXCEPT ![i] = SendingFlit(b, v, k = Size[p])]
      /\ sending' = [sending EXCEPT ![i][v] = IF k = Size[p] THEN {} ELSE {p}]
      /\ put' = [put EXCEPT ![p] = k]
      /\ inq' = [inq EXCEPT ![i] = <<[f |-> <<p, k>>, v |-> v]>>]
      /\ UNCHANGED <<opt, r, down, got>>

(* Each output channel takes a flit, and each input channel the credits.     *)
WriteOutputs(s) ==
  LET out == {o \in O : s.obuf[o] # << >>}
  IN  [r |-> [s EXCEPT !.credits = {}, !.obuf = [o \in O |-> IF o \in out THEN Tail(@[o]) ELSE @[o]]],
       down |-> [o \in O |-> [w \in Vcs |->
         IF o \in out /\ s.obuf[o][1].w = w THEN Append(down[o][w], s.obuf[o][1].f) ELSE down[o][w]]],
       got |-> [p \in Packets |-> [o \in O |->
         got[p][o] + IF o \in out /\ s.obuf[o][1].f[1] = p THEN 1 ELSE 0]],
       up |-> [i \in I |-> FoldSet(LAMBDA c, b : ProcessCredit(b, c[2]), up[i], {c \in s.credits : c[1] = i})]]

InternalStep ==
  LET a == MultiSubStep(InputQueuing([r EXCEPT !.active = FALSE]))
      V == IF HasVcAlloc THEN Matchings(VcRequests(a)) ELSE {{}}
  IN  {SubStep(a, mv, M, H) : mv \in V, M \in Matchings(SwRequests(a, Committed(a))),
                              H \in Matchings(SwRequests(a, Hopeful(a)))}

(* What a cycle may lead to.                                               *)
IqOutcomes == IF r.failed THEN {}
              ELSE {WriteOutputs(Tick(s)) : s \in IF r.active \/ ReceiveFlits # {} THEN InternalStep ELSE {r}}

Cycle(S) ==
  /\ \E c \in S : r' = c.r /\ down' = c.down /\ got' = c.got /\ up' = c.up
  /\ inq' = [i \in I |-> << >>]
  /\ UNCHANGED <<opt, sending, put>>

(* The downstream takes a flit on; its credit comes to this router.          *)
IqCredited(o, w) == [r EXCEPT !.next[o] = ProcessCredit(@, w), !.active = TRUE]
Drain(o, w, s) ==
  /\ down[o][w] # << >>
  /\ down' = [down EXCEPT ![o][w] = Tail(@)]
  /\ r' = s
  /\ UNCHANGED <<opt, up, sending, put, inq, got>>

-----------------------------------------------------------------------------
Of(S, i, v) == Cardinality({x \in S : x.i = i /\ x.v = v})
VcamOf(i, v) == Cardinality({k \in DOMAIN r.vcam : r.vcam[k].i = i /\ r.vcam[k].v = v})
IsMulti(i, v) == ~IsEmpty(r, i, v) /\ FrontFlit(r, i, v)[1] \in Multi
One(b) == IF b THEN 1 ELSE 0

(* What is on its way to VC w behind output o, from the oldest.             *)
InCrossbar(o, w) == LET own == SelectSeq(r.xbar, LAMBDA c : c.b = <<o, w>>) IN [k \in DOMAIN own |-> own[k].f]
InOutput(o, w) == LET own == SelectSeq(r.obuf[o], LAMBDA c : c.w = w) IN [k \in DOMAIN own |-> own[k].f]
Through(o, w) == down[o][w] \o InOutput(o, w) \o InCrossbar(o, w)

(* Flits of p that have left for output o, and those taken out of the buffer. *)
Leaving(p, o) == Cardinality({k \in DOMAIN r.obuf[o] : r.obuf[o][k].f[1] = p})
                 + Cardinality({k \in DOMAIN r.xbar : r.xbar[k].f[1] = p /\ r.xbar[k].b[1] = o})
Passed(p, o) == got[p][o] + Leaving(p, o)
Taken(p) == put[p] - MapThenSumSet(LAMBDA v : Cardinality({k \in DOMAIN r.buf[InOf[p]][v] : r.buf[InOf[p]][v][k][1] = p}), Vcs)
            - One(inq[InOf[p]] # << >> /\ inq[InOf[p]][1].f[1] = p)

(* What an input VC keeps (VC): its flits, its state, the outputs and VCs of    *)
(* its packet, and for how many of them the front flit has been copied.      *)
Flit == Packets \X (Nat \ {0})
VcTypes(s, i, v) ==
  /\ s.buf[i][v] \in Seq(Flit) /\ Len(s.buf[i][v]) <= BufSize
  /\ s.st[i][v] \in {"idle", "routing", "vc_alloc", "active"}
  /\ s.out[i][v] \subseteq O \X Vcs /\ s.copies[i][v] \in Nat

(* What the router keeps (IQRouter): its input VCs, the queues of the stages,   *)
(* the switches that are held, the crossbar, the buffers of the outputs.     *)
QueueEntry == [i : I, v : Vcs, b : {Nothing} \cup (O \X Vcs), t : -1 .. 2, g : Int \X Int]
IqTypes(s) ==
  /\ DOMAIN s = DOMAIN RouterInit /\ s.active \in BOOLEAN /\ s.failed \in BOOLEAN
  /\ \A i \in I, v \in Vcs : VcTypes(s, i, v)
  /\ s.route \cup s.vca \cup s.hold \cup s.swa \cup s.routem \cup s.swam \subseteq QueueEntry
  /\ s.vcam \in Seq(QueueEntry) /\ s.held \subseteq I \X Vcs \X O
  /\ s.xbar \in Seq([f : Flit, b : O \X Vcs, t : -1 .. 2])
  /\ s.obuf \in [O -> Seq([f : Flit, w : Vcs])] /\ s.credits \subseteq I \X Vcs
  /\ s.swrr \in [I -> Vcs] /\ s.vcrr \in [O -> Vcs]
  /\ \A o \in O : DOMAIN s.next[o] = DOMAIN StateInit
IqTypeOK == IqTypes(r)

(* No stage looks at an entry once more that it has not evaluated: what the      *)
(* assertions assert(time >= 0) of the allocation stages say.                 *)
IqTimed == ~r.failed

(* Every VC is in the one queue that belongs to its state, once, and in none  *)
(* when it has nothing to do: what the assertions on GetState, Empty and the  *)
(* front flit in each stage rely on.                                       *)
Staged ==
  \A i \in I, v \in Vcs :
    LET m == One(IsMulti(i, v))  u == One(~IsEmpty(r, i, v)) - m  s == r.st[i][v]
        at(n, m1, a, m2, b) == /\ Of(r.route, i, v) = n /\ Of(r.routem, i, v) = m1
                               /\ Of(r.vca, i, v) = a /\ VcamOf(i, v) = m2
                               /\ Of(r.swa, i, v) + Of(r.hold, i, v) = b
    IN  /\ s = "idle" => IsEmpty(r, i, v) /\ at(0, 0, 0, 0, 0)
        /\ s = "routing" => m + u = 1 /\ FrontFlit(r, i, v)[2] = 1 /\ at(u, m, 0, 0, 0)
        /\ s = "vc_alloc" => /\ m + u = 1 /\ FrontFlit(r, i, v)[2] = 1
                             /\ at(0, 0, u * One(HasVcAlloc), m, u * One(Speculative))
        /\ s = "active" => at(0, 0, 0, 0, u)
        /\ Of(r.swam, i, v) = IF s = "active" /\ m = 1 THEN Cardinality(r.out[i][v]) - r.copies[i][v] ELSE 0

(* A VC of an output is in use exactly while one input VC still has flits to   *)
(* send over it, never two.                                                *)
Owes(i, v, b) ==
  /\ r.st[i][v] \in {"vc_alloc", "active"} /\ b \in r.out[i][v]
  /\ ~(IsMulti(i, v) /\ r.st[i][v] = "active" /\ IsTail(FrontFlit(r, i, v)) /\ ~\E x \in r.swam : x.i = i /\ x.v = v /\ x.b = b)
OneOwner ==
  \A o \in O, w \in Vcs :
    Cardinality({c \in I \X Vcs : Owes(c[1], c[2], <<o, w>>)}) = One(r.next[o].in_use[w])

(* On a VC of an output the flits of a packet follow each other, and those of  *)
(* two packets never mix.                                                  *)
NoMixing ==
  \A o \in O, w \in Vcs : LET s == Through(o, w)
    IN  \A k \in 1 .. Len(s) - 1 :
          s[k + 1] = IF IsTail(s[k]) THEN <<s[k + 1][1], 1>> ELSE <<s[k][1], s[k][2] + 1>>

(* A packet for several outputs goes once to each, and its flits leave their    *)
(* buffer with the last copy; any other goes to one output, all of it.       *)
IqCopies ==
  \A p \in Packets :
    IF p \in Multi
    THEN \A o \in O : IF o \in RouteOf[p][1] THEN Passed(p, o) \in {Taken(p), Taken(p) + 1} ELSE Passed(p, o) = 0
    ELSE \E o \in RouteOf[p][1] : Passed(p, o) = Taken(p) /\ \A n \in O \ {o} : Passed(p, n) = 0

(* One credit goes back for each flit that leaves, whatever its copies, and    *)
(* what the router counts for a VC is on its way there.                     *)
CreditsBack == \A i \in I, v \in Vcs :
  up[i].vc_occupancy[v] = Len(r.buf[i][v]) + One(inq[i] # << >> /\ inq[i][1].v = v)
IqCounts == \A o \in O, w \in Vcs : r.next[o].vc_occupancy[w] = Len(Through(o, w))

(* No VC behind an output is sent more than it holds.                       *)
NeverOverflows == \A o \in O, w \in Vcs : Len(Through(o, w)) <= VcBufSize

(* A packet for several outputs that has its VCs never waits again: all of it  *)
(* has room, at every branch.                                              *)
MulticastGoesOn ==
  \A i \in I, v \in Vcs : IsMulti(i, v) =>
    \A b \in r.out[i][v] : LET p == FrontFlit(r, i, v)[1]
      IN  Owes(i, v, b) => AvailableFor(r.next[b[1]], b[2]) >= Size[p] - Passed(p, b[1])

(* A held switch has one input and one output, of a packet under way, and is    *)
(* let go when the packet has no flit here.                                 *)
HeldAgree ==
  /\ \A h, k \in r.held : h[1] = k[1] \/ h[3] = k[3] => h = k
  /\ \A h \in r.held : /\ r.st[h[1]][h[2]] = "active" /\ \E b \in r.out[h[1]][h[2]] : b[1] = h[3]
                      /\ Of(r.hold, h[1], h[2]) = 1

(* In a cycle the crossbar takes at most one flit for each output.           *)
OneFlitPerOutput(S) ==
  \A j, k \in DOMAIN r.xbar :
    /\ j # k /\ r.xbar[j].t = r.xbar[k].t /\ r.xbar[j].f[1] \in S /\ r.xbar[k].f[1] \in S
    => r.xbar[j].b[1] # r.xbar[k].b[1]
CrossbarKept == OneFlitPerOutput(Packets \ Multi)

IqAwake ==
  r.active \/ /\ r.route = {} /\ r.vca = {} /\ r.hold = {} /\ r.swa = {}
              /\ r.routem = {} /\ r.vcam = << >> /\ r.swam = {} /\ r.xbar = << >>

(* All packets gone, and nothing left behind: no VC in use, no switch held.   *)
IqGone ==
  /\ \A p \in Sent : IF p \in Multi THEN \A o \in RouteOf[p][1] : got[p][o] = Size[p]
                     ELSE \E o \in RouteOf[p][1] : got[p][o] = Size[p]
  /\ \A o \in O, w \in Vcs : ~r.next[o].in_use[w] /\ r.next[o].vc_occupancy[w] = 0
  /\ r.held = {}
=============================================================================
