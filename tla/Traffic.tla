------------------------------- MODULE Traffic -------------------------------
(***************************************************************************)
(* The traffic manager (trafficmanager.cpp): it gives the flits of the cores  *)
(* and DDRs their ids, sends them into the network under credits, class by    *)
(* class, retires what comes out, and ends the run: it stops the cores when   *)
(* all have ended, drains the network, and then the credits.  A step is one   *)
(* _Step.  The network, and when a core has a packet ready, are external:     *)
(* routers pass flits on in any order of VCs, and copy those of a packet for   *)
(* several nodes; a hub sends a copy to every node and the wrong ones drop it. *)
(***************************************************************************)
EXTENDS FlowControl, Sequences, SequencesExt
Conf == INSTANCE Setup

CONSTANTS
  N,             \* _nodes
  NumClasses,    \* _classes
  MaxFlits,      \* packet_size
  Period,        \* cycles between two looks at the cores, 300 in the code
  Packets,
  Size,          \* Size[p]: flits_num
  To,            \* To[p]: the nodes p is for
  Radio,         \* the packets that go over the hubs
  Makes,         \* Makes[n]: the packets of node n, in order
  Needs,         \* Needs[p]: what must have come to its node before p is made
  Expects,       \* Expects[n]: what core n takes in before it ends
  Cores,         \* core_id
  Outputs,       \* outputs of the router of a node
  FirstOut,      \* FirstOut[p]: the one p takes there
  Options        \* the settings that are tried

Nodes   == 0 .. N - 1
Classes == 0 .. NumClasses - 1
None    == -1

ASSUME TrafficAssumption ==
  /\ N \in Nat \ {0} /\ NumClasses \in Nat \ {0} /\ Period \in Nat \ {0, 1}
  /\ Vcs = 0 .. Cardinality(Vcs) - 1 /\ Cores \subseteq Nodes
  /\ Size \in [Packets -> 1 .. MaxFlits] /\ To \in [Packets -> (SUBSET Nodes) \ {{}}]
  /\ FirstOut \in [Packets -> 0 .. Outputs - 1] /\ Outputs \in 1 .. Cardinality(Vcs)
  /\ Makes \in [Nodes -> Seq(Packets)] /\ Radio \subseteq Packets

VARIABLES
  opt,           \* the settings
  time,          \* _time modulo Period
  phase,         \* "building", then where Run is: "running", "draining", "credits" or "done"; or "exit"
  todo,          \* todo[n]: packets n has not got ready yet
  ready,         \* ready[n]: packets that run() is to hand over
  pp,            \* _partial_packets
  ids,           \* <<_cur_id, _cur_pid>>
  total,         \* the ids in _total_in_flight_flits
  heads,         \* the pids in _retired_packets
  buf,           \* _buf_states
  last_class, last_vc,
  inj,           \* inj[n][v]: flits in VC v of the router of n
  cred,          \* cred[n]: VCs whose credits are on the way to n
  copies,        \* <<pid, node, pid of the copy, id of its next flit>> of packets being copied
  air,           \* air[d]: flits on their way to node d
  dropped,       \* flits dropped by hubs
  back,          \* nodes whose credit is on the way into the network
  got            \* got[n]: packets received whole by n

node == <<pp, buf, last_class, last_vc>>
net  == <<inj, cred, copies, air, dropped>>
vars == <<opt, time, phase, todo, ready, ids, total, heads, node, net, back, got>>

IsTail(f) == f.k = Size[f.p]
IsHead(f) == f.k = 1

-----------------------------------------------------------------------------
(* _Inject: what the cores and DDRs have ready becomes flits, numbered one    *)
(* after the other.  A node makes a packet for a class with none waiting.     *)
Made(p, c, i, pri) ==
  [k \in 1 .. Size[p] |-> [p |-> p, k |-> k, id |-> i[1] + k - 1, pid |-> i[2], c |-> c, vc |-> None, pri |-> pri]]

(* The priority of a flit: its class, or the older the higher.              *)
Priority(c) == LET pri == opt.str["priority"]
               IN  CASE pri = "none" -> 0 [] pri = "class" -> c [] pri = "age" -> -ids[2]

InjectAt(s, nc) ==
  LET n == nc[1]  c == nc[2]
      p == Head(s.ready[n])
  IN  IF s.ready[n] = << >> \/ s.pp[n][c] # << >> THEN s
      ELSE [s EXCEPT !.ready[n] = Tail(@), !.pp[n][c] = Made(p, c, s.ids, Priority(c)),
                     !.ids = <<@[1] + Size[p], @[2] + 1>>,
                     !.total = @ \cup (s.ids[1] .. s.ids[1] + Size[p] - 1)]
InOrder == [j \in 1 .. N * NumClasses |-> <<(j - 1) \div NumClasses, (j - 1) % NumClasses>>]
Inject(s) == FoldLeft(InjectAt, s, InOrder)

-----------------------------------------------------------------------------
(* The VC for a head flit.  The search begins behind the last VC of its       *)
(* class; if that is not in the range only the first VC is looked at.  noq    *)
(* keeps a part of the VCs for each output of the first router.             *)
RangeFor(p) ==
  LET part == Cardinality(Vcs) \div Outputs
  IN  IF opt.int["noq"] # 0 THEN <<FirstOut[p] * part, FirstOut[p] * part + part - 1>> ELSE <<0, Cardinality(Vcs) - 1>>

Tried(last, lo, count) ==
  IF last \in lo .. lo + count - 1 THEN [i \in 1 .. count |-> lo + ((last - lo + i) % count)] ELSE <<lo>>

FreeVcAny(b, v) == ~IsFullFor(b, v)      \* mutant: a VC that another packet is in
FreeVc(b, v) == IsAvailableFor(b, v) /\ ~IsFullFor(b, v)
FindVc(n, c, b, p) ==
  LET r    == RangeFor(p)
      free == SelectSeq(Tried(last_vc[n][c], r[1], r[2] - r[1] + 1), LAMBDA v : FreeVc(b, v))
  IN  IF free = << >> THEN None ELSE free[1]

(* A class held for its packet comes first; then the others in turn, and one   *)
(* takes the place of another only by a higher priority.  A head keeps the VC  *)
(* it found, even if another class is sent.                                 *)
HeldFront(s, n) ==
  LET q == s.pp[n][last_class[n]]
  IN  opt.int["hold_switch_for_packet"] # 0 /\ q # << >> /\ ~IsHead(q[1]) /\ ~IsFullFor(s.buf[n], q[1].vc)

Consider(n, s, c) ==
  LET q == s.pp[n][c]
      v == IF IsHead(q[1]) /\ q[1].vc = None THEN FindVc(n, c, s.buf[n], q[1].p) ELSE q[1].vc
      u == [s EXCEPT !.pp[n][c][1].vc = v]
  IN  IF q = << >> \/ (s.pick # None /\ s.pp[n][s.pick][1].pri >= q[1].pri) THEN s
      ELSE IF v = None \/ IsFullFor(s.buf[n], v) THEN u
      ELSE [u EXCEPT !.pick = c]

Pick(s, n) ==
  LET held == HeldFront(s, n)
      t    == [s EXCEPT !.pick = IF held THEN last_class[n] ELSE None]
      turn == [i \in 1 .. NumClasses - (IF held THEN 1 ELSE 0) |-> (last_class[n] + i) % NumClasses]
  IN  FoldLeft(LAMBDA a, c : Consider(n, a, c), t, turn)

(* The flit goes; the next one of the packet goes on the same VC.            *)
SendFlit(s, n, f) ==
  LET v == f.vc  c == f.c
      b == IF IsHead(f) THEN TakeBuffer(s.buf[n], v) ELSE s.buf[n]
      q == Tail(s.pp[n][c])
  IN  [s EXCEPT !.buf[n] = SendingFlit(b, v, IsTail(f)),
                !.last_vc[n][c] = IF IsHead(f) THEN v ELSE @,
                !.last_class[n] = c,
                !.pp[n][c] = IF IsTail(f) THEN q ELSE [q EXCEPT ![1].vc = v],
                !.inj[n][v] = Append(@, f)]

SendAt(s, n) ==
  LET t == Pick(s, n) IN IF t.pick = None THEN t ELSE SendFlit(t, n, t.pp[n][t.pick][1])
SendAll(s) == FoldLeft(SendAt, s, [j \in 1 .. N |-> j - 1])

-----------------------------------------------------------------------------
(* _RetireFlit: a flit leaves the flits in flight; a head that is not a tail   *)
(* is kept until its tail comes.                                           *)
HeadsAfter(H, f) ==
  CASE IsHead(f) /\ ~IsTail(f) -> H \cup {f.pid}
    [] IsTail(f) /\ ~IsHead(f) -> H \ {f.pid}
    [] OTHER -> H
Retire(s, f) == [s EXCEPT !.total = @ \ {f.id}, !.heads = HeadsAfter(@, f)]
EjectAt(s, d) ==
  LET f == Head(s.air[d])
  IN  IF s.air[d] = << >> THEN s
      ELSE [Retire(s, f) EXCEPT !.air[d] = Tail(@), !.back = @ \cup {d},
                                !.got[d] = IF IsTail(f) THEN @ \cup {f.p} ELSE @]
Eject(s) ==
  LET t == FoldLeft(EjectAt, [s EXCEPT !.back = {}], [j \in 1 .. N |-> j - 1])
  IN  [t EXCEPT !.total = @ \ {f.id : f \in t.dropped}, !.dropped = {}]

Credited(s) ==
  [s EXCEPT !.buf = [n \in Nodes |-> IF s.cred[n] = << >> THEN s.buf[n] ELSE ProcessCredit(s.buf[n], s.cred[n][1])],
            !.cred = [n \in Nodes |-> << >>]]

-----------------------------------------------------------------------------
(* Run: the cores are looked at when a period is over.  Once all have ended    *)
(* nothing is made any more; the run goes on until no flit is in flight, and   *)
(* then until no credit is outstanding.                                    *)
HasEnded(s, n) == todo[n] = << >> /\ s.ready[n] = << >> /\ Expects[n] \subseteq s.got[n]
AllEndedSome(s) == \E n \in Cores : HasEnded(s, n)      \* mutant: one is enough
AllEnded(s) == \A n \in Cores : HasEnded(s, n)

NoCredits(s) == s.back = {} /\ \A n \in Nodes : s.cred[n] = << >>
PhaseAfter(s) ==
  CASE phase = "running" /\ ~(s.time = 0 /\ AllEnded(s)) -> "running"
    [] ~(phase = "running" /\ ~(s.time = 0 /\ AllEnded(s))) /\ phase # "credits" /\ s.total # {} -> "draining"
    [] OTHER -> IF NoCredits(s) THEN "done" ELSE "credits"

Now == [pp |-> pp, ready |-> ready, ids |-> ids, total |-> total, heads |-> heads, buf |-> buf,
        last_class |-> last_class, last_vc |-> last_vc, inj |-> inj, cred |-> cred, air |-> air,
        dropped |-> dropped, back |-> back, got |-> got, pick |-> None, time |-> (time + 1) % Period]

(* The constructors end the program, or the run begins, if there is to be one.  *)
Build ==
  /\ phase = "building"
  /\ phase' = CASE ~Conf!Built(opt) -> "exit"
               [] Conf!Built(opt) /\ opt.int["sim_count"] = 0 -> "done"
               [] Conf!Built(opt) /\ opt.int["sim_count"] > 0 -> "running"
  /\ UNCHANGED <<opt, time, todo, ready, ids, total, heads, node, net, back, got>>

(* One _Step, from ReadFlit to ++_time, and the look of Run at it.           *)
Step ==
  /\ phase \notin {"building", "done", "exit"}
  /\ \E s \in {Eject(SendAll(IF phase = "running" THEN Inject(Credited(Now)) ELSE Credited(Now)))} :
       /\ pp' = s.pp /\ ready' = s.ready /\ ids' = s.ids /\ total' = s.total /\ heads' = s.heads
       /\ buf' = s.buf /\ last_class' = s.last_class /\ last_vc' = s.last_vc /\ inj' = s.inj
       /\ cred' = s.cred /\ air' = s.air /\ dropped' = s.dropped /\ back' = s.back /\ got' = s.got
       /\ time' = s.time /\ phase' = PhaseAfter(s)
  /\ UNCHANGED <<opt, todo, copies>>

-----------------------------------------------------------------------------
(* A core or DDR has its next packet ready once it has what that needs.      *)
GetReady(n) ==
  /\ phase = "running" /\ todo[n] # << >> /\ Needs[Head(todo[n])] \subseteq got[n]
  /\ ready' = [ready EXCEPT ![n] = Append(@, Head(todo[n]))]
  /\ todo' = [todo EXCEPT ![n] = Tail(@)]
  /\ UNCHANGED <<opt, time, phase, ids, total, heads, node, net, back, got>>

(* The copies of a packet: the first keeps its ids, each other one has a new   *)
(* pid and new ids for packet_size flits.                                  *)
Targets(n, p) == IF p \in Radio THEN Nodes \ {n} ELSE To[p]
Rank(S, d) == Cardinality({e \in S : e < d})
ReservedOne(S) == Cardinality(S) - 1      \* mutant: one id for each copy
Reserved(S) == (Cardinality(S) - 1) * MaxFlits
CopyIds(f, S) == {<<f.pid, d, IF Rank(S, d) = 0 THEN f.pid ELSE ids[2] + Rank(S, d) - 1,
                    IF Rank(S, d) = 0 THEN f.id ELSE ids[1] + (Rank(S, d) - 1) * MaxFlits>> : d \in S}

(* The router of n passes on the flit at the front of a VC, with its credit.  *)
Pass(n, v) ==
  /\ inj[n][v] # << >> /\ cred[n] = << >>
  /\ LET f == Head(inj[n][v])
         S == Targets(n, f.p)
         mine == IF IsHead(f) THEN CopyIds(f, S) ELSE {x \in copies : x[1] = f.pid}
         new  == [d \in S |-> [f EXCEPT !.pid = (CHOOSE x \in mine : x[2] = d)[3],
                                        !.id  = (CHOOSE x \in mine : x[2] = d)[4]]]
     IN  /\ inj' = [inj EXCEPT ![n][v] = Tail(@)]
         /\ cred' = [cred EXCEPT ![n] = <<v>>]
         /\ air' = [d \in Nodes |-> IF d \in S \cap To[f.p] THEN Append(air[d], new[d]) ELSE air[d]]
         /\ dropped' = dropped \cup {new[d] : d \in S \ To[f.p]}
         /\ total' = total \cup {new[d].id : d \in S}
         /\ copies' = (copies \ mine) \cup IF IsTail(f) THEN {} ELSE {<<x[1], x[2], x[3], x[4] + 1>> : x \in mine}
         /\ ids' = IF IsHead(f) THEN <<ids[1] + Reserved(S), ids[2] + Cardinality(S) - 1>> ELSE ids
  /\ UNCHANGED <<opt, time, phase, todo, ready, heads, node, back, got>>

Init ==
  /\ opt \in Options /\ time = 0 /\ phase = "building" /\ todo = Makes
  /\ ready = [n \in Nodes |-> << >>] /\ pp = [n \in Nodes |-> [c \in Classes |-> << >>]]
  /\ ids = <<0, 0>> /\ total = {} /\ heads = {}
  /\ buf = [n \in Nodes |-> StateInit] /\ last_class = [n \in Nodes |-> 0]
  /\ last_vc = [n \in Nodes |-> [c \in Classes |-> None]]
  /\ inj = [n \in Nodes |-> [v \in Vcs |-> << >>]] /\ cred = [n \in Nodes |-> << >>]
  /\ copies = {} /\ air = [n \in Nodes |-> << >>] /\ dropped = {} /\ back = {}
  /\ got = [n \in Nodes |-> {}]

Next == \/ Build
        \/ Step
        \/ \E n \in Nodes : GetReady(n)
        \/ \E n \in Nodes, v \in Vcs : Pass(n, v)

(* The program steps until the run is done; cores get on with their packets    *)
(* and routers with their flits.                                           *)
Spec     == Init /\ [][Next]_vars
FairSpec == /\ Spec /\ <>(phase # "building")
            /\ ([]<>(phase \in {"done", "exit"}) \/ []<><<time' # time>>_vars)
            /\ \A n \in Nodes : WF_vars(GetReady(n))
            /\ \A n \in Nodes, v \in Vcs : WF_vars(Pass(n, v))

-----------------------------------------------------------------------------
Queued(n)   == UNION {{pp[n][c][k] : k \in DOMAIN pp[n][c]} : c \in Classes}
InRouter(n) == UNION {{inj[n][v][k] : k \in DOMAIN inj[n][v]} : v \in Vcs}
Flying(d)   == {air[d][k] : k \in DOMAIN air[d]}
Places == {<<"q", n>> : n \in Nodes} \cup {<<"r", n>> : n \in Nodes} \cup {<<"a", n>> : n \in Nodes} \cup {<<"d", 0>>}
At(x) == CASE x[1] = "q" -> Queued(x[2]) [] x[1] = "r" -> InRouter(x[2]) [] x[1] = "a" -> Flying(x[2])
           [] x[1] = "d" -> dropped

(* What the traffic manager keeps: for each node its packets by class, its       *)
(* BufferState and the VC and the class it used last, and over all nodes the   *)
(* ids, the flits in flight and the heads whose tail has not come.            *)
FlitType == [p : Packets, k : Nat \ {0}, id : Nat, pid : Nat, c : Classes, vc : Vcs \cup {None}, pri : Int]
TrafficTypes ==
  /\ pp \in [Nodes -> [Classes -> Seq(FlitType)]] /\ ids \in Nat \X Nat
  /\ \A n \in Nodes : DOMAIN buf[n] = DOMAIN StateInit
  /\ last_class \in [Nodes -> Classes] /\ last_vc \in [Nodes -> [Classes -> Vcs \cup {None}]]
  /\ total \subseteq 0 .. ids[1] - 1 /\ heads \subseteq 0 .. ids[2] - 1
  /\ time \in 0 .. Period - 1 /\ phase \in {"building", "running", "draining", "credits", "done", "exit"}

(* What is counted as in flight is what is on its way, each flit once, with an *)
(* id of its own that was given out; the heads kept are those of packets whose *)
(* tail is still to come, so that no assertion of _RetireFlit fails.          *)
FlightsCounted ==
  /\ TrafficTypes
  /\ total = {f.id : f \in UNION {At(x) : x \in Places}}
  /\ Cardinality(total) = MapThenSumSet(LAMBDA x : Cardinality(At(x)), Places)
  /\ \A d \in Nodes : \A k \in DOMAIN air[d] :
       (\A j \in 1 .. k - 1 : air[d][j].pid # air[d][k].pid)
       => (IsHead(air[d][k]) <=> air[d][k].pid \notin heads)

(* A VC belongs to one packet from its head to its tail: no other class of the *)
(* node has begun one on it, and in the router packets follow each other.      *)
Begun(n, c) == pp[n][c] # << >> /\ ~IsHead(pp[n][c][1])
WholeOnOneVc ==
  \A n \in Nodes :
    /\ \A v \in Vcs : Cardinality({c \in Classes : Begun(n, c) /\ pp[n][c][1].vc = v})
                      = IF buf[n].in_use[v] THEN 1 ELSE 0
    /\ \A c \in Classes : Begun(n, c) => pp[n][c][1].vc = last_vc[n][c]
    /\ \A v \in Vcs : /\ Len(inj[n][v]) <= VcBufSize
                      /\ \A k \in 1 .. Len(inj[n][v]) - 1 :
                           LET f == inj[n][v][k]  g == inj[n][v][k + 1]
                           IN  IF IsTail(f) THEN IsHead(g) ELSE g.pid = f.pid /\ g.k = f.k + 1

(* Nothing is left behind.                                                 *)
Clean ==
  /\ total = {} /\ heads = {} /\ copies = {} /\ back = {}
  /\ \A n \in Nodes :
       /\ n \in Cores => HasEnded([ready |-> ready, got |-> got], n)
       /\ buf[n].occupancy = 0 /\ cred[n] = << >>
       /\ \A c \in Classes : pp[n][c] = << >>
       /\ \A j \in 1 .. Len(Makes[n]) - Len(todo[n]) - Len(ready[n]) :
            \A d \in To[Makes[n][j]] : Makes[n][j] \in got[d]

(* The run comes to its end, with every core ended, every packet that was made *)
(* received where it is for, and no flit, head or credit left; unless it was   *)
(* not begun.                                                              *)
RunEnds == <>(phase = "exit" \/ (phase = "done" /\ (opt.int["sim_count"] > 0 => Clean)))

(* What the constructors make of settings they accept fits together: lists have *)
(* a value for each class, senders count on no more slots than there are, and   *)
(* cores and DDRs are apart.  Every option they look up is declared, but for the *)
(* two of the chaos router.                                                *)
BuiltToFit ==
  phase = "building" =>
    /\ Conf!Refused(opt) \/ Conf!Fits(opt)
    /\ Conf!Unknown(opt) = {} <=> opt.str["router"] # "chaos"
=============================================================================
