----------------------------- MODULE ChaosRouter -----------------------------
(***************************************************************************)
(* The chaos router (routers/chaos_router.cpp).  It has no VCs: an input holds *)
(* one packet, and the head of the next; packets all have vc_buf_size flits.  *)
(* In a cycle one channel is looked at: its output may be matched with a      *)
(* packet that wants it, and its input, if it cannot go on, is moved to the    *)
(* multi-queue.  When the multi-queue is full one of its packets is sent to     *)
(* an output it did not ask for.  Random choices are left open.              *)
(***************************************************************************)
EXTENDS Router

Ms    == Ports(opt.queues)          \* multi_queue_size: the entries of the multi-queue
Flits == opt.flits                  \* vc_buf_size, and the flits of every packet
InjectionChan == Ins - 1
EjectionChan  == Outs - 1

(* order: the entries by age, the oldest first.  An input's packet goes to      *)
(* output out[i] or to entry mq[i] of the multi-queue.                       *)
ChaosInit == [
  buf |-> [i \in I |-> [v \in Vcs |-> << >>]], st |-> [i \in I |-> "empty"],
  out |-> [i \in I |-> Nobody], mq |-> [i \in I |-> Nobody], matched |-> {},
  queue |-> [m \in Ms |-> << >>], qst |-> [m \in Ms |-> "empty"], qout |-> [m \in Ms |-> Nobody],
  order |-> << >>, filled |-> {}, cur |-> 0, stall |-> FALSE,
  frame |-> [o \in O |-> << >>], cnt |-> [o \in O |-> 0],
  xbar |-> << >>, obuf |-> [o \in O |-> << >>], credits |-> {}, error |-> FALSE]

IsHead(f) == f[2] = 1
Wants(f, o) == o \in RouteOf[f[1]][1]

-----------------------------------------------------------------------------
(* What an arriving flit makes of the state of its input; none if it is an     *)
(* error.                                                                  *)
AfterFlit(st, f) ==
  CASE st = "empty" /\ IsHead(f)                        -> {IF IsTail(f) THEN "full" ELSE "filling"}
    [] st = "filling" /\ (IsTail(f) \/ ~IsHead(f))      -> {IF IsTail(f) THEN "full" ELSE "filling"}
    [] st = "leaving" /\ IsHead(f) /\ ~IsTail(f)        -> {"shared"}
    [] st = "cut_through" /\ ~IsHead(f)                 -> {IF IsTail(f) THEN "leaving" ELSE "cut_through"}
    [] st = "shared" /\ ~IsHead(f) /\ ~IsTail(f)        -> {"shared"}
    [] OTHER -> {}

ReadInputs(s) ==
  LET Add(i, t) ==
        LET f == inq[i][1].f
            n == AfterFlit(t.st[i], f)
            u == [t EXCEPT !.buf[i][0] = Append(@, f)]
        IN  IF n = {} THEN [u EXCEPT !.error = TRUE] ELSE [u EXCEPT !.st[i] = CHOOSE x \in n : TRUE]
  IN  Fold({i \in I : inq[i] # << >>}, Add, s)

-----------------------------------------------------------------------------
InputReady(s, i)  == s.st[i] \in {"filling", "full"}
OutputAvail(s, o) == o \notin s.matched /\ s.frame[o] = << >>
MultiQueueFull(s, m) == Len(s.queue[m]) >= Flits
Ready(s) == {m \in Ms : s.qst[m] \in {"filling", "full"}}
Oldest(s, S) == CHOOSE m \in S : \E k \in DOMAIN s.order :
                  s.order[k] = m /\ \A j \in 1 .. k - 1 : s.order[j] \notin S

(* The entry for an output: the oldest that wants it, or any when all are      *)
(* taken, but never one for the ejection channel that does not want it.       *)
MultiQueueForOutput(s, o) ==
  LET E == {m \in Ready(s) : s.qout[m] = Nobody /\ Wants(s.queue[m][1], o)}
      deroute == (\A m \in Ms : s.qst[m] \in {"filling", "full", "shared"}) /\ o # EjectionChan
  IN  CASE E # {} -> {Oldest(s, E)}
        [] E = {} /\ deroute /\ Ready(s) # {} -> Ready(s)
        [] OTHER -> {Nobody}

InputForOutput(s, o) ==
  LET E == {i \in I : InputReady(s, i) /\ Wants(s.buf[i][0][1], o)} IN IF E = {} THEN {Nobody} ELSE E

FindAvailMultiQueue(s) == {m \in Ms : ~MultiQueueFull(s, m) /\ m \notin s.filled}

HasTaker(s, o) == OutputAvail(s, o) /\ (MultiQueueForOutput(s, o) # {Nobody} \/ InputForOutput(s, o) # {Nobody})
Interesting(s, c) == HasTaker(s, c) \/ s.st[c] = "full"

(* A packet starts to leave its input.                                       *)
Starts(s, i) ==
  CASE s.st[i] = "full"    -> [s EXCEPT !.st[i] = "leaving"]
    [] s.st[i] = "filling" -> [s EXCEPT !.st[i] = "cut_through"]
    [] OTHER               -> [s EXCEPT !.error = TRUE]

MatchOutput(s, o, m, i) ==
  CASE m # Nobody               -> [s EXCEPT !.matched = @ \cup {o}, !.qout[m] = o]
    [] m = Nobody /\ i # Nobody -> Starts([s EXCEPT !.matched = @ \cup {o}, !.out[i] = o], i)
    [] OTHER                    -> s

MoveOn(s) == [s EXCEPT !.cur = After(@, Ins), !.stall = FALSE]
LookAtInput(s) ==
  IF InputReady(s, s.cur) /\ s.cur # InjectionChan THEN [s EXCEPT !.stall = TRUE] ELSE MoveOn(s)

(* An input that is stalled moves to the multi-queue as soon as it has a place. *)
ToMultiQueue(s) ==
  LET m == Min(FindAvailMultiQueue(s))
  IN  IF ~s.stall \/ FindAvailMultiQueue(s) = {} THEN s
      ELSE MoveOn([Starts(s, s.cur) EXCEPT !.mq[s.cur] = m, !.filled = @ \cup {m}])

NextInterestingChannel(s) ==
  LET steps == {k \in 0 .. Ins - 1 : Interesting(s, (s.cur + k) % Ins)}
      c == (s.cur + Min(steps)) % Ins
      t == [s EXCEPT !.cur = c]
      taken == IF OutputAvail(s, c)
               THEN {MatchOutput(t, c, m, i) : m \in MultiQueueForOutput(s, c), i \in InputForOutput(s, c)}
               ELSE {t}
  IN  IF steps = {} THEN {ToMultiQueue(s)} ELSE {ToMultiQueue(LookAtInput(u)) : u \in taken}

-----------------------------------------------------------------------------
Cross(s, f, o) == [s EXCEPT !.xbar = Append(@, [f |-> f, b |-> <<o, 0>>])]

(* A flit from an input enters an entry of the multi-queue.                   *)
HeadIn(s, m, f) ==
  IF ~IsHead(f) THEN s
  ELSE [s EXCEPT !.order = Append(SelectSeq(@, LAMBDA x : x # m), m),
                 !.qst[m] = IF @ = "empty" THEN "filling" ELSE "shared",
                 !.error = @ \/ s.qst[m] \notin {"empty", "leaving"}]
TailIn(s, m, f) ==
  IF ~IsTail(f) THEN s
  ELSE [s EXCEPT !.filled = @ \ {m}, !.qst[m] = IF @ = "filling" THEN "full" ELSE "leaving",
                 !.error = @ \/ s.qst[m] \notin {"filling", "cut_through"}]
Store(s, m, f) == [TailIn(HeadIn(s, m, f), m, f) EXCEPT !.queue[m] = Append(@, f)]

(* The flit has left; with the tail the input is free, or begins with the head *)
(* that shared it.                                                         *)
Left(s, i, f) ==
  LET t == [s EXCEPT !.buf[i][0] = Tail(@), !.credits = @ \cup {<<i, 0>>}]
  IN  IF ~IsTail(f) THEN t
      ELSE [t EXCEPT !.out[i] = Nobody, !.mq[i] = Nobody,
                     !.st[i] = CASE @ = "leaving" -> "empty" [] @ = "shared" -> "filling" [] OTHER -> @]

InputAdvance(s, i) ==
  LET f == s.buf[i][0][1]
      o == s.out[i]  m == s.mq[i]
  IN  CASE s.buf[i][0] # << >> /\ o # Nobody ->
             Left(Cross([s EXCEPT !.matched = IF IsTail(f) THEN @ \ {o} ELSE @], f, o), i, f)
        [] s.buf[i][0] # << >> /\ o = Nobody /\ m # Nobody /\ ~MultiQueueFull(s, m) -> Left(Store(s, m, f), i, f)
        [] OTHER -> s

(* A flit leaves the multi-queue.                                            *)
HeadOut(s, m, f) ==
  IF ~IsHead(f) THEN s
  ELSE [s EXCEPT !.qst[m] = IF @ = "filling" THEN "cut_through" ELSE "leaving",
                 !.error = @ \/ s.qst[m] \notin {"filling", "full"}]
TailOut(s, m, f) ==
  IF ~IsTail(f) THEN s
  ELSE [s EXCEPT !.matched = @ \ {s.qout[m]}, !.qout[m] = Nobody,
                 !.qst[m] = IF @ = "shared" THEN "filling" ELSE "empty",
                 !.error = @ \/ s.qst[m] \notin {"leaving", "shared"}]
QueueAdvance(s, m) ==
  LET f == s.queue[m][1]
  IN  CASE s.qout[m] = Nobody                         -> s
        [] s.qout[m] # Nobody /\ s.queue[m] = << >> -> [s EXCEPT !.error = TRUE]
        [] OTHER -> TailOut(HeadOut(Cross([s EXCEPT !.queue[m] = Tail(@)], f, s.qout[m]), m, f), m, f)

OutputAdvance(s) ==
  LET t == Fold(I, LAMBDA i, u : InputAdvance(u, i), [s EXCEPT !.xbar = << >>])
  IN  Fold(Ms, LAMBDA m, u : QueueAdvance(u, m), t)

(* What was in the crossbar waits for the downstream to have a place.          *)
SendFlits(s, out) ==
  LET t == FoldLeft(LAMBDA u, c : [u EXCEPT !.frame[c.b[1]] = Append(@, c.f)], s, out)
      go == {o \in O : t.cnt[o] < Flits /\ t.frame[o] # << >>}
  IN  [t EXCEPT !.frame = [o \in O |-> IF o \in go THEN Tail(@[o]) ELSE @[o]],
                !.cnt   = [o \in O |-> IF o \in go THEN @[o] + 1 ELSE @[o]],
                !.obuf  = [o \in O |-> IF o \in go THEN <<[f |-> t.frame[o][1], w |-> 0]>> ELSE @[o]]]

ChaosOutcomes == {WriteOutputs(SendFlits(OutputAdvance(s), r.xbar)) : s \in NextInterestingChannel(ReadInputs(r))}
ChaosCredited(o) == [r EXCEPT !.cnt[o] = @ - 1]

-----------------------------------------------------------------------------
(* No error is ever reached, and each place is in the state its flits say: a     *)
(* packet at most, the head of a second only while the first is leaving.       *)
HeadsIn(s) == Cardinality({k \in DOMAIN s : IsHead(s[k])})
TailsIn(s) == Cardinality({k \in DOMAIN s : IsTail(s[k])})
FitsState(st, s) ==
  CASE st = "empty"   -> s = << >>
    [] st = "filling" -> s # << >> /\ IsHead(s[1]) /\ HeadsIn(s) = 1 /\ TailsIn(s) = 0
    [] st = "full"    -> s # << >> /\ IsHead(s[1]) /\ HeadsIn(s) = 1 /\ IsTail(s[Len(s)])
    [] st = "cut_through" -> HeadsIn(s) = 0 /\ TailsIn(s) = 0
    [] st = "leaving" -> s # << >> /\ HeadsIn(s) = 0 /\ IsTail(s[Len(s)])
    [] st = "shared"  -> s # << >> /\ ~IsHead(s[1]) /\ HeadsIn(s) = 1 /\ TailsIn(s) = 1
QStates == {"empty", "filling", "full", "leaving", "cut_through", "shared"}
ChaosTypes(s) ==
  /\ DOMAIN s = DOMAIN ChaosInit
  /\ s.st \in [I -> QStates] /\ s.qst \in [Ms -> QStates]
  /\ s.out \in [I -> O \cup {Nobody}] /\ s.mq \in [I -> Ms \cup {Nobody}] /\ s.qout \in [Ms -> O \cup {Nobody}]
  /\ s.matched \subseteq O /\ s.filled \subseteq Ms /\ s.order \in Seq(Ms)
  /\ s.queue \in [Ms -> Seq(Flit)] /\ s.frame \in [O -> Seq(Flit)] /\ s.cnt \in [O -> 0 .. Flits]
  /\ s.cur \in I /\ s.stall \in BOOLEAN
ChaosSound ==
  /\ ChaosTypes(r) /\ ~r.error
  /\ \A i \in I : FitsState(r.st[i], r.buf[i][0])
  /\ \A m \in Ms : FitsState(r.qst[m], r.queue[m])

(* Each output that is matched belongs to one packet, and no other.           *)
ChaosApart ==
  LET inputs == {<<"in", i>> : i \in {i \in I : r.out[i] # Nobody}}
      queues == {<<"queue", m>> : m \in {m \in Ms : r.qout[m] # Nobody}}
      To(x) == IF x[1] = "in" THEN r.out[x[2]] ELSE r.qout[x[2]]
  IN  /\ {To(x) : x \in inputs \cup queues} = r.matched
      /\ Cardinality(inputs \cup queues) = Cardinality(r.matched)
      /\ {r.mq[i] : i \in {i \in I : r.mq[i] # Nobody}} = r.filled
      /\ Cardinality({i \in I : r.mq[i] # Nobody}) = Cardinality(r.filled)

(* All of a packet goes to one output, and only a packet that went through the  *)
(* multi-queue to one it did not ask for, which is not the ejection channel.    *)
InFrame(p, o) == Cardinality({k \in DOMAIN r.frame[o] : r.frame[o][k][1] = p})
InQueues(p) == MapThenSumSet(LAMBDA m : Cardinality({k \in DOMAIN r.queue[m] : r.queue[m][k][1] = p}), Ms)
ChaosCopies ==
  \A p \in Packets : \E o \in O :
    /\ Passed(p, o) + InFrame(p, o) + InQueues(p) = Taken(p)
    /\ \A n \in O \ {o} : Passed(p, n) + InFrame(p, n) = 0
    /\ Passed(p, o) + InFrame(p, o) > 0 => o \in RouteOf[p][1] \/ (o # EjectionChan /\ InOf[p] # InjectionChan)

(* What the router counts of the downstream is what it holds, and an output     *)
(* has one packet, and the last flit of the one before.                      *)
ChaosCounts == \A o \in O :
  /\ r.cnt[o] = Len(down[o][0]) /\ Len(down[o][0]) <= Flits
  /\ Len(r.frame[o]) <= Flits + 1 /\ r.obuf[o] = << >>
ChaosApartOut == \A o \in O :
  LET s == down[o][0] \o r.frame[o] \o InCrossbar(o, 0)
  IN  \A k \in 1 .. Len(s) - 1 :
        s[k + 1] = IF IsTail(s[k]) THEN <<s[k + 1][1], 1>> ELSE <<s[k][1], s[k][2] + 1>>

(* All packets gone, and nothing matched.                                     *)
ChaosGone ==
  /\ \A p \in Sent : \E o \in O : got[p][o] = Size[p]
  /\ r.matched = {} /\ r.filled = {} /\ \A i \in I : r.st[i] = "empty"
  /\ \A m \in Ms : r.qst[m] = "empty"
=============================================================================
