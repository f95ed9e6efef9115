--------------------------- MODULE ManyCoreProofs ---------------------------
(***************************************************************************)
(* The cores and DDRs together keep the promise of Dataflow, proved for any   *)
(* number of cores and DDRs, any input that satisfies the assumptions and    *)
(* any order in which the network delivers: no job begins before the jobs it *)
(* depends on have ended, wherever they ran and whichever way their data      *)
(* came.  Why: a core takes a transfer for complete when as many bytes have   *)
(* come as its fetch announces, and no more are under way or unsent than     *)
(* that (FlowsFit), so that the last byte comes after all have been made; a   *)
(* DDR counts an input when its one end mark has come (OneEnd), and the end   *)
(* mark is made with the last byte.                                        *)
(***************************************************************************)
EXTENDS ManyCore, CoreOpsProofs

-----------------------------------------------------------------------------
(* Bags, and what the elements of one weigh together.                        *)

CountIn(b, q) == IF q \in DOMAIN b THEN b[q] ELSE 0
IsBag(b) == IsFiniteSet(DOMAIN b) /\ \A q \in DOMAIN b : b[q] \in Nat \ {0}
Weighed(f, b) == SumFunctionOnSet([q \in DOMAIN b |-> b[q] * f[q]], DOMAIN b)

(* A weight is a number, and none of its parts is more.                      *)
LEMMA WeightNat ==
  ASSUME NEW b, IsBag(b), NEW f, \A q \in DOMAIN b : f[q] \in Nat
  PROVE  /\ Weighed(f, b) \in Nat
         /\ \A q \in DOMAIN b : f[q] <= Weighed(f, b)
<1> DEFINE g == [q \in DOMAIN b |-> b[q] * f[q]]
<1>1. \A q \in DOMAIN b : g[q] \in Nat /\ f[q] <= g[q]
  <2> TAKE q \in DOMAIN b
  <2>1. b[q] \in Nat \ {0} /\ f[q] \in Nat
    BY DEF IsBag
  <2>2. \A x \in Nat \ {0} : \A y \in Nat : x * y \in Nat /\ y <= x * y
    BY Z3
  <2> QED
    BY <2>1, <2>2
<1> HIDE DEF g
<1>2. /\ SumFunctionOnSet(g, DOMAIN b) \in Nat
      /\ \A q \in DOMAIN b : g[q] <= SumFunctionOnSet(g, DOMAIN b)
  BY <1>1, SumNat DEF IsBag
<1>3. Weighed(f, b) = SumFunctionOnSet(g, DOMAIN b)
  BY DEF Weighed, g
<1> QED
  BY <1>1, <1>2, <1>3

(* The weight over a set of elements that holds those of the bag.            *)
LEMMA WeightOver ==
  ASSUME NEW b, IsBag(b), NEW U, IsFiniteSet(U), DOMAIN b \subseteq U,
         NEW f, \A q \in U : f[q] \in Nat
  PROVE  Weighed(f, b) = SumFunctionOnSet([q \in U |-> CountIn(b, q) * f[q]], U)
<1> DEFINE g == [q \in DOMAIN b |-> b[q] * f[q]]
           h == [q \in U |-> CountIn(b, q) * f[q]]
<1>1. \A q \in DOMAIN b : h[q] = g[q] /\ h[q] \in Int
  BY DEF IsBag, CountIn
<1>2. \A q \in U \ DOMAIN b : h[q] = 0
  BY DEF CountIn
<1> HIDE DEF g, h
<1>3. SumFunctionOnSet(h, U) = SumFunctionOnSet(h, DOMAIN b)
  BY <1>1, <1>2, SumWithin
<1>4. SumFunctionOnSet(h, DOMAIN b) = SumFunctionOnSet(g, DOMAIN b)
  BY <1>1, SumSame DEF IsBag
<1> QED
  BY <1>3, <1>4 DEF Weighed, g, h

(* Copies of packets enter the network: at most one of them weighs.          *)
Gains(b, C, z) ==
  /\ IsBag(z) /\ DOMAIN z = DOMAIN b \cup C
  /\ \A f : (\A q \in DOMAIN b \cup C : f[q] \in Nat) =>
       /\ (\A q \in C : f[q] = 0) => Weighed(f, z) = Weighed(f, b)
       /\ \A a \in C : (\A q \in C \ {a} : f[q] = 0) => Weighed(f, z) = Weighed(f, b) + f[a]
(* Putting a set of them into the bag does just that.                        *)
LEMMA WeightPut ==
  ASSUME NEW b, IsBag(b), NEW C, IsFiniteSet(C), NEW z, z = b (+) SetToBag(C)
  PROVE  Gains(b, C, z)
<1> DEFINE U == DOMAIN b \cup C
<1>1. /\ DOMAIN z = U
      /\ \A q \in U : z[q] = CountIn(b, q) + (IF q \in C THEN 1 ELSE 0)
  BY DEF SetToBag, CountIn, (+)
<1>2. IsFiniteSet(U)
  <2> DEFINE D == DOMAIN b
  <2>1. IsFiniteSet(D)
    BY DEF IsBag
  <2> HIDE DEF D
  <2>2. IsFiniteSet(D \cup C)
    BY <2>1, FS_Union
  <2> QED
    BY <2>2 DEF D
<1>3. \A q \in U : CountIn(b, q) \in Nat
  BY DEF IsBag, CountIn
<1>4. \A q \in U : z[q] \in Nat \ {0}
  <2> TAKE q \in U
  <2>1. q \notin C => q \in DOMAIN b /\ b[q] \in Nat \ {0}
    BY DEF IsBag
  <2> QED
    BY <1>1, <1>3, <2>1 DEF CountIn
<1>5. IsBag(z)
  BY <1>1, <1>2, <1>4 DEF IsBag
<1>6. ASSUME NEW f, \A q \in U : f[q] \in Nat
      PROVE  /\ (\A q \in C : f[q] = 0) => Weighed(f, z) = Weighed(f, b)
             /\ \A a \in C : (\A q \in C \ {a} : f[q] = 0) =>
                   Weighed(f, z) = Weighed(f, b) + f[a]
  <2> DEFINE h == [q \in U |-> CountIn(b, q) * f[q]]
             e == [q \in U |-> CountIn(z, q) * f[q]]
  <2>1. Weighed(f, b) = SumFunctionOnSet(h, U) /\ Weighed(f, z) = SumFunctionOnSet(e, U)
    BY <1>1, <1>2, <1>5, <1>6, WeightOver
  <2>2. \A q \in U : /\ h[q] \in Int
                     /\ e[q] = IF q \in C THEN h[q] + f[q] ELSE h[q]
    <3> TAKE q \in U
    <3> DEFINE x == CountIn(b, q)
               y == f[q]
    <3>1. x \in Nat /\ y \in Nat
      BY <1>3, <1>6
    <3>2. CountIn(z, q) = x + (IF q \in C THEN 1 ELSE 0)
      BY <1>1 DEF CountIn
    <3>3. h[q] = x * y /\ e[q] = (x + (IF q \in C THEN 1 ELSE 0)) * y
      BY <3>2
    <3> HIDE DEF x, y, h, e
    <3>4. x * y \in Int /\ (x + 1) * y = x * y + y /\ (x + 0) * y = x * y
      BY <3>1
    <3> QED
      BY <3>3, <3>4 DEF y
  <2> HIDE DEF h, e, U
  <2>3. ASSUME \A q \in C : f[q] = 0 PROVE Weighed(f, z) = Weighed(f, b)
    <3>1. \A q \in U : e[q] = h[q]
      BY <2>2, <2>3
    <3> QED
      BY <1>2, <2>1, <3>1, SumSame
  <2>4. ASSUME NEW a \in C, \A q \in C \ {a} : f[q] = 0
        PROVE  Weighed(f, z) = Weighed(f, b) + f[a]
    <3>1. a \in U /\ f[a] \in Int
      BY <1>6 DEF U
    <3>2. e[a] = h[a] + f[a] /\ e[a] \in Int /\ \A q \in U \ {a} : e[q] = h[q]
      BY <2>2, <2>4, <3>1
    <3>3. SumFunctionOnSet(e, U) = SumFunctionOnSet(h, U) + e[a] - h[a]
      BY <1>2, <2>2, <3>1, <3>2, SumChange
    <3>4. SumFunctionOnSet(h, U) \in Int
      BY <1>2, <2>2, SumInt
    <3> QED
      BY <2>1, <2>2, <3>1, <3>2, <3>3, <3>4
  <2> QED
    BY <2>3, <2>4
<1> QED
  BY <1>1, <1>5, <1>6 DEF Gains

(* One copy leaves the network.                                             *)
LEMMA WeightTaken ==
  ASSUME NEW b, IsBag(b), NEW p \in DOMAIN b, NEW z, z = b (-) SetToBag({p})
  PROVE  /\ IsBag(z) /\ DOMAIN z \subseteq DOMAIN b
         /\ \A f : (\A q \in DOMAIN b : f[q] \in Nat) => Weighed(f, z) = Weighed(f, b) - f[p]
<1> DEFINE U == DOMAIN b
<1>1. IsFiniteSet(U) /\ \A q \in U : b[q] \in Nat \ {0}
  BY DEF IsBag
<1>2. /\ DOMAIN z \subseteq U /\ \A q \in DOMAIN z : z[q] \in Nat \ {0}
      /\ \A q \in U : CountIn(z, q) = IF q = p THEN b[q] - 1 ELSE b[q]
  <2> DEFINE one == SetToBag({p})
             r == [q \in U |-> IF q \in DOMAIN one THEN b[q] - one[q] ELSE b[q]]
  <2>1. z = [q \in {x \in U : r[x] > 0} |-> r[q]]
    BY DEF (-)
  <2>2. DOMAIN one = {p} /\ one[p] = 1
    BY DEF SetToBag
  <2> HIDE DEF one
  <2>3. \A q \in U : r[q] = IF q = p THEN b[q] - 1 ELSE b[q]
    BY <2>2
  <2> HIDE DEF r
  <2>4. \A q \in U : r[q] \in Nat
    BY <1>1, <2>3
  <2>5. /\ \A q \in DOMAIN z : q \in U /\ z[q] = r[q] /\ z[q] > 0
        /\ \A q \in U : q \in DOMAIN z <=> r[q] > 0
    BY <2>1
  <2> QED
    BY <2>3, <2>4, <2>5 DEF CountIn
<1>3. IsBag(z)
  <2>1. IsFiniteSet(DOMAIN z)
    <3> DEFINE D == DOMAIN z
    <3>1. D \in SUBSET U
      BY <1>2
    <3> HIDE DEF U, D
    <3>2. IsFiniteSet(D)
      BY <1>1, <3>1, FS_Subset
    <3> QED
      BY <3>2 DEF D
  <2> QED
    BY <1>2, <2>1 DEF IsBag
<1>4. ASSUME NEW f, \A q \in U : f[q] \in Nat PROVE Weighed(f, z) = Weighed(f, b) - f[p]
  <2> DEFINE h == [q \in U |-> CountIn(b, q) * f[q]]
             e == [q \in U |-> CountIn(z, q) * f[q]]
  <2>1. Weighed(f, b) = SumFunctionOnSet(h, U) /\ Weighed(f, z) = SumFunctionOnSet(e, U)
    <3>1. IsBag(b) /\ IsFiniteSet(U) /\ DOMAIN b \subseteq U /\ DOMAIN z \subseteq U
      BY <1>1, <1>2
    <3> HIDE DEF U
    <3>2. Weighed(f, b) = SumFunctionOnSet([q \in U |-> CountIn(b, q) * f[q]], U)
      BY <1>4, <3>1, WeightOver
    <3>3. Weighed(f, z) = SumFunctionOnSet([q \in U |-> CountIn(z, q) * f[q]], U)
      BY <1>3, <1>4, <3>1, WeightOver
    <3> QED
      BY <3>2, <3>3
  <2>2. \A q \in U : h[q] \in Int /\ e[q] = IF q = p THEN h[q] - f[q] ELSE h[q]
    <3> TAKE q \in U
    <3> DEFINE x == b[q]
               y == f[q]
    <3>1. x \in Nat /\ y \in Nat
      BY <1>1, <1>4
    <3>2. CountIn(z, q) = (IF q = p THEN x - 1 ELSE x) /\ CountIn(b, q) = x
      BY <1>2 DEF CountIn
    <3>3. h[q] = x * y /\ e[q] = (IF q = p THEN x - 1 ELSE x) * y
      BY <3>2
    <3> HIDE DEF x, y, h, e
    <3>4. x * y \in Int /\ (x - 1) * y = x * y - y
      BY <3>1
    <3> QED
      BY <3>3, <3>4 DEF y
  <2> HIDE DEF h, e
  <2>3. e[p] = h[p] - f[p] /\ h[p] \in Int /\ f[p] \in Int /\ e[p] \in Int
    BY <1>4, <2>2
  <2>4. \A q \in U \ {p} : e[q] = h[q]
    BY <2>2
  <2> HIDE DEF U
  <2>5. p \in U
    BY DEF U
  <2>6. SumFunctionOnSet(e, U) = SumFunctionOnSet(h, U) + e[p] - h[p]
    <3>1. IsFiniteSet(U) /\ \A q \in U : h[q] \in Int
      BY <1>1, <2>2
    <3>2. e[p] \in Int
      BY <2>3
    <3> QED
      BY <2>4, <2>5, <3>1, <3>2, SumChange
  <2>7. SumFunctionOnSet(h, U) \in Int
    BY <1>1, <2>2, SumInt
  <2> QED
    BY <2>1, <2>3, <2>6, <2>7
<1> QED
  BY <1>2, <1>3, <1>4

-----------------------------------------------------------------------------
(* What the others may rely on of a core.                                    *)

OutSize(c, n, t) == (CHOOSE o \in RemoteOuts(c, Workloads[c][n]) : o.tid = t).size

(* The bytes of t, an output of job n, that core c has still to send, and    *)
(* whether the end of t is still to come.                                  *)
ToSend(c, s, n, t) == IF s.cur < n THEN OutSize(c, n, t) ELSE s.send_list[t]
Making(s, n, t) == EndedOf(s) < n \/ s.send_list[t] # 0

(* A fetch of core c from elsewhere announces t with what is left of it; a    *)
(* fetch from itself, of a job up to the next one, does.                    *)
Announced(c, s, t) ==
  \E n \in DOMAIN Workloads[c] : \E f \in Workloads[c][n].fetch :
     f.from # c /\ f.tid = t /\ f.size = s.s_rq[t].left
MadeHere(c, s, t) ==
  \E n \in DOMAIN Workloads[c] : \E f \in Workloads[c][n].fetch :
     n - 1 <= EndedOf(s) /\ f.from = c /\ f.tid = t

(* Work sends nothing, makes up no output twice, and adds to the entries and  *)
(* the buffer only what the next workload announces.                        *)
Unsent(c, s, v) ==
  /\ \A n \in DOMAIN Workloads[c] : \A t \in Tids : IsRemote(c, n, t) =>
       ToSend(c, v, n, t) = ToSend(c, s, n, t)
  /\ \A n \in DOMAIN Workloads[c] : \A t \in Tids : IsOut(c, n, t) /\ v.send_list[t] # 0 =>
       s.send_list[t] # 0 \/ EndedOf(v) < n
Fetched(c, s, v) ==
  /\ \A t \in Tids : v.s_rq[t].left = s.s_rq[t].left \/ Announced(c, v, t)
  /\ v.cur = 0 => v.s_rq = s.s_rq
  /\ \A x \in v.buffer : x \in s.buffer \/ MadeHere(c, v, x[2])

(* The size of an output that is sent.                                       *)
LEMMA OutSizeIs ==
  ASSUME NEW c \in Cores, OutputsOwn(c), NEW n \in DOMAIN Workloads[c], NEW t, IsRemote(c, n, t)
  PROVE  /\ t \in Tids /\ OutSize(c, n, t) \in Nat \ {0}
         /\ \E i \in DOMAIN Workloads[c][n].outs :
              Workloads[c][n].outs[i].tid = t /\ Workloads[c][n].outs[i].size = OutSize(c, n, t)
<1> DEFINE R == RemoteOuts(c, Workloads[c][n])
           o == CHOOSE x \in R : x.tid = t
<1>1. o \in R /\ o.tid = t
  BY DEF IsRemote
<1>2. o.size = OutSize(c, n, t)
  BY DEF OutSize
<1> HIDE DEF o
<1>3. o \in Outputs /\ o.size >= Gran0
  BY <1>1, RemoteOut
<1>4. o.tid \in Tids /\ o.size \in Nat
  BY <1>3 DEF Outputs
<1>5. \E i \in DOMAIN Workloads[c][n].outs : Workloads[c][n].outs[i] = o
  BY <1>1 DEF RemoteOuts
<1> QED
  BY <1>1, <1>2, <1>3, <1>4, <1>5, CoreAssumption

(* An entry counts what it counted, or what a fetch announces.               *)
LEMMA RequestedLeft ==
  ASSUME NEW F, NEW t, NEW e
  PROVE  \/ Requested(F, t, e).left = e.left
         \/ \E f \in F : f.tid = t /\ Requested(F, t, e).left = f.size
<1> DEFINE G == {f \in F : f.tid = t}
           f == CHOOSE x \in G : TRUE
           z == [layers |-> {}, left |-> f.size, from |-> f.from,
                 ends |-> IF f.from = DRAM THEN DdrNum ELSE 1]
           new == IF e # NoEntry THEN e ELSE z
           more == {g.layer : g \in G}
<1>1. CASE G = {}
  BY <1>1 DEF Requested
<1>2. CASE G # {}
  <2>1. Requested(F, t, e) = [new EXCEPT !.layers = @ \cup more]
    BY <1>2 DEF Requested
  <2>2. f \in F /\ f.tid = t
    BY <1>2
  <2>3. z.left = f.size
    OBVIOUS
  <2> HIDE DEF more, f, z
  <2>4. Requested(F, t, e).left = new.left
    BY <2>1
  <2> QED
    BY <2>2, <2>3, <2>4
<1> QED
  BY <1>1, <1>2

(* The next workload, seen from outside (core.cpp:310).                     *)
LEMMA AdvanceSeen ==
  ASSUME NEW c \in Cores, OutputsOwn(c), NEW s, Safe(c, s), NEW u, Safe(c, u), Advanced(c, s, u)
  PROVE  Unsent(c, s, u) /\ Fetched(c, s, u)
<1>1. CASE u = s
  BY <1>1 DEF Unsent, Fetched
<1>2. CASE u # s /\ Same(s, u, {"cur", "next_start", "running", "cnt1", "wl_end"})
           /\ u.cur = Len(Workloads[c]) + 1 /\ u.cur = s.cur + 1
  <2>1. u.send_list = s.send_list /\ u.s_rq = s.s_rq /\ u.buffer = s.buffer
    BY <1>2 DEF Same, Fields
  <2>2. s.cur \in Nat /\ DOMAIN Workloads[c] = 1 .. Len(Workloads[c]) /\ Len(Workloads[c]) \in Nat
    BY WorkloadsType, TurnFlags
  <2>3. \A n \in DOMAIN Workloads[c] : ~(s.cur < n) /\ ~(u.cur < n)
    BY <1>2, <2>2
  <2> QED
    BY <2>1, <2>3 DEF Unsent, Fetched, ToSend
<1>3. CASE /\ u.cur = s.cur + 1 /\ u.next_start /\ u.cur \in 1 .. Len(Workloads[c])
           /\ Loaded(c, s, Workloads[c][u.cur], u)
  <2> DEFINE w == Workloads[c][u.cur]
             outs == RemoteOuts(c, w)
             F == Missing(c, w, s.buffer)
  <2>1. s.cur \in Nat /\ DOMAIN Workloads[c] = 1 .. Len(Workloads[c]) /\ Len(Workloads[c]) \in Nat
    BY WorkloadsType, TurnFlags
  <2>2. u.cur \in DOMAIN Workloads[c] /\ EndedOf(u) = u.cur - 1 /\ u.cur # 0
    BY <1>3, <2>1 DEF EndedOf, Between, Before
  <2>3. /\ u.send_list = [t \in Tids |-> IF \E o \in outs : o.tid = t
                                         THEN (CHOOSE o \in outs : o.tid = t).size
                                         ELSE s.send_list[t]]
        /\ u.buffer = s.buffer \cup LocalData(c, w)
        /\ u.s_rq = [t \in Tids |-> Requested(F, t, s.s_rq[t])]
    BY <1>3 DEF Loaded
  <2>4. \A t \in Tids : /\ IsRemote(c, u.cur, t) => u.send_list[t] = OutSize(c, u.cur, t)
                        /\ ~IsRemote(c, u.cur, t) => u.send_list[t] = s.send_list[t]
    BY <2>3 DEF IsRemote, OutSize
  <2> HIDE DEF w, outs, F
  <2>5. ASSUME NEW n \in DOMAIN Workloads[c], NEW t \in Tids, IsRemote(c, n, t)
        PROVE  ToSend(c, u, n, t) = ToSend(c, s, n, t)
    <3>1. CASE n = u.cur
      <4>1. s.cur < n /\ ~(u.cur < n)
        BY <1>3, <2>1, <3>1
      <4> QED
        BY <2>4, <2>5, <3>1, <4>1 DEF ToSend
    <3>2. CASE n # u.cur
      <4>1. ~IsRemote(c, u.cur, t)
        BY <2>2, <2>5, <3>2, RemoteIsOut, OneJob
      <4>2. s.cur < n <=> u.cur < n
        BY <1>3, <2>1, <3>2
      <4> QED
        BY <2>4, <4>1, <4>2 DEF ToSend
    <3> QED
      BY <3>1, <3>2
  <2>6. ASSUME NEW n \in DOMAIN Workloads[c], NEW t \in Tids, IsOut(c, n, t), u.send_list[t] # 0
        PROVE  s.send_list[t] # 0 \/ EndedOf(u) < n
    <3>1. CASE IsRemote(c, u.cur, t)
      <4>1. n = u.cur
        BY <2>2, <2>6, <3>1, RemoteIsOut, OneJob
      <4> QED
        BY <1>3, <2>1, <2>2, <4>1
    <3>2. CASE ~IsRemote(c, u.cur, t)
      BY <2>4, <2>6, <3>2
    <3> QED
      BY <3>1, <3>2
  <2>7. ASSUME NEW t \in Tids
        PROVE  u.s_rq[t].left = s.s_rq[t].left \/ Announced(c, u, t)
    <3>1. u.s_rq[t] = Requested(F, t, s.s_rq[t])
      BY <2>3
    <3>2. \A f \in F : f \in w.fetch /\ f.from # c
      BY DEF F, Missing, LocalData
    <3> QED
      BY <2>2, <3>1, <3>2, RequestedLeft DEF Announced, w
  <2>8. ASSUME NEW x \in u.buffer, x \notin s.buffer
        PROVE  MadeHere(c, u, x[2])
    <3>1. PICK f \in w.fetch : f.from = c /\ x = <<f.layer, f.tid>>
      BY <2>3, <2>8 DEF LocalData
    <3>2. x[2] = f.tid
      BY <3>1
    <3>3. u.cur - 1 <= EndedOf(u)
      BY <1>3, <2>1, <2>2
    <3> QED
      BY <2>2, <3>1, <3>2, <3>3 DEF MadeHere, w
  <2> QED
    BY <2>2, <2>5, <2>6, <2>7, <2>8 DEF Unsent, Fetched
<1> QED
  BY <1>1, <1>2, <1>3 DEF Advanced

(* A job whose last byte has been sent has ended: its last tile was made.     *)
LEMMA SentEnded ==
  ASSUME NEW c \in Cores, OutputsOwn(c), NEW s, Safe(c, s), Stock(c, s),
         NEW n \in DOMAIN Workloads[c], NEW t \in Tids, IsRemote(c, n, t),
         n <= s.cur, s.send_list[t] = 0
  PROVE  n <= EndedOf(s)
<1>1. s.cur \in Nat /\ DOMAIN Workloads[c] = 1 .. Len(Workloads[c]) /\ Len(Workloads[c]) \in Nat
  BY WorkloadsType, TurnFlags
<1>2. EndedOf(s) \in Nat /\ EndedOf(s) >= s.cur - 1
  BY TurnFlags
<1>3. CASE n < s.cur
  BY <1>1, <1>2, <1>3
<1>4. CASE n = s.cur
  <2>1. CASE s.tiles = 0
    <3>1. s.wl_fn /\ s.cur >= 1
      BY <1>1, <1>4, <2>1 DEF Safe, Orderly
    <3>2. ~s.wl_end
      BY <1>1, <1>4 DEF Safe, Orderly
    <3>3. ~s.next_start
      BY <2>1, <3>1, <3>2 DEF Safe, Orderly, CoreTypes
    <3> QED
      BY <1>1, <1>4, <3>1, <3>2, <3>3 DEF EndedOf, Between
  <2>2. CASE s.tiles # 0
    <3>1. Computing(c, s)
      BY <1>1, <1>4, <2>2 DEF Computing, Safe, CoreTypes, Stock, Progress
    <3>2. PICK o \in RemoteOuts(c, Workloads[c][s.cur]) : o.tid = t
      BY <1>4 DEF IsRemote
    <3>3. o.size \in Nat /\ o.size >= s.gran
      BY <3>1, <3>2, OutTiles
    <3>4. Uncomputed(c, s, t) = TilesFrom(o, s.gran, s.gran - s.tiles + 1)
      BY <3>1, <3>2, UncomputedIs
    <3> DEFINE k == s.gran - s.tiles + 1
    <3>5. s.gran \in Nat \ {0} /\ s.tiles \in 0 .. s.gran
      BY DEF Safe, CoreTypes
    <3>6. k \in 1 .. s.gran /\ k + 1 \in Nat \ {0}
      BY <2>2, <3>5
    <3> HIDE DEF k
    <3>7. /\ TileSize(o, s.gran, k) \in Nat /\ TileSize(o, s.gran, k) >= 1
          /\ TilesFrom(o, s.gran, k + 1) \in Nat
          /\ TilesFrom(o, s.gran, k) = TileSize(o, s.gran, k) + TilesFrom(o, s.gran, k + 1)
      BY <3>3, <3>5, <3>6, TilesWhole
    <3>8. Uncomputed(c, s, t) \in Nat /\ Uncomputed(c, s, t) # 0
      BY <3>4, <3>7 DEF k
    <3>9. Buffered(s, t) \in Nat
      BY BufferedType DEF Safe, CoreTypes, Stock
    <3>10. s.send_list[t] = Buffered(s, t) + Uncomputed(c, s, t)
      BY DEF Stock, Held
    <3> QED
      BY <3>8, <3>9, <3>10
  <2> QED
    BY <2>1, <2>2
<1> QED
  BY <1>1, <1>3, <1>4

(* Work as the others see it.                                               *)
LEMMA WorkSeen ==
  ASSUME NEW c \in Cores, OutputsOwn(c), NEW s, Safe(c, s), Counting(s), Stock(c, s)
  PROVE  /\ Safe(c, Work(c, s)) /\ Counting(Work(c, s)) /\ Stock(c, Work(c, s))
         /\ Unsent(c, s, Work(c, s)) /\ Fetched(c, s, Work(c, s))
         /\ EndedOf(Work(c, s)) \in Nat /\ EndedOf(s) \in Nat
         /\ EndedOf(s) <= EndedOf(Work(c, s))
<1> DEFINE z == Computed(c, s)
           u == Advance(c, z)
<1>1. Safe(c, z) /\ Counting(z) /\ Stock(c, z) /\ SameJob(s, z)
  BY ComputedSafe
<1>2. u = Work(c, s)
  BY DEF Work, Computed
<1> HIDE DEF z
<1>3. Safe(c, u) /\ Counting(u) /\ Advanced(c, z, u)
  BY <1>1, AdvanceSafe
<1> HIDE DEF u
<1>4. Stock(c, u)
  BY <1>1, <1>3, StockAdvance
<1>5. Unsent(c, z, u) /\ Fetched(c, z, u)
  BY <1>1, <1>3, AdvanceSeen
<1>6. Unsent(c, s, u) /\ Fetched(c, s, u)
  <2>1. z.cur = s.cur /\ z.send_list = s.send_list /\ z.s_rq = s.s_rq /\ z.buffer = s.buffer
    BY <1>1 DEF SameJob
  <2>2. \A n, t : ToSend(c, z, n, t) = ToSend(c, s, n, t)
    BY <2>1 DEF ToSend
  <2> QED
    BY <1>5, <2>1, <2>2 DEF Unsent, Fetched
<1>7. EndedOf(u) \in Nat /\ EndedOf(s) \in Nat
  BY <1>3, TurnFlags
<1>8. Keeps(s, u) \/ Begins(c, s, u) \/ Ends(c, s, u)
  BY <1>2, WorkTurn
<1>9. EndedOf(s) <= EndedOf(u)
  BY <1>7, <1>8, TurnFlags DEF Keeps, Begins, Ends
<1> QED
  BY <1>2, <1>3, <1>4, <1>6, <1>7, <1>9

(* A packet that core c sends: of an output of a job it has, not empty, at    *)
(* most what is left of it, marked end with the last byte.                  *)
Cuts(c, s, p, z) ==
  /\ p.tid \in Tids /\ z \in Nat \ {0} /\ s.send_list[p.tid] \in Nat
  /\ z <= s.send_list[p.tid]
  /\ p = [kind |-> "data", tid |-> p.tid, src |-> c, size |-> z, end |-> p.end, to |-> p.to]
  /\ p.to \subseteq Nodes /\ p.end \in BOOLEAN /\ (p.end <=> s.send_list[p.tid] = z)
  /\ \E n \in DOMAIN Workloads[c] : n <= s.cur /\ IsRemote(c, n, p.tid)
Keeping(s, v) ==
  v.cur = s.cur /\ v.s_rq = s.s_rq /\ v.buffer = s.buffer /\ EndedOf(v) = EndedOf(s)

(* Sending data, seen from outside (core.cpp:628).                          *)
LEMMA SendSeen ==
  ASSUME NEW c \in Cores, OutputsOwn(c), NEW s, Safe(c, s), Counting(s), Stock(c, s), s.sd # NoBuf,
         NEW d \in DdrChoices(s, MiniTile(s).tid), NEW v, v = DataSent(s, d),
         NEW p, p = DataPacket(c, s, d)
  PROVE  /\ Safe(c, v) /\ Counting(v) /\ Stock(c, v) /\ Keeping(s, v)
         /\ Cuts(c, s, p, PacketSize(s))
         /\ v.send_list = [s.send_list EXCEPT ![p.tid] = @ - PacketSize(s)]
<1> DEFINE m == MiniTile(s)
           z == PacketSize(s)
<1>1. Safe(c, v) /\ Counting(v) /\ v.cur = s.cur /\ d \in Ddrs
  BY DataSentSafe
<1>2. /\ s.sd \in Obufs /\ s.mini \in 1 .. Len(s.obuf[s.sd]) /\ s.obuf[s.sd] \in Seq(MiniTileType)
      /\ m \in MiniTileType /\ s.mini \in DOMAIN s.obuf[s.sd]
  BY MiniTileInBuffer
<1>3. m = s.obuf[s.sd][s.mini] /\ z = Smaller(m.size, PacketBytes)
  BY DEF MiniTile, PacketSize
<1>4. /\ Stock(c, v) /\ m.tid \in Tids /\ z \in Nat \ {0} /\ z <= s.send_list[m.tid]
      /\ v.send_list = [s.send_list EXCEPT ![m.tid] = @ - z]
  <2>1. PacketCut(s, v, s.sd, s.mini)
    BY DataSentFields
  <2>2. CoreTypes(c, s)
    BY DEF Safe
  <2> HIDE DEF m, z
  <2> DEFINE b == s.obuf[s.sd][s.mini]
  <2>3. /\ Stock(c, v) /\ b.tid \in Tids
        /\ Smaller(b.size, PacketBytes) \in Nat \ {0}
        /\ Smaller(b.size, PacketBytes) <= s.send_list[b.tid]
        /\ v.send_list = [s.send_list EXCEPT ![b.tid] = @ - Smaller(b.size, PacketBytes)]
    <3>1. s.sd \in Obufs /\ s.mini \in DOMAIN s.obuf[s.sd]
      BY <1>2
    <3>2. /\ Stock(c, v) /\ s.obuf[s.sd][s.mini].tid \in Tids
          /\ Smaller(s.obuf[s.sd][s.mini].size, PacketBytes) \in Nat \ {0}
          /\ Smaller(s.obuf[s.sd][s.mini].size, PacketBytes) <= s.send_list[s.obuf[s.sd][s.mini].tid]
      BY <2>1, <2>2, <3>1, StockCut
    <3>3. v.send_list = [s.send_list EXCEPT ![s.obuf[s.sd][s.mini].tid] =
                           @ - Smaller(s.obuf[s.sd][s.mini].size, PacketBytes)]
      BY <2>1 DEF PacketCut
    <3> QED
      BY <3>2, <3>3
  <2>4. m = b
    BY <1>3
  <2> HIDE DEF b
  <2> QED
    BY <1>3, <2>3, <2>4
<1>5. Keeping(s, v)
  <2> DEFINE g == Drain(s)
             x == m.tid
             y == IF IsEnd(s) THEN NoDdr ELSE IF ToDram(s) THEN d ELSE g.ddr_rel[x]
             n == [g EXCEPT !.send_list[x] = @ - z, !.ddr_rel[x] = y]
  <2>1. Same(s, g, {"obuf", "mini", "rc", "sd"}) /\ Safe(c, g)
    BY DrainSafe
  <2>2. DOMAIN g = Fields
    BY <2>1, CoreFields DEF Safe, CoreTypes
  <2>3. v = IF n.wl_end /\ \A i \in Obufs : n.obuf[i] = << >>
            THEN [n EXCEPT !.overall_end = TRUE] ELSE n
    BY DEF DataSent
  <2> HIDE DEF g, y, x, z, m
  <2>4. /\ DOMAIN n = Fields /\ n.cur = g.cur /\ n.s_rq = g.s_rq /\ n.buffer = g.buffer
        /\ n.wl_end = g.wl_end /\ n.next_start = g.next_start /\ n.wl_fn = g.wl_fn
    BY <2>2 DEF Fields
  <2> HIDE DEF n
  <2>5. /\ v.cur = n.cur /\ v.s_rq = n.s_rq /\ v.buffer = n.buffer
        /\ v.wl_end = n.wl_end /\ v.next_start = n.next_start /\ v.wl_fn = n.wl_fn
    BY <2>3, <2>4 DEF Fields
  <2>6. /\ g.cur = s.cur /\ g.s_rq = s.s_rq /\ g.buffer = s.buffer
        /\ g.wl_end = s.wl_end /\ g.next_start = s.next_start /\ g.wl_fn = s.wl_fn
    BY <2>1 DEF Same, Fields
  <2> QED
    BY <2>4, <2>5, <2>6 DEF Keeping, EndedOf, Between, Before
<1>6. \E n \in DOMAIN Workloads[c] : n <= s.cur /\ IsRemote(c, n, m.tid)
  <2>1. /\ s.obuf_wl[s.sd] \in DOMAIN Workloads[c]
        /\ IsRemote(c, s.obuf_wl[s.sd], s.obuf[s.sd][s.mini].tid)
    BY <1>2 DEF Stock, Pieces
  <2>2. s.obuf_wl[s.sd] <= s.cur
    BY <1>2 DEF Safe, CoreTypes
  <2> QED
    BY <1>3, <2>1, <2>2
<1>7. s.send_list[m.tid] \in Nat
  <2>1. s.send_list[m.tid] \in Int
    BY <1>4 DEF Safe, CoreTypes
  <2> QED
    BY <1>4, <2>1
<1> DEFINE e == IsEnd(s)
           dst == (m.dst \ {DRAM}) \cup
                  (IF ~ToDram(s) THEN {} ELSE IF e THEN DdrNodes ELSE {DdrNode(d)})
<1>8. p = [kind |-> "data", tid |-> m.tid, src |-> c, size |-> z, end |-> e, to |-> dst]
  BY DEF DataPacket
<1>9. e \in BOOLEAN /\ (e <=> s.send_list[m.tid] = z)
  BY DEF IsEnd
<1>10. dst \subseteq Nodes
  BY <1>1, <1>2 DEF MiniTileType, Nodes, DdrNodes
<1> HIDE DEF m, z, e, dst
<1>11. /\ p.tid = m.tid /\ p.end = e /\ p.to = dst
       /\ p = [kind |-> "data", tid |-> p.tid, src |-> c, size |-> z, end |-> p.end, to |-> p.to]
  BY <1>8
<1>12. Cuts(c, s, p, z)
  BY <1>4, <1>6, <1>7, <1>9, <1>10, <1>11 DEF Cuts
<1> QED
  BY <1>1, <1>4, <1>5, <1>11, <1>12 DEF z

(* A sent packet of t is taken off what is left of t, and off nothing else.   *)
Takes(c, s, v, p, z, n, t) ==
  /\ IsRemote(c, n, t) => ToSend(c, v, n, t) = ToSend(c, s, n, t) - (IF t = p.tid THEN z ELSE 0)
  /\ IsOut(c, n, t) /\ Making(v, n, t) => Making(s, n, t)
  /\ IsOut(c, n, t) /\ t = p.tid /\ p.end => Making(s, n, t) /\ ~Making(v, n, t)
(* So it is when a core sends.                                               *)
LEMMA SentLess ==
  ASSUME NEW c \in Cores, OutputsOwn(c), NEW s, Safe(c, s), Stock(c, s), NEW p, NEW z, Cuts(c, s, p, z),
         NEW v, Safe(c, v), Stock(c, v), Keeping(s, v), v.send_list = [s.send_list EXCEPT ![p.tid] = @ - z],
         NEW n \in DOMAIN Workloads[c], NEW t \in Tids
  PROVE  Takes(c, s, v, p, z, n, t)
<1>1. s.send_list \in [Tids -> Int]
  BY DEF Safe, CoreTypes
<1>2. v.send_list[t] = s.send_list[t] - (IF t = p.tid THEN z ELSE 0)
  BY <1>1 DEF Cuts
<1>3. PICK m \in DOMAIN Workloads[c] : m <= s.cur /\ IsRemote(c, m, p.tid)
  BY DEF Cuts
<1>4. IsOut(c, n, t) /\ t = p.tid => n = m
  BY <1>3, RemoteIsOut, OneJob
<1>5. DOMAIN Workloads[c] = 1 .. Len(Workloads[c]) /\ Len(Workloads[c]) \in Nat /\ s.cur \in Nat
  BY WorkloadsType, TurnFlags
<1>6. ASSUME IsRemote(c, n, t)
      PROVE  ToSend(c, v, n, t) = ToSend(c, s, n, t) - (IF t = p.tid THEN z ELSE 0)
  <2>1. v.cur = s.cur
    BY DEF Keeping
  <2>2. CASE s.cur < n
    <3>1. t # p.tid
      BY <1>3, <1>4, <1>5, <1>6, <2>2, RemoteIsOut
    <3>2. OutSize(c, n, t) \in Nat
      BY <1>6, OutSizeIs
    <3> QED
      BY <2>1, <2>2, <3>1, <3>2 DEF ToSend
  <2>3. CASE ~(s.cur < n)
    BY <1>2, <2>1, <2>3 DEF ToSend
  <2> QED
    BY <2>2, <2>3
<1>7. ASSUME IsOut(c, n, t), Making(v, n, t) PROVE Making(s, n, t)
  <2>1. EndedOf(v) = EndedOf(s)
    BY DEF Keeping
  <2>2. CASE t = p.tid
    <3>1. s.send_list[t] # 0
      BY <2>2 DEF Cuts
    <3> QED
      BY <3>1 DEF Making
  <2>3. CASE t # p.tid
    BY <1>1, <1>2, <1>7, <2>1, <2>3 DEF Making
  <2> QED
    BY <2>2, <2>3
<1>8. ASSUME IsOut(c, n, t), t = p.tid, p.end PROVE Making(s, n, t) /\ ~Making(v, n, t)
  <2>1. s.send_list[t] = z /\ z # 0 /\ z \in Nat
    BY <1>8 DEF Cuts
  <2>2. v.send_list[t] = 0
    BY <1>2, <1>8, <2>1
  <2>3. n <= v.cur /\ IsRemote(c, n, t)
    BY <1>3, <1>4, <1>8 DEF Keeping
  <2>4. n <= EndedOf(v) /\ EndedOf(v) \in Nat
    BY <2>2, <2>3, SentEnded, TurnFlags
  <2> QED
    BY <1>5, <2>1, <2>2, <2>4 DEF Making
<1> QED
  BY <1>6, <1>7, <1>8 DEF Takes

-----------------------------------------------------------------------------
(* A DDR: what it has to send is of outputs in R, and an output still open     *)
(* counts at least the inputs in W, those of which it awaits the end.         *)

DdrFields == {"fifo", "in_fifo", "end_set", "ofm", "data", "packets", "grant", "router",
              "time_cnt", "granted", "ticked"}
Rests(R) == [tid : R, left : Nat \ {0}]
Parcels(R) == [tid : R, size : Nat \ {0}, end : BOOLEAN]
Entries == [open : BOOLEAN, ifmaps : Int, requests : Int]

DdrTypes(s, R) ==
  /\ DOMAIN s = DdrFields /\ s.ofm \in [Tids -> Entries]
  /\ s.data \in Seq(Rests(R)) /\ s.packets \in Seq(Parcels(R))
Awaited(t, W) == {i \in W : t \in DramIn[i]}
Joins(s, W) ==
  \A t \in Tids : IF s.ofm[t].open
                  THEN t \in OutIds /\ Cardinality(Awaited(t, W)) <= s.ofm[t].ifmaps
                  ELSE s.ofm[t].ifmaps <= 0 /\ s.ofm[t].requests <= 0

(* An output that awaits nothing is in R.                                    *)
Settled(W, R) ==
  /\ IsFiniteSet(W) /\ R \subseteq OutIds
  /\ \A t \in OutIds : Awaited(t, W) = {} => t \in R

(* The set of those awaited is finite, and shrinks with W.                   *)
LEMMA AwaitedFewer ==
  ASSUME NEW W, IsFiniteSet(W), NEW V \in SUBSET W, NEW t
  PROVE  /\ IsFiniteSet(V) /\ Cardinality(Awaited(t, V)) \in Nat
         /\ Cardinality(Awaited(t, W)) \in Nat
         /\ Cardinality(Awaited(t, V)) <= Cardinality(Awaited(t, W))
         /\ \A i \in W \ V : t \in DramIn[i] =>
              Cardinality(Awaited(t, V)) <= Cardinality(Awaited(t, W)) - 1
         /\ Cardinality(Awaited(t, W)) = 0 => Awaited(t, W) = {}
<1> DEFINE a == Awaited(t, V)
           b == Awaited(t, W)
<1>1. a \in SUBSET b /\ b \in SUBSET W
  BY DEF Awaited
<1>2. \A i \in W \ V : t \in DramIn[i] => i \in b /\ i \notin a
  BY DEF Awaited
<1> HIDE DEF a, b
<1>3. IsFiniteSet(V) /\ IsFiniteSet(b)
  BY <1>1, FS_Subset
<1>4. IsFiniteSet(a)
  BY <1>1, <1>3, FS_Subset
<1>5. /\ Cardinality(a) \in Nat /\ Cardinality(b) \in Nat /\ Cardinality(a) <= Cardinality(b)
      /\ a # b => Cardinality(a) # Cardinality(b)
  BY <1>1, <1>3, <1>4, FS_Subset, FS_CardinalityType
<1>6. Cardinality(b) = 0 => b = {}
  BY <1>3, FS_EmptySet
<1>7. ASSUME NEW i \in W \ V, t \in DramIn[i] PROVE Cardinality(a) <= Cardinality(b) - 1
  <2>1. a # b
    BY <1>2, <1>7
  <2> QED
    BY <1>5, <2>1
<1> QED
  BY <1>3, <1>5, <1>6, <1>7 DEF a, b

(* The fields of a new DDR.                                                 *)
LEMMA DdrNew == DOMAIN DDRInit = DdrFields
  BY DEF DDRInit, DdrFields

(* An output of the list has a byte for every DDR.                           *)
LEMMA ShareSome ==
  ASSUME NEW t \in OutIds
  PROVE  /\ t \in Tids /\ Share(OutOf(t)) \in Nat \ {0} /\ OutOf(t).ifmaps \in Nat
         /\ OutOf(t).dst \in SUBSET Cores /\ IsFiniteSet(OutOf(t).dst)
         /\ Cardinality({i \in Tids : t \in DramIn[i]}) <= OutOf(t).ifmaps
<1> DEFINE o == OutOf(t)
<1>1. o \in DramOut /\ o.tid = t
  BY DEF OutIds, OutOf
<1> HIDE DEF o
<1>2. o.tid \in Tids /\ o.ifmaps \in Nat /\ o.size \in Nat /\ o.dst \in SUBSET Cores
  BY <1>1, DDRAssumption
<1>3. /\ Cardinality({i \in Tids : o.tid \in DramIn[i]}) <= o.ifmaps
      /\ o.size >= DdrNum /\ IsFiniteSet(o.dst)
  BY <1>1, RelationAssumption
<1>4. o.size \div DdrNum \in Nat \ {0}
  <2>1. DdrNum \in Nat \ {0}
    BY PlatformAssumption
  <2> QED
    BY <1>2, <1>3, <2>1, Z3
<1> QED
  BY <1>1, <1>2, <1>3, <1>4 DEF o, Share

(* The AND-join queues outputs in R only (ddr.cpp:186).                     *)
LEMMA JoinSettled ==
  ASSUME NEW s, NEW T \in SUBSET Tids, NEW W, NEW R, DdrTypes(s, R), Settled(W, R),
         Joins(s, W), \A t \in T : ~s.ofm[t].open => ~(s.ofm[t].ifmaps = 0 /\ s.ofm[t].requests = 0)
  PROVE  DdrTypes(Join(s, T), R) /\ Joins(Join(s, T), W) /\ Join(s, T).end_set = s.end_set
<1> DEFINE ready == {t \in T : s.ofm[t].ifmaps = 0 /\ s.ofm[t].requests = 0}
           new == {[tid |-> t, left |-> Share(OutOf(t))] : t \in ready}
           d == s.data \o SetToSeq(new)
           o == [t \in Tids |-> IF t \in ready THEN Erased ELSE s.ofm[t]]
           j == Join(s, T)
<1>1. j = [s EXCEPT !.data = d, !.ofm = o]
  BY DEF Join
<1>2. \A t \in Tids : /\ s.ofm[t] \in Entries
                      /\ IF s.ofm[t].open
                         THEN t \in OutIds /\ Cardinality(Awaited(t, W)) <= s.ofm[t].ifmaps
                         ELSE s.ofm[t].ifmaps <= 0 /\ s.ofm[t].requests <= 0
  BY DEF DdrTypes, Joins
<1>3. \A t \in ready : t \in R
  <2> TAKE t \in ready
  <2>1. t \in OutIds /\ Cardinality(Awaited(t, W)) <= 0
    BY <1>2
  <2>2. Cardinality(Awaited(t, W)) \in Nat /\ (Cardinality(Awaited(t, W)) = 0 => Awaited(t, W) = {})
    BY AwaitedFewer DEF Settled
  <2> QED
    BY <2>1, <2>2 DEF Settled
<1>4. IsFiniteSet(new) /\ new \subseteq Rests(R)
  <2>1. IsFiniteSet(ready)
    <3>1. ready \in SUBSET Tids
      OBVIOUS
    <3> HIDE DEF ready
    <3> QED
      BY <3>1, DDRAssumption, FS_Subset
  <2>2. \A t \in ready : [tid |-> t, left |-> Share(OutOf(t))] \in Rests(R)
    BY <1>3, ShareSome DEF Rests, Settled
  <2> DEFINE f == [t \in ready |-> [tid |-> t, left |-> Share(OutOf(t))]]
  <2>3. f \in Surjection(ready, new)
    BY DEF Surjection
  <2>4. new \subseteq Rests(R)
    BY <2>2
  <2> HIDE DEF ready, new, f
  <2> QED
    BY <2>1, <2>3, <2>4, FS_Surjection
<1>5. d \in Seq(Rests(R))
  <2> HIDE DEF new
  <2>1. SetToSeq(new) \in [1 .. Cardinality(new) -> new] /\ Cardinality(new) \in Nat
    BY <1>4, SetToSeqType
  <2>2. SetToSeq(new) \in Seq(Rests(R))
    BY <1>4, <2>1
  <2>3. s.data \in Seq(Rests(R))
    BY DEF DdrTypes
  <2> QED
    BY <2>2, <2>3, ConcatProperties
<1>6. o \in [Tids -> Entries]
  <2>1. Erased \in Entries
    BY DEF Erased, Entries
  <2> HIDE DEF ready
  <2> QED
    BY <1>2, <2>1
<1>7. \A t \in Tids : o[t] = IF t \in ready THEN Erased ELSE s.ofm[t]
  OBVIOUS
<1> HIDE DEF d, o, ready, j
<1>8. /\ DOMAIN j = DdrFields /\ j.data = d /\ j.ofm = o /\ j.packets = s.packets
      /\ j.end_set = s.end_set
  BY <1>1 DEF DdrTypes, DdrFields
<1>9. Joins(j, W)
  <2> SUFFICES ASSUME NEW t \in Tids
               PROVE  IF o[t].open
                      THEN t \in OutIds /\ Cardinality(Awaited(t, W)) <= o[t].ifmaps
                      ELSE o[t].ifmaps <= 0 /\ o[t].requests <= 0
    BY <1>8 DEF Joins
  <2> QED
    BY <1>2, <1>7 DEF Erased
<1> QED
  BY <1>5, <1>6, <1>8, <1>9 DEF DdrTypes, j

(* Cutting packets leaves outputs in R to cut, and gives packets of them.    *)
LEMMA CutSettled ==
  ASSUME NEW R, NEW q \in Seq(Rests(R))
  PROVE  CutPackets(q) \in Seq(Parcels(R)) /\ CutRest(q) \in Seq(Rests(R))
<1> DEFINE long == {i \in DOMAIN q : q[i].left > PacketBytes}
           rank(i) == Cardinality({h \in long : h <= i})
           nth(k) == CHOOSE i \in long : rank(i) = k
           r == CutRest(q)
           p == CutPackets(q)
           n == Cardinality(long)
<1>1. DOMAIN q = 1 .. Len(q) /\ Len(q) \in Nat /\ \A i \in DOMAIN q : q[i] \in Rests(R)
  OBVIOUS
<1>2. IsFiniteSet(long) /\ long \subseteq Nat
  <2>1. IsFiniteSet(DOMAIN q) /\ long \in SUBSET DOMAIN q
    BY <1>1, FS_Interval
  <2>2. long \subseteq Nat
    BY <1>1
  <2> HIDE DEF long
  <2> QED
    BY <2>1, <2>2, FS_Subset
<1>3. n \in Nat /\ \A k \in 1 .. n : \E i \in long : rank(i) = k
  <2> HIDE DEF long
  <2> QED
    BY <1>2, Ranked
<1>4. r = [k \in 1 .. n |-> [q[nth(k)] EXCEPT !.left = @ - PacketBytes]]
  BY DEF CutRest
<1> HIDE DEF rank, r, n
<1>5. \A k \in 1 .. n : nth(k) \in long
  BY <1>3
<1> HIDE DEF nth
<1>6. \A i \in long : q[i] \in Rests(R) /\ q[i].left > PacketBytes
  BY <1>1
<1>7. \A x \in Rests(R) : x.left > PacketBytes => [x EXCEPT !.left = @ - PacketBytes] \in Rests(R)
  <2> TAKE x \in Rests(R)
  <2>1. x.left \in Nat /\ PacketBytes \in Nat \ {0}
    BY PlatformAssumption DEF Rests
  <2> QED
    BY <2>1 DEF Rests
<1>8. r \in Seq(Rests(R))
  <2>1. \A k \in 1 .. n : [q[nth(k)] EXCEPT !.left = @ - PacketBytes] \in Rests(R)
    BY <1>5, <1>6, <1>7
  <2>2. r \in [1 .. n -> Rests(R)]
    BY <1>4, <2>1
  <2> QED
    BY <1>3, <2>2
<1>9. p \in Seq(Parcels(R))
  <2>1. ASSUME NEW i \in 1 .. Len(q)
        PROVE  [tid |-> q[i].tid,
                size |-> IF q[i].left > PacketBytes THEN PacketBytes ELSE q[i].left,
                end |-> q[i].left <= PacketBytes] \in Parcels(R)
    <3>1. q[i].tid \in R /\ q[i].left \in Nat \ {0} /\ PacketBytes \in Nat \ {0}
      BY <1>1, <2>1, PlatformAssumption DEF Rests
    <3> QED
      BY <3>1 DEF Parcels
  <2>2. p = [i \in 1 .. Len(q) |->
               [tid |-> q[i].tid,
                size |-> IF q[i].left > PacketBytes THEN PacketBytes ELSE q[i].left,
                end |-> q[i].left <= PacketBytes]]
    BY <1>1 DEF CutPackets
  <2>3. p \in [1 .. Len(q) -> Parcels(R)]
    BY <2>1, <2>2
  <2> HIDE DEF p
  <2> QED
    BY <1>1, <2>3
<1> QED
  BY <1>8, <1>9 DEF r

(* What a DDR keeps of its transfers in one state and the next.              *)
Memory(s, u) == u.ofm = s.ofm /\ u.end_set = s.end_set

(* The read side sends data of outputs in R (ddr.cpp:208).                  *)
LEMMA ServeSettled ==
  ASSUME NEW s, NEW R, DdrTypes(s, R), s.packets # << >> \/ s.data # << >>
  PROVE  DdrTypes(ServeOne(s), R) /\ Memory(s, ServeOne(s)) /\ ServedPacket(s) \in Parcels(R)
<1> DEFINE f == Refill(s)
           v == ServeOne(s)
<1>1. DdrTypes(f, R) /\ Memory(s, f) /\ f.packets # << >>
  <2>1. CASE s.packets # << >>
    BY <2>1 DEF Refill, Memory
  <2>2. CASE s.packets = << >>
    <3> DEFINE c == CutPackets(s.data)
               d == CutRest(s.data)
    <3>1. f = [s EXCEPT !.packets = c, !.data = d]
      BY <2>2 DEF Refill
    <3>2. s.data \in Seq(Rests(R)) /\ s.data # << >>
      BY <2>2 DEF DdrTypes
    <3>3. c \in Seq(Parcels(R)) /\ d \in Seq(Rests(R))
      BY <3>2, CutSettled
    <3>4. DOMAIN c = DOMAIN s.data
      BY DEF CutPackets
    <3>5. c # << >>
      BY <3>2, <3>3, <3>4
    <3> HIDE DEF f, c, d
    <3>6. /\ DOMAIN f = DOMAIN s /\ f.packets = c /\ f.data = d /\ f.ofm = s.ofm
          /\ f.end_set = s.end_set
      BY <3>1 DEF DdrTypes, DdrFields
    <3> QED
      BY <3>3, <3>5, <3>6 DEF DdrTypes, Memory
  <2> QED
    BY <2>1, <2>2
<1>2. ServedPacket(s) = Head(f.packets)
  BY DEF ServedPacket
<1> DEFINE n == Cycles(Head(f.packets).size) - 1
<1>3. v = [f EXCEPT !.packets = Tail(@), !.time_cnt = n, !.grant = NoGrant, !.router = NoRouter]
  BY DEF ServeOne
<1> HIDE DEF f, v, n
<1>4. /\ DOMAIN v = DOMAIN f /\ v.packets = Tail(f.packets) /\ v.data = f.data /\ v.ofm = f.ofm
      /\ v.end_set = f.end_set
  BY <1>1, <1>3 DEF DdrTypes, DdrFields
<1>5. f.packets \in Seq(Parcels(R)) /\ f.packets # << >>
  BY <1>1 DEF DdrTypes
<1>6. Tail(f.packets) \in Seq(Parcels(R)) /\ Head(f.packets) \in Parcels(R)
  BY <1>5, HeadTailProperties
<1> QED
  BY <1>1, <1>2, <1>4, <1>6 DEF DdrTypes, Memory, v

(* The arbiter touches no data (ddr.cpp:131).                               *)
LEMMA ArbitrateSettled ==
  ASSUME NEW s, NEW R, DdrTypes(s, R), NEW W, Joins(s, W), NEW free, NEW g, NEW q
  PROVE  /\ DdrTypes(Arbitrate(s, free, g, q), R) /\ Memory(s, Arbitrate(s, free, g, q))
         /\ Joins(Arbitrate(s, free, g, q), W)
<1> DEFINE a == Arbitrate(s, free, g, q)
<1>1. /\ DOMAIN a = DOMAIN s /\ a.ofm = s.ofm /\ a.data = s.data /\ a.packets = s.packets
      /\ a.end_set = s.end_set
  BY DEF Arbitrate, DdrTypes, DdrFields
<1> HIDE DEF a
<1> QED
  BY <1>1 DEF DdrTypes, Memory, Joins, a
(* Nor does the end of a cycle.                                              *)
LEMMA NextCycleSettled ==
  ASSUME NEW s, NEW R, DdrTypes(s, R), NEW W, Joins(s, W)
  PROVE  DdrTypes(NextCycle(s), R) /\ Memory(s, NextCycle(s)) /\ Joins(NextCycle(s), W)
<1> DEFINE a == NextCycle(s)
<1>1. /\ DOMAIN a = DOMAIN s /\ a.ofm = s.ofm /\ a.data = s.data /\ a.packets = s.packets
      /\ a.end_set = s.end_set
  BY DEF NextCycle, DdrTypes, DdrFields
<1> HIDE DEF a
<1> QED
  BY <1>1 DEF DdrTypes, Memory, Joins, a

(* More outputs may be in R, and fewer inputs awaited.                        *)
LEMMA Looser ==
  ASSUME NEW s, NEW R, DdrTypes(s, R), NEW S, R \subseteq S,
         NEW W, IsFiniteSet(W), Joins(s, W), NEW V \in SUBSET W
  PROVE  DdrTypes(s, S) /\ Joins(s, V)
<1>1. DdrTypes(s, S)
  <2>1. Rests(R) \subseteq Rests(S) /\ Parcels(R) \subseteq Parcels(S)
    BY DEF Rests, Parcels
  <2>2. \A A, B : A \subseteq B => Seq(A) \subseteq Seq(B)
    OBVIOUS
  <2>3. Seq(Rests(R)) \subseteq Seq(Rests(S)) /\ Seq(Parcels(R)) \subseteq Seq(Parcels(S))
    BY <2>1, <2>2
  <2> QED
    BY <2>3 DEF DdrTypes
<1>2. Joins(s, V)
  <2> SUFFICES ASSUME NEW t \in Tids, s.ofm[t].open
               PROVE  Cardinality(Awaited(t, V)) <= s.ofm[t].ifmaps
    BY DEF Joins
  <2>1. Cardinality(Awaited(t, W)) <= s.ofm[t].ifmaps
    BY DEF Joins
  <2>2. /\ Cardinality(Awaited(t, V)) \in Nat /\ Cardinality(Awaited(t, W)) \in Nat
        /\ Cardinality(Awaited(t, V)) <= Cardinality(Awaited(t, W))
    BY AwaitedFewer
  <2>3. s.ofm[t].ifmaps \in Int
    BY DEF DdrTypes, Entries
  <2> QED
    BY <2>1, <2>2, <2>3
<1> QED
  BY <1>1, <1>2

(* A request counts, and may be the last (ddr.cpp:255).                     *)
LEMMA RequestSettled ==
  ASSUME NEW s, NEW R, DdrTypes(s, R), NEW W, Joins(s, W), Settled(W, R), NEW t \in Tids
  PROVE  /\ DdrTypes(DDRRequest(s, t), R) /\ Joins(DDRRequest(s, t), W)
         /\ DDRRequest(s, t).end_set = s.end_set
<1> DEFINE e == [s.ofm[t] EXCEPT !.requests = @ - 1]
           u == [s EXCEPT !.ofm[t].requests = @ - 1]
           T == {t}
<1>1. DDRRequest(s, t) = Join(u, T)
  BY DEF DDRRequest
<1>2. s.ofm \in [Tids -> Entries] /\ DOMAIN s = DdrFields
  BY DEF DdrTypes
<1>3. s.ofm[t] \in Entries
  BY <1>2
<1>4. /\ e \in Entries /\ e.open = s.ofm[t].open /\ e.ifmaps = s.ofm[t].ifmaps
      /\ e.requests = s.ofm[t].requests - 1
  BY <1>3 DEF Entries
<1>5. /\ DOMAIN u = DdrFields /\ u.ofm = [s.ofm EXCEPT ![t] = e] /\ u.data = s.data
      /\ u.packets = s.packets /\ u.end_set = s.end_set
  BY <1>2 DEF DdrFields
<1> HIDE DEF e, u
<1>6. \A x \in Tids : u.ofm[x] = IF x = t THEN e ELSE s.ofm[x]
  BY <1>2, <1>5
<1>7. DdrTypes(u, R)
  <2>1. u.ofm \in [Tids -> Entries]
    BY <1>2, <1>4, <1>5
  <2> QED
    BY <1>5, <2>1 DEF DdrTypes
<1>8. s.ofm[t].requests \in Int
  BY <1>3 DEF Entries
<1>9. Joins(u, W)
  <2> SUFFICES ASSUME NEW x \in Tids
               PROVE  IF u.ofm[x].open
                      THEN x \in OutIds /\ Cardinality(Awaited(x, W)) <= u.ofm[x].ifmaps
                      ELSE u.ofm[x].ifmaps <= 0 /\ u.ofm[x].requests <= 0
    BY DEF Joins
  <2>1. IF s.ofm[x].open
        THEN x \in OutIds /\ Cardinality(Awaited(x, W)) <= s.ofm[x].ifmaps
        ELSE s.ofm[x].ifmaps <= 0 /\ s.ofm[x].requests <= 0
    BY DEF Joins
  <2> QED
    BY <1>4, <1>6, <1>8, <2>1
<1>10. ~u.ofm[t].open => ~(u.ofm[t].ifmaps = 0 /\ u.ofm[t].requests = 0)
  <2>1. ~s.ofm[t].open => s.ofm[t].requests <= 0
    BY DEF Joins
  <2> QED
    BY <1>4, <1>6, <1>8, <2>1
<1>11. T \in SUBSET Tids /\ \A x \in T : ~u.ofm[x].open => ~(u.ofm[x].ifmaps = 0 /\ u.ofm[x].requests = 0)
  BY <1>10
<1> HIDE DEF T
<1>12. DdrTypes(Join(u, T), R) /\ Joins(Join(u, T), W) /\ Join(u, T).end_set = u.end_set
  BY <1>7, <1>9, <1>11, JoinSettled
<1> QED
  BY <1>1, <1>5, <1>12

Marked(e, t, end) == IF end THEN e \cup {t} ELSE e
(* Data is queued, and an end remembered (ddr.cpp:274).                     *)
LEMMA DataSettled ==
  ASSUME NEW s, NEW R, DdrTypes(s, R), NEW W, Joins(s, W), NEW t, NEW size, NEW end \in BOOLEAN
  PROVE  /\ DdrTypes(DDRData(s, t, size, end), R) /\ Joins(DDRData(s, t, size, end), W)
         /\ DDRData(s, t, size, end).end_set = Marked(s.end_set, t, end)
<1> DEFINE x == Append(s.fifo, [tid |-> t, size |-> size])
           y == [s.in_fifo EXCEPT ![t] = @ + 1]
           z == IF end THEN s.end_set \cup {t} ELSE s.end_set
           u == DDRData(s, t, size, end)
<1>1. u = [s EXCEPT !.fifo = x, !.in_fifo = y, !.end_set = z]
  BY DEF DDRData
<1> HIDE DEF x, y, z, u
<1>2. /\ DOMAIN u = DOMAIN s /\ u.ofm = s.ofm /\ u.data = s.data /\ u.packets = s.packets
      /\ u.end_set = z
  BY <1>1 DEF DdrTypes, DdrFields
<1> QED
  BY <1>2 DEF DdrTypes, Joins, Marked, u, z

(* The end of an input in W is counted, and not awaited any more            *)
(* (ddr.cpp:168).                                                           *)
LEMMA DrainSettled ==
  ASSUME NEW s, NEW R, DdrTypes(s, R), NEW W, Joins(s, W), Settled(W, R),
         s.end_set \subseteq W, W \subseteq Tids, NEW u, u = DrainOne(s)
  PROVE  \/ DdrTypes(u, R) /\ Memory(s, u) /\ Joins(u, W)
         \/ \E t \in s.end_set :
              /\ u.end_set = s.end_set \ {t}
              /\ \A V : Settled(V, R) /\ V \subseteq W \ {t} => DdrTypes(u, R) /\ Joins(u, V)
<1> DEFINE p == Head(s.fifo)
           t == p.tid
           n == Cycles(p.size) - 1
           f == Tail(s.fifo)
           h == [s.in_fifo EXCEPT ![t] = @ - 1]
           last == s.in_fifo[t] = 1 /\ t \in s.end_set
           d == [s EXCEPT !.grant = NoGrant, !.time_cnt = n, !.fifo = f, !.in_fifo = h]
           e == [d EXCEPT !.end_set = @ \ {t}]
           o == [x \in Tids |-> IF x \in DramIn[t] THEN [e.ofm[x] EXCEPT !.ifmaps = @ - 1]
                                ELSE e.ofm[x]]
           v == [e EXCEPT !.ofm = o]
<1>1. u = IF last THEN Join(v, DramIn[t]) ELSE d
  BY DEF DrainOne, Counted
<1> HIDE DEF n, f, h, p
<1>2. /\ DOMAIN d = DdrFields /\ d.ofm = s.ofm /\ d.data = s.data /\ d.packets = s.packets
      /\ d.end_set = s.end_set
  BY DEF DdrTypes, DdrFields
<1> HIDE DEF d
<1>3. /\ DOMAIN e = DdrFields /\ e.ofm = s.ofm /\ e.data = s.data /\ e.packets = s.packets
      /\ e.end_set = s.end_set \ {t}
  BY <1>2 DEF DdrFields
<1> HIDE DEF e
<1>4. /\ DOMAIN v = DdrFields /\ v.ofm = o /\ v.data = s.data /\ v.packets = s.packets
      /\ v.end_set = s.end_set \ {t}
  BY <1>3 DEF DdrFields
<1> HIDE DEF v
<1>5. CASE ~last
  BY <1>1, <1>2, <1>5 DEF DdrTypes, Memory, Joins
<1>6. CASE last
  <2>1. t \in s.end_set /\ t \in Tids /\ t \in W
    BY <1>6
  <2>2. DramIn[t] \in SUBSET Tids
    BY <2>1, DDRAssumption
  <2>3. \A x \in Tids : s.ofm[x] \in Entries
    BY DEF DdrTypes
  <2>4. \A x \in Tids : /\ o[x] \in Entries /\ o[x].open = s.ofm[x].open
                        /\ o[x].requests = s.ofm[x].requests
                        /\ o[x].ifmaps = IF x \in DramIn[t] THEN s.ofm[x].ifmaps - 1 ELSE s.ofm[x].ifmaps
    <3> TAKE x \in Tids
    <3>1. o[x] = IF x \in DramIn[t] THEN [s.ofm[x] EXCEPT !.ifmaps = @ - 1] ELSE s.ofm[x]
      BY <1>3
    <3> QED
      BY <2>3, <3>1 DEF Entries
  <2>5. o \in [Tids -> Entries]
    BY <2>4
  <2> HIDE DEF o, last
  <2>6. DdrTypes(v, R)
    BY <1>4, <2>5 DEF DdrTypes
  <2>7. ASSUME NEW V, Settled(V, R), V \subseteq W \ {t}
        PROVE  DdrTypes(u, R) /\ Joins(u, V) /\ u.end_set = s.end_set \ {t}
    <3>1. \A x \in Tids : IF v.ofm[x].open
                          THEN x \in OutIds /\ Cardinality(Awaited(x, V)) <= v.ofm[x].ifmaps
                          ELSE /\ v.ofm[x].ifmaps <= 0 /\ v.ofm[x].requests <= 0
                               /\ x \in DramIn[t] => v.ofm[x].ifmaps <= -1
      <4> TAKE x \in Tids
      <4>1. IF s.ofm[x].open
            THEN x \in OutIds /\ Cardinality(Awaited(x, W)) <= s.ofm[x].ifmaps
            ELSE s.ofm[x].ifmaps <= 0 /\ s.ofm[x].requests <= 0
        BY DEF Joins
      <4>2. /\ Cardinality(Awaited(x, V)) \in Nat /\ Cardinality(Awaited(x, W)) \in Nat
            /\ Cardinality(Awaited(x, V)) <= Cardinality(Awaited(x, W))
            /\ x \in DramIn[t] => Cardinality(Awaited(x, V)) <= Cardinality(Awaited(x, W)) - 1
        <5>1. IsFiniteSet(W) /\ V \in SUBSET W /\ t \in W \ V
          BY <2>1, <2>7 DEF Settled
        <5> QED
          BY <5>1, AwaitedFewer
      <4>3. s.ofm[x].ifmaps \in Int
        BY <2>3 DEF Entries
      <4> QED
        BY <1>4, <2>4, <4>1, <4>2, <4>3
    <3>2. Joins(v, V)
      BY <3>1 DEF Joins
    <3>3. \A x \in DramIn[t] : ~v.ofm[x].open => ~(v.ofm[x].ifmaps = 0 /\ v.ofm[x].requests = 0)
      <4> TAKE x \in DramIn[t]
      <4>1. x \in Tids
        BY <2>2
      <4> QED
        BY <3>1, <4>1
    <3> DEFINE T == DramIn[t]
    <3> HIDE DEF T
    <3>4. DdrTypes(Join(v, T), R) /\ Joins(Join(v, T), V) /\ Join(v, T).end_set = v.end_set
      BY <2>2, <2>6, <2>7, <3>2, <3>3, JoinSettled DEF T
    <3> QED
      BY <1>1, <1>4, <1>6, <3>4 DEF T
  <2>8. u.end_set = s.end_set \ {t}
    BY <1>1, <1>4, <1>6 DEF Join, DdrFields
  <2> QED
    BY <2>1, <2>7, <2>8
<1> QED
  BY <1>5, <1>6

-----------------------------------------------------------------------------
(* Jobs and transfers: who writes what.                                      *)

Finished(k, t) ==
  \A j \in AllJobs : Writes(j) \cap Sources(t) # {} => j[2] <= EndedOf(k[j[1]])
Done(k) == {t \in OutIds : Finished(k, t)}
Written(t) == \E p \in Cores : \E n \in DOMAIN Workloads[p] : IsOut(p, n, t)

(* No core takes back a job that has ended.                                  *)
Forward(k, v) ==
  \A c \in Cores : EndedOf(k[c]) \in Int /\ EndedOf(v[c]) \in Int /\ EndedOf(k[c]) <= EndedOf(v[c])

(* The jobs of the input.                                                    *)
LEMMA JobsAre ==
  /\ \A p \in Cores : \A n \in DOMAIN Workloads[p] : <<p, n>> \in AllJobs
  /\ \A j \in AllJobs : j[1] \in Cores /\ j[2] \in DOMAIN Workloads[j[1]] /\ j[2] \in Nat
  /\ \A p, n, t : t \in Writes(<<p, n>>) <=> IsOut(p, n, t)
  /\ \A j \in AllJobs : \A t : t \in Writes(j) <=> IsOut(j[1], j[2], t)
<1>1. \A p \in Cores : \A n \in DOMAIN Workloads[p] : <<p, n>> \in AllJobs
  BY DEF AllJobs, JobsOf
<1>2. \A j \in AllJobs : j[1] \in Cores /\ j[2] \in DOMAIN Workloads[j[1]]
  BY DEF AllJobs, JobsOf
<1>3. \A j \in AllJobs : j[2] \in Nat
  BY <1>2, WorkloadsType
<1>4. \A p, n, t : t \in Writes(<<p, n>>) <=> IsOut(p, n, t)
  BY DEF Writes, Job, IsOut
<1>5. \A j \in AllJobs : \A t : t \in Writes(j) <=> IsOut(j[1], j[2], t)
  BY DEF Writes, Job, IsOut
<1> QED
  BY <1>1, <1>2, <1>3, <1>4, <1>5

(* An id is written by one job, and is then no output of the DRAM.            *)
LEMMA OneMaker ==
  ASSUME NEW p \in Cores, NEW m \in DOMAIN Workloads[p], NEW t, IsOut(p, m, t)
  PROVE  /\ t \in Tids /\ t \notin OutIds /\ Sources(t) = {t} /\ OutputsOwn(p)
         /\ \A q \in Cores : \A n \in DOMAIN Workloads[q] : IsOut(q, n, t) => q = p /\ n = m
<1>1. <<p, m>> \in AllJobs /\ t \in Writes(<<p, m>>)
  BY JobsAre
<1>2. t \notin OutIds
  BY <1>1, InputAssumption
<1>3. t \in Tids
  <2>1. PICK i \in DOMAIN Workloads[p][m].outs : Workloads[p][m].outs[i].tid = t
    BY DEF IsOut
  <2>2. Workloads[p][m].outs[i] \in Outputs
    BY <2>1, WorkloadsType, OutsType
  <2> QED
    BY <2>1, <2>2 DEF Outputs
<1>4. Sources(t) = {t}
  BY <1>2, RelationAssumption DEF Sources
<1>5. OutputsOwn(p)
  BY InputAssumption
<1>6. ASSUME NEW q \in Cores, NEW n \in DOMAIN Workloads[q], IsOut(q, n, t) PROVE q = p /\ n = m
  <2>1. <<q, n>> \in AllJobs /\ t \in Writes(<<q, n>>)
    BY <1>6, JobsAre
  <2>2. Writes(<<q, n>>) \cap Writes(<<p, m>>) # {}
    BY <1>1, <2>1
  <2>3. <<q, n>>[1] = <<p, m>>[1]
    BY <1>1, <2>1, <2>2, InputAssumption
  <2>4. q = p
    BY <2>3
  <2> QED
    BY <1>5, <1>6, <2>4, OneJob
<1> QED
  BY <1>2, <1>3, <1>4, <1>5, <1>6

(* A written transfer is finished with its job, an output of the DRAM with    *)
(* the jobs of all it is made of.                                          *)
LEMMA FinishedWhen ==
  ASSUME NEW k
  PROVE  /\ \A p \in Cores : \A n \in DOMAIN Workloads[p] : \A t :
              IsOut(p, n, t) /\ n <= EndedOf(k[p]) => Finished(k, t)
         /\ \A t \in OutIds :
              (\A p \in Cores : \A n \in DOMAIN Workloads[p] : \A i \in Tids :
                 IsOut(p, n, i) /\ t \in DramIn[i] => n <= EndedOf(k[p])) => t \in Done(k)
<1>1. ASSUME NEW p \in Cores, NEW n \in DOMAIN Workloads[p], NEW t, IsOut(p, n, t), n <= EndedOf(k[p])
      PROVE  Finished(k, t)
  <2> SUFFICES ASSUME NEW j \in AllJobs, Writes(j) \cap Sources(t) # {}
               PROVE  j[2] <= EndedOf(k[j[1]])
    BY DEF Finished
  <2>1. Sources(t) = {t}
    BY <1>1, OneMaker
  <2>2. IsOut(j[1], j[2], t) /\ j[1] \in Cores /\ j[2] \in DOMAIN Workloads[j[1]]
    BY <2>1, JobsAre
  <2>3. j[1] = p /\ j[2] = n
    BY <1>1, <2>2, OneMaker
  <2> QED
    BY <1>1, <2>3
<1>2. ASSUME NEW t \in OutIds,
             \A p \in Cores : \A n \in DOMAIN Workloads[p] : \A i \in Tids :
                IsOut(p, n, i) /\ t \in DramIn[i] => n <= EndedOf(k[p])
      PROVE  t \in Done(k)
  <2> SUFFICES ASSUME NEW j \in AllJobs, Writes(j) \cap Sources(t) # {}
               PROVE  j[2] <= EndedOf(k[j[1]])
    BY DEF Finished, Done
  <2>1. PICK i \in Sources(t) : i \in Writes(j)
    OBVIOUS
  <2>2. i # t
    BY <2>1, InputAssumption
  <2>3. i \in Tids /\ t \in DramIn[i]
    BY <2>1, <2>2 DEF Sources
  <2>4. IsOut(j[1], j[2], i) /\ j[1] \in Cores /\ j[2] \in DOMAIN Workloads[j[1]]
    BY <2>1, JobsAre
  <2> QED
    BY <1>2, <2>3, <2>4
<1> QED
  BY <1>1, <1>2

(* What is finished stays so.                                                *)
LEMMA FinishedKept ==
  ASSUME NEW k, NEW v, Forward(k, v)
  PROVE  /\ \A t : Finished(k, t) => Finished(v, t)
         /\ Done(k) \subseteq Done(v)
<1>1. ASSUME NEW t, Finished(k, t) PROVE Finished(v, t)
  <2> SUFFICES ASSUME NEW j \in AllJobs, Writes(j) \cap Sources(t) # {}
               PROVE  j[2] <= EndedOf(v[j[1]])
    BY DEF Finished
  <2>1. j[2] <= EndedOf(k[j[1]])
    BY <1>1 DEF Finished
  <2>2. j[1] \in Cores /\ j[2] \in Nat
    BY JobsAre
  <2> QED
    BY <2>1, <2>2 DEF Forward
<1> QED
  BY <1>1 DEF Done

(* A core's entry in _newly_added_buffer, of what it makes and of what it     *)
(* gets.                                                                   *)
LEMMA FetchIs ==
  ASSUME NEW c \in Cores, NEW k, NEW t
  PROVE  /\ MadeHere(c, k[c], t) /\ EndedOf(k[c]) \in Int => Finished(k, t)
         /\ Announced(c, k[c], t) => \A p \in Cores : \A n \in DOMAIN Workloads[p] :
              \A i \in DOMAIN Workloads[p][n].outs :
                Workloads[p][n].outs[i].tid = t => Workloads[p][n].outs[i].size = k[c].s_rq[t].left
<1>1. ASSUME MadeHere(c, k[c], t), EndedOf(k[c]) \in Int PROVE Finished(k, t)
  <2>1. PICK n \in DOMAIN Workloads[c] : \E f \in Workloads[c][n].fetch :
           n - 1 <= EndedOf(k[c]) /\ f.from = c /\ f.tid = t
    BY <1>1 DEF MadeHere
  <2>2. PICK f \in Workloads[c][n].fetch : n - 1 <= EndedOf(k[c]) /\ f.from = c /\ f.tid = t
    BY <2>1
  <2> DEFINE i == <<c, n>>
  <2>3. i \in AllJobs /\ i[1] = c /\ i[2] = n /\ f \in Job(i).fetch /\ n \in Nat
    BY <2>2, JobsAre, WorkloadsType DEF Job
  <2> HIDE DEF i
  <2> SUFFICES ASSUME NEW j \in AllJobs, Writes(j) \cap Sources(t) # {}
               PROVE  j[2] <= EndedOf(k[j[1]])
    BY DEF Finished
  <2>4. j[1] = c /\ j[2] < n
    BY <2>2, <2>3, InputAssumption
  <2>5. j[2] \in Nat
    BY JobsAre
  <2> QED
    BY <1>1, <2>2, <2>3, <2>4, <2>5
<1>2. ASSUME Announced(c, k[c], t), NEW p \in Cores, NEW m \in DOMAIN Workloads[p],
             NEW o \in DOMAIN Workloads[p][m].outs, Workloads[p][m].outs[o].tid = t
      PROVE  Workloads[p][m].outs[o].size = k[c].s_rq[t].left
  <2>1. PICK n \in DOMAIN Workloads[c] : \E f \in Workloads[c][n].fetch :
           f.from # c /\ f.tid = t /\ f.size = k[c].s_rq[t].left
    BY <1>2 DEF Announced
  <2>2. PICK f \in Workloads[c][n].fetch : f.from # c /\ f.tid = t /\ f.size = k[c].s_rq[t].left
    BY <2>1
  <2> DEFINE i == <<c, n>>
             j == <<p, m>>
  <2>3. i \in AllJobs /\ i[1] = c /\ f \in Job(i).fetch
    BY <2>2, JobsAre DEF Job
  <2>4. j \in AllJobs /\ Job(j) = Workloads[p][m]
    BY JobsAre DEF Job
  <2> HIDE DEF i, j
  <2>5. \A x \in DOMAIN Job(j).outs : Job(j).outs[x].tid = f.tid => Job(j).outs[x].size = f.size
    BY <2>2, <2>3, <2>4, InputAssumption
  <2> QED
    BY <1>2, <2>2, <2>4, <2>5
<1> QED
  BY <1>1, <1>2

-----------------------------------------------------------------------------
(* What is under way.                                                        *)

Requests(X) == [kind : {"request"}, tid : Tids, src : Cores, num : Nat, to : X]
Datas(X) == [kind : {"data"}, tid : Tids, src : Cores \cup {DRAM}, size : Nat \ {0},
             end : BOOLEAN, to : X]
Mail(X) == Requests(X) \cup Datas(X)

(* The bytes and the end marks of t that go to x: of a packet, of one that     *)
(* waits for injection, of those in flight, and of all.                      *)
Amount(m, p) == IF m = "bytes" THEN p.size ELSE IF p.end THEN 1 ELSE 0
At(m, t, x) == [p \in Mail(Nodes) |-> IF Carries(p, t) /\ p.to = x THEN Amount(m, p) ELSE 0]
Waits(m, q, t, x) == IF q # NoPacket /\ Carries(q, t) /\ x \in q.to THEN Amount(m, q) ELSE 0
Moving(m, q, b, t, x) == Waits(m, q, t, x) + Weighed(At(m, t, x), b)

(* Whose data it is: that of a core is of an output of it, that of the DRAM is *)
(* complete and for cores.                                                 *)
Posted(k, p) ==
  p.kind = "data" =>
    IF p.src = DRAM THEN p.tid \in Done(k)
    ELSE \E n \in DOMAIN Workloads[p.src] : IsRemote(p.src, n, p.tid)
QueueOk(k, n, q) ==
  q # NoPacket =>
    /\ q \in Mail(SUBSET Nodes) /\ Posted(k, q)
    /\ q.kind = "data" => q.src = IF n \in Cores THEN n ELSE DRAM
    /\ q.kind = "data" /\ q.src = DRAM => q.to \subseteq Cores
FlyOk(k, p) ==
  /\ p \in Mail(Nodes) /\ Posted(k, p)
  /\ p.kind = "data" /\ p.src = DRAM => p.to \in Cores
MailOk(k, q, b) ==
  /\ \A n \in Nodes : QueueOk(k, n, q[n])
  /\ IsBag(b) /\ \A p \in DOMAIN b : FlyOk(k, p)

(* The packets of the two kinds.                                             *)
LEMMA MailIs ==
  ASSUME NEW X, NEW p \in Mail(X)
  PROVE  /\ p.tid \in Tids /\ p.to \in X
         /\ p.kind = "data" => /\ p.size \in Nat \ {0} /\ p.end \in BOOLEAN /\ p.src \in Cores \cup {DRAM}
                               /\ Amount("bytes", p) = p.size
                               /\ Amount("ends", p) = IF p.end THEN 1 ELSE 0
         /\ p.kind # "data" => p.kind = "request" /\ p.num \in Nat /\ p.src \in Cores
<1>1. CASE p \in Requests(X)
  BY <1>1 DEF Requests
<1>2. CASE p \in Datas(X)
  BY <1>2 DEF Datas, Amount
<1> QED
  BY <1>1, <1>2 DEF Mail

(* The nodes are finitely many.                                              *)
LEMMA NodesAre ==
  /\ IsFiniteSet(Nodes) /\ DRAM \notin Cores
  /\ \A n \in Nodes \ Cores : n[2] \in Ddrs /\ n = DdrNode(n[2])
  /\ \A d \in Ddrs : DdrNode(d) \in Nodes /\ DdrNode(d) \notin Cores /\ DdrNode(d)[2] = d
  /\ \A c \in Cores : c \in Nodes
<1>1. IsFiniteSet(Ddrs)
  <2>1. DdrNum \in Nat \ {0} /\ 0 \in Int
    BY PlatformAssumption
  <2>2. DdrNum - 1 \in Int
    BY <2>1
  <2> QED
    BY <2>1, <2>2, FS_Interval DEF Ddrs
<1>2. IsFiniteSet(DdrNodes)
  <2> DEFINE f == [d \in Ddrs |-> DdrNode(d)]
  <2>1. f \in Surjection(Ddrs, DdrNodes)
    BY DEF Surjection, DdrNodes
  <2> HIDE DEF f
  <2> QED
    BY <1>1, <2>1, FS_Surjection
<1>3. IsFiniteSet(Nodes)
  BY <1>2, NodesAssumption, FS_Union DEF Nodes
<1>4. \A n \in Nodes \ Cores : n[2] \in Ddrs /\ n = DdrNode(n[2])
  BY DEF Nodes, DdrNodes, DdrNode
<1>5. \A d \in Ddrs : DdrNode(d) \in DdrNodes /\ DdrNode(d)[2] = d
  BY DEF DdrNodes, DdrNode
<1> QED
  BY <1>3, <1>4, <1>5, NodesAssumption, PlatformAssumption DEF Nodes

Kinds == {"bytes", "ends"}

(* Bytes and end marks under way are numbers.                                *)
LEMMA MovingNat ==
  ASSUME NEW k, NEW q, NEW b, MailOk(k, q, b), NEW m \in Kinds, NEW t, NEW x
  PROVE  /\ \A p \in Mail(Nodes) : At(m, t, x)[p] \in Nat
         /\ Weighed(At(m, t, x), b) \in Nat
         /\ \A n \in Nodes : Waits(m, q[n], t, x) \in Nat /\ Moving(m, q[n], b, t, x) \in Nat
<1>1. \A X : \A p \in Mail(X) : Carries(p, t) => Amount(m, p) \in Nat
  BY MailIs DEF Carries, Kinds
<1>2. \A p \in Mail(Nodes) : At(m, t, x)[p] \in Nat
  BY <1>1 DEF At
<1>3. Weighed(At(m, t, x), b) \in Nat
  <2>1. IsBag(b) /\ \A p \in DOMAIN b : p \in Mail(Nodes)
    BY DEF MailOk, FlyOk
  <2> QED
    BY <1>2, <2>1, WeightNat
<1>4. \A n \in Nodes : Waits(m, q[n], t, x) \in Nat
  BY <1>1 DEF Waits, MailOk, QueueOk
<1> QED
  BY <1>2, <1>3, <1>4 DEF Moving

Copy(p, n) == [p EXCEPT !.to = n]
(* A copy is for one node.                                                   *)
LEMMA CopyIs ==
  ASSUME NEW p \in Mail(SUBSET Nodes), NEW n \in p.to
  PROVE  /\ Copy(p, n) \in Mail(Nodes) /\ Copy(p, n).to = n
         /\ Copy(p, n).kind = p.kind /\ Copy(p, n).tid = p.tid /\ Copy(p, n).src = p.src
         /\ \A t : Carries(Copy(p, n), t) <=> Carries(p, t)
         /\ \A m, t : Carries(p, t) => Amount(m, Copy(p, n)) = Amount(m, p)
<1>1. n \in Nodes
  BY MailIs
<1>2. CASE p \in Requests(SUBSET Nodes)
  <2>1. Copy(p, n) = [kind |-> "request", tid |-> p.tid, src |-> p.src, num |-> p.num, to |-> n]
    BY <1>2 DEF Requests, Copy
  <2>2. p.tid \in Tids /\ p.src \in Cores /\ p.num \in Nat /\ p.kind = "request"
    BY <1>2 DEF Requests
  <2> QED
    BY <1>1, <2>1, <2>2 DEF Mail, Requests, Carries
<1>3. CASE p \in Datas(SUBSET Nodes)
  <2>1. Copy(p, n) = [kind |-> "data", tid |-> p.tid, src |-> p.src, size |-> p.size,
                      end |-> p.end, to |-> n]
    BY <1>3 DEF Datas, Copy
  <2>2. /\ p.tid \in Tids /\ p.src \in Cores \cup {DRAM} /\ p.size \in Nat \ {0}
        /\ p.end \in BOOLEAN /\ p.kind = "data"
    BY <1>3 DEF Datas
  <2> QED
    BY <1>1, <2>1, <2>2 DEF Mail, Datas, Carries, Amount
<1> QED
  BY <1>2, <1>3 DEF Mail

(* What waited for injection is in flight then.                              *)
Enters(b, p, z) ==
  /\ IsBag(z) /\ DOMAIN z = DOMAIN b \cup {Copy(p, n) : n \in p.to}
  /\ \A m \in Kinds : \A t, x :
       Weighed(At(m, t, x), z) = Weighed(At(m, t, x), b) + Waits(m, p, t, x)
(* So it is when the copies are added.                                       *)
LEMMA CopiesPut ==
  ASSUME NEW b, IsBag(b), \A y \in DOMAIN b : y \in Mail(Nodes), NEW p \in Mail(SUBSET Nodes),
         p # NoPacket, NEW z, z = b (+) Copies(p)
  PROVE  Enters(b, p, z)
<1> DEFINE C == {Copy(p, n) : n \in p.to}
<1>1. IsFiniteSet(C)
  <2> DEFINE f == [n \in p.to |-> Copy(p, n)]
  <2>1. f \in Surjection(p.to, C)
    BY DEF Surjection
  <2>2. p.to \in SUBSET Nodes
    BY MailIs
  <2>3. IsFiniteSet(p.to)
    BY <2>2, NodesAre, FS_Subset
  <2> HIDE DEF f, C
  <2> QED
    BY <2>1, <2>3, FS_Surjection
<1>2. \A y \in C : y \in Mail(Nodes)
  BY CopyIs
<1>3. z = b (+) SetToBag(C)
  BY DEF Copies, Copy
<1>4. ASSUME NEW m \in Kinds, NEW t, NEW x
      PROVE  /\ \A y \in DOMAIN b \cup C : At(m, t, x)[y] \in Nat
             /\ Waits(m, p, t, x) = 0 => \A y \in C : At(m, t, x)[y] = 0
             /\ Waits(m, p, t, x) # 0 =>
                  /\ x \in p.to /\ At(m, t, x)[Copy(p, x)] = Waits(m, p, t, x)
                  /\ \A y \in C \ {Copy(p, x)} : At(m, t, x)[y] = 0
  <2>1. \A X : \A y \in Mail(X) : Carries(y, t) => Amount(m, y) \in Nat
    BY <1>4, MailIs DEF Carries, Kinds
  <2>2. \A y \in DOMAIN b \cup C : At(m, t, x)[y] \in Nat
    BY <1>2, <2>1 DEF At
  <2>3. \A n \in p.to : At(m, t, x)[Copy(p, n)] =
           IF Carries(p, t) /\ n = x THEN Amount(m, p) ELSE 0
    <3> TAKE n \in p.to
    <3>1. Copy(p, n) \in Mail(Nodes) /\ Copy(p, n).to = n /\ (Carries(Copy(p, n), t) <=> Carries(p, t))
      BY CopyIs
    <3>2. Carries(p, t) => Amount(m, Copy(p, n)) = Amount(m, p)
      BY CopyIs
    <3> QED
      BY <3>1, <3>2 DEF At
  <2>4. Waits(m, p, t, x) = IF Carries(p, t) /\ x \in p.to THEN Amount(m, p) ELSE 0
    BY DEF Waits
  <2>5. Waits(m, p, t, x) = 0 => \A y \in C : At(m, t, x)[y] = 0
    <3> SUFFICES ASSUME Waits(m, p, t, x) = 0, NEW n \in p.to PROVE At(m, t, x)[Copy(p, n)] = 0
      OBVIOUS
    <3> QED
      BY <2>3, <2>4
  <2>6. ASSUME Waits(m, p, t, x) # 0
        PROVE  /\ x \in p.to /\ At(m, t, x)[Copy(p, x)] = Waits(m, p, t, x)
               /\ \A y \in C \ {Copy(p, x)} : At(m, t, x)[y] = 0
    <3>1. x \in p.to /\ At(m, t, x)[Copy(p, x)] = Waits(m, p, t, x)
      BY <2>3, <2>4, <2>6
    <3>2. ASSUME NEW n \in p.to, Copy(p, n) # Copy(p, x) PROVE At(m, t, x)[Copy(p, n)] = 0
      BY <2>3, <3>2
    <3> QED
      BY <3>1, <3>2
  <2> QED
    BY <2>2, <2>5, <2>6
<1> HIDE DEF C
<1>5. Gains(b, C, z)
  <2>1. IsBag(b) /\ IsFiniteSet(C) /\ z = b (+) SetToBag(C)
    BY <1>1, <1>3
  <2> QED
    BY <2>1, WeightPut
<1>6. ASSUME NEW m \in Kinds, NEW t, NEW x
      PROVE  Weighed(At(m, t, x), z) = Weighed(At(m, t, x), b) + Waits(m, p, t, x)
  <2> DEFINE f == At(m, t, x)
             w == Waits(m, p, t, x)
  <2>1. \A y \in DOMAIN b \cup C : f[y] \in Nat
    BY <1>4, <1>6
  <2>2. w = 0 => \A y \in C : f[y] = 0
    BY <1>4, <1>6
  <2>3. w # 0 => x \in p.to /\ f[Copy(p, x)] = w /\ \A y \in C \ {Copy(p, x)} : f[y] = 0
    BY <1>4, <1>6
  <2>4. x \in p.to => Copy(p, x) \in C
    BY DEF C
  <2> HIDE DEF f, w
  <2>5. Weighed(f, b) \in Nat
    <3>1. \A y \in DOMAIN b : f[y] \in Nat
      BY <2>1
    <3> QED
      BY <3>1, WeightNat
  <2>6. CASE w = 0
    <3>1. Weighed(f, z) = Weighed(f, b)
      BY <1>5, <2>1, <2>2, <2>6 DEF Gains
    <3> QED
      BY <2>5, <2>6, <3>1 DEF f, w
  <2>7. CASE w # 0
    <3>1. Weighed(f, z) = Weighed(f, b) + f[Copy(p, x)]
      BY <1>5, <2>1, <2>3, <2>4, <2>7 DEF Gains
    <3> QED
      BY <2>3, <2>7, <3>1 DEF f, w
  <2> QED
    BY <2>6, <2>7
<1> QED
  BY <1>5, <1>6 DEF C, Gains, Enters

-----------------------------------------------------------------------------
(* The inductive invariant, of the cores k, the DDRs r, the queues q and the  *)
(* network b.                                                              *)

(* The bytes of t, an output of job n of a core in state s, that have not     *)
(* arrived at x; and the marks that t is not complete at DDR d: the end is    *)
(* not made yet, under way, or there and not counted.                       *)
Flow(p, s, q, b, n, t, x) == ToSend(p, s, n, t) + Moving("bytes", q, b, t, x)
Token(s, q, b, e, n, t, d) ==
  (IF Making(s, n, t) THEN 1 ELSE 0) + Moving("ends", q, b, t, DdrNode(d))
    + (IF t \in e THEN 1 ELSE 0)

(* No more of an output is to come than it has bytes, and than the entry of   *)
(* its destination counts.                                                 *)
Fits(k, f, p, n, t, c) ==
  f <= OutSize(p, n, t) /\ (k[c].s_rq[t].left <= 0 \/ f <= k[c].s_rq[t].left)
FlowsFit(k, q, b) ==
  \A p \in Cores : \A n \in DOMAIN Workloads[p] : \A t \in Tids : IsRemote(p, n, t) =>
    \A c \in Cores : Fits(k, Flow(p, k[p], q[p], b, n, t, c), p, n, t, c)

(* A transfer has one end.                                                   *)
OneEnd(k, r, q, b) ==
  \A p \in Cores : \A n \in DOMAIN Workloads[p] : \A t \in Tids : IsOut(p, n, t) =>
    \A d \in Ddrs : Token(k[p], q[p], b, r[d].end_set, n, t, d) <= 1

(* The inputs DDR d has not counted yet.                                     *)
Uncounted(k, r, q, b, d) ==
  {i \in Tids : \E p \in Cores : \E n \in DOMAIN Workloads[p] :
                  IsOut(p, n, i) /\ Token(k[p], q[p], b, r[d].end_set, n, i, d) >= 1}

DdrOk(k, r, q, b, d) ==
  /\ DdrTypes(r[d], Done(k)) /\ Joins(r[d], Uncounted(k, r, q, b, d))
  /\ \A t \in r[d].end_set : Written(t)

(* A core without a workload has asked for nothing; what is in its buffer is  *)
(* finished.                                                               *)
CoreOk(k, c) ==
  /\ Safe(c, k[c]) /\ Counting(k[c]) /\ Stock(c, k[c]) /\ Fed(c, k[c])
  /\ k[c].cur = 0 => \A t \in Tids : k[c].s_rq[t].left <= 0
  /\ \A x \in k[c].buffer : Finished(k, x[2])

IInv(k, r, q, b) ==
  /\ DOMAIN k = Cores /\ DOMAIN r = Ddrs /\ DOMAIN q = Nodes
  /\ \A c \in Cores : CoreOk(k, c)
  /\ MailOk(k, q, b) /\ FlowsFit(k, q, b) /\ OneEnd(k, r, q, b)
  /\ \A d \in Ddrs : DdrOk(k, r, q, b, d)

-----------------------------------------------------------------------------
(* What the invariant says from one state to the next.                       *)

AllSafe(k) == \A c \in Cores : Safe(c, k[c]) /\ Stock(c, k[c])

(* What is left of an output is a number.                                    *)
LEMMA ToSendNat ==
  ASSUME NEW p \in Cores, NEW s, Safe(p, s), Stock(p, s), NEW t \in Tids
  PROVE  /\ s.send_list[t] \in Nat
         /\ \A n \in DOMAIN Workloads[p] : IsRemote(p, n, t) => ToSend(p, s, n, t) \in Nat
<1>1. OutputsOwn(p)
  BY InputAssumption
<1>2. s.send_list[t] \in Nat
  <2>1. Buffered(s, t) \in Nat
    BY BufferedType DEF Safe, CoreTypes, Stock
  <2>2. Uncomputed(p, s, t) \in Nat
    BY <1>1, UncomputedNat DEF Safe, Stock
  <2>3. s.send_list[t] = Buffered(s, t) + Uncomputed(p, s, t)
    BY DEF Stock, Held
  <2> QED
    BY <2>1, <2>2, <2>3
<1>3. \A n \in DOMAIN Workloads[p] : IsRemote(p, n, t) => OutSize(p, n, t) \in Nat
  BY <1>1, OutSizeIs
<1> QED
  BY <1>2, <1>3 DEF ToSend

(* Nor is a token less than what it is made of.                              *)
LEMMA TokenNat ==
  ASSUME NEW k, NEW q, NEW b, MailOk(k, q, b), NEW p \in Cores, NEW s, NEW e, NEW n, NEW t,
         NEW d \in Ddrs
  PROVE  /\ Token(s, q[p], b, e, n, t, d) \in Nat
         /\ Making(s, n, t) => Token(s, q[p], b, e, n, t, d) >= 1
         /\ t \in e => Token(s, q[p], b, e, n, t, d) >= 1
<1>1. p \in Nodes /\ "ends" \in Kinds
  BY NodesAre DEF Kinds
<1>2. Moving("ends", q[p], b, t, DdrNode(d)) \in Nat
  BY <1>1, MovingNat
<1> QED
  BY <1>2 DEF Token

(* An output that awaits nothing has all its inputs finished.                 *)
LEMMA SettledNow ==
  ASSUME NEW k, NEW r, NEW q, NEW b, MailOk(k, q, b), AllSafe(k), NEW d \in Ddrs
  PROVE  Settled(Uncounted(k, r, q, b, d), Done(k))
<1> DEFINE W == Uncounted(k, r, q, b, d)
<1>1. IsFiniteSet(W)
  <2>1. W \in SUBSET Tids
    BY DEF Uncounted
  <2> HIDE DEF W
  <2> QED
    BY <2>1, DDRAssumption, FS_Subset
<1>2. ASSUME NEW t \in OutIds, Awaited(t, W) = {} PROVE t \in Done(k)
  <2>1. ASSUME NEW p \in Cores, NEW n \in DOMAIN Workloads[p], NEW i \in Tids,
               IsOut(p, n, i), t \in DramIn[i]
        PROVE  n <= EndedOf(k[p])
    <3>1. i \notin W
      BY <1>2, <2>1 DEF Awaited
    <3>2. ~(Token(k[p], q[p], b, r[d].end_set, n, i, d) >= 1)
      BY <2>1, <3>1 DEF Uncounted
    <3>3. ~Making(k[p], n, i)
      BY <3>2, TokenNat
    <3>4. EndedOf(k[p]) \in Nat
      BY TurnFlags DEF AllSafe
    <3>5. n \in Nat
      BY WorkloadsType
    <3> QED
      BY <3>3, <3>4, <3>5 DEF Making
  <2> QED
    BY <2>1, FinishedWhen
<1> QED
  BY <1>1, <1>2 DEF Settled, Done

(* No transfer gains a token.                                                *)
Ebbs(k, r, q, b, v, u, w, z) ==
  \A p \in Cores : \A n \in DOMAIN Workloads[p] : \A t \in Tids : IsOut(p, n, t) =>
    \A d \in Ddrs : Token(v[p], w[p], z, u[d].end_set, n, t, d)
                      <= Token(k[p], q[p], b, r[d].end_set, n, t, d)
(* Then there is still one end, and no DDR has more to count.                 *)
LEMMA TokensEbb ==
  ASSUME NEW k, NEW r, NEW q, NEW b, MailOk(k, q, b), OneEnd(k, r, q, b),
         NEW v, NEW u, NEW w, NEW z, MailOk(v, w, z), Ebbs(k, r, q, b, v, u, w, z)
  PROVE  /\ OneEnd(v, u, w, z)
         /\ \A d \in Ddrs : Uncounted(v, u, w, z, d) \subseteq Uncounted(k, r, q, b, d)
<1>1. ASSUME NEW p \in Cores, NEW n \in DOMAIN Workloads[p], NEW t \in Tids, IsOut(p, n, t),
             NEW d \in Ddrs
      PROVE  /\ Token(v[p], w[p], z, u[d].end_set, n, t, d) <= 1
             /\ Token(v[p], w[p], z, u[d].end_set, n, t, d) >= 1 =>
                  Token(k[p], q[p], b, r[d].end_set, n, t, d) >= 1
  <2> DEFINE x == Token(v[p], w[p], z, u[d].end_set, n, t, d)
             y == Token(k[p], q[p], b, r[d].end_set, n, t, d)
  <2>1. x \in Nat
    BY TokenNat
  <2>2. y \in Nat
    BY TokenNat
  <2>3. x <= y /\ y <= 1
    BY <1>1 DEF Ebbs, OneEnd
  <2> HIDE DEF x, y
  <2> QED
    BY <2>1, <2>2, <2>3 DEF x, y
<1>2. OneEnd(v, u, w, z)
  BY <1>1 DEF OneEnd
<1>3. ASSUME NEW d \in Ddrs, NEW i \in Uncounted(v, u, w, z, d) PROVE i \in Uncounted(k, r, q, b, d)
  <2>1. /\ i \in Tids
        /\ \E p \in Cores : \E n \in DOMAIN Workloads[p] :
              IsOut(p, n, i) /\ Token(v[p], w[p], z, u[d].end_set, n, i, d) >= 1
    BY <1>3 DEF Uncounted
  <2> QED
    BY <1>1, <2>1 DEF Uncounted
<1> QED
  BY <1>2, <1>3

(* A DDR that does nothing stays as it should be.                            *)
LEMMA DdrKept ==
  ASSUME NEW k, NEW r, NEW q, NEW b, NEW d \in Ddrs, DdrOk(k, r, q, b, d),
         NEW v, NEW u, NEW w, NEW z, Forward(k, v), u[d] = r[d],
         Uncounted(v, u, w, z, d) \subseteq Uncounted(k, r, q, b, d)
  PROVE  DdrOk(v, u, w, z, d)
<1> DEFINE W == Uncounted(k, r, q, b, d)
           V == Uncounted(v, u, w, z, d)
<1>1. W \in SUBSET Tids
  BY DEF Uncounted
<1> HIDE DEF W, V
<1>2. IsFiniteSet(W)
  BY <1>1, DDRAssumption, FS_Subset
<1>3. Done(k) \subseteq Done(v)
  BY FinishedKept
<1>4. V \in SUBSET W /\ DdrTypes(r[d], Done(k)) /\ Joins(r[d], W)
  BY DEF DdrOk, W, V
<1>5. DdrTypes(r[d], Done(v)) /\ Joins(r[d], V)
  BY <1>2, <1>3, <1>4, Looser
<1> QED
  BY <1>5 DEF DdrOk, V

(* No output gains bytes to come, and what an entry counts is what it counted, *)
(* or what was announced.                                                  *)
Flows(k, q, b, v, w, z) ==
  /\ \A p \in Cores : \A n \in DOMAIN Workloads[p] : \A t \in Tids : IsRemote(p, n, t) =>
       \A c \in Cores : Flow(p, v[p], w[p], z, n, t, c) <= Flow(p, k[p], q[p], b, n, t, c)
  /\ \A c \in Cores : \A t \in Tids :
       v[c].s_rq[t].left = k[c].s_rq[t].left \/ Announced(c, v[c], t)
(* Then they fit as they did.                                                *)
LEMMA FlowsOn ==
  ASSUME NEW k, NEW q, NEW b, MailOk(k, q, b), AllSafe(k), FlowsFit(k, q, b),
         NEW v, NEW w, NEW z, MailOk(v, w, z), AllSafe(v), Flows(k, q, b, v, w, z)
  PROVE  FlowsFit(v, w, z)
<1> SUFFICES ASSUME NEW p \in Cores, NEW n \in DOMAIN Workloads[p], NEW t \in Tids,
                    IsRemote(p, n, t), NEW c \in Cores
             PROVE  Fits(v, Flow(p, v[p], w[p], z, n, t, c), p, n, t, c)
  BY DEF FlowsFit
<1> DEFINE x == Flow(p, v[p], w[p], z, n, t, c)
           y == Flow(p, k[p], q[p], b, n, t, c)
<1>1. x \in Nat /\ y \in Nat
  <2>1. p \in Nodes /\ "bytes" \in Kinds
    BY NodesAre DEF Kinds
  <2>2. Moving("bytes", w[p], z, t, c) \in Nat
    BY <2>1, MovingNat
  <2>3. Moving("bytes", q[p], b, t, c) \in Nat
    BY <2>1, MovingNat
  <2>4. ToSend(p, v[p], n, t) \in Nat /\ ToSend(p, k[p], n, t) \in Nat
    BY ToSendNat DEF AllSafe
  <2> QED
    BY <2>2, <2>3, <2>4 DEF Flow
<1>2. x <= y
  BY DEF Flows
<1>3. Fits(k, y, p, n, t, c)
  BY DEF FlowsFit
<1>4. v[c].s_rq[t].left = k[c].s_rq[t].left \/ Announced(c, v[c], t)
  BY DEF Flows
<1>5. OutSize(p, n, t) \in Nat /\ \E i \in DOMAIN Workloads[p][n].outs :
         Workloads[p][n].outs[i].tid = t /\ Workloads[p][n].outs[i].size = OutSize(p, n, t)
  BY OutSizeIs, InputAssumption
<1>6. Announced(c, v[c], t) => v[c].s_rq[t].left = OutSize(p, n, t)
  BY <1>5, FetchIs
<1>7. k[c].s_rq[t].left \in Int
  BY DEF AllSafe, Safe, CoreTypes, EntryType
<1> HIDE DEF x, y
<1> QED
  BY <1>1, <1>2, <1>3, <1>4, <1>5, <1>6, <1>7 DEF Fits, x

(* What is posted stays posted.                                              *)
LEMMA MailKept ==
  ASSUME NEW k, NEW v, Forward(k, v)
  PROVE  /\ \A n, x : QueueOk(k, n, x) => QueueOk(v, n, x)
         /\ \A p : FlyOk(k, p) => FlyOk(v, p)
         /\ \A q, b : MailOk(k, q, b) => MailOk(v, q, b)
<1>1. \A p : Posted(k, p) => Posted(v, p)
  BY FinishedKept DEF Posted
<1>2. \A n, x : QueueOk(k, n, x) => QueueOk(v, n, x)
  BY <1>1 DEF QueueOk
<1>3. \A p : FlyOk(k, p) => FlyOk(v, p)
  BY <1>1 DEF FlyOk
<1> QED
  BY <1>2, <1>3 DEF MailOk

(* A core that does nothing stays as it should be.                           *)
LEMMA CoreKept ==
  ASSUME NEW k, NEW v, Forward(k, v), NEW c \in Cores, CoreOk(k, c), v[c] = k[c]
  PROVE  CoreOk(v, c)
  BY FinishedKept DEF CoreOk

-----------------------------------------------------------------------------
(* The steps.                                                                *)

(* The parts of the invariant make the whole, of which a DDR that does       *)
(* nothing is one.                                                         *)
LEMMA Moves ==
  ASSUME NEW k, NEW r, NEW q, NEW b, IInv(k, r, q, b), NEW v, NEW u, NEW w, NEW z,
         DOMAIN v = Cores, DOMAIN u = Ddrs, DOMAIN w = Nodes, Forward(k, v),
         \A c \in Cores : CoreOk(v, c), MailOk(v, w, z),
         Ebbs(k, r, q, b, v, u, w, z), FlowsFit(v, w, z),
         \A d \in Ddrs : u[d] = r[d] \/ DdrOk(v, u, w, z, d)
  PROVE  IInv(v, u, w, z)
<1>1. MailOk(k, q, b) /\ OneEnd(k, r, q, b) /\ \A d \in Ddrs : DdrOk(k, r, q, b, d)
  BY DEF IInv
<1>2. /\ OneEnd(v, u, w, z)
      /\ \A d \in Ddrs : Uncounted(v, u, w, z, d) \subseteq Uncounted(k, r, q, b, d)
  BY <1>1, TokensEbb
<1>3. ASSUME NEW d \in Ddrs PROVE DdrOk(v, u, w, z, d)
  <2>1. CASE u[d] = r[d]
    BY <1>1, <1>2, <2>1, DdrKept
  <2> QED
    BY <2>1
<1> QED
  BY <1>2, <1>3 DEF IInv

(* The cores of a state that satisfies the invariant.                        *)
LEMMA CoresSafe ==
  ASSUME NEW k, \A c \in Cores : CoreOk(k, c)
  PROVE  /\ AllSafe(k) /\ Forward(k, k)
         /\ \A c \in Cores : EndedOf(k[c]) \in Nat
<1>1. AllSafe(k)
  BY DEF CoreOk, AllSafe
<1>2. \A c \in Cores : EndedOf(k[c]) \in Nat
  BY <1>1, TurnFlags DEF AllSafe
<1> QED
  BY <1>1, <1>2 DEF Forward

(* One core changes, and its jobs go on.                                     *)
AllOk(k) == DOMAIN k = Cores /\ \A c \in Cores : CoreOk(k, c)
Replaces(k, c, v) ==
  /\ DOMAIN v = Cores /\ Forward(k, v)
  /\ \A x \in Cores : x # c => v[x] = k[x] /\ CoreOk(v, x)
(* Then the others are as they should be.                                    *)
LEMMA OneCore ==
  ASSUME NEW k, AllOk(k), NEW c \in Cores, NEW s, Safe(c, s), EndedOf(k[c]) <= EndedOf(s),
         NEW v, v = [k EXCEPT ![c] = s]
  PROVE  v[c] = s /\ Replaces(k, c, v)
<1>0. DOMAIN k = Cores /\ \A x \in Cores : CoreOk(k, x)
  BY DEF AllOk
<1>1. /\ DOMAIN v = Cores /\ v[c] = s /\ \A x \in Cores : x # c => v[x] = k[x]
  BY <1>0
<1>2. \A x \in Cores : EndedOf(k[x]) \in Nat
  BY <1>0, CoresSafe
<1>3. EndedOf(s) \in Nat
  BY TurnFlags
<1>4. Forward(k, v)
  <2> SUFFICES ASSUME NEW x \in Cores
               PROVE  /\ EndedOf(k[x]) \in Int /\ EndedOf(v[x]) \in Int
                      /\ EndedOf(k[x]) <= EndedOf(v[x])
    BY DEF Forward
  <2>1. v[x] = IF x = c THEN s ELSE k[x]
    BY <1>1
  <2> QED
    BY <1>2, <1>3, <2>1
<1>5. \A x \in Cores : x # c => CoreOk(v, x)
  BY <1>0, <1>1, <1>4, CoreKept
<1> QED
  BY <1>1, <1>4, <1>5 DEF Replaces

(* What a core in state s has to send when it is in state x.                  *)
SendsLess(c, s, x) ==
  \A n \in DOMAIN Workloads[c] : \A t \in Tids :
    /\ IsRemote(c, n, t) => ToSend(c, x, n, t) <= ToSend(c, s, n, t)
    /\ IsOut(c, n, t) /\ Making(x, n, t) => Making(s, n, t)

(* A core changes by itself.                                                *)
LEMMA CoreAlone ==
  ASSUME NEW k, NEW r, NEW q, NEW b, IInv(k, r, q, b), NEW c \in Cores,
         NEW s, EndedOf(k[c]) <= EndedOf(s), NEW v, v = [k EXCEPT ![c] = s],
         CoreOk(v, c), SendsLess(c, k[c], s),
         \A t \in Tids : s.s_rq[t].left = k[c].s_rq[t].left \/ Announced(c, s, t)
  PROVE  IInv(v, r, q, b)
<1>1. DOMAIN k = Cores /\ DOMAIN r = Ddrs /\ DOMAIN q = Nodes /\ MailOk(k, q, b)
      /\ FlowsFit(k, q, b) /\ \A x \in Cores : CoreOk(k, x)
  BY DEF IInv
<1>2. v[c] = s
  BY <1>1
<1>3. Safe(c, s)
  BY <1>2 DEF CoreOk
<1>4. DOMAIN v = Cores /\ Forward(k, v) /\ \A x \in Cores : x # c => v[x] = k[x] /\ CoreOk(v, x)
  <2>1. AllOk(k)
    BY <1>1 DEF AllOk
  <2>2. Replaces(k, c, v)
    BY <1>3, <2>1, OneCore
  <2> QED
    BY <2>2 DEF Replaces
<1>5. \A x \in Cores : CoreOk(v, x)
  BY <1>4
<1>6. MailOk(v, q, b)
  BY <1>1, <1>4, MailKept
<1>7. AllSafe(k) /\ AllSafe(v)
  BY <1>1, <1>5, CoresSafe
<1>8. Ebbs(k, r, q, b, v, r, q, b)
  <2> SUFFICES ASSUME NEW p \in Cores, NEW n \in DOMAIN Workloads[p], NEW t \in Tids, IsOut(p, n, t),
                      NEW d \in Ddrs
               PROVE  Token(v[p], q[p], b, r[d].end_set, n, t, d)
                        <= Token(k[p], q[p], b, r[d].end_set, n, t, d)
    BY DEF Ebbs
  <2>1. Making(v[p], n, t) => Making(k[p], n, t)
    BY <1>2, <1>4 DEF SendsLess
  <2>2. p \in Nodes /\ "ends" \in Kinds
    BY NodesAre DEF Kinds
  <2>3. Moving("ends", q[p], b, t, DdrNode(d)) \in Nat
    BY <1>1, <2>2, MovingNat
  <2> QED
    BY <2>1, <2>3 DEF Token
<1>9. Flows(k, q, b, v, q, b)
  <2>1. ASSUME NEW p \in Cores, NEW n \in DOMAIN Workloads[p], NEW t \in Tids, IsRemote(p, n, t),
               NEW x \in Cores
        PROVE  Flow(p, v[p], q[p], b, n, t, x) <= Flow(p, k[p], q[p], b, n, t, x)
    <3>1. ToSend(p, v[p], n, t) \in Nat /\ ToSend(p, k[p], n, t) \in Nat
      BY <1>7, <2>1, ToSendNat DEF AllSafe
    <3>2. ToSend(p, v[p], n, t) <= ToSend(p, k[p], n, t)
      BY <1>2, <1>4, <2>1, <3>1 DEF SendsLess
    <3>3. p \in Nodes /\ "bytes" \in Kinds
      BY NodesAre DEF Kinds
    <3>4. Moving("bytes", q[p], b, t, x) \in Nat
      BY <1>1, <3>3, MovingNat
    <3> QED
      BY <3>1, <3>2, <3>4 DEF Flow
  <2>2. ASSUME NEW x \in Cores, NEW t \in Tids
        PROVE  v[x].s_rq[t].left = k[x].s_rq[t].left \/ Announced(x, v[x], t)
    BY <1>2, <1>4
  <2> QED
    BY <2>1, <2>2 DEF Flows
<1>10. FlowsFit(v, q, b)
  BY <1>1, <1>6, <1>7, <1>9, FlowsOn
<1> QED
  BY <1>1, <1>4, <1>5, <1>6, <1>8, <1>10, Moves

(* The computation of a core.                                                *)
LEMMA WorkStep ==
  ASSUME NEW k, NEW r, NEW q, NEW b, IInv(k, r, q, b), NEW c \in Cores,
         NEW v, v = [k EXCEPT ![c] = Work(c, k[c])]
  PROVE  IInv(v, r, q, b)
<1> DEFINE s == k[c]
           x == Work(c, s)
<1>1. /\ DOMAIN k = Cores /\ \A y \in Cores : CoreOk(k, y)
      /\ Safe(c, s) /\ Counting(s) /\ Stock(c, s) /\ Fed(c, s) /\ OutputsOwn(c)
      /\ s.cur = 0 => \A t \in Tids : s.s_rq[t].left <= 0
      /\ \A y \in s.buffer : Finished(k, y[2])
  BY InputAssumption DEF IInv, CoreOk
<1>2. /\ Safe(c, x) /\ Counting(x) /\ Stock(c, x) /\ Unsent(c, s, x) /\ Fetched(c, s, x)
      /\ EndedOf(x) \in Nat /\ EndedOf(s) \in Nat /\ EndedOf(s) <= EndedOf(x)
  BY <1>1, WorkSeen
<1>3. Fed(c, x) /\ x.cur >= s.cur /\ s.cur \in Nat /\ x.cur \in Nat
  BY <1>1, <1>2, FedWork, WorkSafe, TurnFlags
<1> HIDE DEF x
<1>4. v[c] = x /\ Forward(k, v)
  <2>1. AllOk(k)
    BY <1>1 DEF AllOk
  <2>2. EndedOf(k[c]) <= EndedOf(x) /\ v = [k EXCEPT ![c] = x]
    BY <1>2 DEF x
  <2>3. v[c] = x /\ Replaces(k, c, v)
    BY <1>2, <2>1, <2>2, OneCore
  <2> QED
    BY <2>3 DEF Replaces
<1>5. CoreOk(v, c)
  <2>1. x.cur = 0 => \A t \in Tids : x.s_rq[t].left <= 0
    BY <1>1, <1>2, <1>3 DEF Fetched
  <2>2. ASSUME NEW y \in x.buffer PROVE Finished(v, y[2])
    <3>1. CASE y \in s.buffer
      BY <1>1, <1>4, <3>1, FinishedKept
    <3>2. CASE MadeHere(c, x, y[2])
      <4>1. MadeHere(c, v[c], y[2]) /\ EndedOf(v[c]) \in Int
        BY <1>2, <1>4, <3>2
      <4> QED
        BY <4>1, FetchIs
    <3> QED
      BY <1>2, <2>2, <3>1, <3>2 DEF Fetched
  <2> QED
    BY <1>2, <1>3, <1>4, <2>1, <2>2 DEF CoreOk
<1>6. SendsLess(c, s, x)
  <2> SUFFICES ASSUME NEW n \in DOMAIN Workloads[c], NEW t \in Tids
               PROVE  /\ IsRemote(c, n, t) => ToSend(c, x, n, t) <= ToSend(c, s, n, t)
                      /\ IsOut(c, n, t) /\ Making(x, n, t) => Making(s, n, t)
    BY DEF SendsLess
  <2>1. n \in Nat
    BY WorkloadsType
  <2>2. IsRemote(c, n, t) => ToSend(c, x, n, t) = ToSend(c, s, n, t) /\ ToSend(c, s, n, t) \in Nat
    BY <1>1, <1>2, ToSendNat DEF Unsent
  <2>3. IsOut(c, n, t) /\ x.send_list[t] # 0 => s.send_list[t] # 0 \/ EndedOf(x) < n
    BY <1>2 DEF Unsent
  <2> QED
    BY <1>2, <2>1, <2>2, <2>3 DEF Making
<1>7. \A t \in Tids : x.s_rq[t].left = s.s_rq[t].left \/ Announced(c, x, t)
  BY <1>2 DEF Fetched
<1>8. v = [k EXCEPT ![c] = x] /\ EndedOf(k[c]) <= EndedOf(x) /\ SendsLess(c, k[c], x)
  BY <1>2, <1>6 DEF x
<1> HIDE DEF s
<1> QED
  BY <1>5, <1>7, <1>8, CoreAlone DEF s

(* A node's queue takes a request, or data out of the DRAM.                   *)
LEMMA QueuePut ==
  ASSUME NEW k, NEW r, NEW q, NEW b, IInv(k, r, q, b), NEW n \in Nodes, NEW p, QueueOk(k, n, p),
         n \in Cores => p = NoPacket \/ p.kind # "data", NEW w, w = [q EXCEPT ![n] = p]
  PROVE  IInv(k, r, w, b)
<1>1. DOMAIN k = Cores /\ DOMAIN r = Ddrs /\ DOMAIN q = Nodes /\ MailOk(k, q, b)
      /\ FlowsFit(k, q, b) /\ \A x \in Cores : CoreOk(k, x)
  BY DEF IInv
<1>2. AllSafe(k) /\ Forward(k, k)
  BY <1>1, CoresSafe
<1>3. DOMAIN w = Nodes /\ \A x \in Nodes : w[x] = IF x = n THEN p ELSE q[x]
  BY <1>1
<1>4. MailOk(k, w, b)
  BY <1>1, <1>3 DEF MailOk
<1>5. ASSUME NEW m \in Kinds, NEW t, NEW x, NEW c \in Cores
      PROVE  /\ Moving(m, w[c], b, t, x) \in Nat /\ Moving(m, q[c], b, t, x) \in Nat
             /\ Moving(m, w[c], b, t, x) <= Moving(m, q[c], b, t, x)
  <2>1. c \in Nodes
    BY NodesAre
  <2>2. Weighed(At(m, t, x), b) \in Nat /\ Waits(m, q[c], t, x) \in Nat
    BY <1>1, <1>5, <2>1, MovingNat
  <2>3. Waits(m, w[c], t, x) = 0 \/ Waits(m, w[c], t, x) = Waits(m, q[c], t, x)
    BY <1>3, <2>1 DEF Waits, Carries
  <2> QED
    BY <2>2, <2>3 DEF Moving
<1>6. Ebbs(k, r, q, b, k, r, w, b)
  <2> SUFFICES ASSUME NEW c \in Cores, NEW j \in DOMAIN Workloads[c], NEW t \in Tids, IsOut(c, j, t),
                      NEW d \in Ddrs
               PROVE  Token(k[c], w[c], b, r[d].end_set, j, t, d)
                        <= Token(k[c], q[c], b, r[d].end_set, j, t, d)
    BY DEF Ebbs
  <2>1. "ends" \in Kinds
    BY DEF Kinds
  <2>2. /\ Moving("ends", w[c], b, t, DdrNode(d)) \in Nat
        /\ Moving("ends", q[c], b, t, DdrNode(d)) \in Nat
        /\ Moving("ends", w[c], b, t, DdrNode(d)) <= Moving("ends", q[c], b, t, DdrNode(d))
    BY <1>5, <2>1
  <2> QED
    BY <2>2 DEF Token
<1>7. Flows(k, q, b, k, w, b)
  <2> SUFFICES ASSUME NEW c \in Cores, NEW j \in DOMAIN Workloads[c], NEW t \in Tids,
                      IsRemote(c, j, t), NEW x \in Cores
               PROVE  Flow(c, k[c], w[c], b, j, t, x) <= Flow(c, k[c], q[c], b, j, t, x)
    BY DEF Flows
  <2>1. ToSend(c, k[c], j, t) \in Nat
    BY <1>2, ToSendNat DEF AllSafe
  <2>2. "bytes" \in Kinds
    BY DEF Kinds
  <2>3. /\ Moving("bytes", w[c], b, t, x) \in Nat /\ Moving("bytes", q[c], b, t, x) \in Nat
        /\ Moving("bytes", w[c], b, t, x) <= Moving("bytes", q[c], b, t, x)
    BY <1>5, <2>2
  <2> QED
    BY <2>1, <2>3 DEF Flow
<1>8. FlowsFit(k, w, b)
  BY <1>1, <1>2, <1>4, <1>7, FlowsOn
<1> QED
  BY <1>1, <1>2, <1>3, <1>4, <1>6, <1>8, Moves

(* A DDR changes, and has no more ends to count.                              *)
LEMMA OneDdr ==
  ASSUME NEW k, NEW r, NEW q, NEW b, IInv(k, r, q, b), NEW d \in Ddrs, NEW s,
         s.end_set \subseteq r[d].end_set, DdrTypes(s, Done(k)),
         NEW u, u = [r EXCEPT ![d] = s], Joins(s, Uncounted(k, u, q, b, d))
  PROVE  IInv(k, u, q, b)
<1>1. DOMAIN k = Cores /\ DOMAIN r = Ddrs /\ DOMAIN q = Nodes /\ MailOk(k, q, b)
      /\ FlowsFit(k, q, b) /\ \A x \in Cores : CoreOk(k, x)
  BY DEF IInv
<1>2. Forward(k, k)
  BY <1>1, CoresSafe
<1>3. DOMAIN u = Ddrs /\ \A e \in Ddrs : u[e] = IF e = d THEN s ELSE r[e]
  BY <1>1
<1>4. \A e \in Ddrs : u[e] = r[e] \/ DdrOk(k, u, q, b, e)
  <2>1. \A t \in s.end_set : Written(t)
    BY DEF IInv, DdrOk
  <2> QED
    BY <1>3, <2>1 DEF DdrOk
<1>5. Ebbs(k, r, q, b, k, u, q, b)
  <2> SUFFICES ASSUME NEW c \in Cores, NEW j \in DOMAIN Workloads[c], NEW t \in Tids, IsOut(c, j, t),
                      NEW e \in Ddrs
               PROVE  Token(k[c], q[c], b, u[e].end_set, j, t, e)
                        <= Token(k[c], q[c], b, r[e].end_set, j, t, e)
    BY DEF Ebbs
  <2>1. c \in Nodes /\ "ends" \in Kinds
    BY NodesAre DEF Kinds
  <2>2. Moving("ends", q[c], b, t, DdrNode(e)) \in Nat
    BY <1>1, <2>1, MovingNat
  <2>3. u[e].end_set \subseteq r[e].end_set
    BY <1>3
  <2> QED
    BY <2>2, <2>3 DEF Token
<1> QED
  BY <1>1, <1>2, <1>3, <1>4, <1>5, Moves

(* A DDR changes and has the same ends to count.                              *)
LEMMA SameEnds ==
  ASSUME NEW k, NEW r, NEW q, NEW b, IInv(k, r, q, b), NEW d \in Ddrs, NEW s,
         s.end_set = r[d].end_set, DdrTypes(s, Done(k)), Joins(s, Uncounted(k, r, q, b, d)),
         NEW u, u = [r EXCEPT ![d] = s]
  PROVE  IInv(k, u, q, b)
<1>1. u[d].end_set = r[d].end_set
  BY DEF IInv
<1>2. Uncounted(k, u, q, b, d) = Uncounted(k, r, q, b, d)
  BY <1>1 DEF Uncounted
<1> QED
  BY <1>2, OneDdr

(* What the invariant says of a DDR.                                         *)
LEMMA DdrState ==
  ASSUME NEW k, NEW r, NEW q, NEW b, IInv(k, r, q, b), NEW d \in Ddrs
  PROVE  /\ DdrTypes(r[d], Done(k)) /\ Joins(r[d], Uncounted(k, r, q, b, d))
         /\ Settled(Uncounted(k, r, q, b, d), Done(k))
         /\ r[d].end_set \subseteq Uncounted(k, r, q, b, d)
         /\ Uncounted(k, r, q, b, d) \subseteq Tids
<1>1. /\ MailOk(k, q, b) /\ DdrOk(k, r, q, b, d) /\ \A c \in Cores : CoreOk(k, c)
  BY DEF IInv
<1>2. AllSafe(k)
  BY <1>1, CoresSafe
<1>3. Settled(Uncounted(k, r, q, b, d), Done(k))
  BY <1>1, <1>2, SettledNow
<1>4. ASSUME NEW t \in r[d].end_set PROVE t \in Uncounted(k, r, q, b, d)
  <2>1. PICK p \in Cores : \E n \in DOMAIN Workloads[p] : IsOut(p, n, t)
    BY <1>1, <1>4 DEF DdrOk, Written
  <2>2. PICK n \in DOMAIN Workloads[p] : IsOut(p, n, t)
    BY <2>1
  <2>3. t \in Tids
    BY <2>2, OneMaker
  <2>4. Token(k[p], q[p], b, r[d].end_set, n, t, d) >= 1
    BY <1>1, <1>4, TokenNat
  <2> QED
    BY <2>2, <2>3, <2>4 DEF Uncounted
<1>5. Uncounted(k, r, q, b, d) \subseteq Tids
  BY DEF Uncounted
<1> QED
  BY <1>1, <1>3, <1>4, <1>5 DEF DdrOk

(* An end that is counted is gone.                                           *)
LEMMA CountedGone ==
  ASSUME NEW k, NEW r, NEW q, NEW b, IInv(k, r, q, b), NEW d \in Ddrs, NEW t \in r[d].end_set,
         NEW s, s.end_set = r[d].end_set \ {t}, NEW u, u = [r EXCEPT ![d] = s]
  PROVE  Uncounted(k, u, q, b, d) \subseteq Uncounted(k, r, q, b, d) \ {t}
<1>1. MailOk(k, q, b) /\ OneEnd(k, r, q, b) /\ DOMAIN r = Ddrs
  BY DEF IInv
<1>2. u[d].end_set = r[d].end_set \ {t}
  BY <1>1
<1>3. ASSUME NEW c \in Cores, NEW j \in DOMAIN Workloads[c], NEW i \in Tids, IsOut(c, j, i),
             Token(k[c], q[c], b, u[d].end_set, j, i, d) >= 1
      PROVE  i # t /\ Token(k[c], q[c], b, r[d].end_set, j, i, d) >= 1
  <2>1. c \in Nodes /\ "ends" \in Kinds
    BY NodesAre DEF Kinds
  <2>2. Moving("ends", q[c], b, i, DdrNode(d)) \in Nat
    BY <1>1, <2>1, MovingNat
  <2>3. Token(k[c], q[c], b, r[d].end_set, j, i, d) <= 1
    BY <1>1, <1>3 DEF OneEnd
  <2> QED
    BY <1>2, <1>3, <2>2, <2>3 DEF Token
<1> SUFFICES ASSUME NEW i \in Uncounted(k, u, q, b, d)
             PROVE  i \in Uncounted(k, r, q, b, d) /\ i # t
  OBVIOUS
<1>4. /\ i \in Tids
      /\ \E p \in Cores : \E n \in DOMAIN Workloads[p] :
            IsOut(p, n, i) /\ Token(k[p], q[p], b, u[d].end_set, n, i, d) >= 1
  BY DEF Uncounted
<1> QED
  BY <1>3, <1>4 DEF Uncounted

(* A packet is written (ddr.cpp:168).                                       *)
LEMMA DrainStep ==
  ASSUME NEW k, NEW r, NEW q, NEW b, IInv(k, r, q, b), NEW d \in Ddrs,
         NEW u, u = [r EXCEPT ![d] = DrainOne(r[d])]
  PROVE  IInv(k, u, q, b)
<1> DEFINE s == DrainOne(r[d])
           W == Uncounted(k, r, q, b, d)
           R == Done(k)
<1>1. /\ DdrTypes(r[d], R) /\ Joins(r[d], W) /\ Settled(W, R)
      /\ r[d].end_set \subseteq W /\ W \subseteq Tids
  BY DdrState
<1> HIDE DEF s, W, R
<1>2. \/ DdrTypes(s, R) /\ Memory(r[d], s) /\ Joins(s, W)
      \/ \E t \in r[d].end_set :
           /\ s.end_set = r[d].end_set \ {t}
           /\ \A V : Settled(V, R) /\ V \subseteq W \ {t} => DdrTypes(s, R) /\ Joins(s, V)
  BY <1>1, DrainSettled DEF s
<1>3. u = [r EXCEPT ![d] = s]
  BY DEF s
<1>4. CASE DdrTypes(s, R) /\ Memory(r[d], s) /\ Joins(s, W)
  <2>1. s.end_set = r[d].end_set
    BY <1>4 DEF Memory
  <2> QED
    BY <1>3, <1>4, <2>1, SameEnds DEF R, W
<1>5. ASSUME NEW t \in r[d].end_set, s.end_set = r[d].end_set \ {t},
             \A V : Settled(V, R) /\ V \subseteq W \ {t} => DdrTypes(s, R) /\ Joins(s, V)
      PROVE  IInv(k, u, q, b)
  <2> DEFINE V == Uncounted(k, u, q, b, d)
  <2>1. V \subseteq W \ {t}
    BY <1>3, <1>5, CountedGone DEF W
  <2>2. Settled(V, R)
    <3>1. MailOk(k, q, b) /\ \A c \in Cores : CoreOk(k, c)
      BY DEF IInv
    <3>2. AllSafe(k)
      BY <3>1, CoresSafe
    <3> QED
      BY <3>1, <3>2, SettledNow DEF R
  <2>3. DdrTypes(s, R) /\ Joins(s, V)
    <3> HIDE DEF V
    <3> QED
      BY <1>5, <2>1, <2>2
  <2>4. s.end_set \subseteq r[d].end_set
    BY <1>5
  <2>5. DdrTypes(s, Done(k)) /\ Joins(s, Uncounted(k, u, q, b, d))
    BY <2>3 DEF R
  <2> QED
    BY <1>3, <2>4, <2>5, OneDdr
<1> QED
  BY <1>2, <1>4, <1>5

(* The packet a DDR sends may be posted.                                      *)
LEMMA ServedOk ==
  ASSUME NEW k, NEW d \in Ddrs, NEW p \in Parcels(Done(k))
  PROVE  QueueOk(k, DdrNode(d), DdrPacket(p))
<1> DEFINE x == DdrPacket(p)
<1>1. p.tid \in Done(k) /\ p.size \in Nat \ {0} /\ p.end \in BOOLEAN
  BY DEF Parcels
<1>2. p.tid \in Tids /\ OutOf(p.tid).dst \in SUBSET Cores
  BY <1>1, ShareSome DEF Done
<1> DEFINE o == OutOf(p.tid).dst
<1>3. x = [kind |-> "data", tid |-> p.tid, src |-> DRAM, size |-> p.size, end |-> p.end, to |-> o]
  BY DEF DdrPacket
<1>4. o \in SUBSET Nodes /\ o \subseteq Cores
  BY <1>2 DEF Nodes
<1> HIDE DEF x, o
<1>5. x \in Mail(SUBSET Nodes)
  BY <1>1, <1>2, <1>3, <1>4 DEF Mail, Datas
<1>6. x.src = DRAM /\ x.tid = p.tid /\ x.kind = "data" /\ x.to = o
  BY <1>3
<1>7. DdrNode(d) \notin Cores
  BY NodesAre
<1> QED
  BY <1>1, <1>4, <1>5, <1>6, <1>7 DEF QueueOk, Posted, x

(* The last of two changes counts.                                           *)
LEMMA Twice ==
  ASSUME NEW r, NEW d, NEW x, NEW y
  PROVE  [[r EXCEPT ![d] = x] EXCEPT ![d] = y] = [r EXCEPT ![d] = y]
  OBVIOUS

(* A cycle of a DDR.                                                         *)
LEMMA DdrStep ==
  ASSUME NEW k, NEW r, NEW q, NEW b, IInv(k, r, q, b), NEW d \in Ddrs, NEW free, NEW g,
         NEW s, s = Run1(r[d], free, g, 1), NEW u, NEW w,
         IF Serves(s, 1)
         THEN /\ u = [r EXCEPT ![d] = NextCycle(ServeOne(s))]
              /\ w = [q EXCEPT ![DdrNode(d)] = DdrPacket(ServedPacket(s))]
         ELSE u = [r EXCEPT ![d] = NextCycle(s)] /\ w = q
  PROVE  IInv(k, u, w, b)
<1> DEFINE a == Arbitrate(r[d], free, g, 1)
           r1 == [r EXCEPT ![d] = a]
           r2 == [r EXCEPT ![d] = s]
           R == Done(k)
<1>1. DOMAIN r = Ddrs /\ DdrTypes(r[d], R) /\ Joins(r[d], Uncounted(k, r, q, b, d))
  BY DdrState DEF IInv
<1>2. IInv(k, r1, q, b)
  <2>1. DdrTypes(a, R) /\ Memory(r[d], a) /\ Joins(a, Uncounted(k, r, q, b, d))
    BY <1>1, ArbitrateSettled
  <2> HIDE DEF a
  <2> QED
    BY <2>1, SameEnds DEF Memory
<1>3. s = IF Drains(a) THEN DrainOne(a) ELSE a
  BY DEF Run1
<1>4. r1[d] = a
  BY <1>1
<1> HIDE DEF a
<1>5. IInv(k, r2, q, b)
  <2>1. CASE Drains(a)
    <3>1. r2 = [r1 EXCEPT ![d] = DrainOne(r1[d])]
      BY <1>3, <1>4, <2>1, Twice
    <3> HIDE DEF r1, r2
    <3> QED
      BY <1>2, <3>1, DrainStep
  <2>2. CASE ~Drains(a)
    BY <1>2, <1>3, <2>2
  <2> QED
    BY <2>1, <2>2
<1>6. r2[d] = s /\ \A x : [r2 EXCEPT ![d] = x] = [r EXCEPT ![d] = x]
  BY <1>1, Twice
<1> HIDE DEF r1, r2
<1> DEFINE W == Uncounted(k, r2, q, b, d)
<1>7. DdrTypes(s, R) /\ Joins(s, W)
  BY <1>5, <1>6, DdrState
<1>8. CASE Serves(s, 1)
  <2> DEFINE v == ServeOne(s)
             y == NextCycle(v)
             n == DdrNode(d)
             p == DdrPacket(ServedPacket(s))
  <2>1. s.packets # << >> \/ s.data # << >>
    BY <1>8 DEF Serves
  <2>2. DdrTypes(v, R) /\ Memory(s, v) /\ ServedPacket(s) \in Parcels(R)
    BY <1>7, <2>1, ServeSettled
  <2>3. QueueOk(k, n, p)
    BY <2>2, ServedOk
  <2>4. n \in Nodes /\ n \notin Cores
    BY NodesAre
  <2>5. w = [q EXCEPT ![n] = p] /\ u = [r2 EXCEPT ![d] = y]
    BY <1>6, <1>8
  <2> HIDE DEF v, n, p
  <2>6. IInv(k, r2, w, b)
    BY <1>5, <2>3, <2>4, <2>5, QueuePut
  <2> DEFINE V == Uncounted(k, r2, w, b, d)
  <2>7. Joins(r2[d], V)
    BY <2>6, DdrState
  <2> HIDE DEF V
  <2>8. Joins(v, V)
    BY <1>6, <2>2, <2>7 DEF Memory, Joins
  <2>9. DdrTypes(y, R) /\ Memory(v, y) /\ Joins(y, V)
    BY <2>2, <2>8, NextCycleSettled
  <2>10. y.end_set = r2[d].end_set
    BY <1>6, <2>2, <2>9 DEF Memory
  <2> HIDE DEF y
  <2> QED
    BY <2>5, <2>6, <2>9, <2>10, SameEnds DEF V
<1>9. CASE ~Serves(s, 1)
  <2> DEFINE y == NextCycle(s)
  <2>1. u = [r2 EXCEPT ![d] = y] /\ w = q
    BY <1>6, <1>9
  <2>2. DdrTypes(y, R) /\ Memory(s, y) /\ Joins(y, W)
    <3> HIDE DEF W
    <3> QED
      BY <1>7, NextCycleSettled
  <2>3. y.end_set = r2[d].end_set
    BY <1>6, <2>2 DEF Memory
  <2> HIDE DEF y
  <2> QED
    BY <1>5, <2>1, <2>2, <2>3, SameEnds
<1> QED
  BY <1>8, <1>9

(* A core sends a request (core.cpp:352).                                   *)
LEMMA RequestStep ==
  ASSUME NEW k, NEW r, NEW q, NEW b, IInv(k, r, q, b), NEW c \in Cores,
         k[c].to_request # << >>, NEW a \in Head(k[c].to_request),
         NEW v, v = [k EXCEPT ![c] = RequestSent(k[c], a)],
         NEW w, w = [q EXCEPT ![c] = RequestPacket(c, a)]
  PROVE  IInv(v, r, w, b)
<1> DEFINE s == k[c]
           x == RequestSent(s, a)
           p == RequestPacket(c, a)
<1>1. /\ DOMAIN k = Cores /\ CoreOk(k, c) /\ \A y \in Cores : CoreOk(k, y)
      /\ Safe(c, s) /\ Counting(s) /\ Stock(c, s) /\ Fed(c, s)
  BY DEF IInv, CoreOk
<1>2. Safe(c, x) /\ Counting(x) /\ Fed(c, x)
  BY <1>1, RequestSentSafe, FedSending
<1>3. a \in RequestType
  <2>1. s.to_request \in Seq(SUBSET RequestType) /\ s.to_request # << >>
    BY <1>1 DEF Safe, CoreTypes
  <2>2. Head(s.to_request) \in SUBSET RequestType
    BY <2>1, HeadTailProperties
  <2> QED
    BY <2>2
<1>4. DOMAIN s = Fields
  BY <1>1, CoreFields DEF Safe, CoreTypes
<1>5. Same(s, x, {"to_request"})
  <2> DEFINE y == IF Head(s.to_request) \ {a} = {} THEN Tail(s.to_request)
                  ELSE <<Head(s.to_request) \ {a}>> \o Tail(s.to_request)
  <2>1. x = [s EXCEPT !.to_request = y]
    BY DEF RequestSent
  <2> HIDE DEF y, x, s
  <2> QED
    BY <1>4, <2>1 DEF Same, Fields
<1> HIDE DEF x
<1>6. Stock(c, x)
  <2>1. Same(s, x, Fields \ StockFields)
    BY <1>5 DEF Same, Fields, StockFields
  <2> QED
    BY <1>1, <2>1, StockKept
<1>7. /\ x.cur = s.cur /\ x.s_rq = s.s_rq /\ x.buffer = s.buffer /\ x.send_list = s.send_list
      /\ EndedOf(x) = EndedOf(s)
  BY <1>5 DEF Same, Fields, EndedOf, Between, Before
<1>8. EndedOf(s) \in Nat
  BY <1>1, TurnFlags
<1>9. v = [k EXCEPT ![c] = x] /\ v[c] = x
  BY <1>1 DEF x
<1>10. EndedOf(k[c]) <= EndedOf(x)
  BY <1>7, <1>8
<1>11. CoreOk(v, c)
  <2>1. AllOk(k)
    BY <1>1 DEF AllOk
  <2>2. Replaces(k, c, v)
    BY <1>2, <1>9, <1>10, <2>1, OneCore
  <2>3. \A y \in x.buffer : Finished(v, y[2])
    BY <1>1, <1>7, <2>2, FinishedKept DEF CoreOk, Replaces
  <2>4. x.cur = 0 => \A t \in Tids : x.s_rq[t].left <= 0
    BY <1>1, <1>7 DEF CoreOk
  <2> QED
    BY <1>2, <1>6, <1>9, <2>3, <2>4 DEF CoreOk
<1>12. SendsLess(c, s, x)
  <2>1. \A n \in DOMAIN Workloads[c] : \A t \in Tids : IsRemote(c, n, t) => ToSend(c, s, n, t) \in Nat
    BY <1>1, ToSendNat
  <2> QED
    BY <1>7, <2>1 DEF SendsLess, ToSend, Making
<1>13. IInv(v, r, q, b)
  <2>1. \A t \in Tids : x.s_rq[t].left = k[c].s_rq[t].left \/ Announced(c, x, t)
    BY <1>7
  <2>2. v = [k EXCEPT ![c] = x] /\ SendsLess(c, k[c], x)
    BY <1>9, <1>12
  <2> HIDE DEF s
  <2> QED
    BY <1>10, <1>11, <2>1, <2>2, CoreAlone
<1>14. QueueOk(v, c, p) /\ p.kind # "data"
  <2> DEFINE to == IF a.from = DRAM THEN DdrNodes ELSE {a.from}
  <2>1. a.tid \in Tids /\ a.num \in Nat /\ a.from \in Cores \cup {DRAM}
    BY <1>3 DEF RequestType
  <2>2. to \in SUBSET Nodes
    BY <2>1 DEF Nodes
  <2>3. p = [kind |-> "request", tid |-> a.tid, src |-> c, num |-> a.num, to |-> to]
    BY DEF RequestPacket
  <2> HIDE DEF p, to
  <2>4. p \in Mail(SUBSET Nodes) /\ p.kind = "request"
    BY <2>1, <2>2, <2>3 DEF Mail, Requests
  <2> QED
    BY <2>4 DEF QueueOk, Posted
<1>15. c \in Nodes /\ w = [q EXCEPT ![c] = p]
  BY NodesAre
<1> HIDE DEF p
<1> QED
  BY <1>13, <1>14, <1>15, QueuePut

(* A core sends data (core.cpp:369).                                        *)
LEMMA SendStep ==
  ASSUME NEW k, NEW r, NEW q, NEW b, IInv(k, r, q, b), NEW c \in Cores, q[c] = NoPacket,
         k[c].sd # NoBuf, NEW d \in DdrChoices(k[c], MiniTile(k[c]).tid),
         NEW v, v = [k EXCEPT ![c] = DataSent(k[c], d)],
         NEW w, w = [q EXCEPT ![c] = DataPacket(c, k[c], d)]
  PROVE  IInv(v, r, w, b)
<1> DEFINE s == k[c]
           x == DataSent(s, d)
           p == DataPacket(c, s, d)
           z == PacketSize(s)
<1>1. /\ DOMAIN k = Cores /\ DOMAIN r = Ddrs /\ DOMAIN q = Nodes /\ MailOk(k, q, b)
      /\ FlowsFit(k, q, b) /\ CoreOk(k, c) /\ \A y \in Cores : CoreOk(k, y)
      /\ Safe(c, s) /\ Counting(s) /\ Stock(c, s) /\ Fed(c, s) /\ OutputsOwn(c)
  BY InputAssumption DEF IInv, CoreOk
<1>2. /\ Safe(c, x) /\ Counting(x) /\ Stock(c, x) /\ Keeping(s, x) /\ Cuts(c, s, p, z)
      /\ x.send_list = [s.send_list EXCEPT ![p.tid] = @ - z]
  BY <1>1, SendSeen
<1>3. Fed(c, x)
  BY <1>1, FedSending
<1>4. v = [k EXCEPT ![c] = x] /\ v[c] = x /\ w = [q EXCEPT ![c] = p]
  BY <1>1
<1> HIDE DEF x, p, z
<1>5. EndedOf(s) \in Nat /\ EndedOf(k[c]) <= EndedOf(x)
  BY <1>1, <1>2, TurnFlags DEF Keeping
<1>6. AllOk(k)
  BY <1>1 DEF AllOk
<1>7. Replaces(k, c, v)
  BY <1>2, <1>4, <1>5, <1>6, OneCore
<1>8. \A y \in Cores : CoreOk(v, y)
  <2>1. \A y \in x.buffer : Finished(v, y[2])
    BY <1>1, <1>2, <1>7, FinishedKept DEF CoreOk, Replaces, Keeping
  <2>2. x.cur = 0 => \A t \in Tids : x.s_rq[t].left <= 0
    BY <1>1, <1>2 DEF CoreOk, Keeping
  <2>3. CoreOk(v, c)
    BY <1>2, <1>3, <1>4, <2>1, <2>2 DEF CoreOk
  <2> QED
    BY <1>7, <2>3 DEF Replaces
<1>9. AllSafe(k) /\ AllSafe(v)
  BY <1>1, <1>8, CoresSafe
<1>10. c \in Nodes /\ DOMAIN w = Nodes /\ \A n \in Nodes : w[n] = IF n = c THEN p ELSE q[n]
  BY <1>1, <1>4, NodesAre
<1>11. /\ p.kind = "data" /\ p.size = z /\ p.src = c /\ z \in Nat \ {0} /\ p.end \in BOOLEAN
       /\ p \in Mail(SUBSET Nodes)
       /\ \E n \in DOMAIN Workloads[c] : IsRemote(c, n, p.tid)
  <2>1. p = [kind |-> "data", tid |-> p.tid, src |-> c, size |-> z, end |-> p.end, to |-> p.to]
    BY <1>2 DEF Cuts
  <2>2. /\ p.tid \in Tids /\ z \in Nat \ {0} /\ p.end \in BOOLEAN /\ p.to \in SUBSET Nodes
        /\ \E n \in DOMAIN Workloads[c] : IsRemote(c, n, p.tid)
    BY <1>2 DEF Cuts
  <2>3. p \in Datas(SUBSET Nodes)
    BY <2>1, <2>2 DEF Datas
  <2> QED
    BY <2>1, <2>2, <2>3 DEF Mail
<1>12. MailOk(v, w, b)
  <2>1. MailOk(v, q, b)
    BY <1>1, <1>7, MailKept DEF Replaces
  <2>2. QueueOk(v, c, p)
    BY <1>11, NodesAre DEF QueueOk, Posted
  <2> QED
    BY <1>10, <2>1, <2>2 DEF MailOk
<1>13. ASSUME NEW m \in Kinds, NEW t, NEW y
       PROVE  /\ Weighed(At(m, t, y), b) \in Nat
              /\ Moving(m, q[c], b, t, y) = Weighed(At(m, t, y), b)
              /\ t = p.tid => Moving(m, w[c], b, t, y) = Weighed(At(m, t, y), b)
                              \/ Moving(m, w[c], b, t, y) = Amount(m, p) + Weighed(At(m, t, y), b)
              /\ t # p.tid => Moving(m, w[c], b, t, y) = Weighed(At(m, t, y), b)
  <2>1. Weighed(At(m, t, y), b) \in Nat
    BY <1>1, <1>13, MovingNat
  <2>2. Waits(m, q[c], t, y) = 0
    BY DEF Waits
  <2>3. Waits(m, w[c], t, y) = 0 \/ (t = p.tid /\ Waits(m, w[c], t, y) = Amount(m, p))
    BY <1>10 DEF Waits, Carries
  <2> HIDE DEF Waits
  <2> QED
    BY <2>1, <2>2, <2>3 DEF Moving
<1>14. \A y \in Cores \ {c} : y \in Nodes /\ w[y] = q[y] /\ v[y] = k[y]
  BY <1>7, <1>10, NodesAre DEF Replaces
<1>15. \A n \in DOMAIN Workloads[c] : \A t \in Tids : Takes(c, s, x, p, z, n, t)
  <2> HIDE DEF s
  <2>1. /\ OutputsOwn(c) /\ Safe(c, s) /\ Stock(c, s) /\ Cuts(c, s, p, z) /\ Safe(c, x)
        /\ Stock(c, x) /\ Keeping(s, x) /\ x.send_list = [s.send_list EXCEPT ![p.tid] = @ - z]
    BY <1>1, <1>2
  <2> QED
    BY <2>1, SentLess
<1>16. Ebbs(k, r, q, b, v, r, w, b)
  <2> SUFFICES ASSUME NEW y \in Cores, NEW n \in DOMAIN Workloads[y], NEW t \in Tids, IsOut(y, n, t),
                      NEW e \in Ddrs
               PROVE  Token(v[y], w[y], b, r[e].end_set, n, t, e)
                        <= Token(k[y], q[y], b, r[e].end_set, n, t, e)
    BY DEF Ebbs
  <2>1. CASE y # c
    <3>1. Token(k[y], q[y], b, r[e].end_set, n, t, e) \in Nat
      BY <1>1, TokenNat
    <3> QED
      BY <1>14, <2>1, <3>1
  <2>2. CASE y = c
    <3>1. /\ Making(x, n, t) => Making(s, n, t)
          /\ t = p.tid /\ p.end => Making(s, n, t) /\ ~Making(x, n, t)
      BY <1>15, <2>2 DEF Takes
    <3>2. Amount("ends", p) = IF p.end THEN 1 ELSE 0
      BY <1>11, MailIs
    <3> DEFINE g == Weighed(At("ends", t, DdrNode(e)), b)
    <3>3. "ends" \in Kinds
      BY DEF Kinds
    <3>4. /\ g \in Nat /\ Moving("ends", q[c], b, t, DdrNode(e)) = g
          /\ t = p.tid => Moving("ends", w[c], b, t, DdrNode(e)) = g
                          \/ Moving("ends", w[c], b, t, DdrNode(e)) = Amount("ends", p) + g
          /\ t # p.tid => Moving("ends", w[c], b, t, DdrNode(e)) = g
      BY <1>13, <3>3
    <3> HIDE DEF g
    <3> QED
      BY <1>4, <1>11, <2>2, <3>1, <3>2, <3>4 DEF Token
  <2> QED
    BY <2>1, <2>2
<1>17. Flows(k, q, b, v, w, b)
  <2>1. ASSUME NEW y \in Cores, NEW n \in DOMAIN Workloads[y], NEW t \in Tids, IsRemote(y, n, t),
               NEW e \in Cores
        PROVE  Flow(y, v[y], w[y], b, n, t, e) <= Flow(y, k[y], q[y], b, n, t, e)
    <3>1. ToSend(y, k[y], n, t) \in Nat
      BY <1>9, <2>1, ToSendNat DEF AllSafe
    <3>2. "bytes" \in Kinds
      BY DEF Kinds
    <3>3. CASE y # c
      <4>1. Moving("bytes", q[y], b, t, e) \in Nat
        BY <1>1, <1>14, <3>2, <3>3, MovingNat
      <4> QED
        BY <1>14, <3>1, <3>3, <4>1 DEF Flow
    <3>4. CASE y = c
      <4>1. ToSend(c, x, n, t) = ToSend(c, s, n, t) - (IF t = p.tid THEN z ELSE 0)
        BY <1>15, <2>1, <3>4 DEF Takes
      <4>2. Amount("bytes", p) = z
        BY <1>11 DEF Amount
      <4> DEFINE g == Weighed(At("bytes", t, e), b)
      <4>3. /\ g \in Nat /\ Moving("bytes", q[c], b, t, e) = g
            /\ t = p.tid => Moving("bytes", w[c], b, t, e) = g
                            \/ Moving("bytes", w[c], b, t, e) = Amount("bytes", p) + g
            /\ t # p.tid => Moving("bytes", w[c], b, t, e) = g
        BY <1>13, <3>2
      <4> HIDE DEF g
      <4> QED
        BY <1>4, <1>11, <3>1, <3>4, <4>1, <4>2, <4>3 DEF Flow
    <3> QED
      BY <3>3, <3>4
  <2>2. ASSUME NEW e \in Cores, NEW t \in Tids
        PROVE  v[e].s_rq[t].left = k[e].s_rq[t].left
    <3>1. x.s_rq = s.s_rq
      BY <1>2 DEF Keeping
    <3> QED
      BY <1>4, <1>14, <3>1
  <2> QED
    BY <2>1, <2>2 DEF Flows
<1>18. FlowsFit(v, w, b)
  BY <1>1, <1>9, <1>12, <1>17, FlowsOn
<1> QED
  BY <1>1, <1>7, <1>8, <1>10, <1>12, <1>16, <1>18, Moves DEF Replaces

(* A packet carries data of its node, or of the DRAM.                         *)
LEMMA OwnQueue ==
  ASSUME NEW k, NEW q, NEW b, MailOk(k, q, b), NEW n \in Nodes, NEW p \in Cores, p # n,
         NEW j \in DOMAIN Workloads[p], NEW t, IsOut(p, j, t), q[n] # NoPacket
  PROVE  ~Carries(q[n], t)
<1> SUFFICES ASSUME Carries(q[n], t) PROVE FALSE
  OBVIOUS
<1>1. q[n].kind = "data" /\ q[n].tid = t /\ QueueOk(k, n, q[n])
  BY DEF Carries, MailOk
<1>2. CASE n \in Cores
  <2>1. q[n].src = n /\ n # DRAM
    BY <1>1, <1>2, NodesAre DEF QueueOk
  <2>2. PICK i \in DOMAIN Workloads[n] : IsRemote(n, i, t)
    BY <1>1, <2>1 DEF QueueOk, Posted
  <2>3. IsOut(n, i, t)
    BY <1>2, <2>2, RemoteIsOut
  <2> QED
    BY <1>2, <2>3, OneMaker
<1>3. CASE n \notin Cores
  <2>1. t \in Done(k)
    BY <1>1, <1>3 DEF QueueOk, Posted
  <2>2. t \in OutIds
    BY <2>1 DEF Done
  <2> QED
    BY <2>2, OneMaker
<1> QED
  BY <1>2, <1>3

(* A packet enters the network.                                              *)
LEMMA InjectStep ==
  ASSUME NEW k, NEW r, NEW q, NEW b, IInv(k, r, q, b), NEW n \in Nodes, q[n] # NoPacket,
         NEW w, w = [q EXCEPT ![n] = NoPacket], NEW z, z = b (+) Copies(q[n])
  PROVE  IInv(k, r, w, z)
<1>1. /\ DOMAIN k = Cores /\ DOMAIN r = Ddrs /\ DOMAIN q = Nodes /\ MailOk(k, q, b)
      /\ FlowsFit(k, q, b) /\ \A y \in Cores : CoreOk(k, y)
  BY DEF IInv
<1>2. AllSafe(k) /\ Forward(k, k)
  BY <1>1, CoresSafe
<1>3. DOMAIN w = Nodes /\ \A x \in Nodes : w[x] = IF x = n THEN NoPacket ELSE q[x]
  BY <1>1
<1>4. QueueOk(k, n, q[n]) /\ q[n] \in Mail(SUBSET Nodes) /\ IsBag(b) /\ \A y \in DOMAIN b : y \in Mail(Nodes)
  BY <1>1 DEF MailOk, QueueOk, FlyOk
<1>5. /\ IsBag(z) /\ DOMAIN z = DOMAIN b \cup {Copy(q[n], x) : x \in q[n].to}
      /\ \A m \in Kinds : \A t, x :
           Weighed(At(m, t, x), z) = Weighed(At(m, t, x), b) + Waits(m, q[n], t, x)
  <2>1. Enters(b, q[n], z)
    BY <1>4, CopiesPut
  <2> QED
    BY <2>1 DEF Enters
<1>6. MailOk(k, w, z)
  <2>1. \A x \in Nodes : QueueOk(k, x, w[x])
    BY <1>1, <1>3 DEF MailOk, QueueOk
  <2>2. ASSUME NEW x \in q[n].to PROVE FlyOk(k, Copy(q[n], x))
    <3>1. /\ Copy(q[n], x) \in Mail(Nodes) /\ Copy(q[n], x).to = x
          /\ Copy(q[n], x).kind = q[n].kind /\ Copy(q[n], x).tid = q[n].tid
          /\ Copy(q[n], x).src = q[n].src
      BY <1>4, CopyIs
    <3>2. Posted(k, q[n]) /\ (q[n].kind = "data" /\ q[n].src = DRAM => q[n].to \subseteq Cores)
      BY <1>4 DEF QueueOk
    <3> HIDE DEF Copy
    <3> QED
      BY <3>1, <3>2 DEF FlyOk, Posted
  <2>3. \A y \in DOMAIN z : FlyOk(k, y)
    BY <1>1, <1>5, <2>2 DEF MailOk
  <2> QED
    BY <1>5, <2>1, <2>3 DEF MailOk
<1>7. ASSUME NEW m \in Kinds, NEW p \in Cores, NEW j \in DOMAIN Workloads[p], NEW t, IsOut(p, j, t),
             NEW x
      PROVE  Moving(m, w[p], z, t, x) = Moving(m, q[p], b, t, x) /\ Moving(m, q[p], b, t, x) \in Nat
  <2>1. p \in Nodes
    BY NodesAre
  <2>2. /\ Weighed(At(m, t, x), b) \in Nat /\ Waits(m, q[p], t, x) \in Nat
        /\ Waits(m, q[n], t, x) \in Nat
    BY <1>1, <1>7, <2>1, MovingNat
  <2>3. Weighed(At(m, t, x), z) = Weighed(At(m, t, x), b) + Waits(m, q[n], t, x)
    BY <1>5, <1>7
  <2>4. CASE p = n
    <3>1. Waits(m, w[p], t, x) = 0
      BY <1>3, <2>1, <2>4 DEF Waits
    <3> QED
      BY <2>2, <2>3, <2>4, <3>1 DEF Moving
  <2>5. CASE p # n
    <3>1. ~Carries(q[n], t)
      BY <1>1, <1>7, <2>5, OwnQueue
    <3>2. Waits(m, q[n], t, x) = 0
      BY <3>1 DEF Waits
    <3>3. w[p] = q[p]
      BY <1>3, <2>1, <2>5
    <3> QED
      BY <2>2, <2>3, <3>2, <3>3 DEF Moving
  <2> QED
    BY <2>4, <2>5
<1>8. Ebbs(k, r, q, b, k, r, w, z)
  <2> SUFFICES ASSUME NEW p \in Cores, NEW j \in DOMAIN Workloads[p], NEW t \in Tids, IsOut(p, j, t),
                      NEW e \in Ddrs
               PROVE  Token(k[p], w[p], z, r[e].end_set, j, t, e)
                        <= Token(k[p], q[p], b, r[e].end_set, j, t, e)
    BY DEF Ebbs
  <2>1. "ends" \in Kinds
    BY DEF Kinds
  <2>2. /\ Moving("ends", w[p], z, t, DdrNode(e)) = Moving("ends", q[p], b, t, DdrNode(e))
        /\ Moving("ends", q[p], b, t, DdrNode(e)) \in Nat
    BY <1>7, <2>1
  <2> QED
    BY <2>2 DEF Token
<1>9. Flows(k, q, b, k, w, z)
  <2> SUFFICES ASSUME NEW p \in Cores, NEW j \in DOMAIN Workloads[p], NEW t \in Tids,
                      IsRemote(p, j, t), NEW e \in Cores
               PROVE  Flow(p, k[p], w[p], z, j, t, e) <= Flow(p, k[p], q[p], b, j, t, e)
    BY DEF Flows
  <2>1. "bytes" \in Kinds /\ IsOut(p, j, t)
    BY RemoteIsOut DEF Kinds
  <2>2. /\ Moving("bytes", w[p], z, t, e) = Moving("bytes", q[p], b, t, e)
        /\ Moving("bytes", q[p], b, t, e) \in Nat
    BY <1>7, <2>1
  <2>3. ToSend(p, k[p], j, t) \in Nat
    BY <1>2, ToSendNat DEF AllSafe
  <2> QED
    BY <2>2, <2>3 DEF Flow
<1>10. FlowsFit(k, w, z)
  BY <1>1, <1>2, <1>6, <1>9, FlowsOn
<1> QED
  BY <1>1, <1>2, <1>3, <1>6, <1>8, <1>10, Moves

(* One packet less is in flight.                                             *)
Leaves(b, y, z) ==
  \A m \in Kinds : \A t, x :
    /\ At(m, t, x)[y] \in Nat /\ Weighed(At(m, t, x), z) \in Nat
    /\ Weighed(At(m, t, x), b) = Weighed(At(m, t, x), z) + At(m, t, x)[y]
(* So it is when one is taken out of the bag.                                 *)
LEMMA PacketTaken ==
  ASSUME NEW k, NEW q, NEW b, MailOk(k, q, b), NEW y \in DOMAIN b, NEW z, z = b (-) SetToBag({y})
  PROVE  MailOk(k, q, z) /\ FlyOk(k, y) /\ Leaves(b, y, z)
<1>1. IsBag(b) /\ \A x \in DOMAIN b : FlyOk(k, x)
  BY DEF MailOk
<1>2. /\ IsBag(z) /\ DOMAIN z \subseteq DOMAIN b
      /\ \A f : (\A x \in DOMAIN b : f[x] \in Nat) => Weighed(f, z) = Weighed(f, b) - f[y]
  <2>1. IsBag(z)
    BY <1>1, WeightTaken
  <2>2. DOMAIN z \subseteq DOMAIN b
    BY <1>1, WeightTaken
  <2>3. ASSUME NEW f, \A x \in DOMAIN b : f[x] \in Nat PROVE Weighed(f, z) = Weighed(f, b) - f[y]
    BY <1>1, <2>3, WeightTaken
  <2> QED
    BY <2>1, <2>2, <2>3
<1>3. MailOk(k, q, z)
  BY <1>1, <1>2 DEF MailOk
<1>4. ASSUME NEW m \in Kinds, NEW t, NEW x
      PROVE  /\ At(m, t, x)[y] \in Nat /\ Weighed(At(m, t, x), z) \in Nat
             /\ Weighed(At(m, t, x), b) = Weighed(At(m, t, x), z) + At(m, t, x)[y]
  <2> DEFINE f == At(m, t, x)
  <2>1. \A p \in DOMAIN b : f[p] \in Nat
    BY <1>1, <1>4, MovingNat DEF FlyOk
  <2>2. Weighed(f, b) \in Nat /\ Weighed(f, z) \in Nat
    BY <1>3, <1>4, MovingNat
  <2> HIDE DEF f
  <2>3. Weighed(f, z) = Weighed(f, b) - f[y] /\ f[y] \in Nat
    BY <1>2, <2>1
  <2> QED
    BY <2>2, <2>3 DEF f
<1> QED
  BY <1>1, <1>3, <1>4 DEF Leaves

(* What is under way of anything is then no more than it was.                 *)
LEMMA MovingLess ==
  ASSUME NEW k, NEW q, NEW b, MailOk(k, q, b), NEW y, NEW z, MailOk(k, q, z), Leaves(b, y, z),
         NEW m \in Kinds, NEW n \in Nodes, NEW t, NEW x
  PROVE  /\ Moving(m, q[n], b, t, x) \in Nat /\ Moving(m, q[n], z, t, x) \in Nat
         /\ At(m, t, x)[y] \in Nat
         /\ Moving(m, q[n], b, t, x) = Moving(m, q[n], z, t, x) + At(m, t, x)[y]
<1>1. Waits(m, q[n], t, x) \in Nat
  BY MovingNat
<1>2. /\ At(m, t, x)[y] \in Nat /\ Weighed(At(m, t, x), z) \in Nat
      /\ Weighed(At(m, t, x), b) = Weighed(At(m, t, x), z) + At(m, t, x)[y]
  BY DEF Leaves
<1> QED
  BY <1>1, <1>2 DEF Moving

(* A packet that is taken leaves less to come.                               *)
LEMMA TakenStep ==
  ASSUME NEW k, NEW r, NEW q, NEW b, IInv(k, r, q, b), NEW y \in DOMAIN b,
         NEW z, z = b (-) SetToBag({y})
  PROVE  IInv(k, r, q, z)
<1>1. /\ DOMAIN k = Cores /\ DOMAIN r = Ddrs /\ DOMAIN q = Nodes /\ MailOk(k, q, b)
      /\ FlowsFit(k, q, b) /\ \A x \in Cores : CoreOk(k, x)
  BY DEF IInv
<1>2. AllSafe(k) /\ Forward(k, k)
  BY <1>1, CoresSafe
<1>3. MailOk(k, q, z) /\ Leaves(b, y, z)
  BY <1>1, PacketTaken
<1>4. Ebbs(k, r, q, b, k, r, q, z)
  <2> SUFFICES ASSUME NEW p \in Cores, NEW j \in DOMAIN Workloads[p], NEW t \in Tids, IsOut(p, j, t),
                      NEW e \in Ddrs
               PROVE  Token(k[p], q[p], z, r[e].end_set, j, t, e)
                        <= Token(k[p], q[p], b, r[e].end_set, j, t, e)
    BY DEF Ebbs
  <2>1. "ends" \in Kinds /\ p \in Nodes
    BY NodesAre DEF Kinds
  <2> DEFINE x == DdrNode(e)
             f == At("ends", t, x)
  <2>2. /\ Moving("ends", q[p], b, t, x) \in Nat /\ Moving("ends", q[p], z, t, x) \in Nat
        /\ f[y] \in Nat /\ Moving("ends", q[p], b, t, x) = Moving("ends", q[p], z, t, x) + f[y]
    BY <1>1, <1>3, <2>1, MovingLess
  <2> HIDE DEF f
  <2> QED
    BY <2>2 DEF Token
<1>5. Flows(k, q, b, k, q, z)
  <2> SUFFICES ASSUME NEW p \in Cores, NEW j \in DOMAIN Workloads[p], NEW t \in Tids,
                      IsRemote(p, j, t), NEW e \in Cores
               PROVE  Flow(p, k[p], q[p], z, j, t, e) <= Flow(p, k[p], q[p], b, j, t, e)
    BY DEF Flows
  <2>1. "bytes" \in Kinds /\ p \in Nodes
    BY NodesAre DEF Kinds
  <2> DEFINE f == At("bytes", t, e)
  <2>2. /\ Moving("bytes", q[p], b, t, e) \in Nat /\ Moving("bytes", q[p], z, t, e) \in Nat
        /\ f[y] \in Nat /\ Moving("bytes", q[p], b, t, e) = Moving("bytes", q[p], z, t, e) + f[y]
    BY <1>1, <1>3, <2>1, MovingLess
  <2>3. ToSend(p, k[p], j, t) \in Nat
    BY <1>2, ToSendNat DEF AllSafe
  <2> HIDE DEF f
  <2> QED
    BY <2>2, <2>3 DEF Flow
<1>6. FlowsFit(k, q, z)
  BY <1>1, <1>2, <1>3, <1>5, FlowsOn
<1> QED
  BY <1>1, <1>2, <1>3, <1>4, <1>6, Moves

(* A request arrives at a core (core.cpp:390).                              *)
LEMMA CoreRequestStep ==
  ASSUME NEW k, NEW r, NEW q, NEW b, IInv(k, r, q, b), NEW c \in Cores,
         NEW t \in Tids, NEW d \in Cores, NEW j \in Nat,
         NEW v, v = [k EXCEPT ![c] = RequestReceived(k[c], t, d, j)]
  PROVE  IInv(v, r, q, b)
<1> DEFINE s == k[c]
           x == RequestReceived(s, t, d, j)
<1>1. /\ DOMAIN k = Cores /\ CoreOk(k, c) /\ \A y \in Cores : CoreOk(k, y)
      /\ Safe(c, s) /\ Counting(s) /\ Stock(c, s) /\ Fed(c, s)
  BY DEF IInv, CoreOk
<1>2. Safe(c, x) /\ Counting(x) /\ Fed(c, x)
  BY <1>1, RequestReceivedSafe, FedRequest
<1>3. DOMAIN s = Fields
  BY <1>1, CoreFields DEF Safe, CoreTypes
<1>4. Same(s, x, {"cur_rq", "r_rq"})
  <2> DEFINE f == [s.r_rq EXCEPT ![t][d] = @ + j]
             g == [s.cur_rq EXCEPT ![t][d] = @ - j]
  <2>1. x = IF \A e \in Cores : s.cur_rq[t][e] = 0 THEN [s EXCEPT !.r_rq = f]
            ELSE [s EXCEPT !.cur_rq = g]
    BY DEF RequestReceived
  <2> HIDE DEF f, g, x, s
  <2>2. Same(s, [s EXCEPT !.r_rq = f], {"cur_rq", "r_rq"})
    BY <1>3 DEF Same, Fields
  <2>3. Same(s, [s EXCEPT !.cur_rq = g], {"cur_rq", "r_rq"})
    BY <1>3 DEF Same, Fields
  <2> QED
    BY <2>1, <2>2, <2>3
<1> HIDE DEF x
<1>5. Stock(c, x)
  <2>1. Same(s, x, Fields \ StockFields)
    BY <1>4 DEF Same, Fields, StockFields
  <2> QED
    BY <1>1, <2>1, StockKept
<1>6. /\ x.cur = s.cur /\ x.s_rq = s.s_rq /\ x.buffer = s.buffer /\ x.send_list = s.send_list
      /\ EndedOf(x) = EndedOf(s)
  BY <1>4 DEF Same, Fields, EndedOf, Between, Before
<1>7. EndedOf(s) \in Nat
  BY <1>1, TurnFlags
<1>8. v = [k EXCEPT ![c] = x] /\ v[c] = x
  BY <1>1 DEF x
<1>9. EndedOf(k[c]) <= EndedOf(x)
  BY <1>6, <1>7
<1>10. CoreOk(v, c)
  <2>1. AllOk(k)
    BY <1>1 DEF AllOk
  <2>2. Replaces(k, c, v)
    BY <1>2, <1>8, <1>9, <2>1, OneCore
  <2>3. \A y \in x.buffer : Finished(v, y[2])
    BY <1>1, <1>6, <2>2, FinishedKept DEF CoreOk, Replaces
  <2>4. x.cur = 0 => \A e \in Tids : x.s_rq[e].left <= 0
    BY <1>1, <1>6 DEF CoreOk
  <2> QED
    BY <1>2, <1>5, <1>8, <2>3, <2>4 DEF CoreOk
<1>11. SendsLess(c, s, x)
  <2>1. \A n \in DOMAIN Workloads[c] : \A e \in Tids : IsRemote(c, n, e) => ToSend(c, s, n, e) \in Nat
    BY <1>1, ToSendNat
  <2> QED
    BY <1>6, <2>1 DEF SendsLess, ToSend, Making
<1>12. \A e \in Tids : x.s_rq[e].left = k[c].s_rq[e].left \/ Announced(c, x, e)
  BY <1>6
<1>13. v = [k EXCEPT ![c] = x] /\ SendsLess(c, k[c], x)
  BY <1>8, <1>11
<1> HIDE DEF s
<1> QED
  BY <1>9, <1>10, <1>12, <1>13, CoreAlone

(* Data received, seen from outside (core.cpp:412).                         *)
LEMMA DataSeen ==
  ASSUME NEW c \in Cores, NEW s, Safe(c, s), NEW t \in Tids, NEW size \in Int, NEW end \in BOOLEAN,
         NEW x, x = DataReceived(s, t, size, end)
  PROVE  /\ Same(s, x, {"s_rq", "buffer", "left_data", "dataready"})
         /\ \A e \in Tids : x.s_rq[e].left =
              IF e # t THEN s.s_rq[e].left
              ELSE IF s.s_rq[t].left = size THEN 0 ELSE s.s_rq[t].left - size
         /\ \A g \in x.buffer : g \in s.buffer \/ (g[2] = t /\ s.s_rq[t].left = size)
<1> DEFINE e == [s.s_rq[t] EXCEPT !.left = @ - size, !.ends = IF end THEN @ - 1 ELSE @]
           lost == s.left_data \ {t}
           more == {<<l, t>> : l \in e.layers}
<1>1. DOMAIN s = Fields /\ s.s_rq \in [Tids -> EntryType]
  BY CoreFields DEF Safe, CoreTypes
<1>2. e.left = s.s_rq[t].left - size /\ s.s_rq[t].left \in Int
  <2> DEFINE a == s.s_rq[t]
             j == IF end THEN a.ends - 1 ELSE a.ends
             i == a.left - size
  <2>1. a \in EntryType
    BY <1>1
  <2>2. e = [a EXCEPT !.left = i, !.ends = j]
    BY <2>1 DEF EntryType
  <2> HIDE DEF e, a, i, j
  <2>3. e.left = i /\ a.left \in Int
    BY <2>1, <2>2 DEF EntryType
  <2> QED
    BY <2>3 DEF i, a
<1>3. \A g \in more : g[2] = t
  OBVIOUS
<1>4. NoEntry.left = 0
  BY DEF NoEntry
<1>5. CASE e.left = 0
  <2>1. x = [s EXCEPT !.s_rq[t] = NoEntry, !.buffer = @ \cup more,
                      !.left_data = lost, !.dataready = (lost = {})]
    BY <1>5 DEF DataReceived
  <2> HIDE DEF e, more, lost
  <2>2. /\ Same(s, x, {"s_rq", "buffer", "left_data", "dataready"})
        /\ x.s_rq = [s.s_rq EXCEPT ![t] = NoEntry] /\ x.buffer = s.buffer \cup more
    BY <1>1, <2>1 DEF Same, Fields
  <2> QED
    BY <1>1, <1>2, <1>3, <1>4, <1>5, <2>2
<1>6. CASE e.left # 0
  <2>1. x = [s EXCEPT !.s_rq[t] = e]
    BY <1>6 DEF DataReceived
  <2> HIDE DEF e
  <2>2. /\ Same(s, x, {"s_rq", "buffer", "left_data", "dataready"})
        /\ x.s_rq = [s.s_rq EXCEPT ![t] = e] /\ x.buffer = s.buffer
    BY <1>1, <2>1 DEF Same, Fields
  <2> QED
    BY <1>1, <1>2, <1>6, <2>2
<1> QED
  BY <1>5, <1>6

(* The data that makes a transfer complete is the last of it.                *)
LEMMA LastData ==
  ASSUME NEW k, NEW r, NEW q, NEW b, IInv(k, r, q, b), NEW y \in DOMAIN b, y.kind = "data",
         NEW z, z = b (-) SetToBag({y}),
         NEW c \in Cores, y.to = c, k[c].s_rq[y.tid].left = y.size
  PROVE  Finished(k, y.tid)
<1> DEFINE t == y.tid
           size == y.size
<1>1. /\ MailOk(k, q, b) /\ FlowsFit(k, q, b) /\ \A x \in Cores : CoreOk(k, x)
  BY DEF IInv
<1>2. FlyOk(k, y) /\ Leaves(b, y, z) /\ y \in Mail(Nodes)
  BY <1>1, PacketTaken DEF FlyOk
<1>3. t \in Tids /\ size \in Nat \ {0} /\ y.src \in Cores \cup {DRAM} /\ Amount("bytes", y) = size
  BY <1>2, MailIs
<1>4. CASE y.src = DRAM
  BY <1>2, <1>4 DEF FlyOk, Posted, Done
<1>5. CASE y.src # DRAM
  <2> DEFINE p == y.src
  <2>1. p \in Cores
    BY <1>3, <1>5
  <2>2. PICK n \in DOMAIN Workloads[p] : IsRemote(p, n, t)
    BY <1>2, <1>5 DEF FlyOk, Posted
  <2>3. p \in Nodes /\ "bytes" \in Kinds
    BY <2>1, NodesAre DEF Kinds
  <2> DEFINE s == k[p]
             f == At("bytes", t, c)
  <2>4. Safe(p, s) /\ Stock(p, s) /\ OutputsOwn(p)
    BY <1>1, <2>1, InputAssumption DEF CoreOk
  <2>5. ToSend(p, s, n, t) \in Nat /\ s.send_list[t] \in Nat
    BY <1>3, <2>1, <2>2, <2>4, ToSendNat
  <2>6. f[y] = size
    BY <1>2, <1>3 DEF At, Carries
  <2>7. MailOk(k, q, z)
    BY <1>1, PacketTaken
  <2>8. /\ Moving("bytes", q[p], z, t, c) \in Nat
        /\ Moving("bytes", q[p], b, t, c) = Moving("bytes", q[p], z, t, c) + f[y]
    BY <1>1, <1>2, <2>3, <2>7, MovingLess
  <2>9. Fits(k, Flow(p, s, q[p], b, n, t, c), p, n, t, c)
    BY <1>1, <1>3, <2>1, <2>2 DEF FlowsFit
  <2> HIDE DEF f
  <2>10. ToSend(p, s, n, t) = 0
    <3>1. Flow(p, s, q[p], b, n, t, c) <= size
      BY <1>3, <2>9 DEF Fits
    <3> QED
      BY <1>3, <2>5, <2>6, <2>8, <3>1 DEF Flow
  <2>11. OutSize(p, n, t) \in Nat \ {0}
    BY <2>1, <2>2, <2>4, OutSizeIs
  <2>12. n \in Nat /\ s.cur \in Nat
    BY <2>1, <2>4, WorkloadsType, TurnFlags
  <2>13. n <= s.cur /\ s.send_list[t] = 0
    BY <2>10, <2>11, <2>12 DEF ToSend
  <2>14. n <= EndedOf(s)
    BY <1>3, <2>1, <2>2, <2>4, <2>13, SentEnded
  <2>15. IsOut(p, n, t)
    BY <2>1, <2>2, RemoteIsOut
  <2> QED
    BY <2>1, <2>14, <2>15, FinishedWhen
<1> QED
  BY <1>4, <1>5

(* Data arrives at a core (core.cpp:412).                                   *)
LEMMA CoreDataStep ==
  ASSUME NEW k, NEW r, NEW q, NEW b, IInv(k, r, q, b), NEW y \in DOMAIN b, y.kind = "data",
         NEW z, z = b (-) SetToBag({y}), NEW c \in Cores, y.to = c,
         NEW v, v = [k EXCEPT ![c] = DataReceived(k[c], y.tid, y.size, y.end)]
  PROVE  IInv(v, r, q, z)
<1> DEFINE s == k[c]
           t == y.tid
           size == y.size
           x == DataReceived(s, t, size, y.end)
           left == s.s_rq[t].left
<1>1. /\ DOMAIN k = Cores /\ DOMAIN r = Ddrs /\ DOMAIN q = Nodes /\ MailOk(k, q, b)
      /\ FlowsFit(k, q, b) /\ CoreOk(k, c) /\ \A e \in Cores : CoreOk(k, e)
      /\ Safe(c, s) /\ Counting(s) /\ Stock(c, s) /\ Fed(c, s)
  BY DEF IInv, CoreOk
<1>2. MailOk(k, q, z) /\ FlyOk(k, y) /\ Leaves(b, y, z) /\ y \in Mail(Nodes)
  BY <1>1, PacketTaken DEF FlyOk
<1>3. t \in Tids /\ size \in Nat \ {0} /\ y.end \in BOOLEAN /\ Amount("bytes", y) = size
  BY <1>2, MailIs
<1>4. left = size => Finished(k, t)
  BY LastData
<1>5. left \in Int /\ (s.cur = 0 => left # size)
  <2>1. left \in Int
    BY <1>1, <1>3 DEF Safe, CoreTypes, EntryType
  <2> QED
    BY <1>1, <1>3, <2>1 DEF CoreOk
<1>6. Safe(c, x) /\ Counting(x) /\ Fed(c, x)
  <2>1. size \in Int
    BY <1>3
  <2> QED
    BY <1>1, <1>3, <1>5, <2>1, DataReceivedSafe, FedData
<1>7. /\ Same(s, x, {"s_rq", "buffer", "left_data", "dataready"})
      /\ \A e \in Tids : x.s_rq[e].left =
           IF e # t THEN s.s_rq[e].left ELSE IF left = size THEN 0 ELSE left - size
      /\ \A g \in x.buffer : g \in s.buffer \/ (g[2] = t /\ left = size)
  <2>1. size \in Int
    BY <1>3
  <2> QED
    BY <1>1, <1>3, <2>1, DataSeen
<1>8. v = [k EXCEPT ![c] = x] /\ v[c] = x
  BY <1>1
<1> HIDE DEF x, t, size, left
<1>9. Stock(c, x)
  <2>1. Same(s, x, Fields \ StockFields)
    BY <1>7 DEF Same, Fields, StockFields
  <2> QED
    BY <1>1, <2>1, StockKept
<1>10. x.cur = s.cur /\ x.send_list = s.send_list /\ EndedOf(x) = EndedOf(s)
  BY <1>7 DEF Same, Fields, EndedOf, Between, Before
<1>11. EndedOf(s) \in Nat /\ EndedOf(k[c]) <= EndedOf(x)
  BY <1>1, <1>10, TurnFlags
<1>12. Replaces(k, c, v)
  <2>1. AllOk(k)
    BY <1>1 DEF AllOk
  <2> QED
    BY <1>6, <1>8, <1>11, <2>1, OneCore
<1>13. /\ DOMAIN v = Cores /\ Forward(k, v) /\ \A e \in Cores : e # c => v[e] = k[e]
       /\ \A e \in Cores : CoreOk(v, e)
  <2>1. \A g : Finished(k, g) => Finished(v, g)
    BY <1>12, FinishedKept DEF Replaces
  <2>2. \A g \in x.buffer : Finished(v, g[2])
    BY <1>1, <1>4, <1>7, <2>1 DEF CoreOk, t, size, left
  <2>3. x.cur = 0 => \A e \in Tids : x.s_rq[e].left <= 0
    <3> SUFFICES ASSUME x.cur = 0, NEW e \in Tids PROVE x.s_rq[e].left <= 0
      OBVIOUS
    <3>1. s.s_rq[e].left <= 0 /\ (e = t => left <= 0)
      BY <1>1, <1>3, <1>10 DEF CoreOk, left
    <3> QED
      BY <1>3, <1>5, <1>7, <3>1
  <2>4. CoreOk(v, c)
    BY <1>6, <1>8, <1>9, <2>2, <2>3 DEF CoreOk
  <2> QED
    BY <1>12, <2>4 DEF Replaces
<1>14. MailOk(v, q, z)
  BY <1>2, <1>13, MailKept
<1>15. AllSafe(k)
  BY <1>1, CoresSafe
<1>16. \A p \in Cores : v[p].cur = k[p].cur /\ v[p].send_list = k[p].send_list
                        /\ EndedOf(v[p]) = EndedOf(k[p])
  BY <1>8, <1>10, <1>13
<1>17. Ebbs(k, r, q, b, v, r, q, z)
  <2> SUFFICES ASSUME NEW p \in Cores, NEW j \in DOMAIN Workloads[p], NEW e \in Tids, IsOut(p, j, e),
                      NEW d \in Ddrs
               PROVE  Token(v[p], q[p], z, r[d].end_set, j, e, d)
                        <= Token(k[p], q[p], b, r[d].end_set, j, e, d)
    BY DEF Ebbs
  <2>1. "ends" \in Kinds /\ p \in Nodes
    BY NodesAre DEF Kinds
  <2> DEFINE a == DdrNode(d)
             f == At("ends", e, a)
  <2>2. /\ Moving("ends", q[p], b, e, a) \in Nat /\ Moving("ends", q[p], z, e, a) \in Nat
        /\ f[y] \in Nat /\ Moving("ends", q[p], b, e, a) = Moving("ends", q[p], z, e, a) + f[y]
    BY <1>1, <1>2, <2>1, MovingLess
  <2>3. Making(v[p], j, e) <=> Making(k[p], j, e)
    BY <1>16 DEF Making
  <2> HIDE DEF f
  <2> QED
    BY <2>2, <2>3 DEF Token
<1>18. FlowsFit(v, q, z)
  <2> SUFFICES ASSUME NEW p \in Cores, NEW n \in DOMAIN Workloads[p], NEW e \in Tids,
                      IsRemote(p, n, e), NEW a \in Cores
               PROVE  Fits(v, Flow(p, v[p], q[p], z, n, e, a), p, n, e, a)
    BY DEF FlowsFit
  <2>1. "bytes" \in Kinds /\ p \in Nodes
    BY NodesAre DEF Kinds
  <2> DEFINE f == At("bytes", e, a)
             new == Flow(p, v[p], q[p], z, n, e, a)
             old == Flow(p, k[p], q[p], b, n, e, a)
  <2>2. /\ Moving("bytes", q[p], b, e, a) \in Nat /\ Moving("bytes", q[p], z, e, a) \in Nat
        /\ f[y] \in Nat /\ Moving("bytes", q[p], b, e, a) = Moving("bytes", q[p], z, e, a) + f[y]
    BY <1>1, <1>2, <2>1, MovingLess
  <2>3. ToSend(p, k[p], n, e) \in Nat
    BY <1>15, ToSendNat DEF AllSafe
  <2>4. ToSend(p, v[p], n, e) = ToSend(p, k[p], n, e)
    BY <1>16 DEF ToSend
  <2>5. e = t /\ a = c => f[y] = size
    BY <1>2, <1>3 DEF At, Carries, t
  <2> HIDE DEF f
  <2>6. new \in Nat /\ old \in Nat /\ new = old - f[y]
    BY <2>2, <2>3, <2>4 DEF Flow
  <2>7. Fits(k, old, p, n, e, a)
    BY <1>1 DEF FlowsFit
  <2>8. OutSize(p, n, e) \in Nat
    BY OutSizeIs, InputAssumption
  <2> HIDE DEF new, old
  <2>9. CASE e = t /\ a = c
    <3>1. v[a].s_rq[e].left = IF left = size THEN 0 ELSE left - size
      BY <1>3, <1>7, <1>8, <2>9
    <3>2. old <= OutSize(p, n, e) /\ (left <= 0 \/ old <= left)
      BY <2>7, <2>9 DEF Fits, left
    <3>3. f[y] = size
      BY <2>5, <2>9
    <3>4. new <= OutSize(p, n, e) /\ (v[a].s_rq[e].left <= 0 \/ new <= v[a].s_rq[e].left)
      BY <1>3, <1>5, <2>6, <2>8, <3>1, <3>2, <3>3
    <3> QED
      BY <3>4 DEF Fits, new
  <2>10. CASE ~(e = t /\ a = c)
    <3>1. v[a].s_rq[e].left = k[a].s_rq[e].left
      BY <1>7, <1>8, <1>13, <2>10
    <3>2. k[a].s_rq[e].left \in Int
      BY <1>15 DEF AllSafe, Safe, CoreTypes, EntryType
    <3>3. new <= OutSize(p, n, e) /\ (v[a].s_rq[e].left <= 0 \/ new <= v[a].s_rq[e].left)
      BY <2>2, <2>6, <2>7, <2>8, <3>1, <3>2 DEF Fits
    <3> QED
      BY <3>3 DEF Fits, new
  <2> QED
    BY <2>9, <2>10
<1> QED
  BY <1>1, <1>13, <1>14, <1>17, <1>18, Moves

(* A request arrives at a DDR (ddr.cpp:255).                                *)
LEMMA DdrRequestStep ==
  ASSUME NEW k, NEW r, NEW q, NEW b, IInv(k, r, q, b), NEW d \in Ddrs, NEW t \in Tids,
         NEW u, u = [r EXCEPT ![d] = DDRRequest(r[d], t)]
  PROVE  IInv(k, u, q, b)
<1> DEFINE s == DDRRequest(r[d], t)
           W == Uncounted(k, r, q, b, d)
<1>1. DdrTypes(r[d], Done(k)) /\ Joins(r[d], W) /\ Settled(W, Done(k))
  BY DdrState
<1> HIDE DEF W
<1>2. DdrTypes(s, Done(k)) /\ Joins(s, W) /\ s.end_set = r[d].end_set
  BY <1>1, RequestSettled
<1>3. Joins(s, Uncounted(k, r, q, b, d)) /\ u = [r EXCEPT ![d] = s]
  BY <1>2 DEF W
<1> HIDE DEF s
<1> QED
  BY <1>2, <1>3, SameEnds

(* Data arrives at a DDR (ddr.cpp:274).                                     *)
LEMMA DdrDataStep ==
  ASSUME NEW k, NEW r, NEW q, NEW b, IInv(k, r, q, b), NEW y \in DOMAIN b, y.kind = "data",
         NEW z, z = b (-) SetToBag({y}), NEW d \in Ddrs, y.to = DdrNode(d),
         NEW u, u = [r EXCEPT ![d] = DDRData(r[d], y.tid, y.size, y.end)]
  PROVE  IInv(k, u, q, z)
<1> DEFINE t == y.tid
           s == DDRData(r[d], t, y.size, y.end)
           W == Uncounted(k, r, q, b, d)
           V == Uncounted(k, u, q, z, d)
<1>1. /\ DOMAIN k = Cores /\ DOMAIN r = Ddrs /\ DOMAIN q = Nodes /\ MailOk(k, q, b)
      /\ FlowsFit(k, q, b) /\ OneEnd(k, r, q, b) /\ \A e \in Cores : CoreOk(k, e)
      /\ DdrOk(k, r, q, b, d)
  BY DEF IInv
<1>2. MailOk(k, q, z) /\ FlyOk(k, y) /\ Leaves(b, y, z) /\ y \in Mail(Nodes)
  BY <1>1, PacketTaken DEF FlyOk
<1>3. AllSafe(k) /\ Forward(k, k)
  BY <1>1, CoresSafe
<1>4. y.end \in BOOLEAN /\ Amount("ends", y) = (IF y.end THEN 1 ELSE 0) /\ y.src \in Cores \cup {DRAM}
      /\ t \in Tids
  BY <1>2, MailIs
<1>5. Written(t)
  <2>1. DdrNode(d) \notin Cores
    BY NodesAre
  <2>2. y.src # DRAM
    BY <1>2, <2>1 DEF FlyOk
  <2>3. y.src \in Cores /\ \E n \in DOMAIN Workloads[y.src] : IsRemote(y.src, n, t)
    BY <1>2, <1>4, <2>2 DEF FlyOk, Posted
  <2> QED
    BY <2>3, RemoteIsOut DEF Written
<1>6. W \in SUBSET Tids /\ DdrTypes(r[d], Done(k)) /\ Joins(r[d], W)
  BY DdrState
<1> HIDE DEF W, V
<1>7. /\ DdrTypes(s, Done(k)) /\ Joins(s, W)
      /\ s.end_set = Marked(r[d].end_set, t, y.end)
  <2>1. y.end \in BOOLEAN
    BY <1>4
  <2> HIDE DEF t
  <2> QED
    BY <1>6, <2>1, DataSettled
<1>8. u = [r EXCEPT ![d] = s] /\ DOMAIN u = Ddrs /\ \A e \in Ddrs : u[e] = IF e = d THEN s ELSE r[e]
  BY <1>1
<1> HIDE DEF s
<1>9. Ebbs(k, r, q, b, k, u, q, z)
  <2> SUFFICES ASSUME NEW p \in Cores, NEW j \in DOMAIN Workloads[p], NEW e \in Tids, IsOut(p, j, e),
                      NEW a \in Ddrs
               PROVE  Token(k[p], q[p], z, u[a].end_set, j, e, a)
                        <= Token(k[p], q[p], b, r[a].end_set, j, e, a)
    BY DEF Ebbs
  <2>1. "ends" \in Kinds /\ p \in Nodes
    BY NodesAre DEF Kinds
  <2> DEFINE x == DdrNode(a)
             f == At("ends", e, x)
  <2>2. /\ Moving("ends", q[p], b, e, x) \in Nat /\ Moving("ends", q[p], z, e, x) \in Nat
        /\ f[y] \in Nat /\ Moving("ends", q[p], b, e, x) = Moving("ends", q[p], z, e, x) + f[y]
    BY <1>1, <1>2, <2>1, MovingLess
  <2>3. a = d /\ e = t /\ y.end => f[y] = 1
    BY <1>2, <1>4 DEF At, Carries
  <2>4. e \in u[a].end_set => e \in r[a].end_set \/ (a = d /\ e = t /\ y.end)
    BY <1>7, <1>8 DEF Marked
  <2> HIDE DEF f
  <2>5. e \in u[a].end_set => e \in r[a].end_set \/ f[y] = 1
    BY <2>3, <2>4
  <2> QED
    BY <2>2, <2>5 DEF Token
<1>10. Flows(k, q, b, k, q, z)
  <2> SUFFICES ASSUME NEW p \in Cores, NEW j \in DOMAIN Workloads[p], NEW e \in Tids,
                      IsRemote(p, j, e), NEW a \in Cores
               PROVE  Flow(p, k[p], q[p], z, j, e, a) <= Flow(p, k[p], q[p], b, j, e, a)
    BY DEF Flows
  <2>1. "bytes" \in Kinds /\ p \in Nodes
    BY NodesAre DEF Kinds
  <2> DEFINE f == At("bytes", e, a)
  <2>2. /\ Moving("bytes", q[p], b, e, a) \in Nat /\ Moving("bytes", q[p], z, e, a) \in Nat
        /\ f[y] \in Nat /\ Moving("bytes", q[p], b, e, a) = Moving("bytes", q[p], z, e, a) + f[y]
    BY <1>1, <1>2, <2>1, MovingLess
  <2>3. ToSend(p, k[p], j, e) \in Nat
    BY <1>3, ToSendNat DEF AllSafe
  <2> HIDE DEF f
  <2> QED
    BY <2>2, <2>3 DEF Flow
<1>11. FlowsFit(k, q, z)
  BY <1>1, <1>2, <1>3, <1>10, FlowsOn
<1>12. V \in SUBSET W /\ IsFiniteSet(W)
  <2>1. V \subseteq W
    BY <1>1, <1>2, <1>9, TokensEbb DEF V, W
  <2> QED
    BY <1>6, <2>1, DDRAssumption, FS_Subset
<1>13. DdrOk(k, u, q, z, d)
  <2>1. Joins(s, V)
    BY <1>7, <1>12, Looser
  <2>2. \A e \in s.end_set : Written(e)
    BY <1>1, <1>5, <1>7 DEF DdrOk, Marked
  <2> QED
    BY <1>7, <1>8, <2>1, <2>2 DEF DdrOk, V
<1>14. \A e \in Ddrs : u[e] = r[e] \/ DdrOk(k, u, q, z, e)
  BY <1>8, <1>13
<1> QED
  BY <1>1, <1>2, <1>3, <1>8, <1>9, <1>11, <1>14, Moves

-----------------------------------------------------------------------------
(* The initial state.                                                        *)

-----------------------------------------------------------------------------
(* The initial state.                                                        *)

(* A DDR that has counted nothing (ddr.cpp:60).                             *)
LEMMA DdrFresh ==
  ASSUME NEW R, NEW W \in SUBSET Tids
  PROVE  DdrTypes(DDRInit, R) /\ Joins(DDRInit, W) /\ DDRInit.end_set = {}
<1> DEFINE s == DDRInit
           f == [t \in Tids |-> IF t \in OutIds
                                THEN [open |-> TRUE, ifmaps |-> OutOf(t).ifmaps,
                                      requests |-> Cardinality(OutOf(t).dst)]
                                ELSE Erased]
<1>1. s.ofm = f /\ s.data = << >> /\ s.packets = << >> /\ s.end_set = {}
  BY DEF DDRInit
<1>2. DOMAIN s = DdrFields
  BY DdrNew
<1> HIDE DEF s
<1>3. ASSUME NEW t \in Tids
      PROVE  /\ f[t] \in Entries
             /\ IF f[t].open THEN t \in OutIds /\ Cardinality(Awaited(t, W)) <= f[t].ifmaps
                ELSE f[t].ifmaps <= 0 /\ f[t].requests <= 0
  <2>1. CASE t \in OutIds
    <3>1. /\ OutOf(t).ifmaps \in Nat /\ IsFiniteSet(OutOf(t).dst)
          /\ Cardinality({i \in Tids : t \in DramIn[i]}) <= OutOf(t).ifmaps
      BY <2>1, ShareSome
    <3>2. Cardinality(OutOf(t).dst) \in Nat
      BY <3>1, FS_CardinalityType
    <3>3. f[t] = [open |-> TRUE, ifmaps |-> OutOf(t).ifmaps, requests |-> Cardinality(OutOf(t).dst)]
      BY <2>1
    <3>4. IsFiniteSet(Tids) /\ Awaited(t, Tids) = {i \in Tids : t \in DramIn[i]}
      BY DDRAssumption DEF Awaited
    <3>5. /\ Cardinality(Awaited(t, W)) \in Nat /\ Cardinality(Awaited(t, Tids)) \in Nat
          /\ Cardinality(Awaited(t, W)) <= Cardinality(Awaited(t, Tids))
      BY <3>4, AwaitedFewer
    <3> HIDE DEF f
    <3>6. f[t] \in Entries /\ f[t].open /\ f[t].ifmaps = OutOf(t).ifmaps
      BY <3>1, <3>2, <3>3 DEF Entries
    <3> QED
      BY <2>1, <3>1, <3>4, <3>5, <3>6
  <2>2. CASE t \notin OutIds
    <3>1. f[t] = Erased
      BY <2>2
    <3> HIDE DEF f
    <3> QED
      BY <3>1 DEF Erased, Entries
  <2> QED
    BY <2>1, <2>2
<1>4. DOMAIN f = Tids
  OBVIOUS
<1>5. f \in [Tids -> Entries]
  BY <1>3
<1> HIDE DEF f
<1>6. DdrTypes(s, R)
  <2>1. << >> \in Seq(Rests(R)) /\ << >> \in Seq(Parcels(R))
    BY EmptySeq
  <2> QED
    BY <1>1, <1>2, <1>5, <2>1 DEF DdrTypes
<1>7. Joins(s, W)
  BY <1>1, <1>3 DEF Joins
<1> QED
  BY <1>1, <1>6, <1>7 DEF s

(* Nothing is under way, and all is still to be sent.                         *)
LEMMA InitInv == Init => IInv(core, ddr, queue, net)
<1> SUFFICES ASSUME Init PROVE IInv(core, ddr, queue, net)
  OBVIOUS
<1>1. /\ DOMAIN core = Cores /\ DOMAIN ddr = Ddrs /\ DOMAIN queue = Nodes
      /\ \A c \in Cores : core[c] = CoreInit
      /\ \A d \in Ddrs : ddr[d] = DDRInit
      /\ \A n \in Nodes : queue[n] = NoPacket
  BY DEF Init
<1>2. DOMAIN net = {} /\ IsBag(net) /\ \A f : Weighed(f, net) = 0
  <2>1. DOMAIN net = {}
    BY DEF Init, EmptyBag, SetToBag
  <2>2. \A f : Weighed(f, net) = 0
    BY <2>1, SumEmpty DEF Weighed
  <2> QED
    BY <2>1, <2>2, FS_EmptySet DEF IsBag
<1>3. MailOk(core, queue, net)
  BY <1>1, <1>2 DEF MailOk, QueueOk
<1>4. \A n \in Nodes : \A m, t, x : Moving(m, queue[n], net, t, x) = 0
  BY <1>1, <1>2 DEF Moving, Waits
<1>5. \A p \in Cores : p \in Nodes
  BY NodesAre
<1>6. ASSUME NEW c \in Cores
      PROVE  /\ CoreOk(core, c) /\ core[c].cur = 0
             /\ \A t \in Tids : core[c].s_rq[t].left = 0 /\ core[c].send_list[t] = 0
  <2> DEFINE s == core[c]
  <2>1. s = CoreInit
    BY <1>1
  <2>2. /\ Safe(c, s) /\ Counting(s) /\ Stock(c, s) /\ Fed(c, s)
        /\ s.cur = 0 /\ s.buffer = {}
        /\ s.s_rq = [t \in Tids |-> NoEntry] /\ s.send_list = [t \in Tids |-> 0]
    BY <2>1, CoreNew
  <2> HIDE DEF s
  <2>3. \A t \in Tids : s.s_rq[t].left = 0 /\ s.send_list[t] = 0
    BY <2>2 DEF NoEntry
  <2> QED
    BY <2>2, <2>3 DEF CoreOk, s
<1>7. FlowsFit(core, queue, net)
  <2> SUFFICES ASSUME NEW p \in Cores, NEW n \in DOMAIN Workloads[p], NEW t \in Tids, IsRemote(p, n, t),
                      NEW c \in Cores
               PROVE  Fits(core, Flow(p, core[p], queue[p], net, n, t, c), p, n, t, c)
    BY DEF FlowsFit
  <2>1. OutSize(p, n, t) \in Nat
    BY OutSizeIs, InputAssumption
  <2>2. n \in Nat \ {0}
    BY WorkloadsType
  <2>3. Flow(p, core[p], queue[p], net, n, t, c) = OutSize(p, n, t)
    BY <1>4, <1>5, <1>6, <2>1, <2>2 DEF Flow, ToSend
  <2>4. core[c].s_rq[t].left = 0
    BY <1>6
  <2> QED
    BY <2>1, <2>3, <2>4 DEF Fits
<1>8. OneEnd(core, ddr, queue, net)
  <2> SUFFICES ASSUME NEW p \in Cores, NEW n \in DOMAIN Workloads[p], NEW t \in Tids, NEW d \in Ddrs
               PROVE  Token(core[p], queue[p], net, ddr[d].end_set, n, t, d) <= 1
    BY DEF OneEnd
  <2>1. ddr[d].end_set = {}
    BY <1>1, DdrFresh
  <2> QED
    BY <1>4, <1>5, <2>1 DEF Token
<1>9. \A d \in Ddrs : DdrOk(core, ddr, queue, net, d)
  <2> TAKE d \in Ddrs
  <2>1. Uncounted(core, ddr, queue, net, d) \in SUBSET Tids
    BY DEF Uncounted
  <2> QED
    BY <1>1, <2>1, DdrFresh DEF DdrOk
<1> QED
  BY <1>1, <1>3, <1>6, <1>7, <1>8, <1>9 DEF IInv

-----------------------------------------------------------------------------
(* Every step keeps the invariant.                                           *)

(* A call of Core::run.                                                       *)
LEMMA RunInv ==
  ASSUME IInv(core, ddr, queue, net), NEW c \in Cores, RunCore(c)
  PROVE  IInv(core', ddr', queue', net')
<1> DEFINE s == Work(c, core[c])
           k == [core EXCEPT ![c] = s]
<1>1. DOMAIN core = Cores
  BY DEF IInv
<1>2. k[c] = s
  BY <1>1
<1>3. IInv(k, ddr, queue, net)
  BY WorkStep
<1>4. CASE RunOnly(c)
  BY <1>3, <1>4 DEF RunOnly
<1>5. CASE RunRequest(c)
  <2>1. /\ s.to_request # << >> /\ ddr' = ddr /\ net' = net
        /\ \E r \in Head(s.to_request) :
              core' = [core EXCEPT ![c] = RequestSent(s, r)] /\ queue' = [queue EXCEPT ![c] = RequestPacket(c, r)]
    BY <1>5 DEF RunRequest, CanRequest
  <2> HIDE DEF s
  <2>2. PICK r \in Head(s.to_request) :
           core' = [core EXCEPT ![c] = RequestSent(s, r)] /\ queue' = [queue EXCEPT ![c] = RequestPacket(c, r)]
    BY <2>1
  <2>3. core' = [k EXCEPT ![c] = RequestSent(s, r)]
    BY <2>2, Twice
  <2> HIDE DEF k
  <2>4. /\ k[c].to_request # << >> /\ r \in Head(k[c].to_request)
        /\ core' = [k EXCEPT ![c] = RequestSent(k[c], r)]
    BY <1>2, <2>1, <2>3
  <2>5. IInv(core', ddr, queue', net)
    BY <1>3, <2>2, <2>4, RequestStep
  <2> QED
    BY <2>1, <2>5
<1>6. CASE RunSend(c)
  <2>1. /\ queue[c] = NoPacket /\ s.sd # NoBuf /\ ddr' = ddr /\ net' = net
        /\ \E d \in DdrChoices(s, MiniTile(s).tid) :
              core' = [core EXCEPT ![c] = DataSent(s, d)] /\ queue' = [queue EXCEPT ![c] = DataPacket(c, s, d)]
    BY <1>6 DEF RunSend, CanSend
  <2> HIDE DEF s
  <2>2. PICK d \in DdrChoices(s, MiniTile(s).tid) :
           core' = [core EXCEPT ![c] = DataSent(s, d)] /\ queue' = [queue EXCEPT ![c] = DataPacket(c, s, d)]
    BY <2>1
  <2>3. core' = [k EXCEPT ![c] = DataSent(s, d)]
    BY <2>2, Twice
  <2> HIDE DEF k
  <2>4. /\ k[c].sd # NoBuf /\ d \in DdrChoices(k[c], MiniTile(k[c]).tid)
        /\ core' = [k EXCEPT ![c] = DataSent(k[c], d)]
        /\ queue' = [queue EXCEPT ![c] = DataPacket(c, k[c], d)]
    BY <1>2, <2>1, <2>2, <2>3
  <2>5. IInv(core', ddr, queue', net)
    BY <1>3, <2>1, <2>4, SendStep
  <2> QED
    BY <2>1, <2>5
<1> QED
  BY <1>4, <1>5, <1>6 DEF RunCore

(* A packet arrives.                                                         *)
LEMMA DeliverInv ==
  ASSUME IInv(core, ddr, queue, net), NEW p \in BagToSet(net), Deliver(p)
  PROVE  IInv(core', ddr', queue', net')
<1>1. p \in DOMAIN net /\ net' = net (-) SetToBag({p})
  BY DEF Deliver, BagToSet
<1>2. IInv(core, ddr, queue, net')
  BY <1>1, TakenStep
<1>3. FlyOk(core, p)
  BY <1>1 DEF IInv, MailOk
<1>4. /\ p \in Mail(Nodes) /\ p.tid \in Tids /\ p.to \in Nodes
      /\ p.kind # "data" => p.kind = "request" /\ p.num \in Nat /\ p.src \in Cores
  BY <1>3, MailIs DEF FlyOk
<1>5. CASE p.to \in Cores
  <2>1. ddr' = ddr /\ queue' = queue
    BY <1>5 DEF Deliver
  <2>2. CASE p.kind = "data"
    <3>1. core' = [core EXCEPT ![p.to] = DataReceived(core[p.to], p.tid, p.size, p.end)]
      BY <1>5, <2>2 DEF Deliver
    <3>2. IInv(core', ddr, queue, net')
      BY <1>1, <1>5, <2>2, <3>1, CoreDataStep
    <3> QED
      BY <2>1, <3>2
  <2>3. CASE p.kind # "data"
    <3>1. core' = [core EXCEPT ![p.to] = RequestReceived(core[p.to], p.tid, p.src, p.num)]
      BY <1>4, <1>5, <2>3 DEF Deliver
    <3>2. IInv(core', ddr, queue, net')
      BY <1>2, <1>4, <1>5, <2>3, <3>1, CoreRequestStep
    <3> QED
      BY <2>1, <3>2
  <2> QED
    BY <2>2, <2>3
<1>6. CASE p.to \notin Cores
  <2> DEFINE d == p.to[2]
  <2>1. core' = core /\ queue' = queue
    BY <1>6 DEF Deliver
  <2>2. d \in Ddrs /\ p.to = DdrNode(d)
    BY <1>4, <1>6, NodesAre
  <2>3. CASE p.kind = "data"
    <3>1. ddr' = [ddr EXCEPT ![d] = DDRData(ddr[d], p.tid, p.size, p.end)]
      BY <1>6, <2>3 DEF Deliver
    <3> HIDE DEF d
    <3>2. IInv(core, ddr', queue, net')
      BY <1>1, <2>2, <2>3, <3>1, DdrDataStep
    <3> QED
      BY <2>1, <3>2
  <2>4. CASE p.kind # "data"
    <3>1. ddr' = [ddr EXCEPT ![d] = DDRRequest(ddr[d], p.tid)]
      BY <1>4, <1>6, <2>4 DEF Deliver
    <3> HIDE DEF d
    <3>2. IInv(core, ddr', queue, net')
      BY <1>2, <1>4, <2>2, <3>1, DdrRequestStep
    <3> QED
      BY <2>1, <3>2
  <2> QED
    BY <2>3, <2>4
<1> QED
  BY <1>5, <1>6

(* The invariant is inductive.                                               *)
LEMMA NextInv == IInv(core, ddr, queue, net) /\ [Next]_vars => IInv(core', ddr', queue', net')
<1> SUFFICES ASSUME IInv(core, ddr, queue, net), [Next]_vars
             PROVE  IInv(core', ddr', queue', net')
  OBVIOUS
<1>1. ASSUME NEW c \in Cores, RunCore(c) PROVE IInv(core', ddr', queue', net')
  BY <1>1, RunInv
<1>2. ASSUME NEW d \in Ddrs, NEW g \in {WriteTurn, ReadTurn}, RunDdr(d, g)
      PROVE  IInv(core', ddr', queue', net')
  <2> DEFINE free == IF queue[DdrNode(d)] = NoPacket THEN {1} ELSE {}
             s == Run1(ddr[d], free, g, 1)
  <2>1. /\ core' = core /\ net' = net
        /\ IF Serves(s, 1)
           THEN /\ ddr' = [ddr EXCEPT ![d] = NextCycle(ServeOne(s))]
                /\ queue' = [queue EXCEPT ![DdrNode(d)] = DdrPacket(ServedPacket(s))]
           ELSE ddr' = [ddr EXCEPT ![d] = NextCycle(s)] /\ queue' = queue
    BY <1>2 DEF RunDdr
  <2> HIDE DEF free
  <2>2. IInv(core, ddr', queue', net)
    BY <2>1, DdrStep
  <2> QED
    BY <2>1, <2>2
<1>3. ASSUME NEW n \in Nodes, Inject(n) PROVE IInv(core', ddr', queue', net')
  <2>1. /\ queue[n] # NoPacket /\ queue' = [queue EXCEPT ![n] = NoPacket]
        /\ net' = net (+) Copies(queue[n]) /\ core' = core /\ ddr' = ddr
    BY <1>3 DEF Inject
  <2>2. IInv(core, ddr, queue', net')
    BY <2>1, InjectStep
  <2> QED
    BY <2>1, <2>2
<1>4. ASSUME NEW p \in BagToSet(net), Deliver(p) PROVE IInv(core', ddr', queue', net')
  BY <1>4, DeliverInv
<1>5. CASE UNCHANGED vars
  BY <1>5 DEF vars
<1> QED
  BY <1>1, <1>2, <1>3, <1>4, <1>5 DEF Next

(* The invariant.                                                            *)
THEOREM Sound == Spec => []IInv(core, ddr, queue, net)
<1>1. Init => IInv(core, ddr, queue, net)
  BY InitInv
<1>2. IInv(core, ddr, queue, net) /\ [Next]_vars => IInv(core, ddr, queue, net)'
  BY NextInv
<1> QED
  BY <1>1, <1>2, PTL DEF Spec

-----------------------------------------------------------------------------
(* The promise kept, step by step.                                           *)

(* Nothing but Work begins or ends a job (core.cpp:352, 369, 390).          *)
LEMMA JobsKept ==
  ASSUME NEW c \in Cores, NEW s, Safe(c, s), Counting(s)
  PROVE  /\ \A r : Keeps(s, RequestSent(s, r))
         /\ s.sd # NoBuf => \A d : Keeps(s, DataSent(s, d))
         /\ \A t, d, j : Keeps(s, RequestReceived(s, t, d, j))
         /\ \A t \in Tids : \A size \in Int : \A end \in BOOLEAN : Keeps(s, DataReceived(s, t, size, end))
<1> DEFINE F == {"cur", "wl_end", "next_start", "wl_fn"}
<1>1. DOMAIN s = Fields
  BY CoreFields DEF Safe, CoreTypes
<1>2. ASSUME NEW v, Same(s, v, Fields \ F) PROVE Keeps(s, v)
  BY <1>2 DEF Same, Fields, Keeps, BegunOf, EndedOf, Before, Between
<1>3. ASSUME NEW r PROVE Keeps(s, RequestSent(s, r))
  <2>1. Same(s, RequestSent(s, r), Fields \ F)
    BY <1>1 DEF RequestSent, Same, Fields
  <2> QED
    BY <1>2, <2>1
<1>4. ASSUME s.sd # NoBuf, NEW d PROVE Keeps(s, DataSent(s, d))
  <2> DEFINE x == MiniTile(s).tid
             v == Drain(s)
             n == [v EXCEPT !.send_list[x] = @ - PacketSize(s),
                            !.ddr_rel[x] = IF IsEnd(s) THEN NoDdr ELSE IF ToDram(s) THEN d ELSE @]
             t == DataSent(s, d)
  <2>1. Safe(c, v) /\ Same(s, v, {"obuf", "mini", "rc", "sd"})
    BY <1>4, DrainSafe
  <2>2. DOMAIN v = Fields
    BY <2>1, CoreFields DEF Safe, CoreTypes
  <2>3. t = IF n.wl_end /\ \A i \in Obufs : n.obuf[i] = << >>
            THEN [n EXCEPT !.overall_end = TRUE] ELSE n
    BY DEF DataSent
  <2> HIDE DEF v, t, x
  <2>4. DOMAIN n = Fields /\ Same(v, n, {"send_list", "ddr_rel"})
    BY <2>2 DEF Same, Fields
  <2> HIDE DEF n
  <2>5. Same(n, t, {"overall_end"})
    BY <2>3, <2>4 DEF Same, Fields
  <2>6. Same(s, t, Fields \ F)
    BY <2>1, <2>4, <2>5 DEF Same, Fields
  <2>7. Keeps(s, t)
    BY <1>2, <2>6
  <2> QED
    BY <2>7 DEF t
<1>5. ASSUME NEW t, NEW d, NEW j PROVE Keeps(s, RequestReceived(s, t, d, j))
  <2>1. Same(s, RequestReceived(s, t, d, j), Fields \ F)
    BY <1>1 DEF RequestReceived, Same, Fields
  <2> QED
    BY <1>2, <2>1
<1>6. ASSUME NEW t \in Tids, NEW size \in Int, NEW end \in BOOLEAN
      PROVE  Keeps(s, DataReceived(s, t, size, end))
  <2>1. Same(s, DataReceived(s, t, size, end), {"s_rq", "buffer", "left_data", "dataready"})
    BY DataSeen
  <2>2. Same(s, DataReceived(s, t, size, end), Fields \ F)
    BY <2>1 DEF Same, Fields
  <2> QED
    BY <1>2, <2>2
<1> QED
  BY <1>3, <1>4, <1>5, <1>6

(* A job begins with all its inputs in the buffer, so that what it depends on *)
(* has ended.                                                              *)
LEMMA BegunReady ==
  ASSUME NEW k, NEW c \in Cores, CoreOk(k, c), NEW v, Begins(c, k[c], v),
         NEW j \in DependsOn[<<c, k[c].cur>>]
  PROVE  j[2] <= EndedOf(k[j[1]])
<1> DEFINE s == k[c]
           n == s.cur
           i == <<c, n>>
<1>1. n \in 1 .. Len(Workloads[c]) /\ s.dataready /\ n \in DOMAIN Workloads[c]
  BY WorkloadsType DEF Begins
<1>2. i \in AllJobs /\ Job(i) = Workloads[c][n]
  BY <1>1, JobsAre DEF Job
<1>3. j \in AllJobs /\ \E t \in Job(i).need : Writes(j) \cap Sources(t) # {}
  BY <1>2 DEF DependsOn
<1> HIDE DEF i
<1>4. PICK t \in Workloads[c][n].need : Writes(j) \cap Sources(t) # {}
  BY <1>2, <1>3
<1>5. <<Workloads[c][n].layer, t>> \in s.buffer
  BY <1>1, <1>4 DEF CoreOk, Fed, CurWl, Has
<1>6. Finished(k, t)
  <2> DEFINE x == <<Workloads[c][n].layer, t>>
  <2>1. x \in s.buffer /\ x[2] = t
    BY <1>5
  <2> HIDE DEF x
  <2> QED
    BY <2>1 DEF CoreOk
<1> QED
  BY <1>3, <1>4, <1>6 DEF Finished

(* The state of the promise.                                                  *)
BegunBy(k) == [c \in Cores |-> BegunOf(k[c])]
EndedBy(k) == [c \in Cores |-> EndedOf(k[c])]
Turns(c, s, v) == Keeps(s, v) \/ Begins(c, s, v) \/ Ends(c, s, v)

(* A core's turn is a step of the promise, or none.                           *)
LEMMA TurnMaps ==
  ASSUME AllOk(core), NEW c \in Cores, NEW v, Turns(c, core[c], v), core' = [core EXCEPT ![c] = v]
  PROVE  [Promise!Next]_(Promise!vars)
<1>1. /\ DOMAIN core = Cores /\ CoreOk(core, c) /\ Safe(c, core[c])
      /\ core'[c] = v /\ \A x \in Cores : x # c => core'[x] = core[x]
  BY DEF AllOk, CoreOk
<1>2. CASE Keeps(core[c], v)
  <2>1. BegunBy(core') = BegunBy(core) /\ EndedBy(core') = EndedBy(core)
    BY <1>1, <1>2 DEF BegunBy, EndedBy, Keeps
  <2> QED
    BY <2>1 DEF Promise!vars, BegunBy, EndedBy
<1>3. CASE Begins(c, core[c], v)
  <2> DEFINE n == core[c].cur
  <2>1. n \in 1 .. Len(Workloads[c]) /\ n \in Nat /\ Len(Workloads[c]) \in Nat
        /\ BegunOf(core[c]) = n - 1 /\ EndedOf(core[c]) = n - 1
        /\ BegunOf(v) = n /\ EndedOf(v) = n - 1
    BY <1>1, <1>3, TurnFlags DEF Begins
  <2>2. \A j \in DependsOn[<<c, n>>] : j[2] <= EndedOf(core[j[1]]) /\ j[1] \in Cores
    <3>1. \A j \in DependsOn[<<c, n>>] : j[2] <= EndedOf(core[j[1]])
      BY <1>1, <1>3, BegunReady
    <3>2. <<c, n>> \in AllJobs
      BY <2>1, JobsAre, WorkloadsType
    <3>3. \A j \in DependsOn[<<c, n>>] : j \in AllJobs
      BY <3>2 DEF DependsOn
    <3> QED
      BY <3>1, <3>3, JobsAre
  <2> HIDE DEF n
  <2>3. /\ BegunBy(core)[c] = EndedBy(core)[c] /\ BegunBy(core)[c] < Len(Workloads[c])
        /\ BegunBy(core)[c] + 1 = n
        /\ \A j \in DependsOn[<<c, n>>] : j[2] <= EndedBy(core)[j[1]]
    BY <2>1, <2>2 DEF BegunBy, EndedBy
  <2>4. /\ BegunBy(core') = [BegunBy(core) EXCEPT ![c] = BegunBy(core)[c] + 1]
        /\ EndedBy(core') = EndedBy(core)
    <3>1. BegunOf(core'[c]) = BegunOf(core[c]) + 1 /\ EndedOf(core'[c]) = EndedOf(core[c])
      BY <1>1, <2>1
    <3>2. \A x \in Cores : x # c => core'[x] = core[x]
      BY <1>1
    <3>3. \A x \in Cores : /\ BegunBy(core)[x] = BegunOf(core[x]) /\ BegunBy(core')[x] = BegunOf(core'[x])
                            /\ EndedOf(core'[x]) = EndedOf(core[x])
      BY <3>1, <3>2 DEF BegunBy
    <3>4. DOMAIN BegunBy(core) = Cores
      BY DEF BegunBy
    <3>5. BegunBy(core') = [x \in Cores |-> IF x = c THEN BegunBy(core)[c] + 1 ELSE BegunBy(core)[x]]
      BY <3>1, <3>2, <3>3 DEF BegunBy
    <3>6. EndedBy(core') = EndedBy(core)
      BY <3>3 DEF EndedBy
    <3> QED
      BY <3>4, <3>5, <3>6
  <2>5. Promise!Begin(c)
    BY <2>3, <2>4 DEF Promise!Begin, BegunBy, EndedBy
  <2> QED
    BY <2>5 DEF Promise!Next
<1>4. CASE Ends(c, core[c], v)
  <2>1. /\ BegunOf(core[c]) = core[c].cur /\ EndedOf(core[c]) = core[c].cur - 1
        /\ BegunOf(v) = core[c].cur /\ EndedOf(v) = core[c].cur /\ core[c].cur \in Nat
    BY <1>1, <1>4, TurnFlags DEF Ends
  <2>2. EndedBy(core)[c] < BegunBy(core)[c]
    BY <2>1 DEF BegunBy, EndedBy
  <2>3. /\ EndedBy(core') = [EndedBy(core) EXCEPT ![c] = EndedBy(core)[c] + 1]
        /\ BegunBy(core') = BegunBy(core)
    <3>1. EndedOf(core'[c]) = EndedOf(core[c]) + 1 /\ BegunOf(core'[c]) = BegunOf(core[c])
      BY <1>1, <2>1
    <3>2. \A x \in Cores : x # c => core'[x] = core[x]
      BY <1>1
    <3>3. \A x \in Cores : /\ EndedBy(core)[x] = EndedOf(core[x]) /\ EndedBy(core')[x] = EndedOf(core'[x])
                            /\ BegunOf(core'[x]) = BegunOf(core[x])
      BY <3>1, <3>2 DEF EndedBy
    <3>4. DOMAIN EndedBy(core) = Cores
      BY DEF EndedBy
    <3>5. EndedBy(core') = [x \in Cores |-> IF x = c THEN EndedBy(core)[c] + 1 ELSE EndedBy(core)[x]]
      BY <3>1, <3>2, <3>3 DEF EndedBy
    <3>6. BegunBy(core') = BegunBy(core)
      BY <3>3 DEF BegunBy
    <3> QED
      BY <3>4, <3>5, <3>6
  <2>4. Promise!End(c)
    BY <2>2, <2>3 DEF Promise!End, BegunBy, EndedBy
  <2> QED
    BY <2>4 DEF Promise!Next
<1> QED
  BY <1>2, <1>3, <1>4 DEF Turns

(* What Work does may be followed by sending.                                *)
LEMMA RunTurns ==
  ASSUME AllOk(core), NEW c \in Cores, RunCore(c)
  PROVE  [Promise!Next]_(Promise!vars)
<1> DEFINE s == Work(c, core[c])
<1>1. Safe(c, core[c]) /\ Counting(core[c]) /\ Stock(c, core[c]) /\ OutputsOwn(c)
  BY InputAssumption DEF AllOk, CoreOk
<1>2. Safe(c, s) /\ Counting(s) /\ Turns(c, core[c], s)
  BY <1>1, WorkSeen, WorkTurn DEF Turns
<1>3. ASSUME NEW v, Keeps(s, v) PROVE Turns(c, core[c], v)
  BY <1>2, <1>3 DEF Turns, Keeps, Begins, Ends
<1>4. CASE RunOnly(c)
  <2>1. core' = [core EXCEPT ![c] = s]
    BY <1>4 DEF RunOnly
  <2> HIDE DEF s
  <2> QED
    BY <1>2, <2>1, TurnMaps
<1>5. CASE RunRequest(c)
  <2>1. \E r \in Head(s.to_request) : core' = [core EXCEPT ![c] = RequestSent(s, r)]
    BY <1>5 DEF RunRequest
  <2> HIDE DEF s
  <2>2. PICK r \in Head(s.to_request) : core' = [core EXCEPT ![c] = RequestSent(s, r)]
    BY <2>1
  <2>3. Turns(c, core[c], RequestSent(s, r))
    BY <1>2, <1>3, JobsKept
  <2> QED
    BY <2>2, <2>3, TurnMaps
<1>6. CASE RunSend(c)
  <2>1. s.sd # NoBuf /\ \E d \in DdrChoices(s, MiniTile(s).tid) : core' = [core EXCEPT ![c] = DataSent(s, d)]
    BY <1>6 DEF RunSend, CanSend
  <2> HIDE DEF s
  <2>2. PICK d \in DdrChoices(s, MiniTile(s).tid) : core' = [core EXCEPT ![c] = DataSent(s, d)]
    BY <2>1
  <2>3. Turns(c, core[c], DataSent(s, d))
    BY <1>2, <1>3, <2>1, JobsKept
  <2> QED
    BY <2>2, <2>3, TurnMaps
<1> QED
  BY <1>4, <1>5, <1>6 DEF RunCore

(* A packet that arrives begins and ends no job.                              *)
LEMMA DeliverTurns ==
  ASSUME IInv(core, ddr, queue, net), NEW p \in BagToSet(net), Deliver(p)
  PROVE  [Promise!Next]_(Promise!vars)
<1>1. AllOk(core) /\ FlyOk(core, p)
  BY DEF IInv, AllOk, MailOk, BagToSet
<1>2. p \in Mail(Nodes)
  BY <1>1 DEF FlyOk
<1>3. CASE p.to \notin Cores
  <2>1. core' = core
    BY <1>3 DEF Deliver
  <2> QED
    BY <2>1 DEF Promise!vars
<1>4. CASE p.to \in Cores /\ p.kind = "data"
  <2>1. core' = [core EXCEPT ![p.to] = DataReceived(core[p.to], p.tid, p.size, p.end)]
    BY <1>4 DEF Deliver
  <2>2. p.tid \in Tids /\ p.size \in Int /\ p.end \in BOOLEAN
    BY <1>2, <1>4, MailIs
  <2>3. Safe(p.to, core[p.to]) /\ Counting(core[p.to])
    BY <1>1, <1>4 DEF AllOk, CoreOk
  <2>4. Keeps(core[p.to], DataReceived(core[p.to], p.tid, p.size, p.end))
    BY <1>4, <2>2, <2>3, JobsKept
  <2> QED
    BY <1>1, <1>4, <2>1, <2>4, TurnMaps DEF Turns
<1>5. CASE p.to \in Cores /\ p.kind # "data"
  <2>1. p.kind = "request"
    BY <1>2, <1>5, MailIs
  <2>2. core' = [core EXCEPT ![p.to] = RequestReceived(core[p.to], p.tid, p.src, p.num)]
    BY <1>5, <2>1 DEF Deliver
  <2>3. Safe(p.to, core[p.to]) /\ Counting(core[p.to])
    BY <1>1, <1>5 DEF AllOk, CoreOk
  <2>4. Keeps(core[p.to], RequestReceived(core[p.to], p.tid, p.src, p.num))
    BY <1>5, <2>3, JobsKept
  <2> QED
    BY <1>1, <1>5, <2>2, <2>4, TurnMaps DEF Turns
<1> QED
  BY <1>3, <1>4, <1>5

(* Every step is one of the promise, or none.                                 *)
LEMMA StepMaps == IInv(core, ddr, queue, net) /\ [Next]_vars => [Promise!Next]_(Promise!vars)
<1> SUFFICES ASSUME IInv(core, ddr, queue, net), [Next]_vars
             PROVE  [Promise!Next]_(Promise!vars)
  OBVIOUS
<1>1. AllOk(core)
  BY DEF IInv, AllOk
<1>2. ASSUME NEW c \in Cores, RunCore(c) PROVE [Promise!Next]_(Promise!vars)
  BY <1>1, <1>2, RunTurns
<1>3. ASSUME NEW p \in BagToSet(net), Deliver(p) PROVE [Promise!Next]_(Promise!vars)
  BY <1>3, DeliverTurns
<1>4. ASSUME core' = core PROVE [Promise!Next]_(Promise!vars)
  BY <1>4 DEF Promise!vars
<1>5. \A d \in Ddrs : \A g \in {WriteTurn, ReadTurn} : RunDdr(d, g) => core' = core
  BY DEF RunDdr
<1>6. \A n \in Nodes : Inject(n) => core' = core
  BY DEF Inject
<1>7. UNCHANGED vars => core' = core
  BY DEF vars
<1> QED
  BY <1>2, <1>3, <1>4, <1>5, <1>6, <1>7 DEF Next

(* The cores and DDRs together keep the promise of Dataflow: every core runs   *)
(* its jobs in order, and begins one only when the jobs it depends on, by     *)
(* what it fetches from other cores, from itself and through DRAM, have       *)
(* ended.                                                                  *)
THEOREM PromiseKept == Spec => Implements
<1>1. Init => Promise!Init
  <2> SUFFICES ASSUME Init PROVE Promise!Init
    OBVIOUS
  <2>1. \A c \in Cores : BegunOf(core[c]) = 0 /\ EndedOf(core[c]) = 0
    BY CoreNew DEF Init
  <2> QED
    BY <2>1 DEF Promise!Init
<1>2. IInv(core, ddr, queue, net) /\ [Next]_vars => [Promise!Next]_(Promise!vars)
  BY StepMaps
<1> QED
  BY <1>1, <1>2, Sound, PTL DEF Spec, Implements, Promise!Spec
=============================================================================
