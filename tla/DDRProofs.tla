------------------------------ MODULE DDRProofs ------------------------------
(***************************************************************************)
(* What is proved of a DDR for any number of routers, any bandwidth, any     *)
(* input and any output: the counters of the write queue, that the router    *)
(* the arbiter chose is still free when its turn comes, and in the second    *)
(* half that every output is served exactly.  The operators of DDROps get    *)
(* one lemma each that says what happens to the fields of the record; DdrInv *)
(* and then ServedInv are inductive.                                       *)
(***************************************************************************)
EXTENDS DDR, SumLemmas, SequenceTheorems

(* The fields of the record of a DDR.                                      *)
Fields == {"fifo", "in_fifo", "end_set", "ofm", "data", "packets", "grant", "router",
           "time_cnt", "granted", "ticked"}

(* A sequence, of whatever.                                                *)
Listed(q) == Len(q) \in Nat /\ q \in [1 .. Len(q) -> {q[i] : i \in 1 .. Len(q)}]

-----------------------------------------------------------------------------
Shape ==
  /\ DOMAIN ddr = Fields
  /\ Listed(ddr.fifo) /\ \A i \in 1 .. Len(ddr.fifo) : ddr.fifo[i].tid \in Tids
  /\ ddr.in_fifo \in [Tids -> Int] /\ ddr.end_set \subseteq Tids
  /\ Listed(ddr.data)
  /\ ddr.grant \in {ReadTurn, NoGrant} /\ ddr.router \in Routers \cup {NoRouter}
  /\ ddr.granted \in BOOLEAN
  /\ turn \in Routers \cup {0} /\ free \subseteq Routers /\ DOMAIN queue = Routers

(* While a router is chosen there is something to serve, and it was chosen    *)
(* either in this cycle or in the one before, with the channel idle since:   *)
(* so the arbiter, if it draws again before the turn of the router, does it  *)
(* at the first turn, while the list of free routers still holds.           *)
Chosen ==
  ddr.router # NoRouter =>
    /\ ddr.packets # << >> \/ ddr.data # << >>
    /\ turn <= 1 => ddr.time_cnt = 0 /\ ~ddr.granted
    /\ turn > 1 => ddr.granted /\ (ddr.router >= turn \/ ddr.time_cnt = 0)

(* The list of free routers is right when the cycle begins, and until the     *)
(* arbiter has drawn.                                                      *)
FreeRight ==
  /\ turn = 1 => free = {r \in Routers : queue[r] = NoPacket}
  /\ turn # 0 /\ ~ddr.granted => \A r \in free : queue[r] = NoPacket

(* The inductive invariant.                                                *)
DdrInv == Shape /\ Chosen /\ FreeRight /\ GrantedRouterFree /\ FifoCounted

-----------------------------------------------------------------------------
(* Listed and the sequences of the library are the same thing.             *)
LEMMA ListedSeq ==
  ASSUME NEW q, Listed(q)
  PROVE  q \in Seq({q[i] : i \in 1 .. Len(q)}) /\ DOMAIN q = 1 .. Len(q)
  BY DEF Listed

(* A sequence over any set is listed.                                      *)
LEMMA SeqListed ==
  ASSUME NEW S, NEW q \in Seq(S)
  PROVE  Listed(q)
  BY DEF Listed

(* Any function on 1 .. n is a sequence.                                   *)
LEMMA CountedListed ==
  ASSUME NEW n \in Nat, NEW q, DOMAIN q = 1 .. n, q = [i \in 1 .. n |-> q[i]]
  PROVE  Listed(q) /\ Len(q) = n
<1> DEFINE S == {q[i] : i \in 1 .. n}
<1>1. q \in [1 .. n -> S]
  OBVIOUS
<1> HIDE DEF S
<1>2. q \in Seq(S) /\ Len(q) = n
  BY <1>1
<1> QED
  BY <1>2, SeqListed

(* Appending to a sequence, or joining another to it, gives a longer one.    *)
LEMMA JoinedListed ==
  ASSUME NEW q, NEW r, Listed(q), Listed(r)
  PROVE  Listed(q \o r) /\ (q # << >> => q \o r # << >>)
<1> DEFINE S == {q[i] : i \in 1 .. Len(q)}
           T == {r[i] : i \in 1 .. Len(r)}
<1>1. q \in Seq(S) /\ r \in Seq(T)
  BY ListedSeq
<1> HIDE DEF S, T
<1>2. q \in Seq(S \cup T) /\ r \in Seq(S \cup T)
  BY <1>1
<1>3. q \o r \in Seq(S \cup T) /\ (q # << >> => q \o r # << >>)
  BY <1>2
<1> QED
  BY <1>3, SeqListed

(* SetToSeq is a sequence of a finite set.                                 *)
LEMMA SetToSeqListed ==
  ASSUME NEW S, IsFiniteSet(S)
  PROVE  Listed(SetToSeq(S))
<1>1. Cardinality(S) \in Nat /\ ExistsBijection(1 .. Cardinality(S), S)
  BY FS_CardinalityType
<1>2. \E f \in [1 .. Cardinality(S) -> S] : IsInjective(f)
  BY <1>1 DEF ExistsBijection, Bijection, Injection, IsInjective
<1>3. SetToSeq(S) \in [1 .. Cardinality(S) -> S]
  BY <1>2 DEF SetToSeq
<1>4. SetToSeq(S) \in Seq(S)
  BY <1>1, <1>3
<1> QED
  BY <1>4, SeqListed

-----------------------------------------------------------------------------
(* t differs from s at most in the fields F.                                *)
Same(s, t, F) == DOMAIN t = Fields /\ \A f \in Fields \ F : t[f] = s[f]

(* The AND-join only adds to the data that waits for the read side.          *)
LEMMA JoinFields ==
  ASSUME NEW s, DOMAIN s = Fields, Listed(s.data), NEW T \in SUBSET Tids
  PROVE  /\ Same(s, Join(s, T), {"data", "ofm"})
         /\ Listed(Join(s, T).data)
         /\ s.data # << >> => Join(s, T).data # << >>
<1> DEFINE ready == {t \in T : s.ofm[t].ifmaps = 0 /\ s.ofm[t].requests = 0}
           E == {[tid |-> t, left |-> Share(OutOf(t))] : t \in ready}
           J == Join(s, T)
           new == [t \in Tids |-> IF t \in ready THEN Erased ELSE s.ofm[t]]
<1>1. J = [s EXCEPT !.data = @ \o SetToSeq(E), !.ofm = new]
  BY DEF Join
<1>2. IsFiniteSet(ready)
  BY DDRAssumption, FS_Subset
<1>3. IsFiniteSet(E)
  <2> DEFINE f == [t \in ready |-> [tid |-> t, left |-> Share(OutOf(t))]]
  <2> HIDE DEF ready
  <2>1. f \in Surjection(ready, E)
    BY DEF Surjection
  <2> HIDE DEF E, f
  <2> QED
    BY <1>2, <2>1, FS_Surjection
<1>4. Listed(SetToSeq(E))
  <2> HIDE DEF E
  <2> QED
    BY <1>3, SetToSeqListed
<1> HIDE DEF E, ready, new, J
<1>5. Same(s, J, {"data", "ofm"}) /\ J.data = s.data \o SetToSeq(E)
  BY <1>1 DEF Same, Fields
<1>6. Listed(J.data) /\ (s.data # << >> => J.data # << >>)
  BY <1>4, <1>5, JoinedListed
<1> QED
  BY <1>5, <1>6 DEF J

(* One call of the arbiter takes the record from ddr to a.                   *)
Arbitrated(g, q, a) == a = Arbitrate(ddr, free, g, q)

(* What it may change.                                                     *)
ArbiterFields == {"grant", "granted", "router", "time_cnt", "ticked"}

(* What it leaves when it draws g, and q with it.                           *)
Drawn(g, q, a) ==
  /\ Same(ddr, a, ArbiterFields)
  /\ a.grant = g /\ a.granted = TRUE /\ a.time_cnt = ddr.time_cnt
  /\ g = ReadTurn => a.router = q
  /\ g # ReadTurn => a.router = ddr.router

(* What it leaves when it does not.                                        *)
Undrawn(a) ==
  /\ Same(ddr, a, ArbiterFields)
  /\ a.grant = ddr.grant /\ a.granted = ddr.granted /\ a.router = ddr.router
  /\ ddr.time_cnt = 0 \/ ddr.granted => a.time_cnt = ddr.time_cnt

(* It draws once per cycle, when the channel is idle.                       *)
LEMMA ArbiterDraws ==
  ASSUME DOMAIN ddr = Fields, NEW g, NEW q, NEW a, Arbitrated(g, q, a),
         Arbitrates(ddr, free)
  PROVE  Drawn(g, q, a)
<1> DEFINE x == IF g = ReadTurn THEN q ELSE ddr.router
<1>1. a = [ddr EXCEPT !.grant = g, !.granted = TRUE, !.router = x]
  BY DEF Arbitrated, Arbitrate
<1> HIDE DEF x
<1>2. /\ Same(ddr, a, ArbiterFields)
      /\ a.grant = g /\ a.granted = TRUE /\ a.time_cnt = ddr.time_cnt /\ a.router = x
  BY <1>1 DEF ArbiterFields, Same, Fields
<1> QED
  BY <1>2 DEF x, Drawn

(* Otherwise it only counts the cycles of the last packet.                  *)
LEMMA ArbiterCounts ==
  ASSUME DOMAIN ddr = Fields, NEW g, NEW q, NEW a, Arbitrated(g, q, a),
         ~Arbitrates(ddr, free)
  PROVE  Undrawn(a)
<1>1. CASE ddr.time_cnt # 0 /\ ~ddr.ticked /\ ~ddr.granted
  <2>1. a = [ddr EXCEPT !.time_cnt = @ - 1, !.ticked = TRUE]
    BY <1>1 DEF Arbitrated, Arbitrate
  <2>2. /\ Same(ddr, a, ArbiterFields)
        /\ a.grant = ddr.grant /\ a.granted = ddr.granted /\ a.router = ddr.router
    BY <2>1 DEF ArbiterFields, Same, Fields
  <2> QED
    BY <1>1, <2>2 DEF Undrawn
<1>2. CASE ~(ddr.time_cnt # 0 /\ ~ddr.ticked /\ ~ddr.granted)
  <2>1. a = ddr
    BY <1>2 DEF Arbitrated, Arbitrate
  <2> QED
    BY <2>1 DEF ArbiterFields, Same, Undrawn
<1> QED
  BY <1>1, <1>2

(* What a drain leaves of s.                                               *)
Drained(s, d) ==
  LET t == Head(s.fifo).tid
  IN  /\ Same(s, d, {"grant", "time_cnt", "fifo", "in_fifo", "end_set", "ofm", "data"})
      /\ d.grant = NoGrant /\ d.fifo = Tail(s.fifo)
      /\ d.in_fifo = [s.in_fifo EXCEPT ![t] = @ - 1]
      /\ d.end_set \subseteq s.end_set
      /\ s.in_fifo[t] = 1 => t \notin d.end_set
      /\ Listed(d.data) /\ (s.data # << >> => d.data # << >>)

(* A drain takes the head of the write queue; the end mark of the transfer    *)
(* goes with its last packet.                                              *)
LEMMA DrainFields ==
  ASSUME NEW s, DOMAIN s = Fields, Listed(s.data), Head(s.fifo).tid \in Tids
  PROVE  Drained(s, DrainOne(s))
<1> DEFINE p == Head(s.fifo)
           last == s.in_fifo[p.tid] = 1 /\ p.tid \in s.end_set
           n == Cycles(p.size) - 1
           d == [s EXCEPT !.grant = NoGrant, !.time_cnt = n,
                          !.fifo = Tail(@), !.in_fifo[p.tid] = @ - 1]
           c == [d EXCEPT !.end_set = @ \ {p.tid}]
           x == [c EXCEPT !.ofm = [t \in Tids |-> IF t \in DramIn[p.tid]
                                                  THEN [c.ofm[t] EXCEPT !.ifmaps = @ - 1]
                                                  ELSE c.ofm[t]]]
           z == DrainOne(s)
<1>1. z = IF last THEN Join(x, DramIn[p.tid]) ELSE d
  BY DEF DrainOne, Counted
<1>2. DramIn[p.tid] \in SUBSET Tids
  BY DDRAssumption
<1> HIDE DEF p, n
<1>3. /\ Same(s, d, {"grant", "time_cnt", "fifo", "in_fifo"})
      /\ d.grant = NoGrant /\ d.fifo = Tail(s.fifo)
      /\ d.in_fifo = [s.in_fifo EXCEPT ![p.tid] = @ - 1]
  BY DEF Same, Fields
<1> HIDE DEF d
<1>4. Same(d, c, {"end_set"}) /\ c.end_set = d.end_set \ {p.tid}
  BY <1>3 DEF Same, Fields
<1> HIDE DEF c
<1>5. Same(c, x, {"ofm"})
  BY <1>4 DEF Same, Fields
<1> HIDE DEF x
<1>6. CASE last
  <2>1. x.data = s.data /\ DOMAIN x = Fields
    BY <1>3, <1>4, <1>5 DEF Same, Fields
  <2>2. /\ Same(x, z, {"data", "ofm"})
        /\ Listed(z.data) /\ (s.data # << >> => z.data # << >>)
    BY <1>1, <1>2, <1>6, <2>1, JoinFields
  <2> HIDE DEF z, last
  <2>3. Same(s, z, {"grant", "time_cnt", "fifo", "in_fifo", "end_set", "ofm", "data"})
    BY <1>3, <1>4, <1>5, <2>2 DEF Same, Fields
  <2>4. /\ z.grant = NoGrant /\ z.fifo = Tail(s.fifo)
        /\ z.in_fifo = [s.in_fifo EXCEPT ![p.tid] = @ - 1]
        /\ z.end_set = s.end_set \ {p.tid}
    BY <1>3, <1>4, <1>5, <2>2 DEF Same, Fields
  <2> QED
    BY <2>2, <2>3, <2>4 DEF z, p, Drained
<1>7. CASE ~last
  <2>1. z = d
    BY <1>1, <1>7
  <2> HIDE DEF z
  <2>2. Same(s, z, {"grant", "time_cnt", "fifo", "in_fifo", "end_set", "ofm", "data"})
    BY <1>3, <2>1 DEF Same, Fields
  <2>3. z.end_set = s.end_set /\ z.data = s.data
    BY <1>3, <2>1 DEF Same, Fields
  <2> QED
    BY <1>3, <1>7, <2>1, <2>2, <2>3 DEF z, p, Drained
<1> QED
  BY <1>6, <1>7

(* The second half of the loop of the read side leaves a sequence.           *)
LEMMA CutListed ==
  ASSUME NEW q, Listed(q)
  PROVE  Listed(CutRest(q)) /\ (q # << >> => CutPackets(q) # << >>)
<1> DEFINE long == {i \in DOMAIN q : q[i].left > PacketBytes}
           nth(k) == CHOOSE i \in long : Cardinality({h \in long : h <= i}) = k
           e(k) == [q[nth(k)] EXCEPT !.left = @ - PacketBytes]
           r == [k \in 1 .. Cardinality(long) |-> e(k)]
<1>1. DOMAIN q = 1 .. Len(q) /\ Len(q) \in Nat
  BY DEF Listed
<1>2. IsFiniteSet(long)
  <2>1. IsFiniteSet(1 .. Len(q)) /\ long \in SUBSET (1 .. Len(q))
    BY <1>1, FS_Interval
  <2> HIDE DEF long
  <2> QED
    BY <2>1, FS_Subset
<1> HIDE DEF long
<1>3. Cardinality(long) \in Nat
  BY <1>2, FS_CardinalityType
<1>4. Listed(r)
  <2> HIDE DEF e
  <2>1. DOMAIN r = 1 .. Cardinality(long) /\ r = [i \in 1 .. Cardinality(long) |-> r[i]]
    OBVIOUS
  <2> HIDE DEF r
  <2> QED
    BY <1>3, <2>1, CountedListed
<1>5. CutRest(q) = r
  BY Zenon DEF CutRest, long
<1>6. q # << >> => CutPackets(q) # << >>
  <2>1. DOMAIN CutPackets(q) = DOMAIN q
    BY DEF CutPackets
  <2>2. q # << >> => Len(q) # 0
    BY ListedSeq
  <2> QED
    BY <1>1, <2>1, <2>2
<1> QED
  BY <1>4, <1>5, <1>6
(* A packet that is served empties the choice of the router and the grant.   *)
LEMMA ServeFields ==
  ASSUME NEW s, DOMAIN s = Fields, Listed(s.data)
  PROVE  LET e == ServeOne(s)
         IN  /\ Same(s, e, {"packets", "data", "time_cnt", "grant", "router"})
             /\ e.grant = NoGrant /\ e.router = NoRouter /\ Listed(e.data)
<1> DEFINE f == Refill(s)
           e == ServeOne(s)
           n == Cycles(Head(f.packets).size) - 1
<1>1. Same(s, f, {"packets", "data"}) /\ Listed(f.data)
  <2>1. CASE s.packets # << >>
    BY <2>1 DEF Refill, Same
  <2>2. CASE s.packets = << >>
    <3> DEFINE c == CutPackets(s.data)
               d == CutRest(s.data)
    <3>1. f = [s EXCEPT !.packets = c, !.data = d]
      BY <2>2 DEF Refill
    <3>2. Listed(d)
      BY CutListed
    <3> HIDE DEF f, c, d
    <3>3. Same(s, f, {"packets", "data"}) /\ f.data = d
      BY <3>1 DEF Same, Fields
    <3> QED
      BY <3>2, <3>3 DEF f
  <2> QED
    BY <2>1, <2>2
<1>2. e = [f EXCEPT !.packets = Tail(@), !.time_cnt = n, !.grant = NoGrant, !.router = NoRouter]
  BY DEF ServeOne
<1> HIDE DEF e, f, n
<1>3. /\ Same(s, e, {"packets", "data", "time_cnt", "grant", "router"})
      /\ e.grant = NoGrant /\ e.router = NoRouter /\ e.data = f.data
  BY <1>1, <1>2 DEF Same, Fields
<1> QED
  BY <1>1, <1>3 DEF e

-----------------------------------------------------------------------------
(* How many packets of transfer t the write queue q holds.                  *)
Held(q, t) == Cardinality({i \in DOMAIN q : q[i].tid = t})

(* A packet that joins the queue is behind the others.                      *)
LEMMA AppendListed ==
  ASSUME NEW q, Listed(q), NEW e
  PROVE  /\ Listed(Append(q, e)) /\ Len(Append(q, e)) = Len(q) + 1
         /\ \A i \in 1 .. Len(q) : Append(q, e)[i] = q[i]
         /\ Append(q, e)[Len(q) + 1] = e
<1> DEFINE S == {q[i] : i \in 1 .. Len(q)}
           a == Append(q, e)
<1>1. q \in Seq(S) /\ DOMAIN q = 1 .. Len(q) /\ Len(q) \in Nat
  BY ListedSeq DEF Listed
<1> HIDE DEF S
<1>2. q \in Seq(S \cup {e}) /\ e \in S \cup {e}
  BY <1>1
<1>3. /\ a \in Seq(S \cup {e}) /\ Len(a) = Len(q) + 1
      /\ \A i \in 1 .. Len(q) : a[i] = q[i]
      /\ a[Len(q) + 1] = e
  BY <1>1, <1>2
<1>4. Listed(a)
  BY <1>3, SeqListed
<1> QED
  BY <1>3, <1>4

(* It is one more of its transfer and of no other.                          *)
LEMMA HeldAppend ==
  ASSUME NEW q, Listed(q), NEW e, NEW t
  PROVE  /\ Held(q, t) \in Nat
         /\ Held(Append(q, e), t) = IF e.tid = t THEN Held(q, t) + 1 ELSE Held(q, t)
<1> DEFINE S == {q[i] : i \in 1 .. Len(q)}
           a == Append(q, e)
           I == {i \in DOMAIN q : q[i].tid = t}
           J == {i \in DOMAIN a : a[i].tid = t}
<1>1. q \in Seq(S) /\ DOMAIN q = 1 .. Len(q) /\ Len(q) \in Nat
  BY ListedSeq DEF Listed
<1> HIDE DEF S
<1>2. q \in Seq(S \cup {e}) /\ e \in S \cup {e}
  BY <1>1
<1>3. /\ a \in Seq(S \cup {e}) /\ Len(a) = Len(q) + 1 /\ DOMAIN a = 1 .. Len(q) + 1
      /\ \A i \in 1 .. Len(q) : a[i] = q[i]
      /\ a[Len(q) + 1] = e
  BY <1>1, <1>2
<1> HIDE DEF a
<1>4. J = IF e.tid = t THEN I \cup {Len(q) + 1} ELSE I
  BY <1>1, <1>3
<1>5. Len(q) + 1 \notin I
  BY <1>1
<1>6. IsFiniteSet(I)
  <2>1. IsFiniteSet(1 .. Len(q)) /\ I \in SUBSET (1 .. Len(q))
    BY <1>1, FS_Interval
  <2> HIDE DEF I
  <2> QED
    BY <2>1, FS_Subset
<1> HIDE DEF I, J
<1>7. Cardinality(I) \in Nat /\ Cardinality(I \cup {Len(q) + 1}) = Cardinality(I) + 1
  BY <1>5, <1>6, FS_CardinalityType, FS_AddElement
<1>8. Held(q, t) = Cardinality(I) /\ Held(a, t) = Cardinality(J)
  BY DEF Held, I, J
<1> QED
  BY <1>4, <1>7, <1>8 DEF a

(* The packet that leaves the queue is its first.                           *)
LEMMA TailListed ==
  ASSUME NEW q, Listed(q), q # << >>
  PROVE  /\ Listed(Tail(q)) /\ Len(Tail(q)) = Len(q) - 1
         /\ Len(q) \in Nat /\ Len(q) > 0 /\ Head(q) = q[1]
         /\ \A i \in 1 .. Len(q) - 1 : Tail(q)[i] = q[i + 1]
<1> DEFINE S == {q[i] : i \in 1 .. Len(q)}
           a == Tail(q)
<1>1. q \in Seq(S) /\ Len(q) \in Nat
  BY ListedSeq DEF Listed
<1> HIDE DEF S
<1>2. /\ a \in Seq(S) /\ Len(a) = Len(q) - 1 /\ Len(q) > 0 /\ Head(q) = q[1]
      /\ \A i \in 1 .. Len(q) - 1 : a[i] = q[i + 1]
  BY <1>1
<1>3. Listed(a)
  BY <1>2, SeqListed
<1> QED
  BY <1>1, <1>2, <1>3

(* It is one less of its transfer and of no other.                          *)
LEMMA HeldTail ==
  ASSUME NEW q, Listed(q), q # << >>, NEW t
  PROVE  /\ Held(q, t) \in Nat
         /\ Held(Tail(q), t) = IF Head(q).tid = t THEN Held(q, t) - 1 ELSE Held(q, t)
<1> DEFINE S == {q[i] : i \in 1 .. Len(q)}
           a == Tail(q)
           I == {i \in DOMAIN q : q[i].tid = t}
           J == {i \in DOMAIN a : a[i].tid = t}
           f == [j \in J |-> j + 1]
<1>1. q \in Seq(S) /\ DOMAIN q = 1 .. Len(q) /\ Len(q) \in Nat
  BY ListedSeq DEF Listed
<1> HIDE DEF S
<1>2. /\ a \in Seq(S) /\ Len(a) = Len(q) - 1 /\ Len(q) > 0 /\ DOMAIN a = 1 .. Len(q) - 1
      /\ \A i \in 1 .. Len(q) - 1 : a[i] = q[i + 1]
      /\ Head(q) = q[1]
  BY <1>1
<1> HIDE DEF a
<1>3. I \subseteq 1 .. Len(q) /\ J \subseteq 1 .. Len(q) - 1
  BY <1>1, <1>2
<1>4. IsFiniteSet(I) /\ IsFiniteSet(J)
  <2>1. IsFiniteSet(1 .. Len(q)) /\ IsFiniteSet(1 .. Len(q) - 1)
    BY <1>1, FS_Interval
  <2> HIDE DEF I, J
  <2> QED
    BY <1>3, <2>1, FS_Subset
<1>5. f \in Bijection(J, I \ {1})
  <2>1. \A i \in I \ {1} : i - 1 \in J /\ (i - 1) + 1 = i
    BY <1>1, <1>2
  <2>2. \A j \in J : j + 1 \in I \ {1} /\ j \in Int
    BY <1>1, <1>2
  <2> HIDE DEF I, J
  <2>3. f \in [J -> I \ {1}] /\ \A x, y \in J : f[x] = f[y] => x = y
    BY <2>2
  <2>4. \A i \in I \ {1} : \E j \in J : f[j] = i
    BY <2>1
  <2> HIDE DEF f
  <2> QED
    BY <2>3, <2>4 DEF Bijection, Injection, Surjection, IsInjective
<1>6. (1 \in I) <=> (Head(q).tid = t)
  BY <1>1, <1>2
<1> HIDE DEF I, J, f
<1>7. Cardinality(J) = Cardinality(I \ {1})
  BY <1>4, <1>5, FS_Bijection DEF ExistsBijection
<1>8. Cardinality(I) \in Nat /\ Cardinality(I \ {1}) = IF 1 \in I THEN Cardinality(I) - 1 ELSE Cardinality(I)
  BY <1>4, FS_CardinalityType, FS_RemoveElement
<1>9. Held(q, t) = Cardinality(I) /\ Held(a, t) = Cardinality(J)
  BY DEF Held, I, J
<1> QED
  BY <1>6, <1>7, <1>8, <1>9 DEF a
-----------------------------------------------------------------------------
(* The routers are numbered from 1 in the order in which they run.          *)
LEMMA Order ==
  /\ 1 \in Routers /\ Routers \subseteq Nat \ {0} /\ NoRouter \notin Routers
  /\ LastRouter \in Routers /\ \A r \in Routers : r <= LastRouter
  /\ \A r \in Routers \ {LastRouter} : r + 1 \in Routers
<1>1. Cardinality(Routers) \in Nat
  BY RoutersAssumption, FS_CardinalityType
<1>2. Cardinality(Routers) # 0 /\ Routers = 1 .. Cardinality(Routers)
  BY <1>1, RoutersAssumption
<1>3. Cardinality(Routers) \in Routers /\ \A r \in Routers : r <= Cardinality(Routers)
  BY <1>1, <1>2
<1>4. LastRouter \in Routers /\ \A r \in Routers : r <= LastRouter
  BY <1>3 DEF LastRouter
<1> HIDE DEF LastRouter
<1>5. LastRouter = Cardinality(Routers)
  BY <1>1, <1>2, <1>3, <1>4
<1> QED
  BY <1>1, <1>2, <1>4, <1>5 DEF NoRouter

(* The invariant holds at the start.                                       *)
LEMMA InitInv == Init => DdrInv
<1> SUFFICES ASSUME Init PROVE DdrInv
  OBVIOUS
<1>1. /\ DOMAIN ddr = Fields /\ ddr.fifo = << >> /\ ddr.in_fifo = [t \in Tids |-> 0]
      /\ ddr.end_set = {} /\ ddr.data = << >> /\ ddr.grant = NoGrant
      /\ ddr.router = NoRouter /\ ddr.granted = TRUE
  BY DEF Init, DDRInit, Fields
<1>2. Listed(<< >>) /\ Len(<< >>) = 0
  BY DEF Listed
<1>3. Shape
  <2>1. ddr.in_fifo \in [Tids -> Int]
    BY <1>1
  <2>2. Listed(ddr.fifo) /\ Listed(ddr.data) /\ Len(ddr.fifo) = 0
    BY <1>1, <1>2
  <2>3. turn = 0 /\ free = Routers /\ DOMAIN queue = Routers
    BY DEF Init
  <2>4. \A i \in 1 .. Len(ddr.fifo) : ddr.fifo[i].tid \in Tids
    BY <2>2
  <2>5. ddr.end_set \subseteq Tids /\ ddr.grant \in {ReadTurn, NoGrant}
    BY <1>1
  <2>6. turn \in Routers \cup {0} /\ free \subseteq Routers
    BY <2>3
  <2>7. ddr.router \in Routers \cup {NoRouter} /\ ddr.granted \in BOOLEAN
    BY <1>1
  <2> QED
    BY <1>1, <2>1, <2>2, <2>3, <2>4, <2>5, <2>6, <2>7, Zenon DEF Shape
<1>4. FifoCounted
  <2>1. \A t : {i \in DOMAIN ddr.fifo : ddr.fifo[i].tid = t} = {}
    BY <1>1
  <2>2. Cardinality({}) = 0
    BY FS_EmptySet
  <2> QED
    BY <1>1, <2>1, <2>2 DEF FifoCounted
<1> QED
  BY <1>1, <1>3, <1>4, Order DEF DdrInv, Chosen, FreeRight, GrantedRouterFree, Init

(* The parts that read the record only: what the write queue has.           *)
Counts(s) ==
  /\ Listed(s.fifo) /\ \A i \in 1 .. Len(s.fifo) : s.fifo[i].tid \in Tids
  /\ s.in_fifo \in [Tids -> Int] /\ s.end_set \subseteq Tids
  /\ \A t \in Tids : s.in_fifo[t] = Held(s.fifo, t)
  /\ \A t \in s.end_set : s.in_fifo[t] > 0

(* Draining the head of the queue keeps the counters right.                  *)
LEMMA DrainCounts ==
  ASSUME NEW s, DOMAIN s = Fields, Listed(s.data), Counts(s), s.fifo # << >>
  PROVE  Counts(DrainOne(s)) /\ Head(s.fifo).tid \in Tids
<1> DEFINE d == DrainOne(s)
           p == Head(s.fifo)
<1>1. /\ Len(s.fifo) \in Nat /\ Len(s.fifo) > 0 /\ p = s.fifo[1] /\ p.tid \in Tids
  <2>1. Listed(s.fifo) /\ \A i \in 1 .. Len(s.fifo) : s.fifo[i].tid \in Tids
    BY DEF Counts
  <2>2. Len(s.fifo) \in Nat /\ Len(s.fifo) > 0 /\ p = s.fifo[1]
    BY <2>1, TailListed
  <2> QED
    BY <2>1, <2>2
<1>2. /\ d.fifo = Tail(s.fifo)
      /\ d.in_fifo = [s.in_fifo EXCEPT ![p.tid] = @ - 1]
      /\ d.end_set \subseteq s.end_set
      /\ s.in_fifo[p.tid] = 1 => p.tid \notin d.end_set
  <2>1. Drained(s, d)
    BY <1>1, DrainFields
  <2> QED
    BY <2>1 DEF Drained
<1> HIDE DEF d, p
<1>3. /\ Listed(d.fifo) /\ Len(d.fifo) = Len(s.fifo) - 1
      /\ \A i \in 1 .. Len(s.fifo) - 1 : d.fifo[i] = s.fifo[i + 1]
      /\ \A t : /\ Held(s.fifo, t) \in Nat
               /\ Held(d.fifo, t) = IF p.tid = t THEN Held(s.fifo, t) - 1 ELSE Held(s.fifo, t)
  <2>1. Listed(s.fifo)
    BY DEF Counts
  <2>2. /\ Listed(d.fifo) /\ Len(d.fifo) = Len(s.fifo) - 1
        /\ \A i \in 1 .. Len(s.fifo) - 1 : d.fifo[i] = s.fifo[i + 1]
    BY <1>2, <2>1, TailListed
  <2>3. \A t : /\ Held(s.fifo, t) \in Nat
               /\ Held(d.fifo, t) = IF p.tid = t THEN Held(s.fifo, t) - 1 ELSE Held(s.fifo, t)
    BY <1>2, <2>1, HeldTail DEF p
  <2> QED
    BY <2>2, <2>3, Zenon
<1>4. \A i \in 1 .. Len(d.fifo) : d.fifo[i].tid \in Tids
  BY <1>1, <1>3 DEF Counts
<1>5. d.in_fifo \in [Tids -> Int] /\ d.end_set \subseteq Tids
  BY <1>1, <1>2 DEF Counts
<1>6. \A t \in Tids : d.in_fifo[t] = Held(d.fifo, t)
  BY <1>1, <1>2, <1>3 DEF Counts
<1>7. \A t \in d.end_set : d.in_fifo[t] > 0
  BY <1>1, <1>2, <1>3 DEF Counts
<1>8. Counts(d)
  BY <1>3, <1>4, <1>5, <1>6, <1>7 DEF Counts
<1> QED
  BY <1>1, <1>8 DEF d, p

(* A packet that arrives is counted, and its end mark found.                *)
LEMMA DataCounts ==
  ASSUME NEW s, DOMAIN s = Fields, Counts(s), NEW t \in Tids, NEW n, NEW e
  PROVE  /\ Same(s, DDRData(s, t, n, e), {"fifo", "in_fifo", "end_set"})
         /\ Counts(DDRData(s, t, n, e))
<1> DEFINE p == [tid |-> t, size |-> n]
           d == DDRData(s, t, n, e)
           m == IF e THEN s.end_set \cup {t} ELSE s.end_set
<1>1. d = [s EXCEPT !.fifo = Append(@, p), !.in_fifo[t] = @ + 1, !.end_set = m]
  BY DEF DDRData
<1>2. p.tid = t
  OBVIOUS
<1>3. m \subseteq s.end_set \cup {t}
  OBVIOUS
<1> HIDE DEF d, p, m
<1>4. /\ Same(s, d, {"fifo", "in_fifo", "end_set"})
      /\ d.fifo = Append(s.fifo, p) /\ d.end_set = m
      /\ d.in_fifo = [s.in_fifo EXCEPT ![t] = @ + 1]
  BY <1>1 DEF Same, Fields
<1>5. /\ Listed(d.fifo) /\ Len(d.fifo) = Len(s.fifo) + 1 /\ Len(s.fifo) \in Nat
      /\ \A i \in 1 .. Len(s.fifo) : d.fifo[i] = s.fifo[i]
      /\ d.fifo[Len(s.fifo) + 1] = p
      /\ \A u : /\ Held(s.fifo, u) \in Nat
               /\ Held(d.fifo, u) = IF t = u THEN Held(s.fifo, u) + 1 ELSE Held(s.fifo, u)
  <2>1. Listed(s.fifo) /\ Len(s.fifo) \in Nat
    BY DEF Counts, Listed
  <2>2. d.fifo = Append(s.fifo, p)
    BY <1>4
  <2>3. \A u : /\ Held(s.fifo, u) \in Nat
               /\ Held(d.fifo, u) = IF t = u THEN Held(s.fifo, u) + 1 ELSE Held(s.fifo, u)
    BY <1>2, <2>1, <2>2, HeldAppend
  <2>4. /\ Listed(d.fifo) /\ Len(d.fifo) = Len(s.fifo) + 1
        /\ \A i \in 1 .. Len(s.fifo) : d.fifo[i] = s.fifo[i]
        /\ d.fifo[Len(s.fifo) + 1] = p
    BY <2>1, <2>2, AppendListed
  <2> QED
    BY <2>1, <2>3, <2>4, Zenon
<1>6. \A i \in 1 .. Len(d.fifo) : d.fifo[i].tid \in Tids
  <2>1. TAKE i \in 1 .. Len(d.fifo)
  <2>2. CASE i = Len(s.fifo) + 1
    BY <1>2, <1>5, <2>2
  <2>3. CASE i # Len(s.fifo) + 1
    <3>1. i \in 1 .. Len(s.fifo)
      BY <1>5, <2>3
    <3> QED
      BY <1>5, <3>1 DEF Counts
  <2> QED
    BY <2>2, <2>3
<1>7. d.in_fifo \in [Tids -> Int] /\ d.end_set \subseteq Tids
  BY <1>3, <1>4 DEF Counts
<1>8. \A u \in Tids : d.in_fifo[u] = Held(d.fifo, u)
  BY <1>4, <1>5 DEF Counts
<1>9. \A u \in d.end_set : d.in_fifo[u] > 0
  BY <1>3, <1>4, <1>5 DEF Counts
<1>10. Counts(d)
  BY <1>5, <1>6, <1>7, <1>8, <1>9 DEF Counts
<1> QED
  BY <1>4, <1>10 DEF d
-----------------------------------------------------------------------------
(* The arbiter: the choice it makes is a free router whose queue is empty,    *)
(* and a choice made before is not forgotten with the channel idle.          *)
LEMMA ArbitrateStep ==
  ASSUME DdrInv, turn # 0, NEW g, NEW q \in free \cup {NoRouter},
         Arbitrates(ddr, free) => g \in GrantChoices(ddr, free),
         g = ReadTurn <=> q \in free,
         NEW a, Arbitrated(g, q, a)
  PROVE  /\ DOMAIN a = Fields /\ Listed(a.data) /\ Counts(a)
         /\ a.data = ddr.data /\ a.packets = ddr.packets
         /\ a.granted \in BOOLEAN /\ a.router \in Routers \cup {NoRouter}
         /\ a.grant \in {WriteTurn, ReadTurn, NoGrant}
         /\ Drains(a) => a.granted
         /\ a.router # NoRouter =>
              /\ a.granted /\ queue[a.router] = NoPacket
              /\ a.packets # << >> \/ a.data # << >>
              /\ a.router >= turn \/ (a.time_cnt = 0 /\ ~Drains(a))
         /\ ~a.granted => ~ddr.granted
<1>1. DOMAIN ddr = Fields
  BY DEF DdrInv, Shape
<1>2. /\ DOMAIN a = Fields /\ a.data = ddr.data /\ a.packets = ddr.packets
      /\ a.fifo = ddr.fifo /\ a.in_fifo = ddr.in_fifo /\ a.end_set = ddr.end_set
  <2>1. Same(ddr, a, ArbiterFields)
    BY <1>1, ArbiterDraws, ArbiterCounts DEF Drawn, Undrawn
  <2> QED
    BY <2>1 DEF Same, Fields, ArbiterFields
<1>3. Listed(a.data) /\ Counts(a)
  BY <1>2 DEF DdrInv, Shape, FifoCounted, Counts, Held
<1>4. Arbitrates(ddr, free) => Drawn(g, q, a)
  BY <1>1, ArbiterDraws
<1>5. ~Arbitrates(ddr, free) => Undrawn(a)
  BY <1>1, ArbiterCounts
<1>6. CASE Arbitrates(ddr, free)
  <2>1. /\ ddr.time_cnt = 0 /\ ~ddr.granted
        /\ g \in {WriteTurn, ReadTurn}
        /\ g = ReadTurn => WantsToServe(ddr, free)
    BY <1>6 DEF Arbitrates, GrantChoices, ReadTurn, WriteTurn
  <2>2. a.grant = g /\ a.granted = TRUE /\ a.time_cnt = 0
    BY <1>6, <1>4, <2>1 DEF Drawn
  <2>3. CASE g = ReadTurn
    <3>1. a.router = q /\ q \in free /\ q \in Routers
      <4>1. a.router = q
        BY <1>6, <1>4, <2>3 DEF Drawn
      <4> QED
        BY <4>1, <2>3 DEF DdrInv, Shape
    <3>2. queue[q] = NoPacket
      BY <2>1, <3>1 DEF DdrInv, FreeRight
    <3>3. ddr.packets # << >> \/ ddr.data # << >>
      BY <2>1, <2>3 DEF WantsToServe
    <3>4. ~Drains(a)
      BY <2>2, <2>3 DEF Drains, ReadTurn, WriteTurn
    <3> QED
      BY <1>2, <1>3, <2>2, <2>3, <3>1, <3>2, <3>3, <3>4
  <2>4. CASE g = WriteTurn
    <3>1. a.router = ddr.router /\ a.router \in Routers \cup {NoRouter}
      <4>1. a.router = ddr.router
        <5>1. g # ReadTurn
          BY <2>4 DEF ReadTurn, WriteTurn
        <5> QED
          BY <1>6, <1>4, <5>1 DEF Drawn
      <4> QED
        BY <4>1 DEF DdrInv, Shape
    <3>2. ddr.router # NoRouter =>
            /\ queue[ddr.router] = NoPacket /\ turn = 1
            /\ ddr.packets # << >> \/ ddr.data # << >>
      <4>1. SUFFICES ASSUME ddr.router # NoRouter
                     PROVE  /\ queue[ddr.router] = NoPacket /\ turn = 1
                            /\ ddr.packets # << >> \/ ddr.data # << >>
        OBVIOUS
      <4>2. turn \in Nat \ {0}
        BY Order DEF DdrInv, Shape
      <4>3. ddr.packets # << >> \/ ddr.data # << >>
        BY <4>1 DEF DdrInv, Chosen
      <4>4. ~(turn > 1)
        BY <2>1, <4>1 DEF DdrInv, Chosen
      <4>5. queue[ddr.router] = NoPacket
        BY <4>1 DEF DdrInv, GrantedRouterFree
      <4> QED
        BY <4>2, <4>3, <4>4, <4>5
    <3>3. ddr.router # NoRouter => ddr.router >= turn
      <4>1. SUFFICES ASSUME ddr.router # NoRouter PROVE ddr.router >= 1
        BY <3>2
      <4>2. ddr.router \in Routers
        BY <3>1, <4>1
      <4>3. \A r \in Routers : r \in Nat \ {0}
        BY Order
      <4> QED
        BY <4>2, <4>3
    <3> QED
      BY <1>2, <1>3, <2>2, <2>4, <3>1, <3>2, <3>3
  <2> QED
    BY <2>1, <2>3, <2>4
<1>7. CASE ~Arbitrates(ddr, free)
  <2>1. /\ a.grant = ddr.grant /\ a.granted = ddr.granted /\ a.router = ddr.router
        /\ ddr.time_cnt = 0 \/ ddr.granted => a.time_cnt = ddr.time_cnt
    BY <1>7, <1>5 DEF Undrawn
  <2>2. ~Drains(a)
    BY <2>1 DEF Drains, DdrInv, Shape, ReadTurn, WriteTurn, NoGrant
  <2>3. a.router # NoRouter =>
          /\ queue[a.router] = NoPacket
          /\ a.packets # << >> \/ a.data # << >>
    BY <1>2, <2>1 DEF DdrInv, Chosen, GrantedRouterFree
  <2>4. ddr.router # NoRouter => turn > 1
    <3>1. SUFFICES ASSUME ddr.router # NoRouter, ~(turn > 1) PROVE FALSE
      OBVIOUS
    <3>2. turn = 1
      BY <3>1, Order DEF DdrInv, Shape
    <3>3. ddr.time_cnt = 0 /\ ~ddr.granted /\ (ddr.packets # << >> \/ ddr.data # << >>)
      BY <3>1, <3>2 DEF DdrInv, Chosen
    <3>4. ddr.router \in free
      BY <3>1, <3>2 DEF DdrInv, Shape, FreeRight, GrantedRouterFree
    <3> QED
      BY <1>7, <3>3, <3>4 DEF Arbitrates, WantsToServe
  <2>5. a.router # NoRouter => a.granted /\ (a.router >= turn \/ a.time_cnt = 0)
    <3>1. ddr.router # NoRouter => ddr.granted /\ (ddr.router >= turn \/ ddr.time_cnt = 0)
      BY <2>4 DEF DdrInv, Chosen
    <3> QED
      BY <2>1, <3>1
  <2>6. a.granted \in BOOLEAN /\ a.router \in Routers \cup {NoRouter}
    BY <2>1 DEF DdrInv, Shape
  <2>7. a.grant \in {WriteTurn, ReadTurn, NoGrant}
    BY <2>1 DEF DdrInv, Shape
  <2> QED
    BY <1>2, <1>3, <2>1, <2>2, <2>3, <2>5, <2>6, <2>7
<1> QED
  BY <1>6, <1>7
(* The record before a packet may leave through router turn.                 *)
Ready(s) ==
  /\ DOMAIN s = Fields /\ Listed(s.data) /\ Counts(s)
  /\ s.granted \in BOOLEAN /\ s.router \in Routers \cup {NoRouter}
  /\ s.grant \in {ReadTurn, NoGrant}
  /\ s.router # NoRouter =>
       /\ s.granted /\ queue[s.router] = NoPacket
       /\ s.packets # << >> \/ s.data # << >>
       /\ s.router >= turn \/ s.time_cnt = 0
  /\ ~s.granted => ~ddr.granted

(* The drain, which a grant of the write queue always starts.                *)
LEMMA DrainStep ==
  ASSUME DdrInv, turn # 0, NEW g, NEW q \in free \cup {NoRouter},
         Arbitrates(ddr, free) => g \in GrantChoices(ddr, free),
         g = ReadTurn <=> q \in free,
         NEW s, s = Run1(ddr, free, g, q)
  PROVE  Ready(s)
<1> DEFINE a == Arbitrate(ddr, free, g, q)
<1>1. s = IF Drains(a) THEN DrainOne(a) ELSE a
  BY DEF Run1
<1>2. Arbitrated(g, q, a)
  BY DEF Arbitrated
<1> HIDE DEF a
<1>3. /\ DOMAIN a = Fields /\ Listed(a.data) /\ Counts(a)
      /\ a.granted \in BOOLEAN /\ a.router \in Routers \cup {NoRouter}
      /\ a.grant \in {WriteTurn, ReadTurn, NoGrant}
      /\ Drains(a) => a.granted
      /\ ~a.granted => ~ddr.granted
  BY <1>2, ArbitrateStep
<1>4. a.router # NoRouter =>
        /\ a.granted /\ queue[a.router] = NoPacket
        /\ a.packets # << >> \/ a.data # << >>
        /\ a.router >= turn \/ (a.time_cnt = 0 /\ ~Drains(a))
  BY <1>2, ArbitrateStep
<1>5. CASE Drains(a)
  <2>1. s = DrainOne(a) /\ a.fifo # << >>
    BY <1>1, <1>5 DEF Drains
  <2>2. Counts(s) /\ Head(a.fifo).tid \in Tids
    BY <1>3, <2>1, DrainCounts
  <2>3. /\ Same(a, s, {"grant", "time_cnt", "fifo", "in_fifo", "end_set", "ofm", "data"})
        /\ s.grant = NoGrant
        /\ Listed(s.data) /\ (a.data # << >> => s.data # << >>)
    <3>1. Drained(a, s)
      BY <1>3, <2>1, <2>2, DrainFields
    <3> QED
      BY <3>1 DEF Drained
  <2>4. /\ DOMAIN s = Fields /\ s.router = a.router /\ s.granted = a.granted
        /\ s.packets = a.packets
    BY <2>3 DEF Same, Fields
  <2> QED
    BY <1>3, <1>4, <1>5, <2>2, <2>3, <2>4 DEF Ready
<1>6. CASE ~Drains(a)
  <2>1. s = a
    BY <1>1, <1>6
  <2>2. a.grant \in {ReadTurn, NoGrant}
    <3>1. SUFFICES ASSUME a.grant = WriteTurn PROVE FALSE
      BY <1>3
    <3>2. Arbitrates(ddr, free) /\ g = WriteTurn
      <4>1. CASE Arbitrates(ddr, free)
        <5>1. Drawn(g, q, a)
          BY <1>2, <4>1, ArbiterDraws DEF DdrInv, Shape
        <5> QED
          BY <3>1, <4>1, <5>1 DEF Drawn
      <4>2. CASE ~Arbitrates(ddr, free)
        <5>1. Undrawn(a)
          BY <1>2, <4>2, ArbiterCounts DEF DdrInv, Shape
        <5>2. ddr.grant = WriteTurn
          BY <3>1, <5>1 DEF Undrawn
        <5> QED
          BY <5>2 DEF DdrInv, Shape, WriteTurn, ReadTurn, NoGrant
      <4> QED
        BY <4>1, <4>2
    <3>3. ddr.fifo # << >>
      BY <3>2 DEF GrantChoices, WriteTurn, ReadTurn
    <3>4. a.fifo = ddr.fifo
      <4>1. Same(ddr, a, ArbiterFields)
        BY <1>2, ArbiterDraws, ArbiterCounts DEF Drawn, Undrawn, DdrInv, Shape
      <4> QED
        BY <4>1 DEF Same, Fields, ArbiterFields
    <3> QED
      BY <1>6, <3>1, <3>3, <3>4 DEF Drains
  <2> QED
    BY <1>3, <1>4, <2>1, <2>2 DEF Ready
<1> QED
  BY <1>5, <1>6

(* The record and the queues after router turn has run.                      *)
Done(e) ==
  /\ DOMAIN e = Fields /\ Listed(e.data) /\ Counts(e)
  /\ e.granted \in BOOLEAN /\ e.router \in Routers \cup {NoRouter}
  /\ e.grant \in {ReadTurn, NoGrant}
  /\ e.router # NoRouter =>
       /\ e.granted /\ queue'[e.router] = NoPacket
       /\ e.packets # << >> \/ e.data # << >>
       /\ e.router > turn \/ e.time_cnt = 0
  /\ DOMAIN queue' = Routers
  /\ ~e.granted => ~ddr.granted /\ queue' = queue

(* The read side: the packet goes into a queue that is empty.                *)
LEMMA ServeStep ==
  ASSUME DdrInv, turn # 0, NEW s, Ready(s),
         NEW e, e = IF Serves(s, turn) THEN ServeOne(s) ELSE s,
         queue' = IF Serves(s, turn) THEN [queue EXCEPT ![turn] = ServedPacket(s)] ELSE queue
  PROVE  Done(e)
<1>1. turn \in Routers /\ DOMAIN queue = Routers
  BY DEF DdrInv, Shape
<1>2. CASE Serves(s, turn)
  <2>1. e = ServeOne(s) /\ s.router = turn /\ s.granted
    BY <1>1, <1>2, Order DEF Serves, Ready
  <2>2. /\ Same(s, e, {"packets", "data", "time_cnt", "grant", "router"})
        /\ e.grant = NoGrant /\ e.router = NoRouter /\ Listed(e.data)
    BY <2>1, ServeFields DEF Ready
  <2>3. /\ DOMAIN e = Fields /\ e.granted = s.granted
        /\ e.fifo = s.fifo /\ e.in_fifo = s.in_fifo /\ e.end_set = s.end_set
    BY <2>2 DEF Same, Fields
  <2>4. Counts(e)
    BY <2>3 DEF Ready, Counts
  <2>5. DOMAIN queue' = Routers
    BY <1>1, <1>2
  <2>6. e.granted
    BY <2>1, <2>3
  <2>7. e.granted \in BOOLEAN
    BY <2>3 DEF Ready
  <2> QED
    BY <2>2, <2>3, <2>4, <2>5, <2>6, <2>7 DEF Done
<1>3. CASE ~Serves(s, turn)
  <2>1. e = s /\ queue' = queue
    BY <1>3
  <2>2. s.router # NoRouter => s.router # turn
    BY <1>3 DEF Serves, Ready
  <2>3. s.router # NoRouter => s.router > turn \/ s.time_cnt = 0
    <3>1. SUFFICES ASSUME s.router # NoRouter, s.router >= turn PROVE s.router > turn
      BY DEF Ready
    <3>2. s.router \in Nat /\ turn \in Nat
      BY <1>1, <3>1, Order DEF Ready
    <3> QED
      BY <2>2, <3>1, <3>2
  <2> QED
    BY <1>1, <2>1, <2>3 DEF Ready, Done
<1> QED
  BY <1>2, <1>3

(* The write queue and its counters are what FifoCounted says of them.       *)
LEMMA CountsHere ==
  ASSUME Shape, FifoCounted
  PROVE  Counts(ddr)
  BY DEF Shape, FifoCounted, Counts, Held

(* And in the next state.                                                  *)
LEMMA CountsNext ==
  ASSUME Counts(ddr)'
  PROVE  FifoCounted'
  BY DEF FifoCounted, Counts, Held

(* One call of run, in the cycle or at its end.                             *)
LEMMA RunInv ==
  ASSUME DdrInv, NEW g, NEW q \in free \cup {NoRouter}, g = ReadTurn <=> q \in free,
         RunRouter(g, q)
  PROVE  DdrInv'
<1> DEFINE s == Run1(ddr, free, g, q)
           e == IF Serves(s, turn) THEN ServeOne(s) ELSE s
<1>1. /\ turn # 0 /\ (Arbitrates(ddr, free) => g \in GrantChoices(ddr, free))
      /\ ddr' = IF turn = LastRouter THEN NextCycle(e) ELSE e
      /\ queue' = IF Serves(s, turn) THEN [queue EXCEPT ![turn] = ServedPacket(s)] ELSE queue
      /\ turn' = IF turn = LastRouter THEN 0 ELSE turn + 1
      /\ free' = free
  BY DEF RunRouter
<1>2. Ready(s)
  BY <1>1, DrainStep
<1>3. Done(e)
  BY <1>1, <1>2, ServeStep
<1> HIDE DEF s, e
<1>4. /\ turn \in Routers /\ turn \in Nat \ {0} /\ free \subseteq Routers
  BY <1>1, Order DEF DdrInv, Shape
<1>5. CASE turn = LastRouter
  <2>1. ddr' = [e EXCEPT !.granted = FALSE, !.ticked = FALSE] /\ turn' = 0
    BY <1>1, <1>5 DEF NextCycle
  <2>2. /\ DOMAIN ddr' = Fields /\ ddr'.granted = FALSE
        /\ ddr'.data = e.data /\ ddr'.packets = e.packets /\ ddr'.fifo = e.fifo
        /\ ddr'.in_fifo = e.in_fifo /\ ddr'.end_set = e.end_set
        /\ ddr'.grant = e.grant /\ ddr'.router = e.router /\ ddr'.time_cnt = e.time_cnt
    BY <1>3, <2>1 DEF Done, Fields
  <2>3. Counts(ddr)'
    BY <1>3, <2>2 DEF Done, Counts
  <2>4. Shape'
    BY <1>1, <1>3, <1>4, <2>1, <2>2 DEF Done, Counts, Shape
  <2>5. ddr'.router # NoRouter =>
          /\ queue'[ddr'.router] = NoPacket /\ ddr'.time_cnt = 0
          /\ ddr'.packets # << >> \/ ddr'.data # << >>
    <3>1. SUFFICES ASSUME e.router # NoRouter
                   PROVE  /\ queue'[e.router] = NoPacket /\ e.time_cnt = 0
                          /\ e.packets # << >> \/ e.data # << >>
      BY <2>2
    <3>2. e.router \in Routers
      BY <1>3, <3>1 DEF Done
    <3>3. ~(e.router > turn)
      <4>1. e.router <= LastRouter /\ e.router \in Nat
        BY <3>2, Order
      <4> QED
        BY <1>4, <1>5, <4>1
    <3> QED
      BY <1>3, <3>1, <3>3 DEF Done
  <2>6. Chosen' /\ FreeRight' /\ GrantedRouterFree'
    BY <2>1, <2>2, <2>5 DEF Chosen, FreeRight, GrantedRouterFree
  <2> QED
    BY <2>3, <2>4, <2>6, CountsNext DEF DdrInv
<1>6. CASE turn # LastRouter
  <2>1. ddr' = e /\ turn' = turn + 1
    BY <1>1, <1>6
  <2>2. turn' \in Routers /\ turn' > 1
    BY <1>4, <1>6, <2>1, Order
  <2>3. Counts(ddr)'
    BY <1>3, <2>1 DEF Done, Counts
  <2>4. Shape'
    BY <1>1, <1>3, <1>4, <2>1, <2>2 DEF Done, Counts, Shape
  <2>5. Chosen'
    <3>1. SUFFICES ASSUME e.router # NoRouter
                   PROVE  /\ e.packets # << >> \/ e.data # << >>
                          /\ e.granted /\ (e.router >= turn + 1 \/ e.time_cnt = 0)
      BY <2>1, <2>2 DEF Chosen
    <3>2. e.router \in Nat
      BY <1>3, <3>1, Order DEF Done
    <3>3. /\ e.packets # << >> \/ e.data # << >>
          /\ e.granted /\ (e.router > turn \/ e.time_cnt = 0)
      BY <1>3, <3>1 DEF Done
    <3> QED
      BY <1>4, <3>2, <3>3
  <2>6. FreeRight'
    <3>1. turn' # 1
      BY <2>2
    <3>2. ~e.granted => \A r \in free : queue'[r] = NoPacket
      BY <1>1, <1>3 DEF Done, DdrInv, FreeRight
    <3> QED
      BY <1>1, <2>1, <3>1, <3>2 DEF FreeRight
  <2>7. GrantedRouterFree'
    BY <1>3, <2>1 DEF Done, GrantedRouterFree
  <2> QED
    BY <2>3, <2>4, <2>5, <2>6, <2>7, CountsNext DEF DdrInv
<1> QED
  BY <1>5, <1>6

(* The parts of the record a step leaves alone.                             *)
LEMMA KeepsInv ==
  ASSUME DdrInv, UNCHANGED <<turn, queue, free>>, Counts(ddr)', DOMAIN ddr' = Fields,
         Listed(ddr'.data), ddr.data # << >> => ddr'.data # << >>,
         ddr'.packets = ddr.packets, ddr'.grant = ddr.grant, ddr'.router = ddr.router,
         ddr'.granted = ddr.granted, ddr'.time_cnt = ddr.time_cnt
  PROVE  DdrInv'
<1>1. Shape'
  BY DEF DdrInv, Shape, Counts
<1>2. Chosen' /\ FreeRight' /\ GrantedRouterFree'
  BY DEF DdrInv, Chosen, FreeRight, GrantedRouterFree
<1> QED
  BY <1>1, <1>2, CountsNext DEF DdrInv

(* Every step of the DDR, of its cycle and of the network keeps the invariant. *)
LEMMA NextInv ==
  ASSUME DdrInv, [Next]_vars
  PROVE  DdrInv'
<1> USE DEF DdrInv
<1>1. CASE BeginCycle
  <2>1. /\ turn = 0 /\ turn' = 1 /\ free' = {r \in Routers : queue[r] = NoPacket}
        /\ ddr' = ddr /\ queue' = queue
    BY <1>1 DEF BeginCycle
  <2>2. Shape'
    BY <2>1, Order DEF Shape
  <2>3. Chosen'
    BY <2>1 DEF Chosen
  <2>4. FreeRight' /\ GrantedRouterFree' /\ FifoCounted'
    BY <2>1 DEF FreeRight, GrantedRouterFree, FifoCounted
  <2> QED
    BY <2>2, <2>3, <2>4
<1>2. CASE Run
  <2>1. NoRouter \notin free
    BY Order DEF Shape
  <2>2. CASE RunRouter(WriteTurn, NoRouter)
    <3>1. (WriteTurn = ReadTurn) <=> (NoRouter \in free)
      BY <2>1 DEF WriteTurn, ReadTurn
    <3> QED
      BY <2>2, <3>1, RunInv
  <2>3. CASE \E q \in free : RunRouter(ReadTurn, q)
    BY <2>3, RunInv
  <2> QED
    BY <1>2, <2>2, <2>3 DEF Run
<1>3. ASSUME NEW t \in Tids, NEW c \in Cores, ReceiveRequest(t, c)
      PROVE  DdrInv'
  <2> DEFINE x == [ddr EXCEPT !.ofm[t].requests = @ - 1]
  <2>1. ddr' = Join(x, {t}) /\ UNCHANGED <<turn, queue, free>>
    BY <1>3 DEF ReceiveRequest, DDRRequest
  <2>2. DOMAIN ddr = Fields /\ Listed(ddr.data) /\ Counts(ddr)
    BY CountsHere DEF Shape
  <2>3. Same(ddr, x, {"ofm"})
    BY <2>2 DEF Same, Fields
  <2> HIDE DEF x
  <2>4. DOMAIN x = Fields /\ x.data = ddr.data
    BY <2>3 DEF Same, Fields
  <2>5. /\ Same(x, Join(x, {t}), {"data", "ofm"})
        /\ Listed(Join(x, {t}).data)
        /\ x.data # << >> => Join(x, {t}).data # << >>
    BY <2>2, <2>4, JoinFields
  <2>6. /\ DOMAIN ddr' = Fields /\ ddr'.packets = ddr.packets /\ ddr'.grant = ddr.grant
        /\ ddr'.router = ddr.router /\ ddr'.granted = ddr.granted
        /\ ddr'.time_cnt = ddr.time_cnt /\ ddr'.fifo = ddr.fifo
        /\ ddr'.in_fifo = ddr.in_fifo /\ ddr'.end_set = ddr.end_set
    BY <2>1, <2>3, <2>5 DEF Same, Fields
  <2>7. Counts(ddr)'
    BY <2>2, <2>6 DEF Counts
  <2> QED
    BY <2>1, <2>4, <2>5, <2>6, <2>7, KeepsInv
<1>4. ASSUME NEW t \in Tids, NEW k \in DOMAIN coming[t], ReceiveData(t, k)
      PROVE  DdrInv'
  <2> DEFINE n == coming[t][k].size
             m == coming[t][k].end
  <2>1. ddr' = DDRData(ddr, t, n, m) /\ UNCHANGED <<turn, queue, free>>
    BY <1>4 DEF ReceiveData
  <2> HIDE DEF n, m
  <2>2. DOMAIN ddr = Fields /\ Listed(ddr.data) /\ Counts(ddr)
    BY CountsHere DEF Shape
  <2>3. /\ Same(ddr, DDRData(ddr, t, n, m), {"fifo", "in_fifo", "end_set"})
        /\ Counts(DDRData(ddr, t, n, m))
    BY <2>2, DataCounts
  <2>4. /\ DOMAIN ddr' = Fields /\ ddr'.packets = ddr.packets /\ ddr'.grant = ddr.grant
        /\ ddr'.router = ddr.router /\ ddr'.granted = ddr.granted
        /\ ddr'.time_cnt = ddr.time_cnt /\ ddr'.data = ddr.data
    BY <2>1, <2>3 DEF Same, Fields
  <2>5. Counts(ddr)'
    BY <2>1, <2>3 DEF Counts
  <2> QED
    BY <2>1, <2>2, <2>4, <2>5, KeepsInv
<1>5. ASSUME NEW r \in Routers, Take(r)
      PROVE  DdrInv'
  <2>1. /\ turn = 0 /\ queue' = [queue EXCEPT ![r] = NoPacket]
        /\ turn' = turn /\ free' = free /\ ddr' = ddr
    BY <1>5 DEF Take
  <2>2. Shape' /\ Chosen' /\ FreeRight' /\ FifoCounted'
    BY <2>1 DEF Shape, Chosen, FreeRight, FifoCounted
  <2>3. GrantedRouterFree'
    BY <2>1 DEF GrantedRouterFree, Shape
  <2> QED
    BY <2>2, <2>3
<1>6. CASE UNCHANGED vars
  BY <1>6 DEF vars, Shape, Chosen, FreeRight, GrantedRouterFree, FifoCounted
<1> QED
  BY <1>1, <1>2, <1>3, <1>4, <1>5, <1>6 DEF Next, Cycle, Receive

-----------------------------------------------------------------------------
(* The invariant of a DDR holds in every reachable state, whatever the cores  *)
(* send, the arbiter draws and the network takes.                           *)
THEOREM DdrInvariance == Spec => []DdrInv
<1>1. DdrInv /\ [Next]_vars => DdrInv'
  BY NextInv
<1> QED
  BY <1>1, InitInv, PTL DEF Spec

(* The two queues of a DDR and its arbiter agree: the write queue is counted   *)
(* right, no end mark is left without a packet, and the chosen router is free. *)
THEOREM QueuesStaySafe == Spec => []QueueSafe
<1>1. DdrInv => QueueSafe
  BY DEF DdrInv, QueueSafe
<1> QED
  BY <1>1, DdrInvariance, PTL

(* The number of queued packets of a transfer is counted right, and an end    *)
(* mark waits for a packet that is still queued.                            *)
THEOREM WriteQueueCounted == Spec => []FifoCounted
<1>1. DdrInv => FifoCounted
  BY DEF DdrInv
<1> QED
  BY <1>1, DdrInvariance, PTL

(* The router the arbiter chose has an empty injection queue until its packet *)
(* is put there, so assert(time_emty) of DDR::run never fails.               *)
THEOREM ChosenRouterFree == Spec => []GrantedRouterFree
<1>1. DdrInv => GrantedRouterFree
  BY DEF DdrInv
<1> QED
  BY <1>1, DdrInvariance, PTL

-----------------------------------------------------------------------------
(* Every output a DDR holds is served exactly (ServedExactly of DDR.tla).   *)
(* An output is counted down by the inputs that have an end to come and by  *)
(* the consumers that have not asked (Open); while it is open nothing of it  *)
(* is in the queues, and afterwards its bytes, wherever they are, make its  *)
(* share, with one end as soon as the last of them is cut (Account).         *)

(* The inductive invariant.                                                 *)

(* What the cores still send has at most one end.                            *)
EndComing(c, t) == \E k \in DOMAIN c[t] : c[t][k].end
Stream == [size : Nat \ {0}, end : BOOLEAN]
Coming(s, c) ==
  /\ c \in [Tids -> Seq(Stream)]
  /\ \A t \in Tids : \A j, k \in DOMAIN c[t] : c[t][j].end /\ c[t][k].end => j = k
  /\ \A t \in s.end_set : ~EndComing(c, t)
  /\ ~Overtaking => \A t \in Tids :
       /\ c[t] # << >> => c[t][Len(c[t])].end
       /\ c[t] = << >> /\ s.in_fifo[t] # 0 => t \in s.end_set

(* The inputs an output still depends on: those with an end to come, or with  *)
(* packets to be written that have it.                                      *)
Pending(s, c, i) == i \in s.end_set \/ EndComing(c, i)
Depends(s, c, t) == {i \in Tids : t \in DramIn[i] /\ Pending(s, c, i)}

(* The entry of an output in _ofm_message.                                  *)
Closed(s, c, a, t) == s.ofm[t] = Erased /\ Depends(s, c, t) = {} /\ a[t] = OutOf(t).dst
Open(s, c, a, t) ==
  /\ s.ofm[t] \in [open : {TRUE}, ifmaps : Nat, requests : Nat]
  /\ s.ofm[t].ifmaps >= Cardinality(Depends(s, c, t))
  /\ s.ofm[t].requests = Cardinality(OutOf(t).dst \ a[t])
Waits(s, t) == s.ofm[t].ifmaps + s.ofm[t].requests > 0
Entered(s) ==
  /\ s.ofm \in [Tids -> [open : BOOLEAN, ifmaps : Int, requests : Int]]
  /\ \A t \in Tids \ OutIds : s.ofm[t] = Erased
Entries(s, c, a) ==
  /\ Entered(s)
  /\ \A t \in OutIds : Closed(s, c, a, t) \/ (Open(s, c, a, t) /\ Waits(s, t))

(* The bytes and the ends of an output, wherever they are.  At most one entry  *)
(* of an output is still to be cut.                                         *)
Datum == [tid : OutIds, left : Nat \ {0}]
OutPacket == [tid : Tids, size : Nat \ {0}, end : BOOLEAN]
Has(q, t) == \E i \in DOMAIN q : q[i].tid = t
Single(q) == \A i, j \in DOMAIN q : q[i].tid = q[j].tid => i = j
Uncut(q) == q \in Seq(Datum) /\ Single(q)
Bytes(s, q, v, t) == LeftIn(s.data, t) + SizeIn(s.packets, t) + SizeIn(q, t) + v[t].bytes
Marks(s, q, v, t) == EndsIn(s.packets, t) + EndsIn(q, t) + v[t].ends
Account(s, q, v, t) ==
  IF s.ofm[t].open
  THEN ~Has(s.data, t) /\ Bytes(s, q, v, t) = 0 /\ Marks(s, q, v, t) = 0
  ELSE /\ Bytes(s, q, v, t) = Share(OutOf(t))
       /\ Marks(s, q, v, t) = IF Has(s.data, t) THEN 0 ELSE 1
Accounts(s, q, v) ==
  /\ Uncut(s.data) /\ s.packets \in Seq(OutPacket)
  /\ q \in [Routers -> OutPacket \cup {NoPacket}]
  /\ v \in [Tids -> [bytes : Int, ends : Int]]
  /\ \A t \in OutIds : Account(s, q, v, t)

(* The channel is busy for a number of cycles; a consumer asks once.          *)
Timed(s) == /\ s.time_cnt \in Nat
            /\ \A i \in 1 .. Len(s.fifo) : s.fifo[i].size \in Nat \ {0}
Asked(a) == /\ a \in [Tids -> SUBSET Cores]
            /\ \A t \in OutIds : a[t] \subseteq OutOf(t).dst

Sound(s, c, a, q, v) ==
  Coming(s, c) /\ Asked(a) /\ Entries(s, c, a) /\ Accounts(s, q, v) /\ Timed(s)
ServedInv == Sound(ddr, coming, asked, queue, served)

-----------------------------------------------------------------------------
(* What the entry of t of an uncut queue holds.                              *)
LEMMA LeftAt ==
  ASSUME NEW q, Uncut(q), NEW k \in DOMAIN q
  PROVE  LeftIn(q, q[k].tid) = q[k].left /\ Has(q, q[k].tid) /\ q[k] \in Datum
<1> DEFINE t == q[k].tid
           f == [i \in DOMAIN q |-> IF q[i].tid = t THEN q[i].left ELSE 0]
<1>1. q \in Seq(Datum) /\ Single(q)
  BY DEF Uncut
<1>2. DOMAIN q = 1 .. Len(q) /\ Len(q) \in Nat /\ q[k] \in Datum
  BY <1>1
<1>3. IsFiniteSet(DOMAIN q)
  BY <1>2, FS_Interval
<1>4. f[k] = q[k].left /\ f[k] \in Int
  BY <1>2 DEF Datum
<1>5. \A i \in DOMAIN q \ {k} : f[i] = 0
  BY <1>1 DEF Single
<1>6. LeftIn(q, t) = SumFunctionOnSet(f, DOMAIN q)
  BY DEF LeftIn
<1> HIDE DEF f
<1>7. SumFunctionOnSet(f, DOMAIN q) = f[k]
  BY <1>3, <1>4, <1>5, SumOnly
<1> QED
  BY <1>2, <1>4, <1>6, <1>7 DEF Has

(* Nothing of t is uncut if it has no entry.                                *)
LEMMA LeftNone ==
  ASSUME NEW q, Uncut(q), NEW t, ~Has(q, t)
  PROVE  LeftIn(q, t) = 0
<1> DEFINE f == [i \in DOMAIN q |-> IF q[i].tid = t THEN q[i].left ELSE 0]
<1>1. IsFiniteSet(DOMAIN q)
  <2>1. DOMAIN q = 1 .. Len(q) /\ Len(q) \in Nat
    BY DEF Uncut
  <2> QED
    BY <2>1, FS_Interval
<1>2. \A i \in DOMAIN q : f[i] = 0
  BY DEF Has
<1>3. LeftIn(q, t) = SumFunctionOnSet(f, DOMAIN q)
  BY DEF LeftIn
<1> HIDE DEF f
<1> QED
  BY <1>1, <1>2, <1>3, SumZero

(* The bytes and the end of one packet, for output t.                        *)
SizeOf(e, t) == IF e # NoPacket /\ e.tid = t THEN e.size ELSE 0
EndOf(e, t) == IF e # NoPacket /\ e.tid = t /\ e.end THEN 1 ELSE 0

(* A packet has a size and may be an end; an empty queue has neither.         *)
LEMMA OutPacketReal ==
  ASSUME NEW e \in OutPacket \cup {NoPacket}, NEW t
  PROVE  /\ SizeOf(e, t) \in Nat /\ EndOf(e, t) \in Nat
         /\ e \in OutPacket <=> e # NoPacket
         /\ e \in OutPacket => SizeOf(e, t) = IF e.tid = t THEN e.size ELSE 0
         /\ e \in OutPacket => EndOf(e, t) = IF e.tid = t /\ e.end THEN 1 ELSE 0
<1>1. e \in OutPacket => e \in Packet
  BY DEF OutPacket, Packet
<1>2. e \in OutPacket <=> e # NoPacket
  BY <1>1, QueueAssumption
<1>3. e \in OutPacket => e.size \in Nat /\ e.tid \in Tids /\ e.end \in BOOLEAN
  BY DEF OutPacket
<1> QED
  BY <1>2, <1>3 DEF SizeOf, EndOf

(* The head of the cut packets and those behind it.                          *)
LEMMA CutTail ==
  ASSUME NEW p \in Seq(OutPacket), p # << >>, NEW t
  PROVE  /\ SizeIn(p, t) = SizeOf(Head(p), t) + SizeIn(Tail(p), t)
         /\ EndsIn(p, t) = EndOf(Head(p), t) + EndsIn(Tail(p), t)
         /\ SizeIn(Tail(p), t) \in Int /\ EndsIn(Tail(p), t) \in Int
<1> DEFINE n == Len(p) - 1
           b == Tail(p)
           f == [i \in DOMAIN p |-> IF p[i] # NoPacket /\ p[i].tid = t THEN p[i].size ELSE 0]
           g == [i \in DOMAIN b |-> IF b[i] # NoPacket /\ b[i].tid = t THEN b[i].size ELSE 0]
           d == [i \in DOMAIN p |-> IF p[i] # NoPacket /\ p[i].tid = t /\ p[i].end THEN 1 ELSE 0]
           h == [i \in DOMAIN b |-> IF b[i] # NoPacket /\ b[i].tid = t /\ b[i].end THEN 1 ELSE 0]
<1>1. /\ n \in Nat /\ Len(p) = n + 1 /\ DOMAIN p = 1 .. n + 1 /\ DOMAIN b = 1 .. n
      /\ \A i \in 1 .. n : b[i] = p[i + 1]
      /\ Head(p) = p[1] /\ \A i \in 1 .. n + 1 : p[i] \in OutPacket
  OBVIOUS
<1>2. /\ SizeIn(p, t) = SumFunctionOnSet(f, 1 .. n + 1) /\ SizeIn(b, t) = SumFunctionOnSet(g, 1 .. n)
      /\ EndsIn(p, t) = SumFunctionOnSet(d, 1 .. n + 1) /\ EndsIn(b, t) = SumFunctionOnSet(h, 1 .. n)
  BY <1>1 DEF SizeIn, EndsIn
<1>3. \A i \in 1 .. n + 1 : f[i] = SizeOf(p[i], t) /\ d[i] = EndOf(p[i], t)
  BY <1>1 DEF SizeOf, EndOf
<1>4. \A i \in 1 .. n + 1 : f[i] \in Int /\ d[i] \in Int
  BY <1>1, <1>3, OutPacketReal
<1>5. \A i \in 1 .. n : i + 1 \in 1 .. n + 1 /\ i \in 1 .. n + 1
  BY <1>1
<1>6. \A i \in 1 .. n : g[i] = f[i + 1] /\ h[i] = d[i + 1]
  BY <1>1, <1>5
<1>7. 1 \in 1 .. n + 1 /\ IsFiniteSet(1 .. n)
  BY <1>1, FS_Interval
<1> HIDE DEF f, g, d, h, b, n
<1>8. /\ SumFunctionOnSet(f, 1 .. n + 1) = f[1] + SumFunctionOnSet(g, 1 .. n)
      /\ SumFunctionOnSet(d, 1 .. n + 1) = d[1] + SumFunctionOnSet(h, 1 .. n)
  BY <1>1, <1>4, <1>6, SumTail
<1>9. \A i \in 1 .. n : g[i] \in Int /\ h[i] \in Int
  BY <1>4, <1>5, <1>6
<1>10. SumFunctionOnSet(g, 1 .. n) \in Int /\ SumFunctionOnSet(h, 1 .. n) \in Int
  BY <1>7, <1>9, SumInt
<1> QED
  BY <1>1, <1>2, <1>3, <1>7, <1>8, <1>10 DEF b

(* No packets, nothing in them.                                             *)
LEMMA CutNone ==
  ASSUME NEW t
  PROVE  SizeIn(<< >>, t) = 0 /\ EndsIn(<< >>, t) = 0 /\ LeftIn(<< >>, t) = 0
<1>1. DOMAIN << >> = {}
  OBVIOUS
<1> QED
  BY <1>1, SumEmpty DEF SizeIn, EndsIn, LeftIn

(* A queue of a router that takes a packet or gives one away.                *)
Handed(q, z, r, e) ==
  /\ q \in [Routers -> OutPacket \cup {NoPacket}] /\ r \in Routers
  /\ e \in OutPacket \cup {NoPacket} /\ z = [q EXCEPT ![r] = e]

(* One queue changes, and the sums over all of them by its packets.           *)
LEMMA QueueChange ==
  ASSUME NEW q, NEW z, NEW r, NEW e, Handed(q, z, r, e), NEW t
  PROVE  /\ z \in [Routers -> OutPacket \cup {NoPacket}]
         /\ SizeIn(z, t) = SizeIn(q, t) + SizeOf(e, t) - SizeOf(q[r], t)
         /\ EndsIn(z, t) = EndsIn(q, t) + EndOf(e, t) - EndOf(q[r], t)
         /\ SizeIn(q, t) \in Int /\ EndsIn(q, t) \in Int
<1> DEFINE f == [i \in Routers |-> IF q[i] # NoPacket /\ q[i].tid = t THEN q[i].size ELSE 0]
           g == [i \in Routers |-> IF z[i] # NoPacket /\ z[i].tid = t THEN z[i].size ELSE 0]
           d == [i \in Routers |-> IF q[i] # NoPacket /\ q[i].tid = t /\ q[i].end THEN 1 ELSE 0]
           h == [i \in Routers |-> IF z[i] # NoPacket /\ z[i].tid = t /\ z[i].end THEN 1 ELSE 0]
<1>0. /\ q \in [Routers -> OutPacket \cup {NoPacket}] /\ r \in Routers
      /\ e \in OutPacket \cup {NoPacket} /\ z = [q EXCEPT ![r] = e]
  BY DEF Handed
<1>1. /\ z \in [Routers -> OutPacket \cup {NoPacket}] /\ DOMAIN q = Routers /\ DOMAIN z = Routers
      /\ z[r] = e /\ \A i \in Routers \ {r} : z[i] = q[i]
  BY <1>0
<1>2. /\ SizeIn(q, t) = SumFunctionOnSet(f, Routers) /\ SizeIn(z, t) = SumFunctionOnSet(g, Routers)
      /\ EndsIn(q, t) = SumFunctionOnSet(d, Routers) /\ EndsIn(z, t) = SumFunctionOnSet(h, Routers)
  BY <1>1 DEF SizeIn, EndsIn
<1>3. \A i \in Routers : f[i] = SizeOf(q[i], t) /\ d[i] = EndOf(q[i], t)
  BY DEF SizeOf, EndOf
<1>4. g[r] = SizeOf(e, t) /\ h[r] = EndOf(e, t)
  BY <1>0, <1>1 DEF SizeOf, EndOf
<1>5. \A i \in Routers \ {r} : g[i] = f[i] /\ h[i] = d[i]
  BY <1>1
<1>6. \A i \in Routers : f[i] \in Int /\ d[i] \in Int
  BY <1>0, <1>3, OutPacketReal
<1>7. g[r] \in Int /\ h[r] \in Int
  BY <1>0, <1>4, OutPacketReal
<1> HIDE DEF f, g, d, h
<1>8. /\ SumFunctionOnSet(g, Routers) = SumFunctionOnSet(f, Routers) + g[r] - f[r]
      /\ SumFunctionOnSet(h, Routers) = SumFunctionOnSet(d, Routers) + h[r] - d[r]
  <2>1. IsFiniteSet(Routers)
    BY RoutersAssumption
  <2>2. SumFunctionOnSet(g, Routers) = SumFunctionOnSet(f, Routers) + g[r] - f[r]
    <3>1. /\ \A x \in Routers : f[x] \in Int
          /\ g[r] \in Int /\ \A x \in Routers \ {r} : g[x] = f[x]
      BY <1>0, <1>5, <1>6, <1>7
    <3> QED
      BY <1>0, <2>1, <3>1, SumChange
  <2>3. SumFunctionOnSet(h, Routers) = SumFunctionOnSet(d, Routers) + h[r] - d[r]
    <3>1. /\ \A x \in Routers : d[x] \in Int
          /\ h[r] \in Int /\ \A x \in Routers \ {r} : h[x] = d[x]
      BY <1>0, <1>5, <1>6, <1>7
    <3> QED
      BY <1>0, <2>1, <3>1, SumChange
  <2> QED
    BY <2>2, <2>3
<1>9. SumFunctionOnSet(f, Routers) \in Int /\ SumFunctionOnSet(d, Routers) \in Int
  BY <1>6, RoutersAssumption, SumInt
<1> QED
  BY <1>0, <1>1, <1>2, <1>3, <1>4, <1>8, <1>9

(* The sums over the queues are integers.                                    *)
LEMMA QueueInt ==
  ASSUME NEW q \in [Routers -> OutPacket \cup {NoPacket}], NEW t
  PROVE  SizeIn(q, t) \in Int /\ EndsIn(q, t) \in Int
<1>1. 1 \in Routers
  BY Order
<1>2. Handed(q, q, 1, q[1])
  BY <1>1 DEF Handed
<1> QED
  BY <1>2, QueueChange

(* So are those over the cut packets.                                        *)
LEMMA CutInt ==
  ASSUME NEW p \in Seq(OutPacket), NEW t
  PROVE  SizeIn(p, t) \in Int /\ EndsIn(p, t) \in Int
<1>1. CASE p = << >>
  BY <1>1, CutNone
<1>2. CASE p # << >>
  <2>1. Head(p) \in OutPacket \cup {NoPacket}
    BY <1>2
  <2>2. SizeOf(Head(p), t) \in Nat /\ EndOf(Head(p), t) \in Nat
    BY <2>1, OutPacketReal
  <2>3. /\ SizeIn(p, t) = SizeOf(Head(p), t) + SizeIn(Tail(p), t)
        /\ EndsIn(p, t) = EndOf(Head(p), t) + EndsIn(Tail(p), t)
        /\ SizeIn(Tail(p), t) \in Int /\ EndsIn(Tail(p), t) \in Int
    BY <1>2, CutTail
  <2> QED
    BY <2>2, <2>3
<1> QED
  BY <1>1, <1>2

(* And those over what is uncut.                                            *)
LEMMA LeftInt ==
  ASSUME NEW q, Uncut(q), NEW t
  PROVE  LeftIn(q, t) \in Int
<1>1. CASE Has(q, t)
  <2>1. PICK k \in DOMAIN q : q[k].tid = t
    BY <1>1 DEF Has
  <2> QED
    BY <2>1, LeftAt DEF Datum
<1>2. CASE ~Has(q, t)
  BY <1>2, LeftNone
<1> QED
  BY <1>1, <1>2

(* The packets of a transfer in the write queue are counted.                  *)
LEMMA HeldNat ==
  ASSUME NEW q, Listed(q), NEW t
  PROVE  Held(q, t) \in Nat
  BY HeldAppend

(* The packets the read side cuts, one from every entry.                      *)
LEMMA CutAt ==
  ASSUME NEW q, Uncut(q)
  PROVE  /\ CutPackets(q) \in Seq(OutPacket)
         /\ \A k \in DOMAIN q :
              /\ SizeIn(CutPackets(q), q[k].tid)
                   = IF q[k].left > PacketBytes THEN PacketBytes ELSE q[k].left
              /\ EndsIn(CutPackets(q), q[k].tid) = IF q[k].left <= PacketBytes THEN 1 ELSE 0
         /\ \A t : ~Has(q, t) => SizeIn(CutPackets(q), t) = 0 /\ EndsIn(CutPackets(q), t) = 0
<1> DEFINE p == CutPackets(q)
           size(i) == IF q[i].left > PacketBytes THEN PacketBytes ELSE q[i].left
           end(i) == q[i].left <= PacketBytes
           f(t) == [i \in DOMAIN p |-> IF p[i] # NoPacket /\ p[i].tid = t THEN p[i].size ELSE 0]
           d(t) == [i \in DOMAIN p |-> IF p[i] # NoPacket /\ p[i].tid = t /\ p[i].end THEN 1 ELSE 0]
<1>1. q \in Seq(Datum) /\ Single(q)
  BY DEF Uncut
<1>2. DOMAIN q = 1 .. Len(q) /\ Len(q) \in Nat /\ \A i \in DOMAIN q : q[i] \in Datum
  BY <1>1
<1>3. IsFiniteSet(DOMAIN q)
  BY <1>2, FS_Interval
<1>4. /\ DOMAIN p = DOMAIN q
      /\ \A i \in DOMAIN q : p[i] = [tid |-> q[i].tid, size |-> size(i), end |-> end(i)]
  BY DEF CutPackets
<1>5. \A i \in DOMAIN q : size(i) \in Nat \ {0} /\ q[i].tid \in Tids /\ end(i) \in BOOLEAN
  BY <1>2, PlatformAssumption, DDRAssumption DEF Datum, OutIds
<1>6. \A i \in DOMAIN q : p[i] \in OutPacket
  <2> TAKE i \in DOMAIN q
  <2> HIDE DEF p, size, end
  <2> QED
    BY <1>4, <1>5 DEF OutPacket
<1>18. \A i \in DOMAIN q : /\ p[i].tid = q[i].tid /\ p[i].size = size(i)
                          /\ p[i].end = end(i)
  <2> HIDE DEF p, size, end
  <2> QED
    BY <1>4
<1>7. p \in Seq(OutPacket)
  <2>1. p = [i \in 1 .. Len(q) |-> p[i]]
    BY <1>2 DEF CutPackets
  <2> HIDE DEF p
  <2>2. p \in [1 .. Len(q) -> OutPacket]
    BY <1>2, <1>6, <2>1
  <2> QED
    BY <1>2, <2>2
<1>8. \A i \in DOMAIN q : p[i] # NoPacket
  BY <1>6, QueueAssumption DEF OutPacket, Packet
<1>9. \A t : SizeIn(p, t) = SumFunctionOnSet(f(t), DOMAIN q) /\ EndsIn(p, t) = SumFunctionOnSet(d(t), DOMAIN q)
  BY <1>4 DEF SizeIn, EndsIn
<1>10. ASSUME NEW k \in DOMAIN q
       PROVE  /\ SizeIn(p, q[k].tid) = size(k)
              /\ EndsIn(p, q[k].tid) = IF q[k].left <= PacketBytes THEN 1 ELSE 0
  <2> DEFINE t == q[k].tid
             x == f(t)
             y == d(t)
  <2>1. x[k] = size(k) /\ y[k] = IF q[k].left <= PacketBytes THEN 1 ELSE 0
    <3> HIDE DEF p, size, end
    <3>1. k \in DOMAIN p /\ p[k] # NoPacket /\ p[k].tid = t
      BY <1>4, <1>8, <1>18
    <3>2. x[k] = size(k)
      BY <1>18, <3>1
    <3>3. y[k] = IF end(k) THEN 1 ELSE 0
      BY <1>18, <3>1
    <3> QED
      BY <3>2, <3>3 DEF end
  <2>2. \A i \in DOMAIN q \ {k} : x[i] = 0 /\ y[i] = 0
    <3>1. \A i \in DOMAIN q \ {k} : p[i].tid # t
      BY <1>1, <1>4 DEF Single
    <3> QED
      BY <1>4, <3>1
  <2>3. x[k] \in Int /\ y[k] \in Int
    BY <1>5, <2>1
  <2>4. SizeIn(p, t) = SumFunctionOnSet(x, DOMAIN q) /\ EndsIn(p, t) = SumFunctionOnSet(y, DOMAIN q)
    BY <1>9
  <2> HIDE DEF x, y, size
  <2>5. SumFunctionOnSet(x, DOMAIN q) = x[k] /\ SumFunctionOnSet(y, DOMAIN q) = y[k]
    BY <1>3, <2>2, <2>3, SumOnly
  <2> QED
    BY <2>1, <2>4, <2>5
<1>11. ASSUME NEW t, ~Has(q, t)
       PROVE  SizeIn(p, t) = 0 /\ EndsIn(p, t) = 0
  <2> DEFINE x == f(t)
             y == d(t)
  <2>1. \A i \in DOMAIN q : x[i] = 0 /\ y[i] = 0
    <3>1. \A i \in DOMAIN q : p[i].tid # t
      BY <1>4, <1>11 DEF Has
    <3> QED
      BY <1>4, <3>1
  <2>2. SizeIn(p, t) = SumFunctionOnSet(x, DOMAIN q) /\ EndsIn(p, t) = SumFunctionOnSet(y, DOMAIN q)
    BY <1>9
  <2> HIDE DEF x, y
  <2> QED
    BY <1>3, <2>1, <2>2, SumZero
<1> QED
  BY <1>7, <1>10, <1>11

(* What is left when every entry has given a packet.                         *)
LEMMA CutLeft ==
  ASSUME NEW q, Uncut(q)
  PROVE  /\ Uncut(CutRest(q))
         /\ \A k \in DOMAIN q :
              /\ LeftIn(CutRest(q), q[k].tid)
                   = IF q[k].left > PacketBytes THEN q[k].left - PacketBytes ELSE 0
              /\ Has(CutRest(q), q[k].tid) <=> q[k].left > PacketBytes
         /\ \A t : ~Has(q, t) => ~Has(CutRest(q), t)
<1> DEFINE long == {i \in DOMAIN q : q[i].left > PacketBytes}
           rank(i) == Cardinality({h \in long : h <= i})
           nth(k) == CHOOSE i \in long : rank(i) = k
           r == CutRest(q)
           n == Cardinality(long)
<1>1. q \in Seq(Datum) /\ Single(q)
  BY DEF Uncut
<1>2. DOMAIN q = 1 .. Len(q) /\ Len(q) \in Nat /\ \A i \in DOMAIN q : q[i] \in Datum
  BY <1>1
<1>3. IsFiniteSet(long) /\ long \subseteq Nat
  <2>1. IsFiniteSet(DOMAIN q) /\ long \in SUBSET DOMAIN q
    BY <1>2, FS_Interval
  <2>2. long \subseteq Nat
    BY <1>2
  <2> HIDE DEF long
  <2> QED
    BY <2>1, <2>2, FS_Subset
<1>4. /\ n \in Nat
      /\ \A i, j \in long : rank(i) = rank(j) => i = j
      /\ \A i \in long : rank(i) \in 1 .. n
      /\ \A k \in 1 .. n : \E i \in long : rank(i) = k
  <2> HIDE DEF long
  <2> QED
    BY <1>3, Ranked
<1>5. r = [k \in 1 .. n |-> [q[nth(k)] EXCEPT !.left = @ - PacketBytes]]
  BY DEF CutRest
<1> HIDE DEF rank, r, n
<1>6. \A k \in 1 .. n : nth(k) \in long /\ rank(nth(k)) = k
  BY <1>4
<1>7. \A i \in long : nth(rank(i)) = i
  BY <1>4, <1>6
<1> HIDE DEF nth
<1>8. \A i \in long : /\ i \in DOMAIN q /\ q[i].left > PacketBytes /\ q[i] \in Datum
  BY <1>2
<1>9. DOMAIN r = 1 .. n
  BY <1>5
<1>10. \A k \in 1 .. n : /\ r[k] = [tid |-> q[nth(k)].tid, left |-> q[nth(k)].left - PacketBytes]
                         /\ r[k] \in Datum /\ r[k].tid = q[nth(k)].tid
                         /\ r[k].left = q[nth(k)].left - PacketBytes
  <2> TAKE k \in 1 .. n
  <2>1. r[k] = [q[nth(k)] EXCEPT !.left = @ - PacketBytes]
    BY <1>5
  <2>2. q[nth(k)] \in Datum /\ q[nth(k)].left > PacketBytes
    BY <1>6, <1>8
  <2> QED
    BY <2>1, <2>2, PlatformAssumption DEF Datum
<1> HIDE DEF long
<1>11. r \in Seq(Datum)
  <2>1. r \in [1 .. n -> Datum]
    BY <1>5, <1>9, <1>10
  <2> QED
    BY <1>4, <2>1
<1>12. Single(r)
  <2> SUFFICES ASSUME NEW i \in 1 .. n, NEW j \in 1 .. n, r[i].tid = r[j].tid PROVE i = j
    BY <1>9 DEF Single
  <2>1. q[nth(i)].tid = q[nth(j)].tid
    BY <1>10
  <2>2. nth(i) = nth(j)
    BY <1>1, <1>6, <1>8, <2>1 DEF Single
  <2> QED
    BY <1>6, <2>2
<1>13. Uncut(r)
  BY <1>11, <1>12 DEF Uncut
<1>14. ASSUME NEW k \in DOMAIN q, q[k].left > PacketBytes
       PROVE  Has(r, q[k].tid) /\ LeftIn(r, q[k].tid) = q[k].left - PacketBytes
  <2> DEFINE m == rank(k)
  <2>1. k \in long
    BY <1>14 DEF long
  <2>2. m \in DOMAIN r /\ nth(m) = k
    BY <1>4, <1>7, <1>9, <2>1
  <2>3. r[m].tid = q[k].tid /\ r[m].left = q[k].left - PacketBytes
    BY <1>9, <1>10, <2>2
  <2> HIDE DEF m
  <2>4. LeftIn(r, r[m].tid) = r[m].left /\ Has(r, r[m].tid)
    BY <1>13, <2>2, LeftAt
  <2> QED
    BY <2>3, <2>4
<1>15. ASSUME NEW t, Has(r, t)
       PROVE  \E k \in DOMAIN q : q[k].tid = t /\ q[k].left > PacketBytes
  <2>1. PICK m \in 1 .. n : r[m].tid = t
    BY <1>9, <1>15 DEF Has
  <2>2. nth(m) \in DOMAIN q /\ q[nth(m)].left > PacketBytes /\ q[nth(m)].tid = t
    BY <1>6, <1>8, <1>10, <2>1
  <2> QED
    BY <2>2
<1>16. ASSUME NEW k \in DOMAIN q, ~(q[k].left > PacketBytes)
       PROVE  ~Has(r, q[k].tid) /\ LeftIn(r, q[k].tid) = 0
  <2>1. ~Has(r, q[k].tid)
    BY <1>1, <1>15, <1>16 DEF Single
  <2> QED
    BY <1>13, <2>1, LeftNone
<1>17. ASSUME NEW t, ~Has(q, t) PROVE ~Has(r, t)
  BY <1>15, <1>17 DEF Has
<1> QED
  BY <1>13, <1>14, <1>16, <1>17 DEF r

(* The read side cuts packets when it has none: what is uncut becomes less by  *)
(* as much, and an end is cut with the last byte.                            *)
LEMMA RefillAccount ==
  ASSUME NEW s, DOMAIN s = Fields, NEW q, NEW v, Accounts(s, q, v),
         NEW f, f = Refill(s)
  PROVE  Same(s, f, {"packets", "data"}) /\ Accounts(f, q, v)
<1>1. CASE s.packets # << >>
  <2>1. f = s
    BY <1>1 DEF Refill
  <2> QED
    BY <2>1 DEF Same
<1>2. CASE s.packets = << >>
  <2> DEFINE c == CutPackets(s.data)
             r == CutRest(s.data)
  <2>1. f = [s EXCEPT !.packets = c, !.data = r]
    BY <1>2 DEF Refill
  <2> HIDE DEF c, r
  <2>2. /\ Same(s, f, {"packets", "data"}) /\ f.packets = c /\ f.data = r /\ f.ofm = s.ofm
    BY <2>1 DEF Same, Fields
  <2>3. /\ Uncut(s.data) /\ q \in [Routers -> OutPacket \cup {NoPacket}]
        /\ v \in [Tids -> [bytes : Int, ends : Int]]
    BY DEF Accounts
  <2>4. /\ c \in Seq(OutPacket) /\ Uncut(r)
        /\ \A k \in DOMAIN s.data :
             /\ SizeIn(c, s.data[k].tid)
                  = IF s.data[k].left > PacketBytes THEN PacketBytes ELSE s.data[k].left
             /\ EndsIn(c, s.data[k].tid) = IF s.data[k].left <= PacketBytes THEN 1 ELSE 0
             /\ LeftIn(r, s.data[k].tid)
                  = IF s.data[k].left > PacketBytes THEN s.data[k].left - PacketBytes ELSE 0
             /\ Has(r, s.data[k].tid) <=> s.data[k].left > PacketBytes
        /\ \A t : ~Has(s.data, t) => /\ SizeIn(c, t) = 0 /\ EndsIn(c, t) = 0
                                     /\ ~Has(r, t)
    BY <2>3, CutAt, CutLeft DEF c, r
  <2>5. \A t : SizeIn(s.packets, t) = 0 /\ EndsIn(s.packets, t) = 0
    BY <1>2, CutNone
  <2>6. ASSUME NEW t \in OutIds PROVE Account(f, q, v, t)
    <3>1. Account(s, q, v, t)
      BY DEF Accounts
    <3>2. t \in Tids /\ v[t].bytes \in Int /\ v[t].ends \in Int
      BY <2>3, DDRAssumption DEF OutIds
    <3>3. SizeIn(q, t) \in Int /\ EndsIn(q, t) \in Int
      BY <2>3, QueueInt
    <3>4. CASE ~Has(s.data, t)
      <4>1. LeftIn(s.data, t) = 0 /\ LeftIn(r, t) = 0 /\ ~Has(r, t)
        BY <2>3, <2>4, <3>4, LeftNone
      <4>2. Bytes(f, q, v, t) = Bytes(s, q, v, t) /\ Marks(f, q, v, t) = Marks(s, q, v, t)
        BY <2>2, <2>4, <2>5, <3>4, <4>1 DEF Bytes, Marks
      <4> QED
        BY <2>2, <3>1, <3>4, <4>1, <4>2 DEF Account
    <3>5. CASE Has(s.data, t)
      <4>1. PICK k \in DOMAIN s.data : s.data[k].tid = t
        BY <3>5 DEF Has
      <4> DEFINE n == s.data[k].left
      <4>2. LeftIn(s.data, t) = n /\ n \in Nat \ {0} /\ PacketBytes \in Nat \ {0}
        BY <2>3, <4>1, LeftAt, PlatformAssumption DEF Datum
      <4>3. /\ SizeIn(c, t) = IF n > PacketBytes THEN PacketBytes ELSE n
            /\ EndsIn(c, t) = IF n <= PacketBytes THEN 1 ELSE 0
            /\ LeftIn(r, t) = IF n > PacketBytes THEN n - PacketBytes ELSE 0
            /\ Has(r, t) <=> n > PacketBytes
        BY <2>4, <4>1
      <4> HIDE DEF n
      <4>4. LeftIn(r, t) + SizeIn(c, t) = n /\ LeftIn(r, t) \in Int /\ SizeIn(c, t) \in Int
        BY <4>2, <4>3
      <4>5. Bytes(f, q, v, t) = Bytes(s, q, v, t)
        BY <2>2, <2>5, <3>2, <3>3, <4>2, <4>4 DEF Bytes
      <4>6. ~s.ofm[t].open
        BY <3>1, <3>5 DEF Account
      <4>7. EndsIn(q, t) + v[t].ends = 0
        BY <2>5, <3>1, <3>2, <3>3, <3>5, <4>6 DEF Account, Marks
      <4>8. Marks(f, q, v, t) = EndsIn(c, t)
        BY <2>2, <3>2, <3>3, <4>3, <4>7 DEF Marks
      <4>9. EndsIn(c, t) = IF Has(r, t) THEN 0 ELSE 1
        BY <4>2, <4>3
      <4> QED
        BY <2>2, <3>1, <4>5, <4>6, <4>8, <4>9 DEF Account
    <3> QED
      BY <3>4, <3>5
  <2> QED
    BY <2>2, <2>3, <2>4, <2>6 DEF Accounts
<1> QED
  BY <1>1, <1>2

(* A refill finds something to send if there is something to cut.             *)
LEMMA RefillSome ==
  ASSUME NEW s, DOMAIN s = Fields, s.packets # << >> \/ s.data # << >>, Uncut(s.data)
  PROVE  Refill(s).packets # << >>
<1>1. CASE s.packets # << >>
  BY <1>1 DEF Refill
<1>2. CASE s.packets = << >>
  <2> DEFINE c == CutPackets(s.data)
  <2>1. Refill(s) = [s EXCEPT !.packets = c, !.data = CutRest(s.data)] /\ s.data # << >>
    BY <1>2 DEF Refill
  <2>2. Listed(s.data)
    BY SeqListed DEF Uncut
  <2>3. c # << >>
    BY <2>1, <2>2, CutListed
  <2> HIDE DEF c
  <2>4. Refill(s).packets = c
    BY <2>1 DEF Fields
  <2> QED
    BY <2>3, <2>4
<1> QED
  BY <1>1, <1>2

(* A packet keeps the channel busy for a number of cycles.                   *)
LEMMA CyclesNat ==
  ASSUME NEW n \in Nat \ {0}
  PROVE  Cycles(n) - 1 \in Nat
<1>1. Bandwidth \in Nat \ {0}
  BY DDRAssumption
<1>2. n + Bandwidth - 1 >= Bandwidth
  BY <1>1
<1>3. (n + Bandwidth - 1) \div Bandwidth \in Nat /\ (n + Bandwidth - 1) \div Bandwidth >= 1
  BY <1>1, <1>2, Z3
<1> QED
  BY <1>3 DEF Cycles

(* The packet that is served goes from the cut ones into a queue.             *)
Given(q, z, r, p) == z = [q EXCEPT ![r] = p]

(* Serving a packet keeps the account of every output.                       *)
LEMMA ServeAccount ==
  ASSUME NEW s, DOMAIN s = Fields, NEW q, NEW v, Accounts(s, q, v),
         s.packets # << >> \/ s.data # << >>,
         NEW r \in Routers, q[r] = NoPacket, NEW e, e = ServeOne(s),
         NEW z, Given(q, z, r, ServedPacket(s))
  PROVE  /\ Same(s, e, {"packets", "data", "time_cnt", "grant", "router"})
         /\ Accounts(e, z, v) /\ e.time_cnt \in Nat
<1> DEFINE f == Refill(s)
           h == Head(f.packets)
           b == Tail(f.packets)
           n == Cycles(h.size) - 1
<1>1. Same(s, f, {"packets", "data"}) /\ Accounts(f, q, v)
  BY RefillAccount
<1>2. f.packets # << >>
  BY RefillSome DEF Accounts
<1>3. e = [f EXCEPT !.packets = b, !.time_cnt = n, !.grant = NoGrant, !.router = NoRouter]
  BY DEF ServeOne
<1>4. z = [q EXCEPT ![r] = h]
  BY DEF ServedPacket, Given
<1> HIDE DEF f
<1>5. f.packets \in Seq(OutPacket) /\ h \in OutPacket /\ b \in Seq(OutPacket)
  BY <1>1, <1>2 DEF Accounts
<1>6. n \in Nat
  <2>1. h.size \in Nat \ {0}
    BY <1>5 DEF OutPacket
  <2> QED
    BY <2>1, CyclesNat
<1>7. \A t : /\ SizeIn(f.packets, t) = SizeOf(h, t) + SizeIn(b, t)
             /\ EndsIn(f.packets, t) = EndOf(h, t) + EndsIn(b, t)
             /\ SizeIn(b, t) \in Int /\ EndsIn(b, t) \in Int
  BY <1>2, <1>5, CutTail
<1>8. q \in [Routers -> OutPacket \cup {NoPacket}] /\ v \in [Tids -> [bytes : Int, ends : Int]]
  BY <1>1 DEF Accounts
<1> HIDE DEF h, b, n
<1>9. /\ DOMAIN e = Fields /\ e.packets = b /\ e.time_cnt = n
      /\ e.data = f.data /\ e.ofm = f.ofm
      /\ Same(s, e, {"packets", "data", "time_cnt", "grant", "router"})
  BY <1>1, <1>3 DEF Same, Fields
<1>10. \A t : /\ z \in [Routers -> OutPacket \cup {NoPacket}]
              /\ SizeIn(z, t) = SizeIn(q, t) + SizeOf(h, t) - SizeOf(NoPacket, t)
              /\ EndsIn(z, t) = EndsIn(q, t) + EndOf(h, t) - EndOf(NoPacket, t)
              /\ SizeIn(q, t) \in Int /\ EndsIn(q, t) \in Int
  <2> TAKE t
  <2>1. h \in OutPacket \cup {NoPacket} /\ q[r] = NoPacket
    BY <1>5
  <2>2. /\ z \in [Routers -> OutPacket \cup {NoPacket}]
        /\ SizeIn(z, t) = SizeIn(q, t) + SizeOf(h, t) - SizeOf(q[r], t)
        /\ EndsIn(z, t) = EndsIn(q, t) + EndOf(h, t) - EndOf(q[r], t)
        /\ SizeIn(q, t) \in Int /\ EndsIn(q, t) \in Int
    <3>1. Handed(q, z, r, h)
      BY <1>4, <1>8, <2>1 DEF Handed
    <3> QED
      BY <3>1, QueueChange
  <2> QED
    BY <2>1, <2>2
<1>11. \A t : /\ SizeOf(h, t) \in Int /\ EndOf(h, t) \in Int
              /\ SizeOf(NoPacket, t) = 0 /\ EndOf(NoPacket, t) = 0
  <2>1. \A t : SizeOf(h, t) \in Int /\ EndOf(h, t) \in Int
    BY <1>5, OutPacketReal
  <2>2. \A t : SizeOf(NoPacket, t) = 0 /\ EndOf(NoPacket, t) = 0
    BY DEF SizeOf, EndOf
  <2> QED
    BY <2>1, <2>2
<1>12. ASSUME NEW t \in OutIds PROVE Account(e, z, v, t)
  <2>1. t \in Tids /\ v[t].bytes \in Int /\ v[t].ends \in Int
    BY <1>8, DDRAssumption DEF OutIds
  <2>2. LeftIn(f.data, t) \in Int
    <3>1. Uncut(f.data)
      BY <1>1 DEF Accounts
    <3> QED
      BY <3>1, LeftInt
  <2>3. /\ SizeIn(f.packets, t) = SizeOf(h, t) + SizeIn(b, t)
        /\ EndsIn(f.packets, t) = EndOf(h, t) + EndsIn(b, t)
        /\ SizeIn(b, t) \in Int /\ EndsIn(b, t) \in Int
    BY <1>7
  <2>4. /\ SizeIn(z, t) = SizeIn(q, t) + SizeOf(h, t) - SizeOf(NoPacket, t)
        /\ EndsIn(z, t) = EndsIn(q, t) + EndOf(h, t) - EndOf(NoPacket, t)
        /\ SizeIn(q, t) \in Int /\ EndsIn(q, t) \in Int
    BY <1>10
  <2>5. /\ SizeOf(h, t) \in Int /\ EndOf(h, t) \in Int
        /\ SizeOf(NoPacket, t) = 0 /\ EndOf(NoPacket, t) = 0
    BY <1>11
  <2>6. Bytes(e, z, v, t) = Bytes(f, q, v, t)
    <3>1. SizeIn(b, t) + SizeIn(z, t) = SizeIn(f.packets, t) + SizeIn(q, t)
      BY <2>3, <2>4, <2>5
    <3>2. SizeIn(z, t) \in Int /\ SizeIn(f.packets, t) \in Int
      BY <2>3, <2>4, <2>5
    <3>3. Bytes(e, z, v, t) = LeftIn(f.data, t) + SizeIn(b, t) + SizeIn(z, t) + v[t].bytes
      BY <1>9 DEF Bytes
    <3>4. Bytes(f, q, v, t) = LeftIn(f.data, t) + SizeIn(f.packets, t) + SizeIn(q, t) + v[t].bytes
      BY DEF Bytes
    <3> DEFINE left == LeftIn(f.data, t)
               out == v[t].bytes
               behind == SizeIn(b, t)
               queued == SizeIn(z, t)
               cut == SizeIn(f.packets, t)
               were == SizeIn(q, t)
    <3>5. /\ left \in Int /\ out \in Int /\ behind \in Int /\ queued \in Int /\ cut \in Int
          /\ were \in Int /\ behind + queued = cut + were
      BY <2>1, <2>2, <2>3, <2>4, <3>1, <3>2
    <3>6. /\ Bytes(e, z, v, t) = left + behind + queued + out
          /\ Bytes(f, q, v, t) = left + cut + were + out
      BY <3>3, <3>4
    <3> HIDE DEF left, out, behind, queued, cut, were
    <3> QED
      BY <3>5, <3>6
  <2>7. Marks(e, z, v, t) = Marks(f, q, v, t)
    <3>1. EndsIn(b, t) + EndsIn(z, t) = EndsIn(f.packets, t) + EndsIn(q, t)
      BY <2>3, <2>4, <2>5
    <3>2. EndsIn(z, t) \in Int /\ EndsIn(f.packets, t) \in Int
      BY <2>3, <2>4, <2>5
    <3> QED
      BY <1>9, <2>1, <2>3, <2>4, <3>1, <3>2 DEF Marks
  <2> QED
    BY <1>1, <1>9, <2>6, <2>7 DEF Accounts, Account
<1> QED
  BY <1>1, <1>5, <1>6, <1>9, <1>10, <1>12 DEF Accounts

(* An output of the list.                                                    *)
LEMMA OutListed ==
  ASSUME NEW t \in OutIds
  PROVE  /\ OutOf(t) \in DramOut /\ OutOf(t).tid = t /\ t \in Tids
         /\ OutOf(t).dst \in SUBSET Cores /\ IsFiniteSet(OutOf(t).dst)
         /\ OutOf(t).size \in Nat /\ Share(OutOf(t)) \in Nat \ {0}
         /\ OutOf(t).ifmaps \in Nat
         /\ Cardinality({i \in Tids : t \in DramIn[i]}) <= OutOf(t).ifmaps
         /\ OutOf(t).dst # {}
<1> DEFINE o == OutOf(t)
<1>1. \E x \in DramOut : x.tid = t
  BY DEF OutIds
<1>2. o \in DramOut /\ o.tid = t
  BY <1>1 DEF OutOf
<1> HIDE DEF o
<1>3. /\ o.tid \in Tids /\ o.ifmaps \in Nat /\ o.size \in Nat
      /\ o.dst \in SUBSET Cores /\ o.dst # {}
  BY <1>2, DDRAssumption
<1>4. /\ Cardinality({i \in Tids : o.tid \in DramIn[i]}) <= o.ifmaps
      /\ o.size >= DdrNum /\ IsFiniteSet(o.dst)
  BY <1>2, RelationAssumption
<1>5. DdrNum \in Nat \ {0}
  BY PlatformAssumption
<1>6. o.size \div DdrNum \in Nat \ {0}
  BY <1>3, <1>4, <1>5, Z3
<1> QED
  BY <1>2, <1>3, <1>4, <1>6 DEF o, Share

(* A finite set as a sequence without repetition.                            *)
LEMMA SetListed ==
  ASSUME NEW S, IsFiniteSet(S)
  PROVE  /\ SetToSeq(S) \in Seq(S)
         /\ \A i, j \in DOMAIN SetToSeq(S) : SetToSeq(S)[i] = SetToSeq(S)[j] => i = j
         /\ \A x \in S : \E i \in DOMAIN SetToSeq(S) : SetToSeq(S)[i] = x
<1> DEFINE n == Cardinality(S)
           w == SetToSeq(S)
<1>1. n \in Nat /\ ExistsBijection(1 .. n, S)
  BY FS_CardinalityType
<1>2. \E f \in [1 .. n -> S] : IsInjective(f)
  BY <1>1 DEF ExistsBijection, Bijection, Injection, IsInjective
<1>3. w \in [1 .. n -> S] /\ IsInjective(w)
  BY <1>2 DEF SetToSeq
<1> HIDE DEF w
<1>4. w \in Injection(1 .. n, S)
  BY <1>3 DEF Injection
<1>5. Cardinality(1 .. n) = n
  <2>1. IsFiniteSet(1 .. n) /\ Cardinality(1 .. n) = IF 1 > n THEN 0 ELSE n - 1 + 1
    BY <1>1, FS_Interval
  <2> HIDE DEF n
  <2> QED
    BY <1>1, <2>1
<1>6. w \in Surjection(1 .. n, S)
  BY <1>4, <1>5, FS_Injection
<1>7. \A x \in S : \E i \in 1 .. n : w[i] = x
  BY <1>6 DEF Surjection
<1> HIDE DEF n
<1>8. w \in Seq(S) /\ DOMAIN w = 1 .. n
  BY <1>1, <1>3
<1> QED
  BY <1>3, <1>7, <1>8 DEF IsInjective, w

(* The outputs of ready join the uncut ones.                                 *)
Share1(t) == [tid |-> t, left |-> Share(OutOf(t))]
Queues(q, d, R) ==
  /\ Uncut(q) /\ R \subseteq OutIds /\ (\A t \in R : ~Has(q, t))
  /\ d = q \o SetToSeq({Share1(t) : t \in R})

(* What joins is uncut and counts its share.                                 *)
LEMMA JoinUncut ==
  ASSUME NEW q, NEW d, NEW R, Queues(q, d, R), IsFiniteSet(R)
  PROVE  /\ Uncut(d)
         /\ \A t : Has(d, t) <=> Has(q, t) \/ t \in R
         /\ \A t : LeftIn(d, t) = IF t \in R THEN Share(OutOf(t)) ELSE LeftIn(q, t)
<1> DEFINE E == {Share1(t) : t \in R}
           w == SetToSeq(E)
<1>1. /\ q \in Seq(Datum) /\ Single(q) /\ R \subseteq OutIds /\ (\A t \in R : ~Has(q, t)) /\ Uncut(q)
  BY DEF Queues, Uncut
<1>2. IsFiniteSet(E)
  <2> DEFINE f == [t \in R |-> Share1(t)]
  <2>1. f \in Surjection(R, E)
    BY DEF Surjection
  <2> HIDE DEF E, f
  <2> QED
    BY <2>1, FS_Surjection
<1>3. \A t \in R : Share1(t) \in Datum /\ Share1(t).tid = t /\ Share1(t).left = Share(OutOf(t))
  BY <1>1, OutListed DEF Share1, Datum
<1>4. \A x \in E : x \in Datum /\ x.tid \in R /\ x = Share1(x.tid)
  BY <1>3
<1>5. \A t \in R : Share1(t) \in E
  OBVIOUS
<1>6. d = q \o w
  BY DEF Queues
<1> HIDE DEF E
<1>7. /\ w \in Seq(E)
      /\ \A i, j \in DOMAIN w : w[i] = w[j] => i = j
      /\ \A x \in E : \E i \in DOMAIN w : w[i] = x
  BY <1>2, SetListed
<1> HIDE DEF w
<1>8. w \in Seq(Datum)
  <2>1. E \subseteq Datum
    BY <1>4
  <2> QED
    BY <1>7, <2>1
<1> DEFINE m == Len(q)
           n == Len(w)
<1>9. /\ m \in Nat /\ n \in Nat /\ DOMAIN q = 1 .. m /\ DOMAIN w = 1 .. n
      /\ \A i \in 1 .. n : w[i] \in E
  BY <1>1, <1>7
<1>10. /\ d \in Seq(Datum) /\ DOMAIN d = 1 .. m + n
       /\ \A i \in 1 .. m : d[i] = q[i]
       /\ \A i \in 1 .. n : d[m + i] = w[i]
  BY <1>1, <1>6, <1>8
<1> HIDE DEF m, n
<1>11. \A i \in DOMAIN d : \/ i \in 1 .. m /\ d[i] = q[i]
                           \/ \E k \in 1 .. n : i = m + k /\ d[i] = w[k]
  <2> SUFFICES ASSUME NEW i \in 1 .. m + n, i \notin 1 .. m
               PROVE  \E k \in 1 .. n : i = m + k /\ d[i] = w[k]
    BY <1>10
  <2>1. i - m \in 1 .. n /\ i = m + (i - m)
    BY <1>9
  <2> QED
    BY <1>10, <2>1
<1>12. \A k \in 1 .. n : w[k].tid \in R /\ ~Has(q, w[k].tid) /\ w[k] = Share1(w[k].tid)
  BY <1>1, <1>4, <1>9
<1>13. Single(d)
  <2> SUFFICES ASSUME NEW i \in DOMAIN d, NEW j \in DOMAIN d, d[i].tid = d[j].tid
               PROVE  i = j
    BY DEF Single
  <2>1. CASE i \in 1 .. m /\ d[i] = q[i] /\ j \in 1 .. m /\ d[j] = q[j]
    BY <1>1, <1>9, <2>1 DEF Single
  <2>2. CASE /\ \E k \in 1 .. n : i = m + k /\ d[i] = w[k]
             /\ \E k \in 1 .. n : j = m + k /\ d[j] = w[k]
    <3>1. PICK k \in 1 .. n : i = m + k /\ d[i] = w[k]
      BY <2>2
    <3>2. PICK l \in 1 .. n : j = m + l /\ d[j] = w[l]
      BY <2>2
    <3>3. w[k] = w[l]
      BY <1>12, <3>1, <3>2
    <3> QED
      BY <1>7, <1>9, <3>1, <3>2, <3>3
  <2>3. CASE /\ i \in 1 .. m /\ d[i] = q[i]
             /\ \E k \in 1 .. n : j = m + k /\ d[j] = w[k]
    BY <1>9, <1>12, <2>3 DEF Has
  <2>4. CASE /\ j \in 1 .. m /\ d[j] = q[j]
             /\ \E k \in 1 .. n : i = m + k /\ d[i] = w[k]
    BY <1>9, <1>12, <2>4 DEF Has
  <2> QED
    BY <1>11, <2>1, <2>2, <2>3, <2>4
<1>14. Uncut(d)
  BY <1>10, <1>13 DEF Uncut
<1>15. ASSUME NEW t \in R PROVE Has(d, t) /\ LeftIn(d, t) = Share(OutOf(t))
  <2>1. PICK k \in 1 .. n : w[k] = Share1(t)
    BY <1>5, <1>7, <1>9
  <2>2. m + k \in DOMAIN d /\ d[m + k] = Share1(t)
    BY <1>9, <1>10, <2>1
  <2>3. d[m + k].tid = t /\ d[m + k].left = Share(OutOf(t))
    BY <1>3, <2>2
  <2>4. LeftIn(d, d[m + k].tid) = d[m + k].left /\ Has(d, d[m + k].tid)
    BY <1>14, <2>2, LeftAt
  <2> QED
    BY <2>3, <2>4
<1>16. ASSUME NEW t, t \notin R, Has(q, t) PROVE Has(d, t) /\ LeftIn(d, t) = LeftIn(q, t)
  <2>1. PICK k \in DOMAIN q : q[k].tid = t
    BY <1>16 DEF Has
  <2>2. k \in DOMAIN d /\ d[k] = q[k]
    BY <1>9, <1>10, <2>1
  <2>3. LeftIn(d, d[k].tid) = d[k].left /\ Has(d, d[k].tid)
    BY <1>14, <2>2, LeftAt
  <2>4. LeftIn(q, q[k].tid) = q[k].left
    BY <1>1, LeftAt
  <2> QED
    BY <2>1, <2>2, <2>3, <2>4
<1>17. ASSUME NEW t, t \notin R, ~Has(q, t) PROVE ~Has(d, t) /\ LeftIn(d, t) = LeftIn(q, t)
  <2>1. ~Has(d, t)
    <3> SUFFICES ASSUME NEW i \in DOMAIN d, d[i].tid = t PROVE FALSE
      BY DEF Has
    <3>1. CASE i \in 1 .. m /\ d[i] = q[i]
      BY <1>9, <1>17, <3>1 DEF Has
    <3>2. CASE \E k \in 1 .. n : i = m + k /\ d[i] = w[k]
      BY <1>12, <1>17, <3>2
    <3> QED
      BY <1>11, <3>1, <3>2
  <2> QED
    BY <1>1, <1>14, <1>17, <2>1, LeftNone
<1> QED
  BY <1>14, <1>15, <1>16, <1>17

-----------------------------------------------------------------------------
(* The entries before the outputs of T are looked at: those have just been     *)
(* counted down, and may have nothing to wait for.                          *)
Joinable(s, c, a, q, v, T) ==
  /\ DOMAIN s = Fields /\ T \subseteq OutIds /\ Entered(s) /\ Asked(a)
  /\ \A t \in T : Open(s, c, a, t)
  /\ \A t \in OutIds \ T : Closed(s, c, a, t) \/ (Open(s, c, a, t) /\ Waits(s, t))
  /\ Accounts(s, q, v)

(* An entry depends on the marks of the ends only.                           *)
LEMMA SameEntry ==
  ASSUME NEW s, NEW e, NEW c, NEW a, NEW t, e.end_set = s.end_set, e.ofm[t] = s.ofm[t]
  PROVE  /\ Depends(e, c, t) = Depends(s, c, t)
         /\ Closed(e, c, a, t) <=> Closed(s, c, a, t)
         /\ Open(e, c, a, t) <=> Open(s, c, a, t)
         /\ Waits(e, t) <=> Waits(s, t)
<1>1. Depends(e, c, t) = Depends(s, c, t)
  BY DEF Depends, Pending
<1> QED
  BY <1>1 DEF Closed, Open, Waits

(* What an open entry counts.                                               *)
LEMMA OpenCounts ==
  ASSUME NEW s, NEW c, NEW a, Asked(a), NEW t \in OutIds, Open(s, c, a, t)
  PROVE  /\ s.ofm[t].open = TRUE /\ s.ofm[t].ifmaps \in Nat /\ s.ofm[t].requests \in Nat
         /\ s.ofm[t].ifmaps = 0 => Depends(s, c, t) = {}
<1>1. /\ s.ofm[t] \in [open : {TRUE}, ifmaps : Nat, requests : Nat]
      /\ s.ofm[t].ifmaps >= Cardinality(Depends(s, c, t))
      /\ s.ofm[t].requests = Cardinality(OutOf(t).dst \ a[t])
  BY DEF Open
<1>2. IsFiniteSet(Depends(s, c, t))
  <2>1. Depends(s, c, t) \in SUBSET Tids
    BY DEF Depends
  <2> QED
    BY <2>1, DDRAssumption, FS_Subset
<1>4. s.ofm[t].ifmaps = 0 => Depends(s, c, t) = {}
  <2>1. Cardinality(Depends(s, c, t)) \in Nat
    BY <1>2, FS_CardinalityType
  <2>2. s.ofm[t].ifmaps = 0 => Cardinality(Depends(s, c, t)) = 0
    BY <1>1, <2>1
  <2> QED
    BY <1>2, <2>2, FS_EmptySet
<1> QED
  BY <1>1, <1>4

(* An output that has everything is complete.                                *)
Complete(s, c, a, t) == Depends(s, c, t) = {} /\ a[t] = OutOf(t).dst

(* An entry that waits for nothing has everything.                          *)
LEMMA OpenComplete ==
  ASSUME NEW s, NEW c, NEW a, Asked(a), NEW t \in OutIds, Open(s, c, a, t),
         s.ofm[t].ifmaps = 0, s.ofm[t].requests = 0
  PROVE  Complete(s, c, a, t)
<1>1. Depends(s, c, t) = {}
  BY OpenCounts
<1>2. IsFiniteSet(OutOf(t).dst \ a[t])
  <2>1. IsFiniteSet(OutOf(t).dst) /\ OutOf(t).dst \ a[t] \in SUBSET OutOf(t).dst
    BY OutListed
  <2> QED
    BY <2>1, FS_Subset
<1>3. OutOf(t).dst \ a[t] = {}
  <2>1. Cardinality(OutOf(t).dst \ a[t]) = 0
    BY DEF Open
  <2> QED
    BY <1>2, <2>1, FS_EmptySet
<1>4. a[t] \subseteq OutOf(t).dst
  BY DEF Asked
<1>5. a[t] = OutOf(t).dst
  BY <1>3, <1>4
<1> QED
  BY <1>1, <1>5 DEF Complete

(* The AND-join moves the outputs that have everything from the entries to the  *)
(* uncut ones.                                                              *)
LEMMA JoinServed ==
  ASSUME NEW s, NEW c, NEW a, NEW q, NEW v, NEW T, Joinable(s, c, a, q, v, T),
         NEW j, j = Join(s, T)
  PROVE  /\ Same(s, j, {"data", "ofm"})
         /\ Entries(j, c, a) /\ Accounts(j, q, v)
<1> DEFINE R == {t \in T : s.ofm[t].ifmaps = 0 /\ s.ofm[t].requests = 0}
           new == [t \in Tids |-> IF t \in R THEN Erased ELSE s.ofm[t]]
           d == s.data \o SetToSeq({Share1(t) : t \in R})
<1>1. /\ DOMAIN s = Fields /\ T \subseteq OutIds /\ Entered(s) /\ Asked(a)
      /\ Accounts(s, q, v) /\ OutIds \subseteq Tids
  BY DDRAssumption DEF Joinable, OutIds
<1>2. j = [s EXCEPT !.data = d, !.ofm = new]
  BY DEF Join, Share1
<1>3. /\ DOMAIN j = Fields /\ Same(s, j, {"data", "ofm"})
      /\ j.data = d /\ j.ofm = new /\ j.packets = s.packets /\ j.end_set = s.end_set
  <2> HIDE DEF d, new
  <2> QED
    BY <1>1, <1>2 DEF Same, Fields
<1>4. \A t \in T : Open(s, c, a, t)
  BY DEF Joinable
<1>5. R \subseteq T /\ IsFiniteSet(R) /\ R \subseteq OutIds
  <2>1. R \in SUBSET Tids
    BY <1>1
  <2> HIDE DEF R
  <2>2. IsFiniteSet(R)
    BY <2>1, DDRAssumption, FS_Subset
  <2> QED
    BY <1>1, <2>2 DEF R
<1>6. \A t \in R : s.ofm[t].open /\ Account(s, q, v, t) /\ ~Has(s.data, t)
  <2> TAKE t \in R
  <2>1. s.ofm[t].open
    BY <1>1, <1>4, <1>5, OpenCounts
  <2> QED
    BY <1>1, <1>5, <2>1 DEF Accounts, Account
<1>7. Queues(s.data, d, R)
  BY <1>1, <1>5, <1>6 DEF Queues, Accounts
<1>8. /\ Uncut(d)
      /\ \A t : Has(d, t) <=> Has(s.data, t) \/ t \in R
      /\ \A t : LeftIn(d, t) = IF t \in R THEN Share(OutOf(t)) ELSE LeftIn(s.data, t)
  <2> HIDE DEF R, d
  <2> QED
    BY <1>5, <1>7, JoinUncut
<1>9. \A t \in Tids : new[t] = IF t \in R THEN Erased ELSE s.ofm[t]
  OBVIOUS
<1>10. new \in [Tids -> [open : BOOLEAN, ifmaps : Int, requests : Int]]
  <2>1. Erased \in [open : BOOLEAN, ifmaps : Int, requests : Int]
    BY DEF Erased
  <2> HIDE DEF R
  <2> QED
    BY <1>1, <2>1 DEF Entered
<1>11. \A t \in T \ R : Waits(s, t)
  <2> TAKE t \in T \ R
  <2>1. s.ofm[t].ifmaps \in Nat /\ s.ofm[t].requests \in Nat
    BY <1>1, <1>4, OpenCounts
  <2> QED
    BY <2>1 DEF Waits
<1>12. \A t \in R : Complete(s, c, a, t)
  <2> TAKE t \in R
  <2>1. Open(s, c, a, t) /\ t \in OutIds /\ s.ofm[t].ifmaps = 0 /\ s.ofm[t].requests = 0
    BY <1>4, <1>5
  <2>2. Asked(a)
    BY <1>1
  <2> HIDE DEF R
  <2> QED
    BY <2>1, <2>2, OpenComplete
<1> HIDE DEF R, new, d
<1>13. Entries(j, c, a)
  <2>1. \A t \in Tids \ OutIds : new[t] = Erased
    BY <1>1, <1>9 DEF Entered
  <2>2. ASSUME NEW t \in OutIds
        PROVE  Closed(j, c, a, t) \/ (Open(j, c, a, t) /\ Waits(j, t))
    <3>1. CASE t \in R
      <4>1. j.ofm[t] = Erased
        BY <1>1, <1>3, <1>9, <3>1
      <4>2. Depends(j, c, t) = Depends(s, c, t)
        BY <1>3 DEF Depends, Pending
      <4> QED
        BY <1>12, <3>1, <4>1, <4>2 DEF Closed, Complete
    <3>2. CASE t \notin R
      <4>1. j.ofm[t] = s.ofm[t] /\ j.end_set = s.end_set
        BY <1>1, <1>3, <1>9, <3>2
      <4>2. Closed(s, c, a, t) \/ (Open(s, c, a, t) /\ Waits(s, t))
        BY <1>4, <1>11, <3>2 DEF Joinable
      <4> QED
        BY <4>1, <4>2, SameEntry
    <3> QED
      BY <3>1, <3>2
  <2> QED
    BY <1>3, <1>10, <2>1, <2>2 DEF Entries, Entered
<1>14. ASSUME NEW t \in OutIds PROVE Account(j, q, v, t)
  <2>1. Account(s, q, v, t) /\ Uncut(s.data) /\ t \in Tids
    BY <1>1 DEF Accounts
  <2>2. CASE t \in R
    <3>1. ~j.ofm[t].open
      BY <1>1, <1>3, <1>9, <2>2 DEF Erased
    <3>2. Has(j.data, t) /\ LeftIn(j.data, t) = Share(OutOf(t))
      BY <1>3, <1>8, <2>2
    <3>3. LeftIn(s.data, t) = 0
      BY <1>6, <2>1, <2>2, LeftNone
    <3>4. Bytes(s, q, v, t) = 0 /\ Marks(s, q, v, t) = 0
      BY <1>6, <2>2 DEF Account
    <3>5. Marks(j, q, v, t) = 0
      BY <1>3, <3>4 DEF Marks
    <3>6. Bytes(j, q, v, t) = Share(OutOf(t))
      <4> DEFINE share == Share(OutOf(t))
                 cut == SizeIn(s.packets, t)
                 queued == SizeIn(q, t)
                 out == v[t].bytes
      <4>1. share \in Int /\ cut \in Int /\ queued \in Int /\ out \in Int
        <5>1. /\ s.packets \in Seq(OutPacket)
              /\ q \in [Routers -> OutPacket \cup {NoPacket}]
              /\ v \in [Tids -> [bytes : Int, ends : Int]]
          BY <1>1 DEF Accounts
        <5>2. out \in Int
          BY <2>1, <5>1
        <5>3. cut \in Int /\ queued \in Int
          BY <5>1, CutInt, QueueInt
        <5>4. share \in Nat \ {0}
          BY OutListed, Zenon
        <5> QED
          BY <5>2, <5>3, <5>4
      <4>2. Bytes(j, q, v, t) = share + cut + queued + out
        BY <1>3, <3>2 DEF Bytes
      <4>3. 0 + cut + queued + out = 0
        BY <3>3, <3>4 DEF Bytes
      <4> HIDE DEF share, cut, queued, out
      <4>4. Bytes(j, q, v, t) = share
        BY <4>1, <4>2, <4>3
      <4> QED
        BY <4>4 DEF share
    <3> QED
      BY <3>1, <3>2, <3>5, <3>6 DEF Account
  <2>3. CASE t \notin R
    <3>1. /\ j.ofm[t] = s.ofm[t] /\ (Has(j.data, t) <=> Has(s.data, t))
          /\ LeftIn(j.data, t) = LeftIn(s.data, t)
      BY <1>1, <1>3, <1>8, <1>9, <2>3
    <3>2. Bytes(j, q, v, t) = Bytes(s, q, v, t) /\ Marks(j, q, v, t) = Marks(s, q, v, t)
      BY <1>3, <3>1 DEF Bytes, Marks
    <3> QED
      BY <2>1, <3>1, <3>2 DEF Account
  <2> QED
    BY <2>2, <2>3
<1> QED
  BY <1>1, <1>3, <1>8, <1>13, <1>14 DEF Accounts

(* The account of every output depends on what is in the queues, and on whether *)
(* its entry is open.                                                       *)
LEMMA SameAccounts ==
  ASSUME NEW s, NEW e, NEW q, NEW v, Accounts(s, q, v), e.data = s.data, e.packets = s.packets,
         \A t \in OutIds : e.ofm[t].open = s.ofm[t].open
  PROVE  Accounts(e, q, v)
<1>1. ASSUME NEW t \in OutIds PROVE Account(e, q, v, t)
  <2>1. Account(s, q, v, t) /\ e.ofm[t].open = s.ofm[t].open
    BY DEF Accounts
  <2>2. Bytes(e, q, v, t) = Bytes(s, q, v, t) /\ Marks(e, q, v, t) = Marks(s, q, v, t)
    BY DEF Bytes, Marks
  <2> QED
    BY <2>1, <2>2 DEF Account
<1> QED
  BY <1>1 DEF Accounts

(* A step that leaves all but the arbiter and the clock alone.                *)
ClockFields == {"grant", "granted", "router", "time_cnt", "ticked"}
(* Such a step keeps the invariant.                                         *)
LEMMA SameSound ==
  ASSUME NEW s, NEW e, Same(s, e, ClockFields), NEW c, NEW a, NEW q, NEW v, Sound(s, c, a, q, v),
         e.time_cnt \in Nat
  PROVE  Sound(e, c, a, q, v)
<1>1. /\ e.data = s.data /\ e.packets = s.packets /\ e.ofm = s.ofm /\ e.fifo = s.fifo
      /\ e.in_fifo = s.in_fifo /\ e.end_set = s.end_set
  BY DEF Same, Fields, ClockFields
<1>2. Accounts(e, q, v)
  BY <1>1, SameAccounts DEF Sound
<1>3. Coming(e, c) /\ Timed(e)
  BY <1>1 DEF Sound, Coming, Timed
<1>4. Entries(e, c, a)
  <2>1. Entered(e)
    BY <1>1 DEF Sound, Entries, Entered
  <2>2. \A t \in OutIds : Closed(s, c, a, t) \/ (Open(s, c, a, t) /\ Waits(s, t))
    BY DEF Sound, Entries
  <2>3. \A t \in OutIds : Closed(e, c, a, t) \/ (Open(e, c, a, t) /\ Waits(e, t))
    BY <1>1, <2>2, SameEntry
  <2> QED
    BY <2>1, <2>3 DEF Entries
<1> QED
  BY <1>2, <1>3, <1>4 DEF Sound

(* The read side serves a packet.                                           *)
LEMMA ServeSound ==
  ASSUME NEW s, DOMAIN s = Fields, NEW c, NEW a, NEW q, NEW v, Sound(s, c, a, q, v),
         s.packets # << >> \/ s.data # << >>, NEW r \in Routers, q[r] = NoPacket,
         NEW e, e = ServeOne(s), NEW z, Given(q, z, r, ServedPacket(s))
  PROVE  Sound(e, c, a, z, v)
<1>1. /\ Same(s, e, {"packets", "data", "time_cnt", "grant", "router"})
      /\ Accounts(e, z, v) /\ e.time_cnt \in Nat
  BY ServeAccount DEF Sound
<1>2. /\ e.ofm = s.ofm /\ e.fifo = s.fifo /\ e.in_fifo = s.in_fifo /\ e.end_set = s.end_set
  BY <1>1 DEF Same, Fields
<1>3. Coming(e, c) /\ Timed(e)
  BY <1>1, <1>2 DEF Sound, Coming, Timed
<1>4. Entries(e, c, a)
  <2>1. Entered(e)
    BY <1>2 DEF Sound, Entries, Entered
  <2>2. \A t \in OutIds : Closed(s, c, a, t) \/ (Open(s, c, a, t) /\ Waits(s, t))
    BY DEF Sound, Entries
  <2>3. \A t \in OutIds : Closed(e, c, a, t) \/ (Open(e, c, a, t) /\ Waits(e, t))
    BY <1>2, <2>2, SameEntry
  <2> QED
    BY <2>1, <2>3 DEF Entries
<1> QED
  BY <1>1, <1>3, <1>4 DEF Sound

(* The network takes a packet from a queue.                                  *)
LEMMA TakeSound ==
  ASSUME NEW s, NEW c, NEW a, NEW q, NEW v, Sound(s, c, a, q, v),
         NEW r \in Routers, q[r] # NoPacket,
         NEW z, Given(q, z, r, NoPacket),
         NEW w, w = [v EXCEPT ![q[r].tid].bytes = @ + q[r].size,
                              ![q[r].tid].ends = IF q[r].end THEN @ + 1 ELSE @]
  PROVE  Sound(s, c, a, z, w)
<1> DEFINE h == q[r]
<1>1. /\ Uncut(s.data) /\ s.packets \in Seq(OutPacket)
      /\ q \in [Routers -> OutPacket \cup {NoPacket}]
      /\ v \in [Tids -> [bytes : Int, ends : Int]]
  BY DEF Sound, Accounts
<1>2. h \in OutPacket /\ h.tid \in Tids /\ h.size \in Int /\ h.end \in BOOLEAN
  BY <1>1 DEF OutPacket
<1>3. Handed(q, z, r, NoPacket)
  BY <1>1 DEF Handed, Given
<1>4. w = [v EXCEPT ![h.tid].bytes = @ + h.size, ![h.tid].ends = IF h.end THEN @ + 1 ELSE @]
  OBVIOUS
<1> HIDE DEF h
<1>5. /\ w \in [Tids -> [bytes : Int, ends : Int]]
      /\ \A t \in Tids : /\ w[t].bytes = v[t].bytes + SizeOf(h, t)
                         /\ w[t].ends = v[t].ends + EndOf(h, t)
  <2>1. \A t \in Tids : v[t] = [bytes |-> v[t].bytes, ends |-> v[t].ends] /\ v[t].bytes \in Int /\ v[t].ends \in Int
    BY <1>1
  <2> DEFINE n == v[h.tid].bytes + h.size
             m == IF h.end THEN v[h.tid].ends + 1 ELSE v[h.tid].ends
  <2>2. w = [v EXCEPT ![h.tid] = [bytes |-> n, ends |-> m]]
    BY <1>1, <1>2, <1>4, <2>1
  <2>9. v[h.tid].bytes \in Int /\ v[h.tid].ends \in Int
    BY <1>2, <2>1
  <2>3. n \in Int /\ m \in Int
    BY <1>2, <2>9
  <2>4. n = v[h.tid].bytes + SizeOf(h, h.tid) /\ m = v[h.tid].ends + EndOf(h, h.tid)
    <3>1. SizeOf(h, h.tid) = h.size /\ EndOf(h, h.tid) = IF h.end THEN 1 ELSE 0
      BY <1>2, OutPacketReal
    <3>2. CASE h.end
      BY <2>9, <3>1, <3>2
    <3>3. CASE ~h.end
      BY <2>9, <3>1, <3>3
    <3> QED
      BY <3>2, <3>3
  <2>5. \A t \in Tids \ {h.tid} : SizeOf(h, t) = 0 /\ EndOf(h, t) = 0
    BY DEF SizeOf, EndOf
  <2> DEFINE y == [bytes |-> n, ends |-> m]
  <2>10. y \in [bytes : Int, ends : Int] /\ y.bytes = n /\ y.ends = m
    BY <2>3
  <2> HIDE DEF n, m, y
  <2>6. w \in [Tids -> [bytes : Int, ends : Int]]
    BY <1>1, <2>2, <2>10 DEF y
  <2>7. w[h.tid] = y /\ \A t \in Tids \ {h.tid} : w[t] = v[t]
    BY <1>1, <1>2, <2>2 DEF y
  <2>8. ASSUME NEW t \in Tids
        PROVE  w[t].bytes = v[t].bytes + SizeOf(h, t) /\ w[t].ends = v[t].ends + EndOf(h, t)
    <3>1. CASE t = h.tid
      <4>1. w[t] = y
        BY <2>7, <3>1
      <4> QED
        BY <2>4, <2>10, <3>1, <4>1
    <3>2. CASE t # h.tid
      <4>1. w[t] = v[t] /\ SizeOf(h, t) = 0 /\ EndOf(h, t) = 0 /\ v[t].bytes \in Int /\ v[t].ends \in Int
        BY <2>1, <2>5, <2>7, <3>2
      <4>2. v[t].bytes = v[t].bytes + 0 /\ v[t].ends = v[t].ends + 0
        BY <4>1
      <4> QED
        BY <4>1, <4>2
    <3> QED
      BY <3>1, <3>2
  <2> QED
    BY <2>6, <2>8
<1>6. ASSUME NEW t \in OutIds PROVE Account(s, z, w, t)
  <2>1. Account(s, q, v, t)
    BY DEF Sound, Accounts
  <2>2. /\ SizeIn(z, t) = SizeIn(q, t) + SizeOf(NoPacket, t) - SizeOf(h, t)
        /\ EndsIn(z, t) = EndsIn(q, t) + EndOf(NoPacket, t) - EndOf(h, t)
        /\ SizeIn(q, t) \in Int /\ EndsIn(q, t) \in Int
    BY <1>3, QueueChange DEF h
  <2>3. SizeOf(NoPacket, t) = 0 /\ EndOf(NoPacket, t) = 0
    BY DEF SizeOf, EndOf
  <2>4. SizeOf(h, t) \in Nat /\ EndOf(h, t) \in Nat
    BY <1>2, OutPacketReal
  <2>5. t \in Tids
    BY OutListed
  <2>6. /\ w[t].bytes = v[t].bytes + SizeOf(h, t) /\ w[t].ends = v[t].ends + EndOf(h, t)
        /\ v[t].bytes \in Int /\ v[t].ends \in Int
    BY <1>1, <1>5, <2>5
  <2>7. /\ SizeIn(z, t) + w[t].bytes = SizeIn(q, t) + v[t].bytes
        /\ EndsIn(z, t) + w[t].ends = EndsIn(q, t) + v[t].ends
        /\ SizeIn(z, t) \in Int /\ w[t].bytes \in Int /\ EndsIn(z, t) \in Int /\ w[t].ends \in Int
    BY <2>2, <2>3, <2>4, <2>6
  <2>8. LeftIn(s.data, t) \in Int /\ SizeIn(s.packets, t) \in Int /\ EndsIn(s.packets, t) \in Int
    BY <1>1, LeftInt, CutInt
  <2>9. Bytes(s, z, w, t) = Bytes(s, q, v, t)
    <3> DEFINE left == LeftIn(s.data, t)
               cut == SizeIn(s.packets, t)
               x == SizeIn(z, t)
               y == SizeIn(q, t)
               m == w[t].bytes
               n == v[t].bytes
    <3>1. /\ left \in Int /\ cut \in Int /\ x \in Int /\ y \in Int /\ m \in Int /\ n \in Int
          /\ x + m = y + n
      BY <2>2, <2>6, <2>7, <2>8
    <3>2. Bytes(s, z, w, t) = left + cut + x + m /\ Bytes(s, q, v, t) = left + cut + y + n
      BY DEF Bytes
    <3> HIDE DEF left, cut, x, y, m, n
    <3> QED
      BY <3>1, <3>2
  <2>10. Marks(s, z, w, t) = Marks(s, q, v, t)
    <3> DEFINE cut == EndsIn(s.packets, t)
               x == EndsIn(z, t)
               y == EndsIn(q, t)
               m == w[t].ends
               n == v[t].ends
    <3>1. /\ cut \in Int /\ x \in Int /\ y \in Int /\ m \in Int /\ n \in Int
          /\ x + m = y + n
      BY <2>2, <2>6, <2>7, <2>8
    <3>2. Marks(s, z, w, t) = cut + x + m /\ Marks(s, q, v, t) = cut + y + n
      BY DEF Marks
    <3> HIDE DEF cut, x, y, m, n
    <3> QED
      BY <3>1, <3>2
  <2> QED
    BY <2>1, <2>9, <2>10 DEF Account
<1>7. z \in [Routers -> OutPacket \cup {NoPacket}]
  BY <1>3, QueueChange
<1>8. Accounts(s, z, w)
  BY <1>1, <1>5, <1>6, <1>7 DEF Accounts
<1> QED
  BY <1>8 DEF Sound

(* A consumer asks for an output: it is open, and one request less is to come.  *)
LEMMA RequestSound ==
  ASSUME NEW s, DOMAIN s = Fields, NEW c, NEW a, NEW q, NEW v, Sound(s, c, a, q, v),
         NEW t \in OutIds, NEW k \in OutOf(t).dst \ a[t],
         NEW b, b = [a EXCEPT ![t] = @ \cup {k}], NEW e, e = DDRRequest(s, t)
  PROVE  Same(s, e, {"data", "ofm"}) /\ Sound(e, c, b, q, v)
<1> DEFINE o == [s.ofm EXCEPT ![t].requests = @ - 1]
           x == [s EXCEPT !.ofm = o]
<1>1. e = Join(x, {t})
  BY DEF DDRRequest
<1>2. /\ Coming(s, c) /\ Asked(a) /\ Entered(s) /\ Accounts(s, q, v) /\ Timed(s)
      /\ a \in [Tids -> SUBSET Cores] /\ a[t] \subseteq OutOf(t).dst
      /\ s.ofm \in [Tids -> [open : BOOLEAN, ifmaps : Int, requests : Int]]
  BY DEF Sound, Asked, Entries, Entered
<1>3. t \in Tids /\ OutOf(t).dst \subseteq Cores /\ IsFiniteSet(OutOf(t).dst)
  BY OutListed
<1>4. k \in OutOf(t).dst /\ k \notin a[t] /\ k \in Cores
  BY <1>3
<1>5. /\ b \in [Tids -> SUBSET Cores] /\ b[t] = a[t] \cup {k}
      /\ \A i \in Tids \ {t} : b[i] = a[i]
  BY <1>2, <1>3, <1>4
<1>6. Asked(b)
  BY <1>2, <1>3, <1>4, <1>5 DEF Asked
<1>7. Open(s, c, a, t)
  <2>1. ~Closed(s, c, a, t)
    BY <1>4 DEF Closed
  <2> QED
    BY <2>1 DEF Sound, Entries
<1>8. /\ DOMAIN x = Fields /\ Same(s, x, {"ofm"}) /\ x.ofm = o /\ x.data = s.data
      /\ x.packets = s.packets /\ x.end_set = s.end_set
  <2> HIDE DEF o
  <2> QED
    BY DEF Same, Fields
<1>9. /\ s.ofm[t] \in [open : {TRUE}, ifmaps : Nat, requests : Nat]
      /\ s.ofm[t].ifmaps >= Cardinality(Depends(s, c, t))
      /\ s.ofm[t].requests = Cardinality(OutOf(t).dst \ a[t])
  BY <1>7 DEF Open
<1> DEFINE n == s.ofm[t].requests - 1
           m == s.ofm[t].ifmaps
           y == [open |-> TRUE, ifmaps |-> m, requests |-> n]
<1>21. s.ofm[t] = [open |-> TRUE, ifmaps |-> m, requests |-> s.ofm[t].requests] /\ m \in Nat
  BY <1>9
<1>10. o = [s.ofm EXCEPT ![t] = y]
  <2>1. [s.ofm[t] EXCEPT !.requests = @ - 1] = y
    <3> DEFINE w == s.ofm[t]
               u == w.requests
               true == TRUE
    <3>1. w = [open |-> true, ifmaps |-> m, requests |-> u]
      BY <1>21
    <3> HIDE DEF w, m, n, u, true
    <3>2. [w EXCEPT !.requests = n] = [open |-> true, ifmaps |-> m, requests |-> n]
      BY <3>1
    <3> QED
      BY <3>2 DEF w, n, true
  <2> HIDE DEF y
  <2> QED
    BY <2>1
<1>11. n = Cardinality(OutOf(t).dst \ b[t]) /\ n \in Nat
  <2> DEFINE S == OutOf(t).dst \ a[t]
  <2>1. k \in S /\ OutOf(t).dst \ b[t] = S \ {k}
    BY <1>4, <1>5
  <2>2. IsFiniteSet(S)
    <3>1. S \in SUBSET OutOf(t).dst
      OBVIOUS
    <3> HIDE DEF S
    <3> QED
      BY <1>3, <3>1, FS_Subset
  <2>3. n = Cardinality(S) - 1
    BY <1>9
  <2> HIDE DEF S, n
  <2>4. IsFiniteSet(S \ {k}) /\ Cardinality(S \ {k}) = Cardinality(S) - 1
    BY <2>1, <2>2, FS_RemoveElement
  <2>5. Cardinality(S \ {k}) \in Nat
    BY <2>4, FS_CardinalityType
  <2> QED
    BY <2>1, <2>3, <2>4, <2>5
<1>22. /\ y \in [open : {TRUE}, ifmaps : Nat, requests : Nat]
       /\ y \in [open : BOOLEAN, ifmaps : Int, requests : Int]
       /\ y.open = TRUE /\ y.ifmaps = m /\ y.requests = n
  <2> HIDE DEF n, m
  <2> QED
    BY <1>11, <1>21
<1> HIDE DEF n, o, x, y
<1>12. /\ o[t] = y
       /\ \A i \in Tids \ {t} : o[i] = s.ofm[i]
  BY <1>2, <1>3, <1>10
<1>13. Entered(x)
  <2>1. y \in [open : BOOLEAN, ifmaps : Int, requests : Int]
    BY <1>22
  <2>2. o \in [Tids -> [open : BOOLEAN, ifmaps : Int, requests : Int]]
    BY <1>2, <1>10, <2>1
  <2>3. \A i \in Tids \ OutIds : o[i] = Erased
    BY <1>2, <1>12 DEF Entered
  <2> QED
    BY <1>8, <2>2, <2>3 DEF Entered
<1>14. Open(x, c, b, t)
  <2>1. Depends(x, c, t) = Depends(s, c, t)
    BY <1>8 DEF Depends, Pending
  <2>2. o[t] \in [open : {TRUE}, ifmaps : Nat, requests : Nat]
    BY <1>12, <1>22
  <2>3. o[t].ifmaps = s.ofm[t].ifmaps /\ o[t].requests = n
    BY <1>12, <1>22
  <2> QED
    BY <1>8, <1>9, <1>11, <2>1, <2>2, <2>3 DEF Open
<1>15. ASSUME NEW i \in OutIds \ {t}
       PROVE  Closed(x, c, b, i) \/ (Open(x, c, b, i) /\ Waits(x, i))
  <2>1. i \in Tids
    BY OutListed
  <2>2. x.ofm[i] = s.ofm[i] /\ b[i] = a[i] /\ x.end_set = s.end_set
    BY <1>5, <1>8, <1>12, <2>1
  <2>3. Closed(s, c, a, i) \/ (Open(s, c, a, i) /\ Waits(s, i))
    BY DEF Sound, Entries
  <2>4. Closed(x, c, a, i) \/ (Open(x, c, a, i) /\ Waits(x, i))
    BY <2>2, <2>3, SameEntry
  <2> QED
    BY <2>2, <2>4 DEF Closed, Open
<1>16. Accounts(x, q, v)
  <2>1. \A i \in OutIds : x.ofm[i].open = s.ofm[i].open
    <3> TAKE i \in OutIds
    <3>1. i \in Tids
      BY OutListed
    <3>2. s.ofm[t].open = TRUE
      BY <1>21
    <3>3. CASE i = t
      BY <1>8, <1>12, <1>22, <3>2, <3>3
    <3>4. CASE i # t
      BY <1>8, <1>12, <3>1, <3>4
    <3> QED
      BY <3>3, <3>4
  <2> QED
    BY <1>2, <1>8, <2>1, SameAccounts
<1>17. Joinable(x, c, b, q, v, {t})
  BY <1>6, <1>8, <1>13, <1>14, <1>15, <1>16 DEF Joinable
<1>18. Same(x, e, {"data", "ofm"}) /\ Entries(e, c, b) /\ Accounts(e, q, v)
  BY <1>1, <1>17, JoinServed
<1>19. /\ Same(s, e, {"data", "ofm"}) /\ e.end_set = s.end_set /\ e.in_fifo = s.in_fifo
       /\ e.fifo = s.fifo /\ e.time_cnt = s.time_cnt
  BY <1>8, <1>18 DEF Same, Fields
<1>20. Coming(e, c) /\ Timed(e)
  BY <1>2, <1>19 DEF Coming, Timed
<1> QED
  BY <1>6, <1>18, <1>19, <1>20 DEF Sound

-----------------------------------------------------------------------------
(* A sequence without its k-th element.                                      *)
LEMMA Removed ==
  ASSUME NEW S, NEW q \in Seq(S), NEW k \in DOMAIN q, NEW r, r = RemoveAt(q, k)
  PROVE  /\ r \in Seq(S) /\ Len(r) = Len(q) - 1 /\ Len(q) \in Nat \ {0} /\ k \in 1 .. Len(q)
         /\ \A j \in 1 .. Len(q) - 1 : r[j] = IF j < k THEN q[j] ELSE q[j + 1]
<1> DEFINE n == Len(q)
           x == SubSeq(q, 1, k - 1)
           y == SubSeq(q, k + 1, n)
<1>1. n \in Nat /\ k \in 1 .. n /\ n # 0
  OBVIOUS
<1>2. /\ x \in Seq(S) /\ Len(x) = k - 1 /\ \A j \in 1 .. k - 1 : x[j] = q[j]
  <2>1. \A j \in 1 .. k - 1 : j \in 1 .. n
    BY <1>1
  <2> QED
    BY <1>1, <2>1
<1>3. y \in Seq(S) /\ Len(y) = n - k /\ \A j \in 1 .. n - k : y[j] = q[k + j]
  <2>1. \A j \in 1 .. n - k : k + j \in 1 .. n /\ k + 1 + j - 1 = k + j
    BY <1>1
  <2> QED
    BY <1>1, <2>1
<1>4. r = x \o y
  BY DEF RemoveAt
<1> HIDE DEF x, y, n
<1>5. r \in Seq(S) /\ Len(r) = n - 1
  BY <1>1, <1>2, <1>3, <1>4
<1>6. ASSUME NEW j \in 1 .. n - 1 PROVE r[j] = IF j < k THEN q[j] ELSE q[j + 1]
  <2>1. CASE j < k
    <3>1. j \in 1 .. k - 1 /\ j \in 1 .. Len(x) + Len(y) /\ j <= Len(x)
      BY <1>1, <1>2, <1>3, <2>1
    <3>2. r[j] = x[j]
      BY <1>2, <1>3, <1>4, <3>1
    <3> QED
      BY <1>2, <2>1, <3>1, <3>2
  <2>2. CASE ~(j < k)
    <3>1. j - (k - 1) \in 1 .. n - k /\ k + (j - (k - 1)) = j + 1
      BY <1>1, <2>2
    <3>2. r[j] = y[j - (k - 1)]
      <4>1. j \in 1 .. Len(x) + Len(y) /\ ~(j <= Len(x))
        BY <1>1, <1>2, <1>3, <2>2
      <4>2. x \in Seq(S) /\ y \in Seq(S)
        BY <1>2, <1>3
      <4>3. r[j] = y[j - Len(x)]
        BY <1>4, <4>1, <4>2
      <4> QED
        BY <1>2, <4>3
    <3> QED
      BY <1>3, <2>2, <3>1, <3>2
  <2> QED
    BY <2>1, <2>2
<1> QED
  BY <1>1, <1>5, <1>6 DEF n

(* What is left of a stream when its k-th packet is taken: the ends that are     *)
(* left were there, and if its end is taken there is none left.               *)
Takes(c, d, t, k) ==
  t \in Tids /\ k \in DOMAIN c[t] /\ d = [c EXCEPT ![t] = RemoveAt(@, k)]
Taken(c, d, t, k) ==
  /\ d \in [Tids -> Seq(Stream)]
  /\ \A i \in Tids : \A j, l \in DOMAIN d[i] : d[i][j].end /\ d[i][l].end => j = l
  /\ \A i \in Tids \ {t} : d[i] = c[i]
  /\ EndComing(d, t) <=> EndComing(c, t) /\ ~c[t][k].end
  /\ c[t][k].size \in Nat \ {0} /\ c[t][k].end \in BOOLEAN
  /\ k = 1 /\ d[t] # << >> => d[t][Len(d[t])] = c[t][Len(c[t])]
  /\ k = 1 /\ d[t] = << >> => k = Len(c[t])

(* The rest of a stream is a stream.                                        *)
LEMMA StreamRest ==
  ASSUME NEW s, NEW c, Coming(s, c), NEW d, NEW t, NEW k, Takes(c, d, t, k)
  PROVE  Taken(c, d, t, k)
<1> DEFINE q == c[t]
           r == RemoveAt(q, k)
           old(j) == IF j < k THEN j ELSE j + 1
<1>0. t \in Tids /\ k \in DOMAIN q /\ d = [c EXCEPT ![t] = r]
  BY DEF Takes
<1>1. /\ c \in [Tids -> Seq(Stream)] /\ q \in Seq(Stream)
      /\ \A i \in Tids : \A j, l \in DOMAIN c[i] : c[i][j].end /\ c[i][l].end => j = l
  BY <1>0 DEF Coming
<1>2. /\ r \in Seq(Stream) /\ Len(r) = Len(q) - 1 /\ Len(q) \in Nat \ {0} /\ k \in 1 .. Len(q)
      /\ \A j \in 1 .. Len(q) - 1 : r[j] = IF j < k THEN q[j] ELSE q[j + 1]
  BY <1>0, <1>1, Removed
<1>3. d \in [Tids -> Seq(Stream)] /\ d[t] = r /\ \A i \in Tids \ {t} : d[i] = c[i]
  <2> HIDE DEF r, q
  <2> QED
    BY <1>0, <1>1, <1>2
<1> DEFINE n == Len(q)
<1>4. DOMAIN r = 1 .. n - 1 /\ DOMAIN q = 1 .. n /\ n \in Nat \ {0} /\ k \in 1 .. n
  BY <1>1, <1>2
<1>5. \A j \in 1 .. n - 1 : old(j) \in 1 .. n /\ old(j) # k /\ r[j] = q[old(j)]
  BY <1>2, <1>4
<1>6. \A j, l \in 1 .. n - 1 : old(j) = old(l) => j = l
  BY <1>4
<1>7. \A m \in 1 .. n : m # k => \E j \in 1 .. n - 1 : old(j) = m
  <2> TAKE m \in 1 .. n
  <2> HAVE m # k
  <2>1. CASE m < k
    <3>1. m \in 1 .. n - 1 /\ old(m) = m
      BY <1>4, <2>1
    <3> QED
      BY <3>1
  <2>2. CASE m > k
    <3>1. m - 1 \in 1 .. n - 1 /\ old(m - 1) = m
      BY <1>4, <2>2
    <3> QED
      BY <3>1
  <2> QED
    BY <1>4, <2>1, <2>2
<1> HIDE DEF q, r, old, n
<1>8. \A j, l \in 1 .. n : q[j].end /\ q[l].end => j = l
  BY <1>0, <1>1, <1>4 DEF q
<1>9. ASSUME NEW i \in Tids, NEW j \in DOMAIN d[i], NEW l \in DOMAIN d[i], d[i][j].end, d[i][l].end
      PROVE  j = l
  <2>1. CASE i = t
    <3>1. j \in 1 .. n - 1 /\ l \in 1 .. n - 1 /\ r[j].end /\ r[l].end
      BY <1>3, <1>4, <1>9, <2>1
    <3>2. q[old(j)].end /\ q[old(l)].end /\ old(j) \in 1 .. n /\ old(l) \in 1 .. n
      BY <1>5, <3>1
    <3> QED
      BY <1>6, <1>8, <3>1, <3>2
  <2>2. CASE i # t
    <3>1. d[i] = c[i]
      BY <1>3, <2>2
    <3> QED
      BY <1>1, <1>9, <3>1
  <2> QED
    BY <2>1, <2>2
<1>10. EndComing(d, t) => EndComing(c, t) /\ ~c[t][k].end
  <2> SUFFICES ASSUME NEW j \in DOMAIN d[t], d[t][j].end
               PROVE  EndComing(c, t) /\ ~c[t][k].end
    BY DEF EndComing
  <2>1. j \in 1 .. n - 1 /\ r[j].end
    BY <1>3, <1>4
  <2>2. old(j) \in 1 .. n /\ old(j) # k /\ q[old(j)].end
    BY <1>5, <2>1
  <2>3. EndComing(c, t)
    BY <1>4, <2>2 DEF EndComing, q
  <2>4. ~q[k].end
    BY <1>4, <1>8, <2>2
  <2> QED
    BY <2>3, <2>4 DEF q
<1>11. EndComing(c, t) /\ ~c[t][k].end => EndComing(d, t)
  <2> SUFFICES ASSUME NEW m \in DOMAIN q, q[m].end, ~q[k].end PROVE EndComing(d, t)
    BY DEF EndComing, q
  <2>1. PICK j \in 1 .. n - 1 : old(j) = m
    BY <1>4, <1>7
  <2>2. r[j].end /\ j \in DOMAIN r
    BY <1>4, <1>5, <2>1
  <2> QED
    BY <1>3, <2>2 DEF EndComing
<1>12. c[t][k].size \in Nat \ {0} /\ c[t][k].end \in BOOLEAN
  <2>1. q[k] \in Stream
    BY <1>1, <1>4
  <2> QED
    BY <2>1 DEF Stream, q
<1>13. ASSUME k = 1, d[t] # << >> PROVE d[t][Len(d[t])] = c[t][Len(c[t])]
  <2>1. r # << >> /\ Len(r) = n - 1 /\ n - 1 # 0
    BY <1>2, <1>3, <1>13 DEF n
  <2>2. n - 1 \in 1 .. n - 1 /\ old(n - 1) = n
    BY <1>4, <1>13, <2>1 DEF old
  <2>3. r[n - 1] = q[n]
    BY <1>5, <2>2
  <2> QED
    BY <1>3, <2>1, <2>3 DEF q, n
<1>14. ASSUME k = 1, d[t] = << >> PROVE k = Len(c[t])
  <2>1. r = << >> /\ Len(r) = n - 1
    BY <1>2, <1>3, <1>14 DEF n
  <2> QED
    BY <1>4, <1>14, <2>1 DEF n, q
<1> QED
  BY <1>3, <1>9, <1>10, <1>11, <1>12, <1>13, <1>14 DEF Taken

(* A packet of a transfer joins the write queue, its end the marks.           *)
LEMMA DataSound ==
  ASSUME NEW s, DOMAIN s = Fields, Counts(s),
         NEW c, NEW a, NEW q, NEW v, Sound(s, c, a, q, v),
         NEW d, NEW t, NEW k, Takes(c, d, t, k), k = 1 \/ Overtaking,
         NEW e, e = DDRData(s, t, c[t][k].size, c[t][k].end)
  PROVE  Sound(e, d, a, q, v)
<1> DEFINE n == c[t][k].size
           p == [tid |-> t, size |-> n]
           m == IF c[t][k].end THEN s.end_set \cup {t} ELSE s.end_set
<1>1. /\ Coming(s, c) /\ Asked(a) /\ Entries(s, c, a) /\ Accounts(s, q, v) /\ Timed(s)
  BY DEF Sound
<1>2. /\ d \in [Tids -> Seq(Stream)]
      /\ \A i \in Tids : \A j, l \in DOMAIN d[i] : d[i][j].end /\ d[i][l].end => j = l
      /\ \A i \in Tids \ {t} : d[i] = c[i]
      /\ EndComing(d, t) <=> EndComing(c, t) /\ ~c[t][k].end
      /\ n \in Nat \ {0} /\ c[t][k].end \in BOOLEAN
      /\ k = 1 /\ d[t] # << >> => d[t][Len(d[t])] = c[t][Len(c[t])]
      /\ k = 1 /\ d[t] = << >> => k = Len(c[t])
  <2>1. Taken(c, d, t, k)
    BY <1>1, StreamRest
  <2> QED
    BY <2>1 DEF Taken
<1>15. t \in Tids /\ k \in DOMAIN c[t]
  BY DEF Takes
<1>3. e = [s EXCEPT !.fifo = Append(@, p), !.in_fifo[t] = @ + 1, !.end_set = m]
  BY DEF DDRData
<1> HIDE DEF m, p
<1>4. /\ DOMAIN e = Fields /\ e.fifo = Append(s.fifo, p) /\ e.end_set = m
      /\ e.in_fifo = [s.in_fifo EXCEPT ![t] = @ + 1]
      /\ e.ofm = s.ofm /\ e.data = s.data /\ e.packets = s.packets /\ e.time_cnt = s.time_cnt
  BY <1>3 DEF Fields
<1>5. /\ Listed(s.fifo) /\ s.in_fifo \in [Tids -> Int] /\ s.end_set \subseteq Tids
  BY DEF Counts
<1>6. Timed(e)
  <2>1. /\ Len(e.fifo) = Len(s.fifo) + 1 /\ \A i \in 1 .. Len(s.fifo) : e.fifo[i] = s.fifo[i]
        /\ e.fifo[Len(s.fifo) + 1] = p /\ Len(s.fifo) \in Nat
    BY <1>4, <1>5, AppendListed DEF Listed
  <2>2. p.size \in Nat \ {0}
    BY <1>2 DEF p
  <2>3. \A i \in 1 .. Len(s.fifo) + 1 : i \in 1 .. Len(s.fifo) \/ i = Len(s.fifo) + 1
    BY <2>1
  <2>4. \A i \in 1 .. Len(e.fifo) : e.fifo[i].size \in Nat \ {0}
    BY <1>1, <2>1, <2>2, <2>3 DEF Timed
  <2> QED
    BY <1>1, <1>4, <2>4 DEF Timed
<1>7. Accounts(e, q, v)
  BY <1>1, <1>4, SameAccounts
<1>8. \A i \in Tids \ {t} : EndComing(d, i) <=> EndComing(c, i)
  BY <1>2 DEF EndComing
<1>9. \A i \in Tids : Pending(e, d, i) <=> Pending(s, c, i)
  <2> TAKE i \in Tids
  <2>1. CASE i # t
    <3>1. i \in m <=> i \in s.end_set
      BY <2>1 DEF m
    <3> QED
      BY <1>4, <1>8, <2>1, <3>1 DEF Pending
  <2>2. CASE i = t /\ c[t][k].end
    <3>1. t \in m
      BY <2>2 DEF m
    <3>2. EndComing(c, t)
      BY <1>15, <2>2 DEF EndComing
    <3> QED
      BY <1>4, <2>2, <3>1, <3>2 DEF Pending
  <2>3. CASE i = t /\ ~c[t][k].end
    <3>1. m = s.end_set
      BY <2>3 DEF m
    <3> QED
      BY <1>2, <1>4, <2>3, <3>1 DEF Pending
  <2> QED
    BY <2>1, <2>2, <2>3
<1>10. \A i : Depends(e, d, i) = Depends(s, c, i)
  BY <1>9 DEF Depends
<1>11. Entries(e, d, a)
  <2>1. Entered(e)
    BY <1>1, <1>4 DEF Entries, Entered
  <2>2. ASSUME NEW i \in OutIds
        PROVE  Closed(e, d, a, i) \/ (Open(e, d, a, i) /\ Waits(e, i))
    <3>1. Closed(s, c, a, i) \/ (Open(s, c, a, i) /\ Waits(s, i))
      BY <1>1 DEF Entries
    <3>2. e.ofm[i] = s.ofm[i] /\ Depends(e, d, i) = Depends(s, c, i)
      BY <1>4, <1>10
    <3> QED
      BY <3>1, <3>2 DEF Closed, Open, Waits
  <2> QED
    BY <2>1, <2>2 DEF Entries
<1>12. \A i \in e.end_set : ~EndComing(d, i)
  <2> TAKE i \in e.end_set
  <2>1. CASE i # t
    <3>1. i \in s.end_set /\ i \in Tids
      BY <1>4, <1>5, <2>1 DEF m
    <3> QED
      BY <1>1, <1>8, <2>1, <3>1 DEF Coming
  <2>2. CASE i = t /\ c[t][k].end
    BY <1>2, <2>2
  <2>3. CASE i = t /\ ~c[t][k].end
    <3>1. t \in s.end_set
      BY <1>4, <2>3 DEF m
    <3> QED
      BY <1>1, <1>2, <2>3, <3>1 DEF Coming
  <2> QED
    BY <2>1, <2>2, <2>3
<1>13. ~Overtaking => \A i \in Tids :
         /\ d[i] # << >> => d[i][Len(d[i])].end
         /\ d[i] = << >> /\ e.in_fifo[i] # 0 => i \in e.end_set
  <2> SUFFICES ASSUME ~Overtaking, NEW i \in Tids
               PROVE  /\ d[i] # << >> => d[i][Len(d[i])].end
                      /\ d[i] = << >> /\ e.in_fifo[i] # 0 => i \in e.end_set
    OBVIOUS
  <2>1. /\ c[i] # << >> => c[i][Len(c[i])].end
        /\ c[i] = << >> /\ s.in_fifo[i] # 0 => i \in s.end_set
    BY <1>1 DEF Coming
  <2>2. CASE i # t
    <3>1. d[i] = c[i] /\ e.in_fifo[i] = s.in_fifo[i] /\ (i \in e.end_set <=> i \in s.end_set)
      BY <1>2, <1>4, <1>5, <2>2 DEF m
    <3> QED
      BY <2>1, <3>1
  <2>3. CASE i = t
    <3>1. k = 1 /\ c[t] # << >>
      BY <1>15
    <3>2. c[t][Len(c[t])].end
      BY <2>1, <2>3, <3>1
    <3>3. d[t] = << >> => t \in m
      BY <1>2, <3>1, <3>2 DEF m
    <3> QED
      BY <1>2, <1>4, <2>3, <3>1, <3>2, <3>3
  <2> QED
    BY <2>2, <2>3
<1>14. Coming(e, d)
  BY <1>2, <1>12, <1>13 DEF Coming
<1> QED
  BY <1>1, <1>6, <1>7, <1>11, <1>14 DEF Sound

(* A drain that is not the last of its transfer.                             *)
LEMMA DrainMore ==
  ASSUME NEW s, DOMAIN s = Fields, Counts(s), s.fifo # << >>,
         NEW c, NEW a, NEW q, NEW v, Sound(s, c, a, q, v),
         NEW d, d = [s EXCEPT !.grant = NoGrant, !.time_cnt = Cycles(Head(s.fifo).size) - 1,
                              !.fifo = Tail(@), !.in_fifo[Head(s.fifo).tid] = @ - 1]
  PROVE  /\ Sound(d, c, a, q, v) /\ Head(s.fifo).tid \in Tids
         /\ Same(s, d, {"grant", "time_cnt", "fifo", "in_fifo"})
         /\ d.in_fifo = [s.in_fifo EXCEPT ![Head(s.fifo).tid] = @ - 1]
         /\ s.in_fifo[Head(s.fifo).tid] \in Int
<1> DEFINE p == Head(s.fifo)
           n == Cycles(p.size) - 1
<1>1. /\ Coming(s, c) /\ Asked(a) /\ Entries(s, c, a) /\ Accounts(s, q, v) /\ Timed(s)
  BY DEF Sound
<1>2. /\ Listed(s.fifo) /\ (\A i \in 1 .. Len(s.fifo) : s.fifo[i].tid \in Tids)
      /\ s.in_fifo \in [Tids -> Int]
      /\ \A t \in Tids : s.in_fifo[t] = Held(s.fifo, t)
  BY DEF Counts
<1>3. /\ Listed(Tail(s.fifo)) /\ Len(Tail(s.fifo)) = Len(s.fifo) - 1
      /\ Len(s.fifo) \in Nat /\ Len(s.fifo) > 0 /\ p = s.fifo[1]
      /\ \A i \in 1 .. Len(s.fifo) - 1 : Tail(s.fifo)[i] = s.fifo[i + 1]
  BY <1>2, TailListed
<1>4. p.tid \in Tids /\ p.size \in Nat \ {0}
  BY <1>1, <1>2, <1>3 DEF Timed
<1>5. n \in Nat
  BY <1>4, CyclesNat
<1>6. s.in_fifo[p.tid] # 0
  <2>1. Held(Tail(s.fifo), p.tid) \in Nat
    BY <1>3, HeldNat
  <2>2. /\ Held(s.fifo, p.tid) \in Nat
        /\ Held(Tail(s.fifo), p.tid) = Held(s.fifo, p.tid) - 1
    BY <1>2, HeldTail
  <2> QED
    BY <1>2, <1>4, <2>1, <2>2
<1> HIDE DEF n
<1>7. /\ Same(s, d, {"grant", "time_cnt", "fifo", "in_fifo"})
      /\ DOMAIN d = Fields /\ d.time_cnt = n /\ d.fifo = Tail(s.fifo)
      /\ d.in_fifo = [s.in_fifo EXCEPT ![p.tid] = @ - 1]
      /\ d.ofm = s.ofm /\ d.data = s.data /\ d.packets = s.packets /\ d.end_set = s.end_set
  <2>1. d = [s EXCEPT !.grant = NoGrant, !.time_cnt = n,
                      !.fifo = Tail(@), !.in_fifo[p.tid] = @ - 1]
    BY DEF n
  <2> HIDE DEF p
  <2> QED
    BY <2>1 DEF Same, Fields
<1> HIDE DEF p
<1>8. Timed(d)
  <2>1. \A i \in 1 .. Len(s.fifo) - 1 : i + 1 \in 1 .. Len(s.fifo)
    BY <1>3
  <2>2. \A i \in 1 .. Len(s.fifo) - 1 : d.fifo[i].size \in Nat \ {0}
    BY <1>1, <1>3, <1>7, <2>1 DEF Timed
  <2> QED
    BY <1>3, <1>5, <1>7, <2>2 DEF Timed
<1>9. Coming(d, c)
  <2>1. \A t \in Tids : d.in_fifo[t] # 0 => s.in_fifo[t] # 0
    BY <1>2, <1>4, <1>6, <1>7
  <2> QED
    BY <1>1, <1>7, <2>1 DEF Coming
<1>10. Accounts(d, q, v)
  BY <1>1, <1>7, SameAccounts
<1>11. Entries(d, c, a)
  <2>1. Entered(d)
    BY <1>1, <1>7 DEF Entries, Entered
  <2>2. \A t \in OutIds : Closed(s, c, a, t) \/ (Open(s, c, a, t) /\ Waits(s, t))
    BY <1>1 DEF Entries
  <2>3. \A t \in OutIds : Closed(d, c, a, t) \/ (Open(d, c, a, t) /\ Waits(d, t))
    BY <1>7, <2>2, SameEntry
  <2> QED
    BY <2>1, <2>3 DEF Entries
<1>12. Sound(d, c, a, q, v)
  BY <1>1, <1>8, <1>9, <1>10, <1>11 DEF Sound
<1> QED
  BY <1>2, <1>4, <1>7, <1>12 DEF p

(* The last one: the outputs that depend on the transfer are counted down.     *)
CountedDown(d, x, i) ==
  /\ Same(d, x, {"end_set", "ofm"}) /\ x.end_set = d.end_set \ {i}
  /\ x.ofm = [t \in Tids |-> IF t \in DramIn[i] THEN [d.ofm[t] EXCEPT !.ifmaps = @ - 1]
                             ELSE d.ofm[t]]

(* Those that have everything are released.                                 *)
LEMMA DrainLast ==
  ASSUME NEW d, DOMAIN d = Fields, NEW c, NEW a, NEW q, NEW v, Sound(d, c, a, q, v),
         NEW i \in d.end_set, i \in Tids, d.in_fifo[i] = 0,
         NEW x, CountedDown(d, x, i), NEW e, e = Join(x, DramIn[i])
  PROVE  Same(d, e, {"end_set", "ofm", "data"}) /\ Sound(e, c, a, q, v)
<1> DEFINE T == DramIn[i]
           m == d.end_set \ {i}
           o == [t \in Tids |-> IF t \in T THEN [d.ofm[t] EXCEPT !.ifmaps = @ - 1] ELSE d.ofm[t]]
<1>1. /\ Coming(d, c) /\ Asked(a) /\ Entries(d, c, a) /\ Accounts(d, q, v) /\ Timed(d)
      /\ Entered(d)
  BY DEF Sound, Entries
<1>2. T \subseteq OutIds /\ ~EndComing(c, i) /\ OutIds \subseteq Tids
  BY <1>1, RelationAssumption, OutListed DEF Coming
<1>3. e = Join(x, T)
  OBVIOUS
<1>19. Same(d, x, {"end_set", "ofm"}) /\ x.end_set = m /\ x.ofm = o
  BY DEF CountedDown
<1> HIDE DEF T, m, o
<1>4. /\ DOMAIN x = Fields /\ Same(d, x, {"end_set", "ofm"}) /\ x.ofm = o /\ x.data = d.data
      /\ x.packets = d.packets /\ x.end_set = m
  BY <1>19 DEF Same, Fields
<1>5. \A j \in Tids : Pending(x, c, j) <=> Pending(d, c, j) /\ j # i
  BY <1>2, <1>4 DEF Pending, m
<1>6. ASSUME NEW t \in T
      PROVE  /\ Open(d, c, a, t) /\ i \in Depends(d, c, t)
             /\ Depends(x, c, t) = Depends(d, c, t) \ {i}
  <2>1. i \in Depends(d, c, t)
    BY <1>6 DEF Depends, Pending, T
  <2>2. ~Closed(d, c, a, t)
    BY <2>1 DEF Closed
  <2>3. Open(d, c, a, t)
    BY <1>1, <1>2, <2>2 DEF Entries
  <2>4. Depends(x, c, t) = Depends(d, c, t) \ {i}
    BY <1>5 DEF Depends
  <2> QED
    BY <2>1, <2>3, <2>4
<1>7. ASSUME NEW t, t \notin T PROVE Depends(x, c, t) = Depends(d, c, t)
  BY <1>5, <1>7 DEF Depends, T
<1>8. ASSUME NEW t \in T
      PROVE  /\ o[t] \in [open : {TRUE}, ifmaps : Nat, requests : Nat]
             /\ o[t] \in [open : BOOLEAN, ifmaps : Int, requests : Int]
             /\ o[t].ifmaps >= Cardinality(Depends(x, c, t))
             /\ o[t].requests = d.ofm[t].requests /\ o[t].open = TRUE /\ d.ofm[t].open = TRUE
  <2>1. /\ d.ofm[t] \in [open : {TRUE}, ifmaps : Nat, requests : Nat]
        /\ d.ofm[t].ifmaps >= Cardinality(Depends(d, c, t))
    BY <1>6 DEF Open
  <2>2. IsFiniteSet(Depends(d, c, t))
    <3>1. Depends(d, c, t) \in SUBSET Tids
      BY DEF Depends
    <3> QED
      BY <3>1, DDRAssumption, FS_Subset
  <2>3. /\ Cardinality(Depends(x, c, t)) = Cardinality(Depends(d, c, t)) - 1
        /\ Cardinality(Depends(d, c, t)) \in Nat /\ Cardinality(Depends(x, c, t)) \in Nat
    <3>1. /\ IsFiniteSet(Depends(d, c, t) \ {i})
          /\ Cardinality(Depends(d, c, t) \ {i}) = Cardinality(Depends(d, c, t)) - 1
      BY <1>6, <2>2, FS_RemoveElement
    <3> QED
      BY <1>6, <2>2, <3>1, FS_CardinalityType
  <2> DEFINE w == d.ofm[t]
             k == w.ifmaps
             r == w.requests
             n == k - 1
             true == TRUE
  <2>4. w = [open |-> true, ifmaps |-> k, requests |-> r]
    BY <2>1
  <2>11. k \in Nat /\ r \in Nat /\ k >= Cardinality(Depends(d, c, t))
    BY <2>1
  <2>6. o[t] = [w EXCEPT !.ifmaps = n]
    BY <1>2 DEF o
  <2> HIDE DEF w, k, r, true
  <2>5. n \in Nat /\ n >= Cardinality(Depends(x, c, t))
    BY <2>3, <2>11
  <2> HIDE DEF n
  <2>7. [w EXCEPT !.ifmaps = n] = [open |-> true, ifmaps |-> n, requests |-> r]
    BY <2>4
  <2>8. o[t] = [open |-> true, ifmaps |-> n, requests |-> r]
    BY <2>6, <2>7
  <2> DEFINE z == [open |-> true, ifmaps |-> n, requests |-> r]
  <2>13. z.ifmaps = n /\ z.requests = r /\ z.open = true
    OBVIOUS
  <2>14. z \in [open : {true}, ifmaps : Nat, requests : Nat]
    BY <2>5, <2>11
  <2>15. true \in BOOLEAN
    BY DEF true
  <2>16. z \in [open : BOOLEAN, ifmaps : Int, requests : Int]
    BY <2>5, <2>11, <2>15
  <2> HIDE DEF z
  <2>17. o[t] = z
    BY <2>8 DEF z
  <2>9. o[t].ifmaps = n /\ o[t].requests = r /\ o[t].open = true
    BY <2>13, <2>17
  <2>12. w.open = true
    BY <2>4
  <2>10. o[t] \in [open : {true}, ifmaps : Nat, requests : Nat]
    BY <2>14, <2>17
  <2> QED
    BY <2>5, <2>9, <2>10, <2>12, <2>16, <2>17 DEF w, r, true
<1>9. \A t \in Tids \ T : o[t] = d.ofm[t]
  BY DEF o
<1>10. Entered(x)
  <2>1. \A t \in Tids : o[t] \in [open : BOOLEAN, ifmaps : Int, requests : Int]
    <3> TAKE t \in Tids
    <3>1. CASE t \in T
      BY <1>8, <3>1
    <3>2. CASE t \notin T
      BY <1>1, <1>9, <3>2 DEF Entered
    <3> QED
      BY <3>1, <3>2
  <2>2. o \in [Tids -> [open : BOOLEAN, ifmaps : Int, requests : Int]]
    <3>1. o = [t \in Tids |-> o[t]]
      BY DEF o
    <3> QED
      BY <2>1, <3>1
  <2>3. \A t \in Tids \ OutIds : o[t] = Erased
    BY <1>1, <1>2, <1>9 DEF Entered
  <2> QED
    BY <1>4, <2>2, <2>3 DEF Entered
<1>11. \A t \in T : Open(x, c, a, t)
  <2> TAKE t \in T
  <2>1. d.ofm[t].requests = Cardinality(OutOf(t).dst \ a[t])
    BY <1>6 DEF Open
  <2> QED
    BY <1>4, <1>8, <2>1 DEF Open
<1>12. ASSUME NEW t \in OutIds \ T
       PROVE  Closed(x, c, a, t) \/ (Open(x, c, a, t) /\ Waits(x, t))
  <2>1. Closed(d, c, a, t) \/ (Open(d, c, a, t) /\ Waits(d, t))
    BY <1>1 DEF Entries
  <2>2. x.ofm[t] = d.ofm[t] /\ Depends(x, c, t) = Depends(d, c, t)
    BY <1>2, <1>4, <1>7, <1>9
  <2> QED
    BY <2>1, <2>2 DEF Closed, Open, Waits
<1>13. Accounts(x, q, v)
  <2>1. \A t \in OutIds : x.ofm[t].open = d.ofm[t].open
    <3> TAKE t \in OutIds
    <3>1. CASE t \in T
      BY <1>4, <1>8, <3>1
    <3>2. CASE t \notin T
      BY <1>2, <1>4, <1>9, <3>2
    <3> QED
      BY <3>1, <3>2
  <2> QED
    BY <1>1, <1>4, <2>1, SameAccounts
<1>14. Joinable(x, c, a, q, v, T)
  BY <1>1, <1>2, <1>4, <1>10, <1>11, <1>12, <1>13 DEF Joinable
<1>15. Same(x, e, {"data", "ofm"}) /\ Entries(e, c, a) /\ Accounts(e, q, v)
  BY <1>3, <1>14, JoinServed
<1>16. /\ Same(d, e, {"end_set", "ofm", "data"}) /\ e.end_set = m /\ e.in_fifo = d.in_fifo
       /\ e.fifo = d.fifo /\ e.time_cnt = d.time_cnt
  BY <1>4, <1>15 DEF Same, Fields
<1>17. Timed(e)
  BY <1>1, <1>16 DEF Timed
<1>18. Coming(e, c)
  <2>1. \A t \in e.end_set : t \in d.end_set
    BY <1>16 DEF m
  <2>2. \A t \in Tids : t \in d.end_set /\ e.in_fifo[t] # 0 => t \in e.end_set
    BY <1>16 DEF m
  <2> QED
    BY <1>1, <1>16, <2>1, <2>2 DEF Coming
<1> QED
  BY <1>1, <1>15, <1>16, <1>17, <1>18 DEF Sound

(* The write side.                                                          *)
LEMMA DrainSound ==
  ASSUME NEW s, DOMAIN s = Fields, Counts(s), s.fifo # << >>,
         NEW c, NEW a, NEW q, NEW v, Sound(s, c, a, q, v), NEW e, e = DrainOne(s)
  PROVE  Sound(e, c, a, q, v)
<1> DEFINE p == Head(s.fifo)
           last == s.in_fifo[p.tid] = 1 /\ p.tid \in s.end_set
           d == [s EXCEPT !.grant = NoGrant, !.time_cnt = Cycles(Head(s.fifo).size) - 1,
                          !.fifo = Tail(@), !.in_fifo[Head(s.fifo).tid] = @ - 1]
           g == [d EXCEPT !.end_set = @ \ {p.tid}]
           x == [g EXCEPT !.ofm = [t \in Tids |-> IF t \in DramIn[p.tid]
                                                  THEN [g.ofm[t] EXCEPT !.ifmaps = @ - 1]
                                                  ELSE g.ofm[t]]]
<1>1. /\ Sound(d, c, a, q, v) /\ p.tid \in Tids
      /\ Same(s, d, {"grant", "time_cnt", "fifo", "in_fifo"})
      /\ d.in_fifo = [s.in_fifo EXCEPT ![p.tid] = @ - 1]
      /\ s.in_fifo[p.tid] \in Int
  BY DrainMore
<1>2. DOMAIN d = Fields /\ d.end_set = s.end_set
  BY <1>1 DEF Same, Fields
<1>3. e = IF last THEN Join(x, DramIn[p.tid]) ELSE d
  BY DEF DrainOne, Counted
<1>4. CASE ~last
  BY <1>1, <1>3, <1>4
<1>5. CASE last
  <2>1. e = Join(x, DramIn[p.tid])
    BY <1>3, <1>5
  <2> HIDE DEF d
  <2>2. /\ DOMAIN g = Fields /\ Same(d, g, {"end_set"}) /\ g.end_set = d.end_set \ {p.tid}
        /\ g.ofm = d.ofm
    BY <1>2 DEF Same, Fields
  <2> DEFINE o == [t \in Tids |-> IF t \in DramIn[p.tid] THEN [d.ofm[t] EXCEPT !.ifmaps = @ - 1]
                                  ELSE d.ofm[t]]
             h == [t \in Tids |-> IF t \in DramIn[p.tid] THEN [g.ofm[t] EXCEPT !.ifmaps = @ - 1]
                                  ELSE g.ofm[t]]
  <2> HIDE DEF g
  <2>3. x = [g EXCEPT !.ofm = o]
    <3>1. x = [g EXCEPT !.ofm = h]
      OBVIOUS
    <3>2. h = o
      BY <2>2
    <3> QED
      BY <3>1, <3>2
  <2> HIDE DEF x, o
  <2>4. Same(d, x, {"end_set", "ofm"}) /\ x.end_set = d.end_set \ {p.tid} /\ x.ofm = o
    BY <2>2, <2>3 DEF Same, Fields
  <2>5. CountedDown(d, x, p.tid)
    BY <2>4 DEF CountedDown, o
  <2>6. p.tid \in d.end_set /\ d.in_fifo[p.tid] = 0
    <3>1. s.in_fifo \in [Tids -> Int]
      BY DEF Counts
    <3> QED
      BY <1>1, <1>2, <1>5, <3>1
  <2> QED
    BY <1>1, <1>2, <2>1, <2>5, <2>6, DrainLast
<1> QED
  BY <1>4, <1>5

(* The clock stands still or is counted down.                                *)
LEMMA ArbitrateSound ==
  ASSUME DdrInv, ServedInv, NEW g, NEW q, NEW a, Arbitrated(g, q, a)
  PROVE  Sound(a, coming, asked, queue, served)
<1>1. DOMAIN ddr = Fields /\ ddr.time_cnt \in Nat
  BY DEF DdrInv, Shape, ServedInv, Sound, Timed
<1>2. Same(ddr, a, ClockFields)
  <2>1. Same(ddr, a, ArbiterFields)
    BY <1>1, ArbiterDraws, ArbiterCounts DEF Drawn, Undrawn
  <2> QED
    BY <2>1 DEF ArbiterFields, ClockFields
<1>3. a.time_cnt \in Nat
  <2>1. CASE Arbitrates(ddr, free)
    <3>1. Drawn(g, q, a)
      BY <1>1, <2>1, ArbiterDraws
    <3> QED
      BY <1>1, <3>1 DEF Drawn
  <2>2. CASE ~Arbitrates(ddr, free)
    <3>1. CASE ddr.time_cnt # 0 /\ ~ddr.ticked /\ ~ddr.granted
      <4>1. a = [ddr EXCEPT !.time_cnt = @ - 1, !.ticked = TRUE]
        BY <2>2, <3>1 DEF Arbitrated, Arbitrate
      <4>2. a.time_cnt = ddr.time_cnt - 1
        BY <1>1, <4>1 DEF Fields
      <4> QED
        BY <1>1, <3>1, <4>2
    <3>2. CASE ~(ddr.time_cnt # 0 /\ ~ddr.ticked /\ ~ddr.granted)
      <4>1. a = ddr
        BY <2>2, <3>2 DEF Arbitrated, Arbitrate
      <4> QED
        BY <1>1, <4>1
    <3> QED
      BY <3>1, <3>2
  <2> QED
    BY <2>1, <2>2
<1> QED
  BY <1>2, <1>3, SameSound DEF ServedInv

(* A call of run.                                                           *)
LEMMA RunServed ==
  ASSUME DdrInv, ServedInv, NEW g, NEW q \in free \cup {NoRouter}, g = ReadTurn <=> q \in free,
         RunRouter(g, q)
  PROVE  ServedInv'
<1> DEFINE a == Arbitrate(ddr, free, g, q)
           s == Run1(ddr, free, g, q)
           e == IF Serves(s, turn) THEN ServeOne(s) ELSE s
           z == IF Serves(s, turn) THEN [queue EXCEPT ![turn] = ServedPacket(s)] ELSE queue
<1>1. /\ turn # 0 /\ (Arbitrates(ddr, free) => g \in GrantChoices(ddr, free))
      /\ ddr' = IF turn = LastRouter THEN NextCycle(e) ELSE e
      /\ queue' = z /\ coming' = coming /\ asked' = asked /\ served' = served
  BY DEF RunRouter
<1>2. turn \in Routers
  BY <1>1 DEF DdrInv, Shape
<1>3. Arbitrated(g, q, a)
  BY DEF Arbitrated
<1>4. s = IF Drains(a) THEN DrainOne(a) ELSE a
  BY DEF Run1
<1>5. Ready(s)
  BY <1>1, DrainStep
<1> HIDE DEF a
<1>6. DOMAIN a = Fields /\ Counts(a)
  BY <1>1, <1>3, ArbitrateStep
<1>7. Sound(a, coming, asked, queue, served)
  BY <1>3, ArbitrateSound
<1> HIDE DEF s
<1>8. Sound(s, coming, asked, queue, served)
  <2>1. CASE Drains(a)
    BY <1>4, <1>6, <1>7, <2>1, DrainSound DEF Drains
  <2>2. CASE ~Drains(a)
    BY <1>4, <1>7, <2>2
  <2> QED
    BY <2>1, <2>2
<1>9. Sound(e, coming, asked, z, served) /\ DOMAIN e = Fields
  <2>1. CASE Serves(s, turn)
    <3>1. s.router = turn /\ (s.packets # << >> \/ s.data # << >>)
      BY <2>1 DEF Serves
    <3>2. queue[turn] = NoPacket /\ DOMAIN s = Fields
      BY <1>2, <1>5, <3>1, Order DEF Ready
    <3>3. Given(queue, z, turn, ServedPacket(s)) /\ e = ServeOne(s)
      BY <2>1 DEF Given
    <3> HIDE DEF e, z
    <3>4. Sound(e, coming, asked, z, served)
      BY <1>2, <1>8, <3>1, <3>2, <3>3, ServeSound
    <3>5. Same(s, e, {"packets", "data", "time_cnt", "grant", "router"})
      BY <1>5, <3>3, ServeFields DEF Ready
    <3> QED
      BY <3>4, <3>5 DEF Same
  <2>2. CASE ~Serves(s, turn)
    BY <1>5, <1>8, <2>2 DEF Ready
  <2> QED
    BY <2>1, <2>2
<1> HIDE DEF e, z
<1>10. Sound(ddr', coming, asked, z, served)
  <2>1. CASE turn = LastRouter
    <3>1. ddr' = [e EXCEPT !.granted = FALSE, !.ticked = FALSE]
      BY <1>1, <2>1 DEF NextCycle
    <3>2. Same(e, ddr', ClockFields) /\ ddr'.time_cnt = e.time_cnt
      BY <1>9, <3>1 DEF Same, Fields, ClockFields
    <3>3. e.time_cnt \in Nat
      BY <1>9 DEF Sound, Timed
    <3> QED
      BY <1>9, <3>2, <3>3, SameSound
  <2>2. CASE turn # LastRouter
    BY <1>1, <1>9, <2>2
  <2> QED
    BY <2>1, <2>2
<1> QED
  BY <1>1, <1>10 DEF ServedInv

(* Nothing is received, asked or drained in the beginning.                   *)
LEMMA ServedInit ==
  ASSUME Init
  PROVE  ServedInv
<1>1. /\ ddr = DDRInit /\ queue = [r \in Routers |-> NoPacket] /\ coming = Streams
      /\ asked = [t \in Tids |-> {}] /\ served = [t \in Tids |-> [bytes |-> 0, ends |-> 0]]
  BY DEF Init
<1> DEFINE o == [t \in Tids |-> IF t \in OutIds
                          THEN [open |-> TRUE, ifmaps |-> OutOf(t).ifmaps,
                                requests |-> Cardinality(OutOf(t).dst)]
                          ELSE Erased]
<1>2. /\ ddr.fifo = << >> /\ ddr.in_fifo = [t \in Tids |-> 0] /\ ddr.end_set = {}
      /\ ddr.data = << >> /\ ddr.packets = << >> /\ ddr.time_cnt = 0
  BY <1>1 DEF DDRInit
<1>3. ddr.ofm = o
  BY <1>1 DEF DDRInit
<1> HIDE DEF o
<1>4. Timed(ddr)
  BY <1>2 DEF Timed
<1>5. Asked(asked)
  <2>1. \A t \in OutIds : t \in Tids
    BY OutListed
  <2> QED
    BY <1>1, <2>1 DEF Asked
<1>6. Coming(ddr, coming)
  <2>1. \A t \in Tids : Streams[t] \in Seq(Stream)
                        /\ \A k \in DOMAIN Streams[t] : Streams[t][k].end <=> k = Len(Streams[t])
    BY StreamsAssumption DEF Stream
  <2>2. Streams \in [Tids -> Seq(Stream)]
    BY StreamsAssumption DEF Stream
  <2>3. \A t \in Tids : \A j, k \in DOMAIN Streams[t] : Streams[t][j].end /\ Streams[t][k].end => j = k
    BY <2>1
  <2>4. \A t \in Tids : Streams[t] # << >> => Streams[t][Len(Streams[t])].end
    <3> SUFFICES ASSUME NEW t \in Tids, Streams[t] # << >> PROVE Streams[t][Len(Streams[t])].end
      OBVIOUS
    <3>1. Len(Streams[t]) \in DOMAIN Streams[t]
      BY <2>1
    <3> QED
      BY <2>1, <3>1
  <2> QED
    BY <1>1, <1>2, <2>2, <2>3, <2>4 DEF Coming
<1>7. \A t \in Tids \ OutIds : o[t] = Erased
  BY DEF o
<1>8. ASSUME NEW t \in OutIds
      PROVE  /\ o[t] = [open |-> TRUE, ifmaps |-> OutOf(t).ifmaps,
                        requests |-> Cardinality(OutOf(t).dst)]
             /\ OutOf(t).ifmaps \in Nat /\ Cardinality(OutOf(t).dst) \in Nat \ {0}
             /\ OutOf(t).ifmaps >= Cardinality(Depends(ddr, coming, t))
  <2>1. o[t] = [open |-> TRUE, ifmaps |-> OutOf(t).ifmaps, requests |-> Cardinality(OutOf(t).dst)]
    BY OutListed DEF o
  <2>2. OutOf(t).ifmaps \in Nat /\ IsFiniteSet(OutOf(t).dst) /\ OutOf(t).dst # {}
    BY OutListed
  <2>3. Cardinality(OutOf(t).dst) \in Nat /\ Cardinality(OutOf(t).dst) # 0
    BY <2>2, FS_CardinalityType, FS_EmptySet
  <2> DEFINE S == {i \in Tids : t \in DramIn[i]}
             D == Depends(ddr, coming, t)
  <2>4. D \in SUBSET S /\ S \in SUBSET Tids
    BY DEF Depends
  <2>5. Cardinality(S) <= OutOf(t).ifmaps
    BY OutListed
  <2> HIDE DEF S, D
  <2>6. IsFiniteSet(S) /\ IsFiniteSet(D) /\ Cardinality(D) <= Cardinality(S)
    BY <2>4, DDRAssumption, FS_Subset
  <2>7. Cardinality(S) \in Nat /\ Cardinality(D) \in Nat
    BY <2>6, FS_CardinalityType
  <2>8. OutOf(t).ifmaps >= Cardinality(D)
    BY <2>2, <2>5, <2>6, <2>7
  <2> QED
    BY <2>1, <2>2, <2>3, <2>8 DEF D
<1>9. ASSUME NEW t \in OutIds
      PROVE  /\ Open(ddr, coming, asked, t) /\ Waits(ddr, t)
             /\ ddr.ofm[t].open = TRUE /\ o[t] \in [open : BOOLEAN, ifmaps : Int, requests : Int]
  <2> DEFINE n == OutOf(t).ifmaps
             k == Cardinality(OutOf(t).dst)
             y == [open |-> TRUE, ifmaps |-> n, requests |-> k]
  <2>1. o[t] = y /\ n \in Nat /\ k \in Nat \ {0} /\ n >= Cardinality(Depends(ddr, coming, t))
    BY <1>8
  <2>2. OutOf(t).dst \ asked[t] = OutOf(t).dst
    BY <1>1, OutListed
  <2>3. k = Cardinality(OutOf(t).dst \ asked[t])
    BY <2>2
  <2> HIDE DEF n, k
  <2>4. /\ y \in [open : {TRUE}, ifmaps : Nat, requests : Nat]
        /\ y \in [open : BOOLEAN, ifmaps : Int, requests : Int]
        /\ y.open = TRUE /\ y.ifmaps = n /\ y.requests = k
    BY <2>1
  <2> HIDE DEF y
  <2>5. ddr.ofm[t] = y
    BY <1>3, <2>1
  <2>6. Open(ddr, coming, asked, t)
    BY <2>1, <2>3, <2>4, <2>5 DEF Open
  <2>7. Waits(ddr, t)
    BY <2>1, <2>4, <2>5 DEF Waits
  <2> QED
    BY <2>1, <2>4, <2>5, <2>6, <2>7
<1>10. Entries(ddr, coming, asked)
  <2>1. \A t \in Tids : o[t] \in [open : BOOLEAN, ifmaps : Int, requests : Int]
    <3> TAKE t \in Tids
    <3>3. Erased \in [open : BOOLEAN, ifmaps : Int, requests : Int]
      BY DEF Erased
    <3>1. CASE t \in OutIds
      BY <1>9, <3>1
    <3>2. CASE t \notin OutIds
      BY <1>7, <3>2, <3>3
    <3> QED
      BY <3>1, <3>2
  <2>2. o \in [Tids -> [open : BOOLEAN, ifmaps : Int, requests : Int]]
    <3>1. o = [t \in Tids |-> o[t]]
      BY DEF o
    <3> QED
      BY <2>1, <3>1
  <2> QED
    BY <1>3, <1>7, <1>9, <2>2 DEF Entries, Entered
<1>11. Uncut(<< >>) /\ (\A t : ~Has(<< >>, t)) /\ << >> \in Seq(OutPacket)
  BY DEF Uncut, Single, Has
<1>12. \A t : SizeIn(queue, t) = 0 /\ EndsIn(queue, t) = 0
  <2> TAKE t
  <2> DEFINE f == [i \in DOMAIN queue |-> IF queue[i] # NoPacket /\ queue[i].tid = t
                                          THEN queue[i].size ELSE 0]
             d == [i \in DOMAIN queue |-> IF queue[i] # NoPacket /\ queue[i].tid = t /\ queue[i].end
                                          THEN 1 ELSE 0]
  <2>1. DOMAIN queue = Routers /\ \A r \in Routers : queue[r] = NoPacket
    BY <1>1
  <2>2. \A r \in Routers : f[r] = 0 /\ d[r] = 0
    BY <2>1
  <2>3. /\ SizeIn(queue, t) = SumFunctionOnSet(f, Routers)
        /\ EndsIn(queue, t) = SumFunctionOnSet(d, Routers)
    BY <2>1 DEF SizeIn, EndsIn
  <2> HIDE DEF f, d
  <2>4. IsFiniteSet(Routers)
    BY RoutersAssumption
  <2> QED
    BY <2>2, <2>3, <2>4, SumZero
<1>13. Accounts(ddr, queue, served)
  <2>1. queue \in [Routers -> OutPacket \cup {NoPacket}]
    BY <1>1
  <2>2. served \in [Tids -> [bytes : Int, ends : Int]]
    BY <1>1
  <2>3. ASSUME NEW t \in OutIds PROVE Account(ddr, queue, served, t)
    <3>1. served[t].bytes = 0 /\ served[t].ends = 0
      BY <1>1, OutListed
    <3>2. /\ LeftIn(ddr.data, t) = 0 /\ SizeIn(ddr.packets, t) = 0 /\ EndsIn(ddr.packets, t) = 0
          /\ SizeIn(queue, t) = 0 /\ EndsIn(queue, t) = 0
      BY <1>2, <1>12, CutNone
    <3>3. Bytes(ddr, queue, served, t) = 0 /\ Marks(ddr, queue, served, t) = 0
      BY <3>1, <3>2 DEF Bytes, Marks
    <3> QED
      BY <1>2, <1>9, <1>11, <3>3 DEF Account
  <2> QED
    BY <1>2, <1>11, <2>1, <2>2, <2>3 DEF Accounts
<1> QED
  BY <1>4, <1>5, <1>6, <1>10, <1>13 DEF ServedInv, Sound

-----------------------------------------------------------------------------
(* A step preserves the invariant.                                          *)
LEMMA ServedNext ==
  ASSUME DdrInv, ServedInv, [Next]_vars
  PROVE  ServedInv'
<1>0. /\ Sound(ddr, coming, asked, queue, served) /\ DOMAIN ddr = Fields /\ Counts(ddr)
      /\ NoRouter \notin free
  BY CountsHere, Order DEF ServedInv, DdrInv, Shape
<1>1. CASE BeginCycle
  <2>1. UNCHANGED <<ddr, queue, coming, asked, served>>
    BY <1>1 DEF BeginCycle
  <2> QED
    BY <1>0, <2>1 DEF ServedInv
<1>2. CASE Run
  <2>1. CASE RunRouter(WriteTurn, NoRouter)
    <3>1. (WriteTurn = ReadTurn) <=> (NoRouter \in free)
      BY <1>0 DEF WriteTurn, ReadTurn
    <3> QED
      BY <2>1, <3>1, RunServed
  <2>2. CASE \E q \in free : RunRouter(ReadTurn, q)
    BY <2>2, RunServed
  <2> QED
    BY <1>2, <2>1, <2>2 DEF Run
<1>3. ASSUME NEW t \in Tids, NEW c \in Cores, ReceiveRequest(t, c)
      PROVE  ServedInv'
  <2>1. /\ t \in OutIds /\ c \in OutOf(t).dst \ asked[t]
        /\ asked' = [asked EXCEPT ![t] = @ \cup {c}] /\ ddr' = DDRRequest(ddr, t)
        /\ UNCHANGED <<queue, coming, served>>
    BY <1>3 DEF ReceiveRequest
  <2>2. Sound(ddr', coming, asked', queue, served)
    BY <1>0, <2>1, RequestSound
  <2> QED
    BY <2>1, <2>2 DEF ServedInv
<1>4. ASSUME NEW t \in Tids, NEW k \in DOMAIN coming[t], ReceiveData(t, k)
      PROVE  ServedInv'
  <2>1. /\ k = 1 \/ Overtaking
        /\ coming' = [coming EXCEPT ![t] = RemoveAt(@, k)]
        /\ ddr' = DDRData(ddr, t, coming[t][k].size, coming[t][k].end)
        /\ UNCHANGED <<queue, asked, served>>
    BY <1>4 DEF ReceiveData
  <2>2. Takes(coming, coming', t, k)
    BY <2>1 DEF Takes
  <2>3. Sound(ddr', coming', asked, queue, served)
    BY <1>0, <2>1, <2>2, DataSound
  <2> QED
    BY <2>1, <2>3 DEF ServedInv
<1>5. ASSUME NEW r \in Routers, Take(r)
      PROVE  ServedInv'
  <2>1. /\ queue[r] # NoPacket /\ queue' = [queue EXCEPT ![r] = NoPacket]
        /\ served' = [served EXCEPT ![queue[r].tid].bytes = @ + queue[r].size,
                                    ![queue[r].tid].ends = IF queue[r].end THEN @ + 1 ELSE @]
        /\ UNCHANGED <<ddr, coming, asked>>
    BY <1>5 DEF Take
  <2>2. Given(queue, queue', r, NoPacket)
    BY <2>1 DEF Given
  <2>3. Sound(ddr, coming, asked, queue', served')
    BY <1>0, <2>1, <2>2, TakeSound
  <2> QED
    BY <2>1, <2>3 DEF ServedInv
<1>6. CASE UNCHANGED vars
  BY <1>0, <1>6 DEF vars, ServedInv
<1> QED
  BY <1>1, <1>2, <1>3, <1>4, <1>5, <1>6 DEF Next, Cycle, Receive

(* The number of packets held of a transfer is a natural.                     *)
LEMMA ServedTyped ==
  ASSUME DdrInv, ServedInv
  PROVE  TypeOK
<1>1. /\ Entries(ddr, coming, asked) /\ Entered(ddr) /\ Timed(ddr) /\ Uncut(ddr.data)
  BY DEF ServedInv, Sound, Accounts, Entries
<1>2. /\ ddr.grant \in {WriteTurn, ReadTurn, NoGrant} /\ ddr.router \in Routers \cup {NoRouter}
      /\ ddr.time_cnt \in Nat /\ ddr.end_set \subseteq Tids
      /\ turn \in Routers \cup {0} /\ free \subseteq Routers
  BY <1>1 DEF DdrInv, Shape, Timed
<1>3. ddr.in_fifo \in [Tids -> Nat]
  <2>1. ddr.in_fifo \in [Tids -> Int] /\ Counts(ddr)
    BY CountsHere DEF DdrInv, Shape
  <2>2. \A t \in Tids : ddr.in_fifo[t] \in Nat
    <3> TAKE t \in Tids
    <3>1. Listed(ddr.fifo) /\ ddr.in_fifo[t] = Held(ddr.fifo, t)
      BY <2>1 DEF Counts
    <3> QED
      BY <3>1, HeldNat
  <2> QED
    BY <2>1, <2>2
<1>4. \A t \in Tids : ddr.ofm[t] \in [open : BOOLEAN, ifmaps : Nat, requests : Nat]
  <2>1. Erased \in [open : BOOLEAN, ifmaps : Nat, requests : Nat]
    BY DEF Erased
  <2> TAKE t \in Tids
  <2>2. CASE t \notin OutIds
    BY <1>1, <2>1, <2>2 DEF Entered
  <2>3. CASE t \in OutIds
    <3>1. CASE Closed(ddr, coming, asked, t)
      BY <2>1, <3>1 DEF Closed
    <3>2. CASE Open(ddr, coming, asked, t)
      BY <3>2 DEF Open
    <3> QED
      BY <1>1, <2>3, <3>1, <3>2 DEF Entries
  <2> QED
    BY <2>2, <2>3
<1>5. ddr.ofm \in [Tids -> [open : BOOLEAN, ifmaps : Nat, requests : Nat]]
  <2>1. ddr.ofm = [t \in Tids |-> ddr.ofm[t]]
    BY <1>1 DEF Entered
  <2> QED
    BY <1>4, <2>1
<1>6. \A i \in DOMAIN ddr.data : ddr.data[i].left \in Nat
  <2>1. ddr.data \in Seq(Datum)
    BY <1>1 DEF Uncut
  <2>2. \A i \in DOMAIN ddr.data : ddr.data[i] \in Datum
    BY <2>1
  <2> QED
    BY <2>2 DEF Datum
<1> QED
  BY <1>2, <1>3, <1>5, <1>6 DEF TypeOK

(* What no output depends on any more is written, unless packets overtake.     *)
LEMMA ServedDrained ==
  ASSUME DdrInv, ServedInv, ~Overtaking
  PROVE  DrainedMeansAll
<1>1. Entries(ddr, coming, asked) /\ Coming(ddr, coming)
  BY DEF ServedInv, Sound
<1> SUFFICES ASSUME NEW t \in OutIds, ~ddr.ofm[t].open, NEW i \in Tids, t \in DramIn[i]
             PROVE  coming[i] = << >> /\ ddr.in_fifo[i] = 0
  BY DEF DrainedMeansAll
<1>2. Closed(ddr, coming, asked, t)
  BY <1>1 DEF Entries, Open
<1>3. i \notin ddr.end_set /\ ~EndComing(coming, i)
  BY <1>2 DEF Closed, Depends, Pending
<1>4. coming[i] = << >>
  <2>1. SUFFICES ASSUME coming[i] # << >> PROVE FALSE
    OBVIOUS
  <2>2. coming[i] \in Seq(Stream) /\ coming[i][Len(coming[i])].end
    BY <1>1, <2>1 DEF Coming
  <2>3. Len(coming[i]) \in DOMAIN coming[i]
    BY <2>1, <2>2
  <2> QED
    BY <1>3, <2>2, <2>3 DEF EndComing
<1> QED
  BY <1>1, <1>3, <1>4 DEF Coming

(* The invariant says of every output what is to be shown.                    *)
LEMMA ServedShows ==
  ASSUME DdrInv, ServedInv
  PROVE  ServedExactly
<1>1. TypeOK /\ (~Overtaking => DrainedMeansAll)
  BY ServedTyped, ServedDrained
<1>2. ASSUME NEW t \in OutIds
      PROVE  /\ ddr.ofm[t].open => Moving(t) = 0 /\ ddr.ofm[t].ifmaps + ddr.ofm[t].requests > 0
             /\ ~ddr.ofm[t].open => Moving(t) = Share(OutOf(t)) /\ asked[t] = OutOf(t).dst
             /\ ~ddr.ofm[t].open => (Ends(t) = IF Queued(t) = {} THEN 1 ELSE 0)
  <2>1. /\ Closed(ddr, coming, asked, t) \/ (Open(ddr, coming, asked, t) /\ Waits(ddr, t))
        /\ Account(ddr, queue, served, t)
    BY DEF ServedInv, Sound, Entries, Accounts
  <2>2. /\ Moving(t) = Bytes(ddr, queue, served, t) /\ Ends(t) = Marks(ddr, queue, served, t)
    BY DEF Moving, Bytes, Ends, Marks
  <2>3. Queued(t) = {} <=> ~Has(ddr.data, t)
    BY DEF Queued, Has
  <2>4. CASE ddr.ofm[t].open
    <3>1. Waits(ddr, t)
      BY <2>1, <2>4 DEF Closed, Erased
    <3>2. Moving(t) = 0
      BY <2>1, <2>2, <2>4 DEF Account
    <3> QED
      BY <2>4, <3>1, <3>2 DEF Waits
  <2>5. CASE ~ddr.ofm[t].open
    <3>1. asked[t] = OutOf(t).dst
      BY <2>1, <2>5 DEF Closed, Open
    <3>2. /\ Moving(t) = Share(OutOf(t))
          /\ Ends(t) = IF Queued(t) = {} THEN 1 ELSE 0
      BY <2>1, <2>2, <2>3, <2>5 DEF Account
    <3> QED
      BY <2>5, <3>1, <3>2
  <2> QED
    BY <2>4, <2>5
<1> QED
  BY <1>1, <1>2 DEF ServedExactly

(* An output of a DDR is released when it is complete, and then its share is  *)
(* delivered: no byte of it is lost, doubled or early, and one packet in all,  *)
(* the last, is marked as its end (ddr.cpp's run and receive_message).        *)
THEOREM ServedStaysExact == Spec => []ServedExactly
<1>1. Init => ServedInv
  BY ServedInit
<1>2. DdrInv /\ ServedInv /\ [Next]_vars => ServedInv'
  BY ServedNext
<1>3. DdrInv /\ ServedInv => ServedExactly
  BY ServedShows
<1> QED
  BY <1>1, <1>2, <1>3, DdrInvariance, PTL DEF Spec
=============================================================================
