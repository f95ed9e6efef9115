------------------------------ MODULE HubProofs ------------------------------
(***************************************************************************)
(* What is proved of any number of hubs, packets and VCs.                    *)
(***************************************************************************)
EXTENDS Hub, SumLemmas, SequenceTheorems, TLAPS

-----------------------------------------------------------------------------
(* Folds.  In a cycle the hubs take their turns, each hears the flits that the  *)
(* others sent, and one sends the flits of a VC: four folds.                 *)
Hear(t, h, f) == IF NotForHub(t, h, f) THEN Drop(t, h, f)
                 ELSE [t EXCEPT !.hub[h].recv = Append(@, f)]
Say(t, h, v, f) ==
  LET u == [t EXCEPT !.hub[h].air = Append(@, f), !.hub[h].credits = CreditFor(@, v, f),
                     !.ready = UpdateReceiveStatus(@, h, f[1])]
  IN  IF IsTail(f) THEN EndTurn(u, h, <<f[1], v>>) ELSE u
Turn(c, t, x) ==
  CASE c.what = "flat"  -> t \o x
    [] c.what = "hear"  -> Hear(t, c.h, x)
    [] c.what = "say"   -> Say(t, c.h, c.v, x)
    [] c.what = "cycle" -> Evaluate(t, x, Payload(x), c.w[x])

(* The largest element of a subset that has that of the set.                  *)
LEMMA TopOfSubset ==
  ASSUME NEW m, IsFiniteSet(m), m # {}, m \subseteq Int
  PROVE  /\ Max(m) \in m
         /\ \A s \in SUBSET m : s \ {Max(m)} \in SUBSET (m \ {Max(m)})
         /\ \A s \in SUBSET m : Max(m) \in s => Max(s) = Max(m)
         /\ \A s \in SUBSET m : Max(m) \notin s =>
              /\ s \in SUBSET (m \ {Max(m)}) /\ s \ {Max(s)} \in SUBSET m
              /\ Max(m) \notin s \ {Max(s)}
<1>1. Max(m) \in m /\ \A y \in m : Max(m) >= y
  BY MaxIn
<1>2. ASSUME NEW s \in SUBSET m, Max(m) \in s PROVE Max(s) = Max(m)
  <2>1. IsFiniteSet(s) /\ s \subseteq Int /\ s # {}
    BY <1>2, FS_Subset
  <2>2. Max(s) \in s /\ \A y \in s : Max(s) >= y
    BY <2>1, MaxIn
  <2>3. Max(s) >= Max(m) /\ Max(m) >= Max(s) /\ Max(s) \in Int /\ Max(m) \in Int
    BY <1>1, <1>2, <2>1, <2>2
  <2> QED
    BY <2>3
<1> QED
  BY <1>1, <1>2

(* g is the recursion of a fold over the indices D.                           *)
Unfolds(g, D, c, base, q) ==
  g = [z \in SUBSET D |-> IF z = {} THEN base ELSE Turn(c, g[z \ {Max(z)}], q[Max(z)])]

(* It has a solution.                                                        *)
LEMMA TurnsUnfold ==
  ASSUME NEW D, IsFiniteSet(D), Ints(D), NEW c, NEW base, NEW q
  PROVE  \E g : Unfolds(g, D, c, base, q)
<1> DEFINE R(E, g) == g = [z \in SUBSET E |-> IF z = {} THEN base ELSE Turn(c, g[z \ {Max(z)}], q[Max(z)])]
           B == {E \in SUBSET D : ~ \E g : R(E, g)}
<1>1. SUFFICES ASSUME B # {} PROVE FALSE
  BY DEF Unfolds
<1>2. PICK m \in B : \A s \in B : s \subseteq m => s = m
  <2>1. B \in SUBSET (SUBSET D)
    OBVIOUS
  <2> HIDE DEF B
  <2> QED
    BY <1>1, <2>1, Smallest
<1>3. m \in SUBSET D /\ (~ \E g : R(m, g)) /\ IsFiniteSet(m) /\ m \subseteq Int
  BY <1>2, FS_Subset DEF Ints
<1>4. CASE m = {}
  <2> DEFINE e == [z \in SUBSET m |-> base]
  <2>1. R(m, e)
    BY <1>4
  <2> QED
    BY <1>3, <2>1
<1>5. CASE m # {}
  <2> DEFINE x == Max(m)
             E == m \ {x}
  <2>1. /\ x \in m /\ E \in SUBSET D /\ E \subseteq m /\ E # m
        /\ \A s \in SUBSET m : s \ {x} \in SUBSET E
        /\ \A s \in SUBSET m : x \in s => Max(s) = x
        /\ \A s \in SUBSET m : x \notin s => s \in SUBSET E /\ s \ {Max(s)} \in SUBSET m /\ x \notin s \ {Max(s)}
    BY <1>3, <1>5, TopOfSubset
  <2>2. PICK f : R(E, f)
    BY <1>2, <2>1
  <2> DEFINE g == [z \in SUBSET m |-> IF x \in z THEN Turn(c, f[z \ {x}], q[x]) ELSE f[z]]
  <2> HIDE DEF x, E
  <2>3. \A s \in SUBSET m : s \ {x} \in SUBSET m /\ x \notin s \ {x}
    BY <2>1
  <2>4. ASSUME NEW z \in SUBSET m, x \in z
        PROVE  g[z] = Turn(c, g[z \ {Max(z)}], q[Max(z)])
    <3>1. Max(z) = x /\ g[z \ {x}] = f[z \ {x}]
      BY <2>1, <2>3, <2>4
    <3> QED
      BY <2>4, <3>1
  <2>5. ASSUME NEW z \in SUBSET m, x \notin z, z # {}
        PROVE  g[z] = Turn(c, g[z \ {Max(z)}], q[Max(z)])
    <3>1. z \in SUBSET E /\ g[z \ {Max(z)}] = f[z \ {Max(z)}]
      BY <2>1, <2>5
    <3>2. f[z] = Turn(c, f[z \ {Max(z)}], q[Max(z)])
      BY <2>2, <2>5, <3>1
    <3> QED
      BY <2>5, <3>1, <3>2
  <2>6. g[{}] = base
    BY <2>2
  <2>7. g = [z \in SUBSET m |-> g[z]]
    OBVIOUS
  <2> HIDE DEF g
  <2>8. R(m, g)
    BY <2>4, <2>5, <2>6, <2>7
  <2> QED
    BY <1>3, <2>8
<1> QED
  BY <1>4, <1>5

(* The indices up to k.                                                      *)
LEMMA TopIndex ==
  ASSUME NEW n \in Nat, NEW k \in 1 .. n
  PROVE  /\ 1 .. k \in SUBSET (1 .. n) /\ 1 .. k # {} /\ Max(1 .. k) = k
         /\ (1 .. k) \ {k} = 1 .. (k - 1)
<1>1. IsFiniteSet(1 .. k) /\ 1 .. k # {} /\ 1 .. k \subseteq Int /\ k \in 1 .. k
  <2>1. k \in Int /\ 1 \in Int
    OBVIOUS
  <2>2. IsFiniteSet(1 .. k)
    BY <2>1, FS_Interval
  <2> QED
    BY <2>2
<1>2. Max(1 .. k) \in 1 .. k /\ \A y \in 1 .. k : Max(1 .. k) >= y
  BY <1>1, MaxIn
<1> QED
  BY <1>1, <1>2

(* Up to n one index after the other.                                        *)
Climbs(S, n) == 0 \in S /\ \A k \in 1 .. n : k - 1 \in S => k \in S

(* Who climbs gets to n.                                                     *)
LEMMA Climb ==
  ASSUME NEW n \in Nat, NEW S, Climbs(S, n)
  PROVE  n \in S
<1> DEFINE B == {m \in SUBSET (1 .. n) : \E k \in 0 .. n : m = 1 .. k /\ k \notin S}
<1>1. SUFFICES ASSUME n \notin S PROVE FALSE
  OBVIOUS
<1> DEFINE D == 1 .. n
<1>2. B # {} /\ B \in SUBSET (SUBSET D)
  <2>1. D \in B
    BY <1>1
  <2> QED
    BY <2>1
<1>8. IsFiniteSet(D)
  <2>1. n \in Int /\ 1 \in Int
    OBVIOUS
  <2> QED
    BY <2>1, FS_Interval
<1> HIDE DEF B, D
<1>3. PICK m \in B : \A s \in B : s \subseteq m => s = m
  BY <1>2, <1>8, Smallest
<1>4. PICK k \in 0 .. n : m = 1 .. k /\ k \notin S
  BY <1>3 DEF B
<1>5. k \in 1 .. n /\ k - 1 \in 0 .. n /\ k - 1 \notin S
  BY <1>4 DEF Climbs
<1>6. 1 .. k - 1 \in B /\ 1 .. k - 1 \subseteq m
  BY <1>4, <1>5 DEF B
<1>7. 1 .. k - 1 = 1 .. k
  BY <1>3, <1>4, <1>6
<1> QED
  BY <1>5, <1>7

-----------------------------------------------------------------------------
(* What a turn works on: all hubs, hold and ready.                           *)
HubFields == {"inq", "air", "buf", "outq", "trav", "recv", "drop", "cur", "swq", "xbar",
              "next", "credits", "active"}
Shaped(s) ==
  /\ DOMAIN s = {"hub", "hold", "ready"} /\ DOMAIN s.hub = H
  /\ \A h \in H : DOMAIN s.hub[h] = HubFields

(* t differs from s at most in the fields F of hub h, and in hold and ready.    *)
Within(s, t, h, F) ==
  /\ Shaped(t)
  /\ \A k \in H : k # h => t.hub[k] = s.hub[k]
  /\ \A f \in HubFields : f \notin F => t.hub[h][f] = s.hub[h][f]

(* One change after the other.                                               *)
LEMMA WithinTwice ==
  ASSUME NEW s, NEW t, NEW u, NEW h \in H, NEW F, NEW G, Within(s, t, h, F), Within(t, u, h, G)
  PROVE  Within(s, u, h, F \cup G)
  BY DEF Within

(* Some more fields may change.                                              *)
LEMMA WithinMore ==
  ASSUME NEW s, NEW t, NEW h \in H, NEW F, NEW G, Within(s, t, h, F), F \subseteq G
  PROVE  Within(s, t, h, G)
  BY DEF Within

(* Any may.                                                                  *)
LEMMA WithinAll ==
  ASSUME NEW s, NEW t, NEW h \in H, NEW F, Within(s, t, h, F)
  PROVE  Within(s, t, h, HubFields)
  BY DEF Within

(* Nothing changes.                                                          *)
LEMMA WithinNone ==
  ASSUME NEW s, Shaped(s), NEW h \in H, NEW F
  PROVE  Within(s, s, h, F)
  BY DEF Within

(* One field of a hub.                                                       *)
Put(s, h, f, x) == [s EXCEPT !.hub[h][f] = x]

(* It alone changes.                                                         *)
LEMMA PutDoes ==
  ASSUME NEW s, Shaped(s), NEW h \in H, NEW f \in HubFields, NEW x
  PROVE  /\ Shaped(Put(s, h, f, x)) /\ Put(s, h, f, x).hub[h][f] = x
         /\ \A k \in H : k # h => Put(s, h, f, x).hub[k] = s.hub[k]
         /\ \A g \in HubFields : g # f => Put(s, h, f, x).hub[h][g] = s.hub[h][g]
         /\ Put(s, h, f, x).hold = s.hold /\ Put(s, h, f, x).ready = s.ready
<1> DEFINE r == [s.hub[h] EXCEPT ![f] = x]
           t == [s EXCEPT !.hub = [s.hub EXCEPT ![h] = r]]
<1>1. DOMAIN r = HubFields /\ r[f] = x /\ \A g \in HubFields : g # f => r[g] = s.hub[h][g]
  BY DEF Shaped
<1> HIDE DEF r
<1>2. DOMAIN t = {"hub", "hold", "ready"} /\ t.hub = [s.hub EXCEPT ![h] = r] /\ t.hold = s.hold /\ t.ready = s.ready
  BY DEF Shaped
<1>3. DOMAIN t.hub = H /\ t.hub[h] = r /\ \A k \in H : k # h => t.hub[k] = s.hub[k]
  BY <1>2 DEF Shaped
<1>4. t = Put(s, h, f, x)
  BY DEF t, r, Put
<1> HIDE DEF t
<1>5. /\ Shaped(t) /\ t.hub[h][f] = x /\ t.hold = s.hold /\ t.ready = s.ready
      /\ \A g \in HubFields : g # f => t.hub[h][g] = s.hub[h][g]
  BY <1>1, <1>2, <1>3 DEF Shaped
<1> QED
  BY <1>3, <1>4, <1>5

(* The fields have these names.                                              *)
LEMMA Names ==
  /\ "inq" \in HubFields /\ "air" \in HubFields /\ "buf" \in HubFields /\ "outq" \in HubFields
  /\ "trav" \in HubFields /\ "recv" \in HubFields /\ "drop" \in HubFields /\ "cur" \in HubFields
  /\ "swq" \in HubFields /\ "xbar" \in HubFields /\ "next" \in HubFields
  /\ "credits" \in HubFields /\ "active" \in HubFields
  BY DEF HubFields

(* hold and ready.                                                           *)
LEMMA SetHold ==
  ASSUME NEW s, Shaped(s), NEW h \in H, NEW x
  PROVE  /\ Within(s, [s EXCEPT !.hold = x], h, {}) /\ [s EXCEPT !.hold = x].hold = x
         /\ Within(s, [s EXCEPT !.ready = x], h, {}) /\ [s EXCEPT !.ready = x].hold = s.hold
         /\ [s EXCEPT !.hold = x].ready = s.ready /\ [s EXCEPT !.ready = x].ready = x
  BY DEF Within, Shaped

-----------------------------------------------------------------------------
(* ready alone.                                                              *)
LEMMA SetReady ==
  ASSUME NEW s, Shaped(s), NEW h \in H, NEW x, NEW t, t = [s EXCEPT !.ready = x]
  PROVE  Within(s, t, h, {}) /\ t.hold = s.hold /\ t.ready = x
  BY DEF Within, Shaped

(* A flit from the router goes to its VC, and a packet with its tail to the    *)
(* queue of those that are ready.                                           *)
Queued(r, q) ==
  LET i == r.inq[1]
  IN  /\ q.inq = << >>
      /\ r.inq = << >> => q.buf = r.buf /\ q.outq = r.outq
      /\ r.inq # << >> =>
           /\ q.buf = [r.buf EXCEPT ![i.v] = Append(r.buf[i.v], i.f)]
           /\ q.outq = IF IsTail(i.f) THEN Append(r.outq, <<i.f[1], i.v>>) ELSE r.outq
IsFrom(s, t, h) ==
  /\ Within(s, t, h, {"inq", "buf", "outq"}) /\ t.hold = s.hold /\ t.ready = s.ready
  /\ Queued(s.hub[h], t.hub[h])

(* So it is.                                                                 *)
LEMMA FromRouterDoes ==
  ASSUME NEW s, Shaped(s), NEW h \in H
  PROVE  IsFrom(s, FromRouter(s, h), h)
<1> DEFINE r == s.hub[h]
           i == r.inq[1]
           B == [r.buf EXCEPT ![i.v] = Append(r.buf[i.v], i.f)]
           Q == IF IsTail(i.f) THEN Append(r.outq, <<i.f[1], i.v>>) ELSE r.outq
           t1 == Put(s, h, "buf", B)
           t2 == Put(t1, h, "inq", << >>)
           t3 == Put(t2, h, "outq", Q)
<1>1. CASE r.inq = << >>
  <2>1. FromRouter(s, h) = s
    BY <1>1 DEF FromRouter
  <2>2. Within(s, s, h, {"inq", "buf", "outq"})
    BY WithinNone
  <2> QED
    BY <1>1, <2>1, <2>2 DEF IsFrom, Queued
<1>2. CASE r.inq # << >>
  <2>1. FromRouter(s, h) = t3
    BY <1>2 DEF FromRouter, Shaped, Put
  <2> HIDE DEF B, Q
  <2>2. /\ Shaped(t1) /\ t1.hub[h].buf = B /\ t1.hold = s.hold /\ t1.ready = s.ready
        /\ \A k \in H : k # h => t1.hub[k] = s.hub[k]
        /\ \A g \in HubFields : g # "buf" => t1.hub[h][g] = s.hub[h][g]
    BY PutDoes, Names
  <2> HIDE DEF t1
  <2>3. /\ Shaped(t2) /\ t2.hub[h].inq = << >> /\ t2.hold = s.hold /\ t2.ready = s.ready
        /\ \A k \in H : k # h => t2.hub[k] = t1.hub[k]
        /\ \A g \in HubFields : g # "inq" => t2.hub[h][g] = t1.hub[h][g]
    BY <2>2, PutDoes, Names
  <2> HIDE DEF t2
  <2>4. /\ Shaped(t3) /\ t3.hub[h].outq = Q /\ t3.hold = s.hold /\ t3.ready = s.ready
        /\ \A k \in H : k # h => t3.hub[k] = t2.hub[k]
        /\ \A g \in HubFields : g # "outq" => t3.hub[h][g] = t2.hub[h][g]
    BY <2>3, PutDoes, Names
  <2> HIDE DEF t3
  <2>5. Within(s, t3, h, {"inq", "buf", "outq"})
    BY <2>2, <2>3, <2>4 DEF Within
  <2>6. t3.hub[h].inq = << >> /\ t3.hub[h].buf = B
    BY <2>2, <2>3, <2>4, Names
  <2> QED
    BY <1>2, <2>1, <2>4, <2>5, <2>6, Zenon DEF B, Q, IsFrom, Queued
<1> QED
  BY <1>1, <1>2

(* The record of a hub.                                                      *)
Set(s, h, r) == [s EXCEPT !.hub[h] = r]

(* It alone changes.                                                         *)
LEMMA SetDoes ==
  ASSUME NEW s, Shaped(s), NEW h \in H, NEW r, DOMAIN r = HubFields
  PROVE  /\ Shaped(Set(s, h, r)) /\ Set(s, h, r).hub[h] = r
         /\ \A k \in H : k # h => Set(s, h, r).hub[k] = s.hub[k]
         /\ Set(s, h, r).hold = s.hold /\ Set(s, h, r).ready = s.ready
  BY DEF Set, Shaped

(* A field of the record.                                                    *)
Changed(r, f, x) == [r EXCEPT ![f] = x]

(* It changes with the record.                                               *)
LEMMA PutInSet ==
  ASSUME NEW s, Shaped(s), NEW h \in H, NEW r, DOMAIN r = HubFields, NEW f \in HubFields, NEW x
  PROVE  Put(Set(s, h, r), h, f, x) = Set(s, h, Changed(r, f, x)) /\ DOMAIN Changed(r, f, x) = HubFields
  BY DEF Put, Set, Shaped, Changed

-----------------------------------------------------------------------------
(* What a hub hears it keeps or drops.                                       *)
KeptOrDropped(s, t, h, f) ==
  LET r == s.hub[h]
      x == t.hub[h]
  IN  /\ ~NotForHub(s, h, f) => x.recv = Append(r.recv, f) /\ x.drop = r.drop /\ t.ready = s.ready
      /\ NotForHub(s, h, f) => x.recv = r.recv
      /\ NotForHub(s, h, f) /\ f[1] \in Multi =>
           x.drop = r.drop /\ t.ready = [s.ready EXCEPT ![h] = s.ready[h] + 1]
      /\ NotForHub(s, h, f) /\ f[1] \notin Multi =>
           /\ t.ready = s.ready
           /\ IsHead(f) => x.drop = r.drop \cup {f[1]}
           /\ ~IsHead(f) /\ IsTail(f) => x.drop = r.drop \ {f[1]}
           /\ ~IsHead(f) /\ ~IsTail(f) => x.drop = r.drop

(* One flit.                                                                 *)
LEMMA HearDoes ==
  ASSUME NEW s, Shaped(s), NEW h \in H, NEW f
  PROVE  LET t == Hear(s, h, f)
         IN  Within(s, t, h, {"recv", "drop"}) /\ t.hold = s.hold /\ KeptOrDropped(s, t, h, f)
<1> DEFINE r == s.hub[h]
           D == CASE IsHead(f) -> r.drop \cup {f[1]}
                  [] IsTail(f) /\ ~IsHead(f) -> r.drop \ {f[1]}
                  [] OTHER -> r.drop
           t1 == Put(s, h, "drop", D)
           t2 == Put(s, h, "recv", Append(r.recv, f))
           t3 == [s EXCEPT !.ready = [s.ready EXCEPT ![h] = s.ready[h] + 1]]
<1>1. /\ ~NotForHub(s, h, f) => Hear(s, h, f) = t2
      /\ NotForHub(s, h, f) /\ f[1] \in Multi => Hear(s, h, f) = t3
      /\ NotForHub(s, h, f) /\ f[1] \notin Multi => Hear(s, h, f) = t1
  BY DEF Hear, Drop, DropUni, Put
<1>2. /\ Within(s, t1, h, {"recv", "drop"}) /\ t1.hold = s.hold
      /\ t1.hub[h].recv = r.recv /\ t1.hub[h].drop = D /\ t1.ready = s.ready
  <2> HIDE DEF D
  <2> QED
    BY PutDoes, Names DEF Within
<1>3. /\ Within(s, t2, h, {"recv", "drop"}) /\ t2.hold = s.hold
      /\ t2.hub[h].recv = Append(r.recv, f) /\ t2.hub[h].drop = r.drop /\ t2.ready = s.ready
  <2> DEFINE R == Append(r.recv, f)
  <2> DEFINE u == Put(s, h, "recv", R)
  <2>2. u = t2
    OBVIOUS
  <2> HIDE DEF R
  <2>1. /\ Shaped(u) /\ u.hub[h].recv = R /\ u.hold = s.hold /\ u.ready = s.ready
        /\ \A k \in H : k # h => u.hub[k] = s.hub[k]
        /\ \A g \in HubFields : g # "recv" => u.hub[h][g] = r[g]
    BY PutDoes, Names
  <2> HIDE DEF u, t2
  <2> QED
    BY <2>1, <2>2, Names DEF Within, R
<1>4. /\ Within(s, t3, h, {"recv", "drop"}) /\ t3.hold = s.hold
      /\ t3.hub[h].recv = r.recv /\ t3.hub[h].drop = r.drop
      /\ t3.ready = [s.ready EXCEPT ![h] = s.ready[h] + 1]
  <2> DEFINE Y == [s.ready EXCEPT ![h] = s.ready[h] + 1]
  <2> HIDE DEF Y
  <2>1. /\ Within(s, [s EXCEPT !.ready = Y], h, {}) /\ [s EXCEPT !.ready = Y].hold = s.hold
        /\ [s EXCEPT !.ready = Y].ready = Y
    BY SetHold
  <2> QED
    BY <2>1, Names DEF Within, Y
<1> HIDE DEF t1, t2, t3
<1> QED
  BY <1>1, <1>2, <1>3, <1>4 DEF KeptOrDropped

(* All it hears.                                                             *)
LEMMA FromAirDoes ==
  ASSUME NEW s, Shaped(s), NEW h \in H, NEW n \in Nat, NEW q, DOMAIN q = 1 .. n
  PROVE  Within(s, FromAir(s, h, q), h, {"recv", "drop"}) /\ FromAir(s, h, q).hold = s.hold
<1> DEFINE D == DOMAIN q
           R(g) == g = [z \in SUBSET D |-> IF z = {} THEN s
                          ELSE IF NotForHub(g[z \ {Max(z)}], h, q[Max(z)])
                               THEN Drop(g[z \ {Max(z)}], h, q[Max(z)])
                               ELSE [g[z \ {Max(z)}] EXCEPT !.hub[h].recv = Append(@, q[Max(z)])]]
           g == CHOOSE g : R(g)
<1>1. FromAir(s, h, q) = g[D]
  BY DEF FromAir, FoldLeft, MapThenFoldSet
<1>2. R(g)
  <2>1. IsFiniteSet(D) /\ Ints(D)
    BY FS_Interval DEF Ints
  <2> DEFINE c == [what |-> "hear", h |-> h]
  <2> HIDE DEF D, c
  <2>2. PICK f : Unfolds(f, D, c, s, q)
    BY <2>1, TurnsUnfold
  <2>3. \A t, x : Turn(c, t, x) = IF NotForHub(t, h, x) THEN Drop(t, h, x)
                                  ELSE [t EXCEPT !.hub[h].recv = Append(@, x)]
    BY DEF Turn, Hear, c
  <2>4. R(f)
    BY <2>2, <2>3, Zenon DEF Unfolds
  <2> HIDE DEF R
  <2> QED
    BY <2>4
<1> HIDE DEF g
<1>3. \A z \in SUBSET D : z # {} => g[z] = Hear(g[z \ {Max(z)}], h, q[Max(z)])
  BY <1>2, Zenon DEF Hear
<1>4. g[{}] = s
  BY <1>2
<1> DEFINE S == {k \in 0 .. n : Within(s, g[1 .. k], h, {"recv", "drop"}) /\ g[1 .. k].hold = s.hold}
<1>5. 0 \in S
  <2>1. 1 .. 0 = {}
    OBVIOUS
  <2> QED
    BY <1>4, <2>1, WithinNone
<1>6. ASSUME NEW k \in 1 .. n, k - 1 \in S PROVE k \in S
  <2>1. g[1 .. k] = Hear(g[1 .. k - 1], h, q[k])
    BY <1>3, TopIndex
  <2> DEFINE t == g[1 .. k - 1]
  <2>2. Within(s, t, h, {"recv", "drop"}) /\ t.hold = s.hold /\ Shaped(t)
    BY <1>6 DEF Within
  <2> HIDE DEF t
  <2>3. Within(t, Hear(t, h, q[k]), h, {"recv", "drop"}) /\ Hear(t, h, q[k]).hold = t.hold
    BY <2>2, HearDoes
  <2>4. Within(s, Hear(t, h, q[k]), h, {"recv", "drop"})
    BY <2>2, <2>3 DEF Within
  <2> QED
    BY <2>1, <2>2, <2>3, <2>4 DEF t
<1>7. n \in S
  <2> HIDE DEF S
  <2> QED
    BY <1>5, <1>6, Climb DEF Climbs
<1> QED
  BY <1>1, <1>7

(* A hub with the token and with a packet starts.                            *)
LEMMA StartDoes ==
  ASSUME NEW s, Shaped(s), NEW h \in H
  PROVE  LET t == Start(s, h)
             r == s.hub[h]
         IN  /\ Within(s, t, h, {"trav"})
             /\ ~MayStart(s, h) => t = s
             /\ t.ready = s.ready
             /\ MayStart(s, h) =>
                  /\ t.hold = TRUE
                  /\ t.hub[h].trav = IF r.trav = << >> THEN <<[v |-> r.outq[1][2], new |-> TRUE]>>
                                     ELSE r.trav
<1> DEFINE r == s.hub[h]
           X == IF r.trav = << >> THEN <<[v |-> r.outq[1][2], new |-> TRUE]>> ELSE r.trav
           t1 == [s EXCEPT !.hold = TRUE]
           t2 == Put(t1, h, "trav", X)
<1>1. ~MayStart(s, h) => Start(s, h) = s
  BY DEF Start
<1>2. MayStart(s, h) => Start(s, h) = t2
  BY DEF Start, Put, Shaped
<1> HIDE DEF X
<1>3. /\ Shaped(t1) /\ t1.hold = TRUE /\ t1.ready = s.ready /\ \A k \in H : t1.hub[k] = s.hub[k]
  BY DEF Shaped
<1> HIDE DEF t1
<1>4. /\ Shaped(t2) /\ t2.hold = TRUE /\ t2.ready = s.ready /\ t2.hub[h].trav = X
      /\ \A k \in H : k # h => t2.hub[k] = t1.hub[k]
      /\ \A g \in HubFields : g # "trav" => t2.hub[h][g] = t1.hub[h][g]
  BY <1>3, PutDoes, Names
<1> HIDE DEF t2
<1>5. Within(s, t2, h, {"trav"})
  BY <1>3, <1>4 DEF Within
<1>6. Within(s, s, h, {"trav"})
  BY WithinNone
<1> QED
  BY <1>1, <1>2, <1>4, <1>5, <1>6 DEF X

(* The allocation of a VC.                                                   *)
LEMMA VCAllocDoes ==
  ASSUME NEW s, Shaped(s), NEW h \in H, NEW w
  PROVE  LET t == VCAlloc(s, h, w)
             r == s.hub[h]
             x == t.hub[h]
         IN  /\ Within(s, t, h, {"cur", "next", "swq"}) /\ t.hold = s.hold /\ t.ready = s.ready
             /\ ~WantsVc(s, h) => t = s
             /\ WantsVc(s, h) /\ ~Usable(r.next, w) => x.cur = Idle /\ x.next = r.next /\ x.swq = r.swq
             /\ WantsVc(s, h) /\ Usable(r.next, w) =>
                  x.cur = w /\ x.next = TakeBuffer(r.next, w) /\ x.swq = Append(r.swq, <<r.recv[1], w>>)
<1> DEFINE r == s.hub[h]
           B == TakeBuffer(r.next, w)
           Q == Append(r.swq, <<r.recv[1], w>>)
           R == [r EXCEPT !.cur = w, !.next = B, !.swq = Q]
           t1 == Put(s, h, "cur", Idle)
           t2 == Set(s, h, R)
<1>1. /\ ~WantsVc(s, h) => VCAlloc(s, h, w) = s
      /\ WantsVc(s, h) /\ ~Usable(r.next, w) => VCAlloc(s, h, w) = t1
      /\ WantsVc(s, h) /\ Usable(r.next, w) => VCAlloc(s, h, w) = t2
  <2> DEFINE a1 == [s EXCEPT !.hub[h].cur = w]
             a2 == [a1 EXCEPT !.hub[h].next = B]
             a3 == [a2 EXCEPT !.hub[h].swq = Q]
  <2>1. /\ ~WantsVc(s, h) => VCAlloc(s, h, w) = s
        /\ WantsVc(s, h) /\ ~Usable(r.next, w) => VCAlloc(s, h, w) = t1
        /\ WantsVc(s, h) /\ Usable(r.next, w) => VCAlloc(s, h, w) = a3
    BY DEF VCAlloc, Put, Shaped
  <2>2. a3 = t2
    <3> HIDE DEF B, Q
    <3> QED
      BY DEF Set, Shaped
  <2> QED
    BY <2>1, <2>2
<1> HIDE DEF B, Q
<1>2. /\ DOMAIN R = HubFields /\ \A g \in HubFields : g \notin {"cur", "next", "swq"} => R[g] = r[g]
      /\ R.cur = w /\ R.next = B /\ R.swq = Q
  BY DEF Shaped, HubFields
<1> HIDE DEF R
<1>3. /\ Within(s, t2, h, {"cur", "next", "swq"}) /\ t2.hold = s.hold /\ t2.ready = s.ready
      /\ t2.hub[h].cur = w /\ t2.hub[h].next = B /\ t2.hub[h].swq = Q
  BY <1>2, SetDoes DEF Within
<1>4. /\ Within(s, t1, h, {"cur", "next", "swq"}) /\ t1.hold = s.hold /\ t1.ready = s.ready
      /\ t1.hub[h].cur = Idle /\ t1.hub[h].next = r.next /\ t1.hub[h].swq = r.swq
  BY PutDoes, Names DEF Within
<1>5. Within(s, s, h, {"cur", "next", "swq"})
  BY WithinNone
<1> HIDE DEF t1, t2
<1> QED
  BY <1>1, <1>3, <1>4, <1>5, Zenon DEF B, Q

(* What is in the crossbar is no longer new.                                 *)
LEMMA SwitchEvaluateDoes ==
  ASSUME NEW s, Shaped(s), NEW h \in H
  PROVE  LET t == SwitchEvaluate(s, h)
             x == s.hub[h].xbar
         IN  /\ Within(s, t, h, {"xbar"}) /\ t.hold = s.hold /\ t.ready = s.ready
             /\ t.hub[h].xbar = [k \in DOMAIN x |-> [x[k] EXCEPT !.new = FALSE]]
<1> DEFINE x == s.hub[h].xbar
           X == [k \in DOMAIN x |-> [x[k] EXCEPT !.new = FALSE]]
<1>1. SwitchEvaluate(s, h) = Put(s, h, "xbar", X)
  BY DEF SwitchEvaluate, Put
<1> HIDE DEF X
<1>2. /\ Within(s, Put(s, h, "xbar", X), h, {"xbar"}) /\ Put(s, h, "xbar", X).hold = s.hold
      /\ Put(s, h, "xbar", X).ready = s.ready /\ Put(s, h, "xbar", X).hub[h].xbar = X
  BY PutDoes, Names DEF Within
<1> QED
  BY <1>1, <1>2, Zenon DEF X

(* One flit to the crossbar, or none.                                        *)
LEMMA SwitchTraverseIs ==
  ASSUME NEW s, Shaped(s), NEW h \in H
  PROVE  LET t == SwitchTraverse(s, h)
             r == s.hub[h]
             x == t.hub[h]
             f == r.swq[1][1]
             w == r.swq[1][2]
             rest == Tail(r.recv)
             stays == r.swq = << >> \/ IsFullFor(r.next, w)
         IN  /\ Within(s, t, h, {"next", "recv", "xbar", "swq"}) /\ t.hold = s.hold
             /\ stays => t = s
             /\ ~stays =>
                  /\ x.next = SendingFlit(r.next, w, IsTail(f)) /\ x.recv = rest
                  /\ x.xbar = Append(r.xbar, [f |-> f, w |-> w, new |-> TRUE])
                  /\ x.swq = IF rest # << >> /\ ~IsHead(rest[1]) THEN Append(Tail(r.swq), <<rest[1], w>>)
                             ELSE Tail(r.swq)
                  /\ t.ready = [s.ready EXCEPT ![h] = s.ready[h] + 1]
<1> DEFINE r == s.hub[h]
           f == r.swq[1][1]
           w == r.swq[1][2]
           rest == Tail(r.recv)
           N == SendingFlit(r.next, w, IsTail(f))
           X == Append(r.xbar, [f |-> f, w |-> w, new |-> TRUE])
           Q == IF rest # << >> /\ ~IsHead(rest[1]) THEN Append(Tail(r.swq), <<rest[1], w>>) ELSE Tail(r.swq)
           Y == [s.ready EXCEPT ![h] = s.ready[h] + 1]
           R == [r EXCEPT !.next = N, !.recv = rest, !.xbar = X, !.swq = Q]
           t1 == Set(s, h, R)
           t2 == [t1 EXCEPT !.ready = Y]
           stays == r.swq = << >> \/ IsFullFor(r.next, w)
<1>1. (stays => SwitchTraverse(s, h) = s) /\ (~stays => SwitchTraverse(s, h) = t2)
  <2> DEFINE a1 == [s EXCEPT !.hub[h].next = N]
             a2 == [a1 EXCEPT !.hub[h].recv = rest]
             a3 == [a2 EXCEPT !.hub[h].xbar = X]
             a4 == [a3 EXCEPT !.hub[h].swq = Q]
             a5 == [a4 EXCEPT !.ready = Y]
  <2>1. (stays => SwitchTraverse(s, h) = s) /\ (~stays => SwitchTraverse(s, h) = a5)
    BY Zenon DEF SwitchTraverse, Shaped
  <2>2. a5 = t2
    <3> DEFINE r1 == [r EXCEPT !.next = N]
               r2 == Changed(r1, "recv", rest)
               r3 == Changed(r2, "xbar", X)
               r4 == Changed(r3, "swq", Q)
    <3> HIDE DEF N, X, Q, Y, rest
    <3>1. a1 = Set(s, h, r1) /\ DOMAIN r1 = HubFields
      BY DEF Set, Shaped
    <3>2. a2 = Put(a1, h, "recv", rest) /\ a3 = Put(a2, h, "xbar", X) /\ a4 = Put(a3, h, "swq", Q)
      BY DEF Put
    <3> HIDE DEF a1, a2, a3, a4, r1
    <3>3. a2 = Set(s, h, r2) /\ DOMAIN r2 = HubFields
      BY <3>1, <3>2, PutInSet, Names
    <3> HIDE DEF r2
    <3>4. a3 = Set(s, h, r3) /\ DOMAIN r3 = HubFields
      BY <3>2, <3>3, PutInSet, Names
    <3> HIDE DEF r3
    <3>5. a4 = Set(s, h, r4)
      BY <3>2, <3>4, PutInSet, Names
    <3> HIDE DEF r4
    <3>6. r4 = R
      BY DEF r1, r2, r3, r4, Changed
    <3> QED
      BY <3>5, <3>6
  <2> QED
    BY <2>1, <2>2, Zenon
<1> DEFINE F == {"next", "recv", "xbar", "swq"}
<1> HIDE DEF N, Q, Y, rest, X, stays
<1>2. /\ DOMAIN R = HubFields /\ R.xbar = X /\ R.next = N /\ R.recv = rest /\ R.swq = Q
      /\ \A g \in HubFields : g \notin F => R[g] = r[g]
  BY DEF Shaped, HubFields
<1> HIDE DEF R
<1>3. /\ Within(s, t1, h, F) /\ t1.hold = s.hold /\ Shaped(t1) /\ t1.hub[h].xbar = X
      /\ t1.hub[h].next = N /\ t1.hub[h].recv = rest /\ t1.hub[h].swq = Q
  BY <1>2, SetDoes DEF Within
<1> HIDE DEF t1
<1>4. Within(t1, t2, h, {}) /\ t2.hold = t1.hold /\ t2.ready = Y
  BY <1>3, SetReady
<1> HIDE DEF t2
<1>5. /\ Within(s, t2, h, F) /\ t2.hold = s.hold /\ t2.hub[h].xbar = X
      /\ t2.hub[h].next = N /\ t2.hub[h].recv = rest /\ t2.hub[h].swq = Q
  BY <1>3, <1>4, Names DEF Within
<1>6. Within(s, s, h, F)
  BY WithinNone
<1> QED
  BY <1>1, <1>4, <1>5, <1>6, Zenon DEF X, N, rest, Q, Y, stays

(* What else changes, and in the crossbar.                                   *)
LEMMA SwitchTraverseDoes ==
  ASSUME NEW s, Shaped(s), NEW h \in H
  PROVE  LET t == SwitchTraverse(s, h)
             r == s.hub[h]
         IN  /\ Within(s, t, h, {"next", "recv", "xbar", "swq"}) /\ t.hold = s.hold
             /\ \/ t.hub[h].xbar = r.xbar
                \/ \E f, w : t.hub[h].xbar = Append(r.xbar, [f |-> f, w |-> w, new |-> TRUE])
<1> DEFINE t == SwitchTraverse(s, h)
           r == s.hub[h]
           f == r.swq[1][1]
           w == r.swq[1][2]
<1>1. /\ Within(s, t, h, {"next", "recv", "xbar", "swq"}) /\ t.hold = s.hold
      /\ t = s \/ t.hub[h].xbar = Append(r.xbar, [f |-> f, w |-> w, new |-> TRUE])
  BY SwitchTraverseIs
<1> QED
  BY <1>1

-----------------------------------------------------------------------------
(* A flit was sent; the tail ends the turn.                                  *)
SaidFields == {"air", "credits", "outq"}
Popped(q, e) == IF q = << >> THEN q ELSE Tail(Overwritten(q, e))
Said(s, t, h, v, f) ==
  LET r == s.hub[h]
  IN  /\ Within(s, t, h, SaidFields)
      /\ t.hub[h].air = Append(r.air, f) /\ t.hub[h].credits = Append(r.credits, v)
      /\ t.ready = UpdateReceiveStatus(s.ready, h, f[1])
      /\ IsTail(f) => t.hold = FALSE /\ t.hub[h].outq = Popped(r.outq, <<f[1], v>>)
      /\ ~IsTail(f) => t.hold = s.hold /\ t.hub[h].outq = r.outq

(* So it is.                                                                 *)
LEMMA SayDoes ==
  ASSUME NEW s, Shaped(s), NEW h \in H, NEW v, NEW f
  PROVE  Said(s, Say(s, h, v, f), h, v, f)
<1> DEFINE r == s.hub[h]
           A == Append(r.air, f)
           C == Append(r.credits, v)
           Y == UpdateReceiveStatus(s.ready, h, f[1])
           E == <<f[1], v>>
           Q == Popped(r.outq, E)
           t1 == Put(s, h, "air", A)
           t2 == Put(t1, h, "credits", C)
           t3 == [t2 EXCEPT !.ready = Y]
           t4 == [t3 EXCEPT !.hold = FALSE]
           Q3 == Popped(t3.hub[h].outq, E)
           t5 == Put(t4, h, "outq", Q3)
<1>1. Say(s, h, v, f) = IF IsTail(f) THEN EndTurn(t3, h, E) ELSE t3
  BY DEF Say, CreditFor, Put, Shaped
<1> HIDE DEF A, C, Y, E
<1>3. /\ Shaped(t1) /\ t1.hub[h].air = A /\ t1.hold = s.hold /\ t1.ready = s.ready
      /\ \A k \in H : k # h => t1.hub[k] = s.hub[k]
      /\ \A g \in HubFields : g # "air" => t1.hub[h][g] = s.hub[h][g]
  BY PutDoes, Names
<1> HIDE DEF t1
<1>4. /\ Shaped(t2) /\ t2.hub[h].credits = C /\ t2.hold = t1.hold /\ t2.ready = t1.ready
      /\ \A k \in H : k # h => t2.hub[k] = t1.hub[k]
      /\ \A g \in HubFields : g # "credits" => t2.hub[h][g] = t1.hub[h][g]
  BY <1>3, PutDoes, Names
<1> HIDE DEF t2
<1>5. /\ Shaped(t3) /\ t3.hold = t2.hold /\ t3.ready = Y /\ \A k \in H : t3.hub[k] = t2.hub[k]
  BY <1>4 DEF Shaped
<1> HIDE DEF t3
<1>2. EndTurn(t3, h, E) = t5
  BY <1>5 DEF EndTurn, Put, Shaped, Popped
<1>10. Q3 = Q
  BY <1>3, <1>4, <1>5, Names
<1>6. /\ Shaped(t4) /\ t4.hold = FALSE /\ t4.ready = t3.ready /\ \A k \in H : t4.hub[k] = t3.hub[k]
  BY <1>5 DEF Shaped
<1> HIDE DEF t4, Q3, Q
<1>7. /\ Shaped(t5) /\ t5.hub[h].outq = Q3 /\ t5.hold = t4.hold /\ t5.ready = t4.ready
      /\ \A k \in H : k # h => t5.hub[k] = t4.hub[k]
      /\ \A g \in HubFields : g # "outq" => t5.hub[h][g] = t4.hub[h][g]
  BY <1>6, PutDoes, Names
<1> HIDE DEF t5
<1>8. Within(s, t3, h, {"air", "credits", "outq"}) /\ Within(s, t5, h, {"air", "credits", "outq"})
  BY <1>3, <1>4, <1>5, <1>6, <1>7 DEF Within
<1>9. /\ t3.hub[h].air = A /\ t3.hub[h].credits = C /\ t3.hub[h].outq = r.outq /\ t3.hold = s.hold
      /\ t5.hub[h].air = A /\ t5.hub[h].credits = C
      /\ t3.ready = Y /\ t5.ready = Y
  BY <1>3, <1>4, <1>5, <1>6, <1>7, Names
<1> QED
  BY <1>1, <1>2, <1>6, <1>7, <1>8, <1>9, <1>10 DEF A, C, E, Q, Y, Said, SaidFields

(* The flits of q leave one after the other.                                 *)
SaidAll(s, h, v, q) == FoldLeft(LAMBDA t, f : Say(t, h, v, f), s, q)
Chain(g, s, h, v, q, n) == g[0] = s /\ \A k \in 1 .. n : g[k] = Say(g[k - 1], h, v, q[k])

(* The states on the way.                                                    *)
LEMMA SaidChain ==
  ASSUME NEW s, NEW h, NEW v, NEW n \in Nat, NEW q, DOMAIN q = 1 .. n
  PROVE  \E g : Chain(g, s, h, v, q, n) /\ SaidAll(s, h, v, q) = g[n]
<1> DEFINE D == DOMAIN q
           R(g) == g = [z \in SUBSET D |-> IF z = {} THEN s ELSE Say(g[z \ {Max(z)}], h, v, q[Max(z)])]
           g == CHOOSE g : R(g)
           f == [k \in 0 .. n |-> g[1 .. k]]
<1>1. SaidAll(s, h, v, q) = g[D]
  BY DEF SaidAll, FoldLeft, MapThenFoldSet
<1>2. R(g)
  <2>1. IsFiniteSet(D) /\ Ints(D)
    BY FS_Interval DEF Ints
  <2> DEFINE c == [what |-> "say", h |-> h, v |-> v]
  <2> HIDE DEF D, c
  <2>2. PICK e : Unfolds(e, D, c, s, q)
    BY <2>1, TurnsUnfold
  <2>3. \A t, x : Turn(c, t, x) = Say(t, h, v, x)
    BY DEF Turn, c
  <2>4. R(e)
    BY <2>2, <2>3 DEF Unfolds
  <2> HIDE DEF R
  <2> QED
    BY <2>4
<1> HIDE DEF g
<1>3. \A z \in SUBSET D : z # {} => g[z] = Say(g[z \ {Max(z)}], h, v, q[Max(z)])
  BY <1>2
<1>4. g[{}] = s
  BY <1>2
<1>5. f[0] = s
  <2>1. 1 .. 0 = {}
    OBVIOUS
  <2> QED
    BY <1>4, <2>1
<1>6. ASSUME NEW k \in 1 .. n PROVE f[k] = Say(f[k - 1], h, v, q[k])
  <2>1. g[1 .. k] = Say(g[1 .. k - 1], h, v, q[k])
    BY <1>3, TopIndex
  <2>2. f[k] = g[1 .. k] /\ f[k - 1] = g[1 .. k - 1]
    OBVIOUS
  <2> QED
    BY <2>1, <2>2
<1>7. f[n] = g[D]
  OBVIOUS
<1> QED
  BY <1>1, <1>5, <1>6, <1>7 DEF Chain

-----------------------------------------------------------------------------
(* How many credits of a queue are for VC v.                                 *)
Count(q, v) == Cardinality({k \in DOMAIN q : q[k] = v})

(* It is a number.                                                           *)
LEMMA CountType ==
  ASSUME NEW q \in Seq(Vcs), NEW v
  PROVE  Count(q, v) \in Nat
<1> DEFINE A == {k \in DOMAIN q : q[k] = v}
           n == Len(q)
<1>1. n \in Nat /\ n \in Int /\ 1 \in Int /\ DOMAIN q = 1 .. n
  OBVIOUS
<1>2. IsFiniteSet(1 .. n)
  BY <1>1, FS_Interval
<1>3. IsFiniteSet(A)
  BY <1>1, <1>2, FS_Subset
<1> QED
  BY <1>3, FS_CardinalityType DEF Count

(* One more.                                                                 *)
LEMMA CountAppend ==
  ASSUME NEW q \in Seq(Vcs), NEW x \in Vcs, NEW v \in Vcs
  PROVE  Count(Append(q, x), v) = Count(q, v) + One(x = v) /\ Count(q, v) \in Nat
<1> DEFINE A == {k \in DOMAIN q : q[k] = v}
           r == Append(q, x)
           B == {k \in DOMAIN r : r[k] = v}
           n == Len(q)
<1>1. n \in Nat /\ DOMAIN q = 1 .. n /\ DOMAIN r = 1 .. n + 1 /\ r[n + 1] = x /\ \A k \in 1 .. n : r[k] = q[k]
  OBVIOUS
<1>2. IsFiniteSet(A)
  <2>1. IsFiniteSet(1 .. n)
    BY <1>1, FS_Interval
  <2> QED
    BY <1>1, <2>1, FS_Subset
<1>3. B = IF x = v THEN A \cup {n + 1} ELSE A
  BY <1>1
<1>4. n + 1 \notin A
  BY <1>1
<1> HIDE DEF A, B, r
<1>5. Cardinality(A) \in Nat /\ Cardinality(A \cup {n + 1}) = Cardinality(A) + 1
  BY <1>2, <1>4, FS_AddElement, FS_CardinalityType
<1>6. Count(q, v) = Cardinality(A) /\ Count(Append(q, x), v) = Cardinality(B)
  BY DEF A, B, r, Count
<1> QED
  BY <1>3, <1>5, <1>6 DEF One

(* One less.                                                                 *)
LEMMA CountTail ==
  ASSUME NEW q \in Seq(Vcs), q # << >>, NEW v \in Vcs
  PROVE  Count(Tail(q), v) = Count(q, v) - One(q[1] = v) /\ Count(q, v) \in Nat
<1> DEFINE n == Len(q)
           A == {k \in DOMAIN q : q[k] = v}
           r == Tail(q)
           B == {k \in DOMAIN r : r[k] = v}
           C == {k \in 2 .. n : q[k] = v}
           m == [k \in C |-> k - 1]
<1>1. /\ n \in Nat \ {0} /\ DOMAIN q = 1 .. n /\ DOMAIN r = 1 .. n - 1
      /\ \A k \in 1 .. n - 1 : r[k] = q[k + 1]
  OBVIOUS
<1>2. IsFiniteSet(A) /\ IsFiniteSet(C)
  <2>1. IsFiniteSet(1 .. n)
    BY <1>1, FS_Interval
  <2>2. A \subseteq 1 .. n /\ C \subseteq 1 .. n
    BY <1>1
  <2> QED
    BY <2>1, <2>2, FS_Subset
<1>3. A = IF q[1] = v THEN C \cup {1} ELSE C
  BY <1>1
<1>4. 1 \notin C
  OBVIOUS
<1>5. m \in Bijection(C, B)
  <2>1. \A k \in C : k \in 2 .. n /\ k - 1 \in B
    BY <1>1
  <2>2. \A j \in B : j + 1 \in C /\ m[j + 1] = j
    BY <1>1
  <2> QED
    BY <2>1, <2>2 DEF Bijection, Injection, Surjection, IsInjective
<1>6. Cardinality(C) = Cardinality(B)
  <2>1. ExistsBijection(C, B)
    BY <1>5 DEF ExistsBijection
  <2> HIDE DEF B, C, m
  <2> QED
    BY <1>2, <2>1, FS_Bijection
<1> HIDE DEF A, B, C, r
<1>7. Cardinality(C) \in Nat /\ Cardinality(C \cup {1}) = Cardinality(C) + 1
  BY <1>2, <1>4, FS_AddElement, FS_CardinalityType
<1>8. Count(q, v) = Cardinality(A) /\ Count(Tail(q), v) = Cardinality(B)
  BY DEF A, B, r, Count
<1> QED
  BY <1>3, <1>6, <1>7, <1>8 DEF One

-----------------------------------------------------------------------------
(* What the part of a hub that sends keeps.                                  *)
SendTypes(r) ==
  /\ r.inq = << >> \/ \E f \in FlitType, v \in Vcs : r.inq = <<[f |-> f, v |-> v]>>
  /\ r.air \in Seq(FlitType) /\ r.buf \in [Vcs -> Seq(FlitType)] /\ r.outq \in Seq(Packets \X Vcs)
  /\ r.trav = << >> \/ \E v \in Vcs, b \in BOOLEAN : r.trav = <<[v |-> v, new |-> b]>>
  /\ r.credits \in Seq(Vcs)

(* It depends on these fields only.                                          *)
SendFields == {"inq", "air", "buf", "outq", "trav", "credits"}

(* What waits is of its type with its VC overwritten, too, and nothing changes   *)
(* that is not the entry.                                                   *)
LEMMA OverwrittenTypes ==
  ASSUME NEW q \in Seq(Packets \X Vcs), NEW e, e[1] \in Packets
  PROVE  Overwritten(q, e) \in Seq(Packets \X Vcs) /\ Len(Overwritten(q, e)) = Len(q)
<1> DEFINE o == Overwritten(q, e)
           n == Len(q)
<1>1. n \in Nat /\ DOMAIN q = 1 .. n /\ \A k \in 1 .. n : q[k] \in Packets \X Vcs
  OBVIOUS
<1>2. PICK z \in Vcs : z = 0
  BY VcAssumption
<1>3. o = [k \in 1 .. n |-> IF q[k] = e THEN <<e[1], z>> ELSE q[k]]
  BY <1>1, <1>2 DEF Overwritten
<1> HIDE DEF o, n
<1>4. <<e[1], z>> \in Packets \X Vcs
  OBVIOUS
<1>5. o \in [1 .. n -> Packets \X Vcs]
  BY <1>1, <1>3, <1>4
<1>6. o \in Seq(Packets \X Vcs) /\ Len(o) = n
  BY <1>1, <1>5
<1> QED
  BY <1>6 DEF o, n

(* So it is when the first leaves.                                           *)
LEMMA PoppedTypes ==
  ASSUME NEW q \in Seq(Packets \X Vcs), NEW e, e[1] \in Packets
  PROVE  Popped(q, e) \in Seq(Packets \X Vcs)
<1> DEFINE o == Overwritten(q, e)
<1>1. o \in Seq(Packets \X Vcs) /\ Len(o) = Len(q)
  BY OverwrittenTypes
<1> HIDE DEF o
<1>2. q # << >> => o # << >>
  BY <1>1
<1>3. q # << >> => Tail(o) \in Seq(Packets \X Vcs)
  BY <1>1, <1>2, HeadTailProperties
<1> QED
  BY <1>3 DEF Popped, o

(* All that leaves is of the types.                                          *)
LEMMA SaidTypes ==
  ASSUME NEW s, Shaped(s), s.hold \in BOOLEAN, NEW h \in H, NEW v \in Vcs, NEW q \in Seq(FlitType),
         s.hub[h].air \in Seq(FlitType), s.hub[h].outq \in Seq(Packets \X Vcs),
         s.hub[h].credits \in Seq(Vcs)
  PROVE  LET t == SaidAll(s, h, v, q)
         IN  /\ Within(s, t, h, SaidFields) /\ t.hold \in BOOLEAN
             /\ t.hub[h].air \in Seq(FlitType) /\ t.hub[h].outq \in Seq(Packets \X Vcs)
             /\ t.hub[h].credits \in Seq(Vcs)
<1> DEFINE n == Len(q)
           P(t) == /\ Within(s, t, h, SaidFields) /\ t.hold \in BOOLEAN
                   /\ t.hub[h].air \in Seq(FlitType) /\ t.hub[h].outq \in Seq(Packets \X Vcs)
                   /\ t.hub[h].credits \in Seq(Vcs)
<1>1. n \in Nat /\ DOMAIN q = 1 .. n /\ \A k \in 1 .. n : q[k] \in FlitType
  OBVIOUS
<1>2. PICK g : Chain(g, s, h, v, q, n) /\ SaidAll(s, h, v, q) = g[n]
  BY <1>1, SaidChain
<1> DEFINE S == {k \in 0 .. n : P(g[k])}
<1>3. 0 \in S
  BY <1>1, <1>2, WithinNone DEF Chain
<1>4. ASSUME NEW k \in 1 .. n, k - 1 \in S PROVE k \in S
  <2> DEFINE t == g[k - 1]
             f == q[k]
             u == Say(t, h, v, f)
  <2>1. g[k] = u /\ f \in FlitType
    BY <1>1, <1>2 DEF Chain
  <2>2. P(t) /\ Shaped(t)
    BY <1>4 DEF Within
  <2> HIDE DEF t, f
  <2>3. Said(t, u, h, v, f)
    BY <2>2, SayDoes
  <2> HIDE DEF u
  <2>4. Within(s, u, h, SaidFields)
    BY <2>2, <2>3 DEF Within, Said
  <2>5. u.hub[h].air \in Seq(FlitType) /\ u.hub[h].credits \in Seq(Vcs)
    BY <2>1, <2>2, <2>3 DEF Said
  <2>6. u.hub[h].outq \in Seq(Packets \X Vcs) /\ u.hold \in BOOLEAN
    <3> DEFINE o == t.hub[h].outq
    <3>1. o \in Seq(Packets \X Vcs) /\ t.hold \in BOOLEAN
      BY <2>2
    <3> DEFINE e == <<f[1], v>>
    <3>2. /\ u.hub[h].outq = o \/ u.hub[h].outq = Popped(o, e)
          /\ u.hold \in {t.hold, FALSE}
      BY <2>3 DEF Said
    <3>4. e[1] \in Packets
      BY <2>1 DEF FlitType
    <3> HIDE DEF o, e
    <3>3. Popped(o, e) \in Seq(Packets \X Vcs)
      BY <3>1, <3>4, PoppedTypes
    <3> QED
      BY <3>1, <3>2, <3>3
  <2>7. P(u)
    BY <2>4, <2>5, <2>6
  <2> QED
    BY <2>1, <2>7
<1>5. n \in S
  <2> HIDE DEF S
  <2> QED
    BY <1>1, <1>3, <1>4, Climb DEF Climbs
<1> QED
  BY <1>2, <1>5

(* A hub with something to send waits for a cycle, and then empties the VC.    *)
Emptied(s, h, v) ==
  Put(Put(s, h, "trav", << >>), h, "buf", [s.hub[h].buf EXCEPT ![v] = << >>])

(* The three ways of a traversal.                                            *)
LEMMA HubTraverseIs ==
  ASSUME NEW s, Shaped(s), NEW h \in H, NEW v, NEW b \in BOOLEAN
  PROVE  LET r == s.hub[h]
         IN  /\ r.trav = << >> => HubTraverse(s, h) = s
             /\ r.trav = <<[v |-> v, new |-> b]>> =>
                  HubTraverse(s, h) = IF b THEN Put(s, h, "trav", <<[v |-> v, new |-> FALSE]>>)
                                      ELSE SaidAll(Emptied(s, h, v), h, v, r.buf[v])
<1> DEFINE r == s.hub[h]
<1>1. r.trav = << >> => HubTraverse(s, h) = s
  BY DEF HubTraverse
<1>2. ASSUME r.trav = <<[v |-> v, new |-> b]>>, b
      PROVE  HubTraverse(s, h) = Put(s, h, "trav", <<[v |-> v, new |-> FALSE]>>)
  <2> DEFINE x == [v |-> v, new |-> TRUE]
             y == [v |-> v, new |-> FALSE]
  <2>3. r.trav # << >> /\ r.trav[1].new
    BY <1>2
  <2>1. HubTraverse(s, h) = [s EXCEPT !.hub[h].trav[1].new = FALSE]
    BY <2>3 DEF HubTraverse
  <2>2. [r.trav EXCEPT ![1].new = FALSE] = <<y>>
    <3>1. [x EXCEPT !.new = FALSE] = y
      <4>1. x = [i \in {"v", "new"} |-> x[i]] /\ x.v = v
        OBVIOUS
      <4>2. y = [i \in {"v", "new"} |-> y[i]] /\ y.v = v /\ y.new = FALSE
        OBVIOUS
      <4> HIDE DEF x, y
      <4> QED
        BY <4>1, <4>2
    <3>2. r.trav = <<x>>
      <4>1. b = TRUE
        BY <1>2
      <4> QED
        BY <1>2, <4>1
    <3> HIDE DEF x, y
    <3>3. [<<x>> EXCEPT ![1] = y] = <<y>>
      OBVIOUS
    <3>4. [<<x>> EXCEPT ![1].new = FALSE] = [<<x>> EXCEPT ![1] = [x EXCEPT !.new = FALSE]]
      OBVIOUS
    <3> QED
      BY <3>1, <3>2, <3>3, <3>4
  <2> QED
    BY <2>1, <2>2 DEF Put
<1>3. ASSUME r.trav = <<[v |-> v, new |-> b]>>, ~b
      PROVE  HubTraverse(s, h) = SaidAll(Emptied(s, h, v), h, v, r.buf[v])
  <2>1. r.trav # << >> /\ ~r.trav[1].new /\ r.trav[1].v = v
    BY <1>3
  <2> DEFINE base == [s EXCEPT !.hub[h].trav = << >>, !.hub[h].buf[v] = << >>]
  <2>2. base = Emptied(s, h, v)
    BY DEF Emptied, Put, Shaped
  <2>3. HubTraverse(s, h) = SaidAll(base, h, v, r.buf[v])
    BY <2>1 DEF HubTraverse, SaidAll, Say
  <2> QED
    BY <2>2, <2>3
<1> QED
  BY <1>1, <1>2, <1>3

(* A turn that has just begun waits for a cycle.                              *)
LEMMA TraverseWaits ==
  ASSUME NEW s, Shaped(s), NEW h \in H, NEW v, s.hub[h].trav = <<[v |-> v, new |-> TRUE]>>
  PROVE  HubTraverse(s, h) = Put(s, h, "trav", <<[v |-> v, new |-> FALSE]>>)
<1>1. PICK b \in BOOLEAN : b = TRUE
  OBVIOUS
<1>2. s.hub[h].trav = <<[v |-> v, new |-> b]>>
  BY <1>1
<1>3. s.hub[h].trav = <<[v |-> v, new |-> b]>> =>
        HubTraverse(s, h) = IF b THEN Put(s, h, "trav", <<[v |-> v, new |-> FALSE]>>)
                            ELSE SaidAll(Emptied(s, h, v), h, v, s.hub[h].buf[v])
  BY HubTraverseIs
<1> QED
  BY <1>1, <1>2, <1>3

(* After it all that is on the VC leaves.                                     *)
LEMMA TraverseEmpties ==
  ASSUME NEW s, Shaped(s), NEW h \in H, NEW v, s.hub[h].trav = <<[v |-> v, new |-> FALSE]>>
  PROVE  HubTraverse(s, h) = SaidAll(Emptied(s, h, v), h, v, s.hub[h].buf[v])
<1>1. PICK b \in BOOLEAN : b = FALSE
  OBVIOUS
<1>2. s.hub[h].trav = <<[v |-> v, new |-> b]>>
  BY <1>1
<1>3. s.hub[h].trav = <<[v |-> v, new |-> b]>> =>
        HubTraverse(s, h) = IF b THEN Put(s, h, "trav", <<[v |-> v, new |-> FALSE]>>)
                            ELSE SaidAll(Emptied(s, h, v), h, v, s.hub[h].buf[v])
  BY HubTraverseIs
<1> QED
  BY <1>1, <1>2, <1>3

(* Its VC is empty.                                                          *)
IsEmptied(s, t, h, v) ==
  /\ Within(s, t, h, {"trav", "buf"}) /\ t.hold = s.hold /\ t.hub[h].trav = << >>
  /\ t.hub[h].buf = [s.hub[h].buf EXCEPT ![v] = << >>]

(* That is what Emptied does.                                                *)
LEMMA EmptiedDoes ==
  ASSUME NEW s, Shaped(s), NEW h \in H, NEW v
  PROVE  IsEmptied(s, Emptied(s, h, v), h, v)
<1> DEFINE B == [s.hub[h].buf EXCEPT ![v] = << >>]
           t1 == Put(s, h, "trav", << >>)
           t2 == Put(t1, h, "buf", B)
<1> HIDE DEF B
<1>1. /\ Shaped(t1) /\ t1.hub[h].trav = << >> /\ t1.hold = s.hold
      /\ \A k \in H : k # h => t1.hub[k] = s.hub[k]
      /\ \A g \in HubFields : g # "trav" => t1.hub[h][g] = s.hub[h][g]
  BY PutDoes, Names
<1> HIDE DEF t1
<1>2. /\ Shaped(t2) /\ t2.hub[h].buf = B /\ t2.hold = t1.hold
      /\ \A k \in H : k # h => t2.hub[k] = t1.hub[k]
      /\ \A g \in HubFields : g # "buf" => t2.hub[h][g] = t1.hub[h][g]
  BY <1>1, PutDoes, Names
<1>3. t2 = Emptied(s, h, v)
  BY DEF Emptied, t1, B
<1> HIDE DEF t2
<1>4. Within(s, t2, h, {"trav", "buf"}) /\ t2.hold = s.hold /\ t2.hub[h].trav = << >>
  BY <1>1, <1>2, Names DEF Within
<1> QED
  BY <1>2, <1>3, <1>4 DEF B, IsEmptied

(* A traversal keeps the types.                                              *)
TraverseFields == {"trav", "buf", "air", "credits", "outq"}
(* The traversal disturbs only these, and keeps them of their types.         *)
LEMMA HubTraverseTypes ==
  ASSUME NEW s, Shaped(s), s.hold \in BOOLEAN, NEW h \in H, SendTypes(s.hub[h])
  PROVE  LET t == HubTraverse(s, h)
         IN  Within(s, t, h, TraverseFields) /\ t.hold \in BOOLEAN /\ SendTypes(t.hub[h])
<1> DEFINE r == s.hub[h]
           t == HubTraverse(s, h)
<1>1. CASE r.trav = << >>
  <2>1. t = s
    BY <1>1, HubTraverseIs
  <2>2. Within(s, s, h, TraverseFields)
    BY WithinNone
  <2> QED
    BY <2>1, <2>2
<1>2. ASSUME NEW v \in Vcs, r.trav = <<[v |-> v, new |-> TRUE]>>
      PROVE  Within(s, t, h, TraverseFields) /\ t.hold \in BOOLEAN /\ SendTypes(t.hub[h])
  <2> DEFINE x == <<[v |-> v, new |-> FALSE]>>
  <2>1. t = Put(s, h, "trav", x)
    BY <1>2, TraverseWaits
  <2> HIDE DEF t, x
  <2>2. /\ Shaped(t) /\ t.hub[h].trav = x /\ t.hold = s.hold
        /\ \A k \in H : k # h => t.hub[k] = s.hub[k]
        /\ \A g \in HubFields : g # "trav" => t.hub[h][g] = r[g]
    BY <2>1, PutDoes, Names
  <2>3. Within(s, t, h, TraverseFields)
    BY <2>2 DEF Within, TraverseFields
  <2>4. /\ t.hub[h].inq = r.inq /\ t.hub[h].air = r.air /\ t.hub[h].buf = r.buf
        /\ t.hub[h].outq = r.outq /\ t.hub[h].credits = r.credits
    BY <2>2, Names
  <2>5. SendTypes(t.hub[h])
    BY <2>2, <2>4 DEF SendTypes, x
  <2> QED
    BY <2>2, <2>3, <2>5
<1>3. ASSUME NEW v \in Vcs, r.trav = <<[v |-> v, new |-> FALSE]>>
      PROVE  Within(s, t, h, TraverseFields) /\ t.hold \in BOOLEAN /\ SendTypes(t.hub[h])
  <2> DEFINE e == Emptied(s, h, v)
             q == r.buf[v]
  <2>1. t = SaidAll(e, h, v, q)
    BY <1>3, HubTraverseIs
  <2> HIDE DEF t
  <2>2. /\ Within(s, e, h, {"trav", "buf"}) /\ e.hold = s.hold /\ e.hub[h].trav = << >>
        /\ e.hub[h].buf = [r.buf EXCEPT ![v] = << >>]
    <3>1. IsEmptied(s, e, h, v)
      BY EmptiedDoes
    <3> HIDE DEF e
    <3> QED
      BY <3>1 DEF IsEmptied
  <2>3. q \in Seq(FlitType) /\ r.buf \in [Vcs -> Seq(FlitType)]
    BY DEF SendTypes
  <2> HIDE DEF e, q
  <2>4. /\ Shaped(e) /\ e.hub[h].inq = r.inq /\ e.hub[h].air = r.air
        /\ e.hub[h].outq = r.outq /\ e.hub[h].credits = r.credits
    BY <2>2, Names DEF Within
  <2>5. /\ e.hub[h].air \in Seq(FlitType) /\ e.hub[h].outq \in Seq(Packets \X Vcs)
        /\ e.hub[h].credits \in Seq(Vcs)
    BY <2>4 DEF SendTypes
  <2>6. /\ Within(e, t, h, SaidFields) /\ t.hold \in BOOLEAN
        /\ t.hub[h].air \in Seq(FlitType) /\ t.hub[h].outq \in Seq(Packets \X Vcs)
        /\ t.hub[h].credits \in Seq(Vcs)
    BY <2>1, <2>2, <2>3, <2>4, <2>5, SaidTypes
  <2>7. Within(s, t, h, TraverseFields)
    BY <2>2, <2>6 DEF Within, TraverseFields, SaidFields
  <2>8. t.hub[h].inq = r.inq /\ t.hub[h].trav = << >> /\ t.hub[h].buf = [r.buf EXCEPT ![v] = << >>]
    BY <2>2, <2>4, <2>6, Names DEF Within, SaidFields
  <2>9. [r.buf EXCEPT ![v] = << >>] \in [Vcs -> Seq(FlitType)]
    BY <2>3
  <2>10. SendTypes(t.hub[h])
    BY <2>6, <2>8, <2>9 DEF SendTypes
  <2> QED
    BY <2>6, <2>7, <2>10
<1>4. r.trav = << >> \/ \E v \in Vcs, b \in {TRUE, FALSE} : r.trav = <<[v |-> v, new |-> b]>>
  BY DEF SendTypes
<1> HIDE DEF t
<1> QED
  BY <1>1, <1>2, <1>3, <1>4 DEF t

-----------------------------------------------------------------------------
(* All before the traversal.                                                 *)
Prepared(s, h, payload, w) == SwitchTraverse(SwitchEvaluate(VCAlloc(InputQueuing(s, h, payload), h, w), h), h)
Starts(s, p, h) ==
  LET q == p.hub[h]
  IN  /\ token = h /\ ~s.hold /\ p.hold = TRUE /\ q.outq # << >>
      /\ q.trav = IF s.hub[h].trav = << >> THEN <<[v |-> q.outq[1][2], new |-> TRUE]>> ELSE s.hub[h].trav
Aged(x) == [k \in DOMAIN x |-> [x[k] EXCEPT !.new = FALSE]]
IsPrepared(s, p, h) ==
  LET r == s.hub[h]
      q == p.hub[h]
  IN  /\ Within(s, p, h, HubFields)
      /\ q.air = r.air /\ q.credits = r.credits /\ Queued(r, q)
      /\ (p.hold = s.hold /\ q.trav = r.trav) \/ Starts(s, p, h)
      /\ \/ q.xbar = Aged(r.xbar)
         \/ \E f, w : q.xbar = Append(Aged(r.xbar), [f |-> f, w |-> w, new |-> TRUE])

(* This is what it does to what the hub sends, and to the crossbar.           *)
LEMMA PreparedDoes ==
  ASSUME NEW s, Shaped(s), NEW h \in H, NEW n \in Nat, NEW payload, DOMAIN payload = 1 .. n, NEW w
  PROVE  IsPrepared(s, Prepared(s, h, payload, w), h)
<1> DEFINE a == FromRouter(s, h)
           b == FromAir(a, h, payload)
           c == Start(b, h)
           d == VCAlloc(c, h, w)
           e == SwitchEvaluate(d, h)
           p == SwitchTraverse(e, h)
           r == s.hub[h]
           q == p.hub[h]
<1>1. p = Prepared(s, h, payload, w)
  BY DEF Prepared, InputQueuing
<1>2. Within(s, a, h, {"inq", "buf", "outq"}) /\ a.hold = s.hold /\ Queued(r, a.hub[h])
  <2>1. IsFrom(s, a, h)
    BY FromRouterDoes
  <2> QED
    BY <2>1 DEF IsFrom
<1> HIDE DEF a, r
<1>3. Shaped(a)
  BY <1>2 DEF Within
<1>4. Within(a, b, h, {"recv", "drop"}) /\ b.hold = a.hold
  BY <1>3, FromAirDoes
<1> HIDE DEF b
<1>5. Shaped(b)
  BY <1>4 DEF Within
<1>6. /\ Within(b, c, h, {"trav"})
      /\ ~MayStart(b, h) => c = b
      /\ MayStart(b, h) => /\ c.hold = TRUE
                           /\ c.hub[h].trav = IF b.hub[h].trav = << >>
                                              THEN <<[v |-> b.hub[h].outq[1][2], new |-> TRUE]>>
                                              ELSE b.hub[h].trav
  BY <1>5, StartDoes
<1> HIDE DEF c
<1>7. Shaped(c)
  BY <1>6 DEF Within
<1>8. Within(c, d, h, {"cur", "next", "swq"}) /\ d.hold = c.hold
  BY <1>7, VCAllocDoes
<1> HIDE DEF d
<1>9. Shaped(d)
  BY <1>8 DEF Within
<1>10. Within(d, e, h, {"xbar"}) /\ e.hold = d.hold /\ e.hub[h].xbar = Aged(d.hub[h].xbar)
  BY <1>9, SwitchEvaluateDoes DEF Aged
<1> HIDE DEF e
<1>11. Shaped(e)
  BY <1>10 DEF Within
<1>12. /\ Within(e, p, h, {"next", "recv", "xbar", "swq"}) /\ p.hold = e.hold
       /\ \/ q.xbar = e.hub[h].xbar
          \/ \E f, u : q.xbar = Append(e.hub[h].xbar, [f |-> f, w |-> u, new |-> TRUE])
  BY <1>11, SwitchTraverseDoes
<1> HIDE DEF p
<1>13. Within(s, p, h, HubFields)
  <2>1. /\ Within(s, a, h, HubFields) /\ Within(a, b, h, HubFields) /\ Within(b, c, h, HubFields)
        /\ Within(c, d, h, HubFields) /\ Within(d, e, h, HubFields) /\ Within(e, p, h, HubFields)
    BY <1>2, <1>4, <1>6, <1>8, <1>10, <1>12, WithinAll
  <2>2. \A k \in H : k # h => /\ a.hub[k] = s.hub[k] /\ b.hub[k] = a.hub[k] /\ c.hub[k] = b.hub[k]
                             /\ d.hub[k] = c.hub[k] /\ e.hub[k] = d.hub[k] /\ p.hub[k] = e.hub[k]
    BY <2>1 DEF Within
  <2>3. Shaped(p)
    BY <2>1 DEF Within
  <2> QED
    BY <2>2, <2>3 DEF Within
<1>14. /\ q.air = c.hub[h].air /\ q.credits = c.hub[h].credits /\ q.inq = c.hub[h].inq
       /\ q.buf = c.hub[h].buf /\ q.outq = c.hub[h].outq /\ q.trav = c.hub[h].trav /\ p.hold = c.hold
  <2>1. \A f \in {"air", "credits", "inq", "buf", "outq", "trav"} :
          /\ d.hub[h][f] = c.hub[h][f] /\ e.hub[h][f] = d.hub[h][f] /\ p.hub[h][f] = e.hub[h][f]
    <3>1. {"air", "credits", "inq", "buf", "outq", "trav"} \subseteq HubFields
      BY DEF HubFields
    <3> QED
      BY <3>1, <1>8, <1>10, <1>12 DEF Within
  <2> QED
    BY <2>1, <1>8, <1>10, <1>12
<1>19. /\ c.hub[h].air = r.air /\ c.hub[h].credits = r.credits /\ c.hub[h].inq = a.hub[h].inq
       /\ c.hub[h].buf = a.hub[h].buf /\ c.hub[h].outq = a.hub[h].outq
       /\ b.hub[h].outq = c.hub[h].outq /\ b.hub[h].trav = r.trav /\ b.hold = s.hold
       /\ c.hub[h].xbar = r.xbar
  <2>1. \A f \in {"air", "credits", "xbar"} : a.hub[h][f] = r[f] /\ b.hub[h][f] = a.hub[h][f] /\ c.hub[h][f] = b.hub[h][f]
    <3>1. {"air", "credits", "xbar"} \subseteq HubFields
      BY DEF HubFields
    <3> QED
      BY <3>1, <1>2, <1>4, <1>6 DEF Within, r
  <2>2. \A f \in {"inq", "buf", "outq"} : b.hub[h][f] = a.hub[h][f] /\ c.hub[h][f] = b.hub[h][f]
    <3>1. {"inq", "buf", "outq"} \subseteq HubFields
      BY DEF HubFields
    <3> QED
      BY <3>1, <1>4, <1>6 DEF Within
  <2>3. a.hub[h].trav = r.trav /\ b.hub[h].trav = a.hub[h].trav
    BY <1>2, <1>4, Names DEF Within, r
  <2> QED
    BY <2>1, <2>2, <2>3, <1>2, <1>4
<1>15. /\ b.hub[h].outq = q.outq /\ b.hub[h].trav = r.trav /\ q.trav = c.hub[h].trav
       /\ p.hold = c.hold /\ b.hold = s.hold /\ d.hub[h].xbar = r.xbar
       /\ q.air = r.air /\ q.credits = r.credits /\ q.inq = a.hub[h].inq
       /\ q.buf = a.hub[h].buf /\ q.outq = a.hub[h].outq
  <2>1. d.hub[h].xbar = c.hub[h].xbar
    BY <1>8, Names DEF Within
  <2> QED
    BY <2>1, <1>14, <1>19
<1>16. (p.hold = s.hold /\ q.trav = r.trav) \/ Starts(s, p, h)
  <2>1. CASE ~MayStart(b, h)
    BY <2>1, <1>6, <1>15
  <2>2. CASE MayStart(b, h)
    <3>1. token = h /\ ~b.hold /\ b.hub[h].outq # << >>
      BY <2>2 DEF MayStart
    <3> QED
      BY <2>2, <3>1, <1>6, <1>15 DEF Starts, r
  <2> QED
    BY <2>1, <2>2
<1>17. \/ q.xbar = Aged(r.xbar)
       \/ \E f, u : q.xbar = Append(Aged(r.xbar), [f |-> f, w |-> u, new |-> TRUE])
  BY <1>10, <1>12, <1>15
<1>20. Queued(r, q)
  BY <1>2, <1>15 DEF Queued
<1>18. IsPrepared(s, p, h)
  BY <1>13, <1>15, <1>16, <1>17, <1>20, Zenon DEF IsPrepared, r
<1> QED
  BY <1>1, <1>18

(* It keeps the types.                                                       *)
LEMMA PreparedTypes ==
  ASSUME NEW s, NEW p, NEW h \in H, SendTypes(s.hub[h]), s.hold \in BOOLEAN, IsPrepared(s, p, h)
  PROVE  SendTypes(p.hub[h]) /\ p.hold \in BOOLEAN
<1> DEFINE r == s.hub[h]
           q == p.hub[h]
<1>1. SendTypes(r) /\ Queued(r, q) /\ q.air = r.air /\ q.credits = r.credits
  BY DEF IsPrepared
<1>2. (p.hold = s.hold /\ q.trav = r.trav) \/ Starts(s, p, h)
  BY DEF IsPrepared
<1>3. q.trav = r.trav \/ (q.outq # << >> /\ q.trav = <<[v |-> q.outq[1][2], new |-> TRUE]>>)
  BY <1>2 DEF Starts
<1>4. p.hold \in BOOLEAN
  BY <1>2 DEF Starts
<1> HIDE DEF r, q
<1>5. r.inq = << >> \/ \E f \in FlitType, v \in Vcs : r.inq = <<[f |-> f, v |-> v]>>
  BY <1>1 DEF SendTypes
<1>6. q.buf \in [Vcs -> Seq(FlitType)] /\ q.outq \in Seq(Packets \X Vcs)
  <2>1. CASE r.inq = << >>
    BY <1>1, <2>1 DEF Queued, SendTypes
  <2>2. ASSUME NEW f \in FlitType, NEW v \in Vcs, r.inq = <<[f |-> f, v |-> v]>>
        PROVE  q.buf \in [Vcs -> Seq(FlitType)] /\ q.outq \in Seq(Packets \X Vcs)
    <3>1. r.inq # << >> /\ r.inq[1].f = f /\ r.inq[1].v = v
      BY <2>2
    <3>2. /\ q.buf = [r.buf EXCEPT ![v] = Append(r.buf[v], f)]
          /\ q.outq = IF IsTail(f) THEN Append(r.outq, <<f[1], v>>) ELSE r.outq
      BY <1>1, <3>1 DEF Queued
    <3>3. <<f[1], v>> \in Packets \X Vcs
      BY DEF FlitType
    <3>4. r.buf \in [Vcs -> Seq(FlitType)] /\ r.outq \in Seq(Packets \X Vcs)
      BY <1>1 DEF SendTypes
    <3>5. Append(r.buf[v], f) \in Seq(FlitType) /\ Append(r.outq, <<f[1], v>>) \in Seq(Packets \X Vcs)
      BY <3>3, <3>4
    <3> QED
      BY <3>2, <3>4, <3>5
  <2> QED
    BY <1>5, <2>1, <2>2
<1>7. q.trav = << >> \/ \E v \in Vcs, b \in BOOLEAN : q.trav = <<[v |-> v, new |-> b]>>
  <2>1. CASE q.trav = r.trav
    BY <1>1, <2>1 DEF SendTypes
  <2>2. CASE q.outq # << >> /\ q.trav = <<[v |-> q.outq[1][2], new |-> TRUE]>>
    <3>1. q.outq[1] \in Packets \X Vcs
      BY <1>6, <2>2
    <3> QED
      BY <2>2, <3>1
  <2> QED
    BY <1>3, <2>1, <2>2
<1>8. q.inq = << >>
  BY <1>1 DEF Queued
<1>9. q.air \in Seq(FlitType) /\ q.credits \in Seq(Vcs)
  BY <1>1 DEF SendTypes
<1>10. SendTypes(q)
  BY <1>6, <1>7, <1>8, <1>9 DEF SendTypes
<1> QED
  BY <1>4, <1>10 DEF q

-----------------------------------------------------------------------------
(* What a hub that sleeps has.                                               *)
Nothing(r) == /\ r.outq = << >> /\ r.recv = << >> /\ r.swq = << >>
              /\ r.trav = << >> /\ r.xbar = << >>

(* Between cycles: one flit in the crossbar at most, that has just come.       *)
New(f, w) == [f |-> f, w |-> w, new |-> TRUE]
Old(f, w) == [f |-> f, w |-> w, new |-> FALSE]
Rests(r) ==
  /\ r.xbar = << >> \/ \E f, w : r.xbar = <<New(f, w)>>
  /\ r.active \/ Nothing(r)

(* Before the flit leaves: it has waited, and one more may have come.          *)
Works(r) ==
  \/ Nothing(r) /\ r.active = FALSE
  \/ /\ r.active = StaysActive(r)
     /\ \/ r.xbar = << >> \/ \E f, w : r.xbar = <<New(f, w)>> \/ r.xbar = <<Old(f, w)>>
        \/ \E f, w, g, u : r.xbar = <<Old(f, w), New(g, u)>>

(* The turn of a hub.                                                        *)
Worked(s, t, h) ==
  /\ Within(s, t, h, HubFields) /\ t.hold \in BOOLEAN /\ SendTypes(t.hub[h]) /\ Works(t.hub[h])

(* Two in a row.                                                             *)
LEMMA Pair ==
  ASSUME NEW a, NEW b
  PROVE  Append(<<a>>, b) = <<a, b>>
<1> DEFINE S == {a, b}
           s == Append(<<a>>, b)
           t == <<a, b>>
<1>1. <<a>> \in Seq(S) /\ b \in S /\ t \in Seq(S) /\ Len(<<a>>) = 1 /\ Len(t) = 2
  OBVIOUS
<1>2. <<a>>[1] = a /\ t[1] = a /\ t[2] = b
  OBVIOUS
<1>3. s \in Seq(S) /\ Len(s) = 2 /\ s[1] = a /\ s[2] = b
  BY <1>1, <1>2, AppendProperties
<1> HIDE DEF s, t
<1>4. \A k \in 1 .. Len(s) : s[k] = t[k]
  BY <1>1, <1>2, <1>3
<1>5. s = t
  BY <1>1, <1>3, <1>4, SeqEqual
<1> QED
  BY <1>5 DEF s, t

(* A turn that is not slept through.                                         *)
Woken(s, h, payload, w) ==
  LET p == Prepared(s, h, payload, w)
      c == HubTraverse(p, h)
  IN  Put(c, h, "active", StaysActive(c.hub[h]))

(* A hub does all or nothing.                                                *)
LEMMA EvaluateIs ==
  ASSUME NEW s, Shaped(s), NEW h \in H, NEW payload, NEW w
  PROVE  /\ s.hub[h].active \/ ReceiveFlits(s, h, payload) => Evaluate(s, h, payload, w) = Woken(s, h, payload, w)
         /\ ~(s.hub[h].active \/ ReceiveFlits(s, h, payload)) => Evaluate(s, h, payload, w) = s
  BY DEF Evaluate, Woken, Prepared, Put

(* A turn ends with what the next one relies on.                             *)
LEMMA EvaluateDoes ==
  ASSUME NEW s, Shaped(s), NEW h \in H, NEW n \in Nat, NEW payload, DOMAIN payload = 1 .. n, NEW w,
         s.hold \in BOOLEAN, SendTypes(s.hub[h]), Rests(s.hub[h]), s.hub[h].active \in BOOLEAN
  PROVE  Worked(s, Evaluate(s, h, payload, w), h)
<1> DEFINE r == s.hub[h]
           p == Prepared(s, h, payload, w)
           c == HubTraverse(p, h)
           t == Put(c, h, "active", StaysActive(c.hub[h]))
<1>1. CASE ~(r.active \/ ReceiveFlits(s, h, payload))
  <2>1. Evaluate(s, h, payload, w) = s
    BY <1>1, EvaluateIs
  <2>2. Nothing(r) /\ r.active = FALSE
    BY <1>1 DEF Rests
  <2>3. Within(s, s, h, HubFields)
    BY WithinNone
  <2> QED
    BY <2>1, <2>2, <2>3 DEF Worked, Works
<1>2. CASE r.active \/ ReceiveFlits(s, h, payload)
  <2>1. Evaluate(s, h, payload, w) = t
    BY <1>2, EvaluateIs DEF Woken
  <2>2. IsPrepared(s, p, h)
    BY PreparedDoes
  <2> HIDE DEF p
  <2>3. SendTypes(p.hub[h]) /\ p.hold \in BOOLEAN /\ Within(s, p, h, HubFields)
    <3>1. SendTypes(p.hub[h]) /\ p.hold \in BOOLEAN
      BY <2>2, PreparedTypes
    <3> QED
      BY <2>2, <3>1 DEF IsPrepared
  <2>4. Within(p, c, h, TraverseFields) /\ c.hold \in BOOLEAN /\ SendTypes(c.hub[h])
    <3>1. Shaped(p)
      BY <2>3 DEF Within
    <3> QED
      BY <2>3, <3>1, HubTraverseTypes
  <2> HIDE DEF c
  <2>5. /\ Shaped(t) /\ t.hold = c.hold /\ t.hub[h].active = StaysActive(c.hub[h])
        /\ \A k \in H : k # h => t.hub[k] = c.hub[k]
        /\ \A g \in HubFields : g # "active" => t.hub[h][g] = c.hub[h][g]
    <3>1. Shaped(c)
      BY <2>4 DEF Within
    <3> DEFINE x == StaysActive(c.hub[h])
    <3> HIDE DEF x
    <3>2. t = Put(c, h, "active", x)
      BY DEF x
    <3> HIDE DEF t
    <3> QED
      BY <3>1, <3>2, PutDoes, Names DEF x
  <2> HIDE DEF t
  <2>6. Within(s, t, h, HubFields)
    BY <2>3, <2>4, <2>5 DEF Within
  <2>7. /\ t.hub[h].inq = c.hub[h].inq /\ t.hub[h].air = c.hub[h].air /\ t.hub[h].buf = c.hub[h].buf
        /\ t.hub[h].outq = c.hub[h].outq /\ t.hub[h].trav = c.hub[h].trav
        /\ t.hub[h].credits = c.hub[h].credits /\ t.hub[h].swq = c.hub[h].swq
        /\ t.hub[h].recv = c.hub[h].recv /\ t.hub[h].xbar = c.hub[h].xbar
    BY <2>5, Names
  <2>8. SendTypes(t.hub[h])
    BY <2>4, <2>7 DEF SendTypes
  <2>9. t.hub[h].active = StaysActive(t.hub[h])
    BY <2>5, <2>7 DEF StaysActive
  <2>10. t.hub[h].xbar = p.hub[h].xbar
    BY <2>4, <2>7, Names DEF Within, TraverseFields
  <2> DEFINE x == p.hub[h].xbar
  <2>11. x = Aged(r.xbar) \/ \E f, u : x = Append(Aged(r.xbar), New(f, u))
    BY <2>2, Zenon DEF IsPrepared, New
  <2>12. \/ Aged(r.xbar) = << >>
         \/ \E f, u : Aged(r.xbar) = <<Old(f, u)>>
    <3>1. CASE r.xbar = << >>
      BY <3>1 DEF Aged
    <3>2. ASSUME NEW f, NEW u, r.xbar = <<New(f, u)>>
          PROVE  Aged(r.xbar) = <<Old(f, u)>>
      <4> DEFINE y == New(f, u)
                 z == Old(f, u)
      <4>1. [y EXCEPT !.new = FALSE] = z
        <5>1. y = [i \in {"f", "w", "new"} |-> y[i]] /\ y.f = f /\ y.w = u
          BY DEF New
        <5>2. z = [i \in {"f", "w", "new"} |-> z[i]] /\ z.f = f /\ z.w = u /\ z.new = FALSE
          BY DEF Old
        <5> HIDE DEF y, z
        <5> QED
          BY <5>1, <5>2
      <4> HIDE DEF y, z
      <4>2. Aged(<<y>>) = <<[y EXCEPT !.new = FALSE]>>
        <5> DEFINE e == [y EXCEPT !.new = FALSE]
        <5>1. DOMAIN <<y>> = {1} /\ <<y>>[1] = y
          OBVIOUS
        <5>2. Aged(<<y>>) = [k \in {1} |-> e]
          BY <5>1 DEF Aged
        <5> HIDE DEF e
        <5>3. <<e>> = [k \in {1} |-> e]
          OBVIOUS
        <5> QED
          BY <5>2, <5>3 DEF e
      <4> QED
        BY <3>2, <4>1, <4>2 DEF y, z
    <3> QED
      BY <3>1, <3>2 DEF Rests
  <2> HIDE DEF x
  <2>13. \/ x = << >> \/ \E f, u : x = <<New(f, u)>> \/ x = <<Old(f, u)>>
         \/ \E f, u, g, v : x = <<Old(f, u), New(g, v)>>
    <3>1. \A a, b : Append(<<a>>, b) = <<a, b>>
      BY Pair, Zenon
    <3>2. \A b : Append(<< >>, b) = <<b>>
      OBVIOUS
    <3> DEFINE y == Aged(r.xbar)
    <3> HIDE DEF y
    <3>3. x = y \/ \E f, u : x = Append(y, New(f, u))
      BY <2>11 DEF y
    <3>4. y = << >> \/ \E f, u : y = <<Old(f, u)>>
      BY <2>12 DEF y
    <3>5. ASSUME NEW f, NEW u, y = <<Old(f, u)>>, NEW g, NEW v, x = Append(y, New(g, v))
          PROVE  x = <<Old(f, u), New(g, v)>>
      <4> DEFINE a == Old(f, u)
                 b == New(g, v)
      <4>1. y = <<a>> /\ x = Append(y, b)
        BY <3>5
      <4> HIDE DEF a, b
      <4>2. x = Append(<<a>>, b)
        BY <4>1
      <4>3. x = <<a, b>>
        BY <3>1, <4>2
      <4> QED
        BY <4>3 DEF a, b
    <3>6. CASE y = << >>
      BY <3>2, <3>3, <3>6
    <3>7. CASE \E f, u : y = <<Old(f, u)>>
      <4>1. PICK f, u : y = <<Old(f, u)>>
        BY <3>7
      <4>2. CASE x = y
        BY <4>1, <4>2
      <4>3. ASSUME NEW g, NEW v, x = Append(y, New(g, v))
            PROVE  x = <<Old(f, u), New(g, v)>>
        BY <3>5, <4>1, <4>3
      <4> QED
        BY <3>3, <4>2, <4>3
    <3> QED
      BY <3>4, <3>6, <3>7
  <2>14. Works(t.hub[h])
    BY <2>9, <2>10, <2>13 DEF Works, x
  <2> QED
    BY <2>1, <2>4, <2>5, <2>6, <2>8, <2>14 DEF Worked
<1> QED
  BY <1>1, <1>2

-----------------------------------------------------------------------------
(* Sequences one after the other: how far they are after each.                 *)
Flattening(f, q, n) == f[1] = q[1] /\ \A k \in 1 .. n : k # 1 => f[k] = f[k - 1] \o q[k]

(* There is that, and all of them are its last.                               *)
LEMMA FlattenChain ==
  ASSUME NEW S, NEW n \in Nat \ {0}, NEW q \in [1 .. n -> Seq(S)]
  PROVE  \E f : Flattening(f, q, n) /\ FlattenSeq(q) = f[n]
<1>1. Len(q) = n /\ DOMAIN q = 1 .. n /\ q \in Seq(Seq(S))
  OBVIOUS
<1>3. n # 0
  OBVIOUS
<1> DEFINE R(f) == f = [i \in 1 .. n |-> IF i = 1 THEN q[i] ELSE f[i - 1] \o q[i]]
           f == CHOOSE f : R(f)
           D == 1 .. n
<1>21. FlattenSeq(q) = f[n]
  BY <1>1, <1>3 DEF FlattenSeq
<1>22. IsFiniteSet(D) /\ Ints(D)
  <2>1. 1 \in Int /\ n \in Int
    OBVIOUS
  <2> QED
    BY <2>1, FS_Interval DEF Ints
<1> DEFINE c == [what |-> "flat"]
<1>23. \A t, x : Turn(c, t, x) = t \o x
  BY DEF Turn
<1> HIDE DEF D, c
<1>24. PICK e : Unfolds(e, D, c, << >>, q)
  BY <1>22, TurnsUnfold
<1>25. /\ e[{}] = << >>
      /\ \A z \in SUBSET D : z # {} => e[z] = e[z \ {Max(z)}] \o q[Max(z)]
  BY <1>23, <1>24 DEF Unfolds
<1>26. ASSUME NEW k \in 1 .. n PROVE e[1 .. k] = e[1 .. k - 1] \o q[k]
  <2>1. /\ 1 .. k \in SUBSET D /\ 1 .. k # {} /\ Max(1 .. k) = k
        /\ (1 .. k) \ {k} = 1 .. (k - 1)
    BY TopIndex DEF D
  <2> DEFINE z == 1 .. k
  <2>2. e[z] = e[z \ {Max(z)}] \o q[Max(z)]
    BY <1>25, <2>1
  <2> QED
    BY <2>1, <2>2
<1> DEFINE o == [i \in 1 .. n |-> e[1 .. i]]
<1>27. \A k \in 1 .. n : k # 1 => o[k] = o[k - 1] \o q[k]
  <2>1. ASSUME NEW k \in 1 .. n, k # 1 PROVE o[k] = o[k - 1] \o q[k]
    <3>1. k - 1 \in 1 .. n
      BY <2>1
    <3> QED
      BY <1>26, <3>1
  <2> QED
    BY <2>1
<1>28. o[1] = q[1]
  <2>1. 1 \in 1 .. n /\ 1 .. 1 - 1 = {}
    BY <1>3
  <2>2. o[1] = << >> \o q[1]
    BY <1>25, <1>26, <2>1
  <2>3. q[1] \in Seq(S)
    BY <2>1
  <2> QED
    BY <2>2, <2>3, ConcatEmptySeq
<1>29. R(o)
  <2>1. o = [i \in 1 .. n |-> o[i]]
    OBVIOUS
  <2> HIDE DEF o
  <2> QED
    BY <1>27, <1>28, <2>1
<1> HIDE DEF R, o
<1>30. R(f)
  BY <1>29
<1> HIDE DEF f
<1>31. f[1] = q[1] /\ \A k \in 1 .. n : k # 1 => f[k] = f[k - 1] \o q[k]
  <2>1. ASSUME NEW k \in 1 .. n PROVE f[k] = IF k = 1 THEN q[k] ELSE f[k - 1] \o q[k]
    BY <1>30 DEF R
  <2>2. 1 \in 1 .. n
    BY <1>3
  <2> QED
    BY <2>1, <2>2
<1> QED
  BY <1>21, <1>31 DEF Flattening

(* They are a sequence.                                                      *)
LEMMA FlattenDoes ==
  ASSUME NEW S, NEW n \in Nat, NEW q \in [1 .. n -> Seq(S)]
  PROVE  FlattenSeq(q) \in Seq(S)
<1>1. CASE n = 0
  BY <1>1 DEF FlattenSeq
<1>2. CASE n # 0
  <2>1. PICK f : Flattening(f, q, n) /\ FlattenSeq(q) = f[n]
    BY <1>2, FlattenChain
  <2>2. f[1] = q[1] /\ \A k \in 1 .. n : k # 1 => f[k] = f[k - 1] \o q[k]
    BY <2>1 DEF Flattening
  <2> DEFINE U == {k \in 0 .. n : k = 0 \/ f[k] \in Seq(S)}
  <2>12. 0 \in U
    OBVIOUS
  <2>13. ASSUME NEW k \in 1 .. n, k - 1 \in U PROVE k \in U
    <3>1. q[k] \in Seq(S)
      OBVIOUS
    <3>2. CASE k = 1
      BY <2>2, <3>1, <3>2
    <3>3. CASE k # 1
      <4>1. f[k - 1] \in Seq(S)
        BY <2>13, <3>3
      <4>2. f[k] = f[k - 1] \o q[k]
        BY <2>2, <3>3
      <4>3. f[k - 1] \o q[k] \in Seq(S)
        BY <3>1, <4>1
      <4>4. f[k] \in Seq(S)
        BY <4>2, <4>3
      <4>5. k \in 0 .. n
        OBVIOUS
      <4> QED
        BY <4>4, <4>5
    <3> QED
      BY <3>2, <3>3
  <2>14. n \in U
    <3> HIDE DEF U
    <3> QED
      BY <2>12, <2>13, Climb DEF Climbs
  <2> QED
    BY <1>2, <2>1, <2>14
<1> QED
  BY <1>1, <1>2

(* All but one of them are empty.                                            *)
OnlyAt(q, n, m) == \A k \in 1 .. n : k # m => q[k] = << >>

(* Then they are that one.                                                   *)
LEMMA FlattenOne ==
  ASSUME NEW S, NEW n \in Nat, NEW q \in [1 .. n -> Seq(S)], NEW m \in 1 .. n, OnlyAt(q, n, m)
  PROVE  FlattenSeq(q) = q[m]
<1>0. n # 0 /\ \A k \in 1 .. n : k # m => q[k] = << >>
  BY DEF OnlyAt
<1>1. PICK f : Flattening(f, q, n) /\ FlattenSeq(q) = f[n]
  BY <1>0, FlattenChain
<1>2. f[1] = q[1] /\ \A k \in 1 .. n : k # 1 => f[k] = f[k - 1] \o q[k]
  BY <1>1 DEF Flattening
<1>3. PICK z : z = q[m]
  OBVIOUS
<1>4. z \in Seq(S) /\ << >> \o z = z /\ z \o << >> = z /\ << >> \o << >> = << >>
  <2>1. z \in Seq(S)
    BY <1>3
  <2> QED
    BY <2>1, ConcatEmptySeq
<1> DEFINE U == {k \in 0 .. n : k = 0 \/ f[k] = IF k < m THEN << >> ELSE z}
<1>5. 0 \in U
  OBVIOUS
<1>6. ASSUME NEW k \in 1 .. n, k - 1 \in U PROVE k \in U
  <2>1. k # 1 => f[k - 1] = IF k - 1 < m THEN << >> ELSE z
    BY <1>6
  <2>2. q[k] = IF k = m THEN z ELSE << >>
    BY <1>0, <1>3
  <2>3. f[k] = IF k < m THEN << >> ELSE z
    <3>1. CASE k = 1
      BY <1>2, <2>2, <3>1
    <3>2. CASE k # 1
      <4>1. PICK x : x = f[k - 1]
        OBVIOUS
      <4>2. PICK y : y = q[k]
        OBVIOUS
      <4>3. f[k] = x \o y
        BY <1>2, <3>2, <4>1, <4>2
      <4>4. /\ k < m => x = << >> /\ y = << >>
            /\ k = m => x = << >> /\ y = z
            /\ k > m => x = z /\ y = << >>
        BY <2>1, <2>2, <3>2, <4>1, <4>2
      <4>5. k < m \/ k = m \/ k > m
        OBVIOUS
      <4>6. x \o y = IF k < m THEN << >> ELSE z
        <5> HIDE DEF U
        <5>1. CASE k < m
          BY <1>4, <4>4, <5>1
        <5>2. CASE k = m
          BY <1>4, <4>4, <5>2
        <5>3. CASE k > m
          BY <1>4, <4>4, <5>3
        <5> QED
          BY <4>5, <5>1, <5>2, <5>3
      <4> QED
        BY <4>3, <4>6
    <3> QED
      BY <3>1, <3>2
  <2> QED
    BY <2>3
<1>7. n \in U
  <2> HIDE DEF U
  <2> QED
    BY <1>5, <1>6, Climb DEF Climbs
<1> QED
  BY <1>0, <1>1, <1>3, <1>7

(* If all of them are empty, there is nothing.                                 *)
LEMMA FlattenNone ==
  ASSUME NEW S, NEW n \in Nat, NEW q \in [1 .. n -> Seq(S)], \A k \in 1 .. n : q[k] = << >>
  PROVE  FlattenSeq(q) = << >>
<1>1. CASE n = 0
  BY <1>1 DEF FlattenSeq
<1>2. CASE n # 0
  <2>1. 1 \in 1 .. n /\ OnlyAt(q, n, 1)
    BY <1>2 DEF OnlyAt
  <2> QED
    BY <2>1, FlattenOne
<1> QED
  BY <1>1, <1>2

(* So what a hub hears is a sequence of flits.                               *)
LEMMA PayloadIs ==
  ASSUME HubAssumption, NEW h \in H, \A k \in H : hub[k].air \in Seq(FlitType)
  PROVE  Payload(h) \in Seq(FlitType)
<1> DEFINE n == Hubs - 1
           q == [k \in 1 .. n |-> hub[(h + Hubs - k) % Hubs].air]
<1>1. Hubs \in Nat \ {0} /\ n \in Nat
  BY DEF HubAssumption
<1>2. ASSUME NEW k \in 1 .. n PROVE (h + Hubs - k) % Hubs \in H
  BY <1>1 DEF H
<1>3. q \in [1 .. n -> Seq(FlitType)]
  BY <1>2
<1> HIDE DEF q
<1>4. FlattenSeq(q) \in Seq(FlitType)
  BY <1>1, <1>3, FlattenDoes
<1> QED
  BY <1>4 DEF Payload, q

-----------------------------------------------------------------------------
(* The hubs take their turns, from the first to the last.                     *)
Base == [hub |-> [h \in H |-> [hub[h] EXCEPT !.air = << >>]], hold |-> token_hold, ready |-> ready_receive]
Turns(g, w) == g[0] = Base /\ \A k \in 1 .. Hubs : g[k] = Evaluate(g[k - 1], k - 1, Payload(k - 1), w[k - 1])

(* The states on the way.                                                    *)
LEMMA CycleChain ==
  ASSUME HubAssumption, NEW w
  PROVE  \E g : Turns(g, w) /\ Evaluated(w) = g[Hubs]
<1> DEFINE n == Hubs
           q == [k \in 1 .. n |-> k - 1]
           D == DOMAIN q
           R(g) == g = [z \in SUBSET D |-> IF z = {} THEN Base
                          ELSE Evaluate(g[z \ {Max(z)}], q[Max(z)], Payload(q[Max(z)]), w[q[Max(z)]])]
           g == CHOOSE g : R(g)
           f == [k \in 0 .. n |-> g[1 .. k]]
<1>0. n \in Nat /\ D = 1 .. n
  BY DEF HubAssumption
<1>1. Evaluated(w) = g[D]
  BY DEF Evaluated, FoldLeft, MapThenFoldSet, Base
<1>2. R(g)
  <2>1. IsFiniteSet(D) /\ Ints(D)
    <3>1. 1 \in Int /\ n \in Int
      BY <1>0
    <3> QED
      BY <1>0, <3>1, FS_Interval DEF Ints
  <2> DEFINE c == [what |-> "cycle", w |-> w]
  <2> HIDE DEF D, c, q
  <2>2. PICK e : Unfolds(e, D, c, Base, q)
    BY <2>1, TurnsUnfold
  <2>3. \A t, x : Turn(c, t, x) = Evaluate(t, x, Payload(x), w[x])
    BY DEF Turn, c
  <2>4. R(e)
    BY <2>2, <2>3 DEF Unfolds
  <2> HIDE DEF R
  <2> QED
    BY <2>4
<1> HIDE DEF g
<1>3. \A z \in SUBSET D : z # {} => g[z] = Evaluate(g[z \ {Max(z)}], q[Max(z)], Payload(q[Max(z)]), w[q[Max(z)]])
  BY <1>2
<1>4. g[{}] = Base
  BY <1>2
<1>5. f[0] = Base
  <2>1. 1 .. 0 = {}
    OBVIOUS
  <2>2. 0 \in 0 .. n
    BY <1>0
  <2> QED
    BY <1>4, <2>1, <2>2
<1>6. ASSUME NEW k \in 1 .. n PROVE f[k] = Evaluate(f[k - 1], k - 1, Payload(k - 1), w[k - 1])
  <2>0. /\ 1 .. k \in SUBSET D /\ 1 .. k # {} /\ Max(1 .. k) = k
        /\ (1 .. k) \ {k} = 1 .. (k - 1)
    BY <1>0, TopIndex
  <2> DEFINE z == 1 .. k
  <2>1. g[z] = Evaluate(g[z \ {Max(z)}], q[Max(z)], Payload(q[Max(z)]), w[q[Max(z)]])
    BY <1>3, <2>0
  <2>2. f[k] = g[1 .. k] /\ f[k - 1] = g[1 .. k - 1] /\ q[k] = k - 1
    BY <1>0
  <2> HIDE DEF f, q
  <2> QED
    BY <2>0, <2>1, <2>2
<1>7. f[n] = g[D]
  BY <1>0
<1> HIDE DEF f
<1>8. Turns(f, w)
  BY <1>5, <1>6 DEF Turns
<1> QED
  BY <1>1, <1>7, <1>8

(* What holds of all hubs between the cycles.                                *)
AwakeInv ==
  /\ token_hold \in BOOLEAN /\ put \in [Packets -> Nat] /\ DOMAIN hub = H
  /\ \A h \in H : /\ DOMAIN hub[h] = HubFields /\ SendTypes(hub[h])
                  /\ hub[h].active \in BOOLEAN /\ Rests(hub[h])

(* The first turn finds them as they were, with nothing in the air.           *)
LEMMA BaseIs ==
  ASSUME AwakeInv
  PROVE  /\ Shaped(Base) /\ Base.hold = token_hold
         /\ \A h \in H : /\ Base.hub[h].air = << >>
                         /\ \A f \in HubFields : f # "air" => Base.hub[h][f] = hub[h][f]
<1>1. \A h \in H : /\ DOMAIN [hub[h] EXCEPT !.air = << >>] = HubFields
                   /\ [hub[h] EXCEPT !.air = << >>].air = << >>
                   /\ \A f \in HubFields : f # "air" => [hub[h] EXCEPT !.air = << >>][f] = hub[h][f]
  BY Names DEF AwakeInv
<1>2. \A h \in H : Base.hub[h] = [hub[h] EXCEPT !.air = << >>]
  BY DEF Base
<1>3. DOMAIN Base = {"hub", "hold", "ready"} /\ DOMAIN Base.hub = H /\ Base.hold = token_hold
  BY DEF Base
<1> DEFINE b == Base
<1>4. \A h \in H : /\ DOMAIN b.hub[h] = HubFields /\ b.hub[h].air = << >>
                   /\ \A f \in HubFields : f # "air" => b.hub[h][f] = hub[h][f]
  BY <1>1, <1>2
<1>5. DOMAIN b = {"hub", "hold", "ready"} /\ DOMAIN b.hub = H /\ b.hold = token_hold
  BY <1>3
<1> HIDE DEF b
<1>6. Shaped(b)
  BY <1>4, <1>5 DEF Shaped
<1> QED
  BY <1>4, <1>5, <1>6 DEF b

(* They can all take their turn.                                             *)
Fit(r) == SendTypes(r) /\ Rests(r) /\ r.active \in BOOLEAN
(* So is every hub as the cycle begins.                                      *)
LEMMA BaseFits ==
  ASSUME AwakeInv, NEW h \in H
  PROVE  Fit(Base.hub[h])
<1> DEFINE r == hub[h]
           b == Base.hub[h]
<1>1. b.air = << >> /\ \A f \in HubFields : f # "air" => b[f] = r[f]
  BY BaseIs
<1>2. SendTypes(r) /\ Rests(r) /\ r.active \in BOOLEAN
  BY DEF AwakeInv
<1> HIDE DEF b, r
<1>3. /\ b.inq = r.inq /\ b.buf = r.buf /\ b.outq = r.outq /\ b.trav = r.trav /\ b.credits = r.credits
      /\ b.recv = r.recv /\ b.swq = r.swq /\ b.xbar = r.xbar /\ b.active = r.active
  BY <1>1, Names
<1>4. b.air \in Seq(FlitType)
  BY <1>1
<1>5. SendTypes(b)
  BY <1>2, <1>3, <1>4 DEF SendTypes
<1>6. Rests(b) /\ b.active \in BOOLEAN
  BY <1>2, <1>3 DEF Rests, Nothing
<1> QED
  BY <1>5, <1>6 DEF Fit, b

(* The first k hubs have had their turn.                                     *)
Half(s, k) ==
  /\ Shaped(s) /\ s.hold \in BOOLEAN
  /\ \A h \in H : h < k => SendTypes(s.hub[h]) /\ Works(s.hub[h])
  /\ \A h \in H : h >= k => s.hub[h] = Base.hub[h]

(* One hub more.                                                             *)
LEMMA HalfWay ==
  ASSUME HubAssumption, AwakeInv, NEW w, NEW g, Turns(g, w), NEW m \in 0 .. Hubs
  PROVE  Half(g[m], m)
<1>0. Hubs \in Nat \ {0}
  BY DEF HubAssumption
<1> DEFINE S == {k \in 0 .. m : Half(g[k], k)}
<1>2. Half(g[0], 0)
  <2>1. g[0] = Base /\ Shaped(Base) /\ Base.hold \in BOOLEAN
    BY BaseIs DEF Turns, AwakeInv
  <2>2. \A h \in H : ~(h < 0)
    BY DEF H
  <2> QED
    BY <2>1, <2>2 DEF Half
<1>3. ASSUME NEW k \in 1 .. Hubs, Half(g[k - 1], k - 1) PROVE Half(g[k], k)
  <2> DEFINE s == g[k - 1]
             h == k - 1
             p == Payload(h)
             t == g[k]
             b == Base.hub[h]
  <2>1. h \in H /\ k = h + 1 /\ k \in Int
    BY <1>0 DEF H
  <2>2. t = Evaluate(s, h, p, w[h])
    BY DEF Turns
  <2>3. Shaped(s) /\ s.hold \in BOOLEAN /\ s.hub[h] = b
    BY <1>3, <2>1 DEF H, Half
  <2>4. /\ \A l \in H : l < h => SendTypes(s.hub[l]) /\ Works(s.hub[l])
        /\ \A l \in H : l >= h => s.hub[l] = Base.hub[l]
    BY <1>3 DEF Half
  <2>5. SendTypes(b) /\ Rests(b) /\ b.active \in BOOLEAN
    BY <2>1, BaseFits DEF Fit
  <2>6. p \in Seq(FlitType)
    <3>1. \A j \in H : hub[j].air \in Seq(FlitType)
      BY DEF AwakeInv, SendTypes
    <3> QED
      BY <2>1, <3>1, PayloadIs
  <2> HIDE DEF p
  <2>7. Len(p) \in Nat /\ DOMAIN p = 1 .. Len(p)
    BY <2>6, LenProperties
  <2> DEFINE x == w[h]
             n == Len(p)
             e == Evaluate(s, h, p, x)
  <2> HIDE DEF s, h, b, x, n
  <2>8. Worked(s, e, h)
    BY <2>1, <2>3, <2>5, <2>7, EvaluateDoes DEF n
  <2>9. t = e
    BY <2>2 DEF x
  <2> HIDE DEF t, e
  <2>10. /\ Shaped(t) /\ t.hold \in BOOLEAN /\ SendTypes(t.hub[h]) /\ Works(t.hub[h])
         /\ \A l \in H : l # h => t.hub[l] = s.hub[l]
    BY <2>8, <2>9 DEF Worked, Within
  <2>11. \A l \in H : /\ l < k => l = h \/ (l # h /\ l < h)
                      /\ l >= k => l # h /\ l >= h
    BY <2>1 DEF H
  <2>12. \A l \in H : l < k => SendTypes(t.hub[l]) /\ Works(t.hub[l])
    BY <2>4, <2>10, <2>11
  <2>13. \A l \in H : l >= k => t.hub[l] = Base.hub[l]
    BY <2>4, <2>10, <2>11
  <2> QED
    BY <2>10, <2>12, <2>13 DEF t, Half
<1>4. 0 \in S /\ \A k \in 1 .. m : k - 1 \in S => k \in S
  <2>1. m \in Nat /\ 0 \in 0 .. m /\ \A k \in 1 .. m : k \in 1 .. Hubs /\ k \in 0 .. m
    BY <1>0
  <2>2. 0 \in S
    BY <1>2, <2>1
  <2>3. ASSUME NEW k \in 1 .. m, k - 1 \in S PROVE k \in S
    <3>1. Half(g[k - 1], k - 1)
      BY <2>3
    <3>2. k \in 1 .. Hubs /\ k \in 0 .. m
      BY <2>1
    <3>3. Half(g[k], k)
      BY <1>3, <3>1, <3>2
    <3> QED
      BY <3>2, <3>3
  <2> QED
    BY <2>2, <2>3
<1>5. m \in S
  <2>1. m \in Nat
    BY <1>0
  <2> HIDE DEF S
  <2> QED
    BY <1>4, <2>1, Climb DEF Climbs
<1> QED
  BY <1>5

(* After a cycle.                                                            *)
Done(s) ==
  /\ Shaped(s) /\ s.hold \in BOOLEAN
  /\ \A h \in H : SendTypes(s.hub[h]) /\ Works(s.hub[h])
(* All turns taken, every hub is active that has work.                       *)
LEMMA EvaluatedDoes ==
  ASSUME HubAssumption, AwakeInv, NEW w
  PROVE  Done(Evaluated(w))
<1>1. PICK g : Turns(g, w) /\ Evaluated(w) = g[Hubs]
  BY CycleChain
<1>2. Hubs \in 0 .. Hubs /\ \A h \in H : h < Hubs
  BY DEF HubAssumption, H
<1>3. Half(Evaluated(w), Hubs)
  BY <1>1, <1>2, HalfWay
<1> QED
  BY <1>2, <1>3 DEF Half, Done

-----------------------------------------------------------------------------
(* It holds at the start.                                                    *)
LEMMA AwakeFirst ==
  ASSUME HubAssumption, Init
  PROVE  AwakeInv
<1>1. \A h \in H : hub[h] = HubInit
  BY DEF Init
<1>2. DOMAIN HubInit = HubFields
  BY DEF HubInit, HubFields
<1> DEFINE r == HubInit
<1>3. /\ r.inq = << >> /\ r.air = << >> /\ r.buf = [v \in Vcs |-> << >>] /\ r.outq = << >> /\ r.trav = << >>
      /\ r.recv = << >> /\ r.swq = << >> /\ r.xbar = << >> /\ r.credits = << >> /\ r.active = FALSE
  BY DEF HubInit
<1> HIDE DEF r
<1>4. SendTypes(r)
  <2>1. [v \in Vcs |-> << >>] \in [Vcs -> Seq(FlitType)]
    OBVIOUS
  <2> QED
    BY <1>3, <2>1 DEF SendTypes
<1>5. Rests(r) /\ r.active \in BOOLEAN
  BY <1>3 DEF Rests, Nothing
<1>6. token_hold \in BOOLEAN /\ put \in [Packets -> Nat] /\ DOMAIN hub = H
  BY DEF Init
<1> QED
  BY <1>1, <1>2, <1>4, <1>5, <1>6 DEF AwakeInv, r

(* What a cycle leaves: each hub without the flit that left and without a       *)
(* credit.                                                                  *)
Leaves(x, r) ==
  /\ DOMAIN x = HubFields
  /\ x.xbar = IF r.xbar # << >> /\ ~r.xbar[1].new THEN Tail(r.xbar) ELSE r.xbar
  /\ x.credits = IF r.credits = << >> THEN r.credits ELSE Tail(r.credits)
  /\ \A f \in HubFields : f # "xbar" /\ f # "credits" => x[f] = r[f]
(* WriteOutputs does that to each hub and keeps what is held and promised.   *)
LEMMA WriteOutputsDoes ==
  ASSUME NEW s, Shaped(s)
  PROVE  LET c == WriteOutputs(s)
         IN  /\ c.hold = s.hold /\ c.ready = s.ready /\ c.token = Moved(token, s.hold)
             /\ DOMAIN c.hub = H /\ \A h \in H : Leaves(c.hub[h], s.hub[h])
             /\ \A h \in H : c.up[h] = IF s.hub[h].credits = << >> THEN up[h]
                                       ELSE ProcessCredit(up[h], s.hub[h].credits[1])
             /\ DOMAIN c.up = H
<1> DEFINE c == WriteOutputs(s)
           X(h) == IF s.hub[h].xbar # << >> /\ ~s.hub[h].xbar[1].new THEN Tail(s.hub[h].xbar) ELSE s.hub[h].xbar
           C(h) == IF s.hub[h].credits = << >> THEN s.hub[h].credits ELSE Tail(s.hub[h].credits)
           x(h) == [s.hub[h] EXCEPT !.xbar = X(h), !.credits = C(h)]
<1>1. c.hub = [h \in H |-> x(h)]
  BY DEF WriteOutputs, Arrives
<1>2. ASSUME NEW h \in H PROVE Leaves(x(h), s.hub[h])
  <2> DEFINE r == s.hub[h]
             a == X(h)
             b == C(h)
             y == [r EXCEPT !.xbar = a, !.credits = b]
  <2>1. x(h) = y
    OBVIOUS
  <2>2. a = IF r.xbar # << >> /\ ~r.xbar[1].new THEN Tail(r.xbar) ELSE r.xbar
    OBVIOUS
  <2>3. b = IF r.credits = << >> THEN r.credits ELSE Tail(r.credits)
    OBVIOUS
  <2>4. DOMAIN r = HubFields
    BY DEF Shaped
  <2> HIDE DEF r, a, b
  <2>5. /\ DOMAIN y = HubFields /\ y.xbar = a /\ y.credits = b
        /\ \A f \in HubFields : f # "xbar" /\ f # "credits" => y[f] = r[f]
    BY <2>4, Names
  <2> HIDE DEF y
  <2>6. Leaves(y, r)
    BY <2>2, <2>3, <2>5 DEF Leaves
  <2> QED
    BY <2>1, <2>6 DEF r
<1>3. DOMAIN c.hub = H /\ \A h \in H : Leaves(c.hub[h], s.hub[h])
  <2> HIDE DEF x
  <2> QED
    BY <1>1, <1>2
<1>4. c.hold = s.hold /\ c.ready = s.ready /\ c.token = Moved(token, s.hold)
  BY DEF WriteOutputs
<1>5. /\ DOMAIN c.up = H
      /\ \A h \in H : c.up[h] = IF s.hub[h].credits = << >> THEN up[h]
                                ELSE ProcessCredit(up[h], s.hub[h].credits[1])
  BY DEF WriteOutputs
<1> QED
  BY <1>3, <1>4, <1>5

(* A hub that has worked can rest.                                           *)
LEMMA WorkedRests ==
  ASSUME NEW x, NEW r, Leaves(x, r), SendTypes(r), Works(r)
  PROVE  SendTypes(x) /\ Rests(x) /\ x.active \in BOOLEAN
<1>1. /\ x.inq = r.inq /\ x.buf = r.buf /\ x.outq = r.outq /\ x.trav = r.trav /\ x.air = r.air
      /\ x.recv = r.recv /\ x.swq = r.swq /\ x.active = r.active
  BY Names DEF Leaves
<1>2. x.credits \in Seq(Vcs)
  <2>1. r.credits \in Seq(Vcs)
    BY DEF SendTypes
  <2>2. r.credits # << >> => Tail(r.credits) \in Seq(Vcs)
    BY <2>1, HeadTailProperties
  <2>3. x.credits = IF r.credits = << >> THEN r.credits ELSE Tail(r.credits)
    BY DEF Leaves
  <2> QED
    BY <2>1, <2>2, <2>3
<1>3. SendTypes(x)
  BY <1>1, <1>2 DEF SendTypes
<1>4. x.xbar = IF r.xbar # << >> /\ ~r.xbar[1].new THEN Tail(r.xbar) ELSE r.xbar
  BY DEF Leaves
<1>5. CASE Nothing(r) /\ r.active = FALSE
  <2>1. r.xbar = << >>
    BY <1>5 DEF Nothing
  <2>2. x.xbar = << >>
    BY <1>4, <2>1
  <2>3. Nothing(x)
    BY <1>1, <1>5, <2>2 DEF Nothing
  <2>4. x.active \in BOOLEAN
    <3>1. r.active \in BOOLEAN
      BY <1>5
    <3> QED
      BY <1>1, <3>1
  <2> QED
    BY <1>3, <2>2, <2>3, <2>4 DEF Rests
<1>6. CASE r.active = StaysActive(r) /\ r.xbar = << >>
  <2>1. x.xbar = << >>
    BY <1>4, <1>6
  <2>2. x.active \/ Nothing(x)
    BY <1>1, <1>6, <2>1 DEF StaysActive, Nothing
  <2>3. x.active \in BOOLEAN
    BY <1>1, <1>6 DEF StaysActive
  <2> QED
    BY <1>3, <2>1, <2>2, <2>3 DEF Rests
<1>7. ASSUME r.active = StaysActive(r), NEW f, NEW w, r.xbar = <<New(f, w)>>
      PROVE  Rests(x) /\ x.active \in BOOLEAN
  <2> DEFINE n == New(f, w)
  <2>1. n.new = TRUE
    BY DEF New
  <2> HIDE DEF n
  <2>2. r.xbar = <<n>>
    BY <1>7 DEF n
  <2>3. r.xbar[1].new /\ 1 \in DOMAIN r.xbar
    BY <2>1, <2>2
  <2>4. x.xbar = <<n>> /\ StaysActive(r)
    BY <1>4, <2>2, <2>3 DEF StaysActive
  <2> QED
    BY <1>1, <1>7, <2>4 DEF Rests, n
<1>8. ASSUME r.active = StaysActive(r), NEW f, NEW w, r.xbar = <<Old(f, w)>>
      PROVE  Rests(x) /\ x.active \in BOOLEAN
  <2> DEFINE o == Old(f, w)
  <2>1. o.new = FALSE
    BY DEF Old
  <2> HIDE DEF o
  <2>2. r.xbar = <<o>>
    BY <1>8 DEF o
  <2>3. x.xbar = << >>
    BY <1>4, <2>1, <2>2
  <2>4. \A k \in DOMAIN r.xbar : ~r.xbar[k].new
    BY <2>1, <2>2
  <2>5. x.active \/ Nothing(x)
    BY <1>1, <1>8, <2>3, <2>4 DEF StaysActive, Nothing
  <2>6. x.active \in BOOLEAN
    BY <1>1, <1>8 DEF StaysActive
  <2> QED
    BY <2>3, <2>5, <2>6 DEF Rests
<1>9. ASSUME r.active = StaysActive(r), NEW f, NEW w, NEW g, NEW u, r.xbar = <<Old(f, w), New(g, u)>>
      PROVE  Rests(x) /\ x.active \in BOOLEAN
  <2> DEFINE o == Old(f, w)
             n == New(g, u)
  <2>1. o.new = FALSE /\ n.new = TRUE
    BY DEF Old, New
  <2> HIDE DEF o, n
  <2>2. r.xbar = <<o, n>>
    BY <1>9 DEF o, n
  <2>3. x.xbar = <<n>>
    BY <1>4, <2>1, <2>2
  <2>4. 2 \in DOMAIN r.xbar /\ r.xbar[2].new
    BY <2>1, <2>2
  <2>5. StaysActive(r)
    BY <2>4 DEF StaysActive
  <2> QED
    BY <1>1, <1>9, <2>3, <2>5 DEF Rests, n
<1>10. Rests(x) /\ x.active \in BOOLEAN
  BY <1>5, <1>6, <1>7, <1>8, <1>9, <1>3 DEF Works, Rests
<1> QED
  BY <1>3, <1>10

-----------------------------------------------------------------------------
(* A cycle keeps it.                                                         *)
LEMMA CycleAwake ==
  ASSUME HubAssumption, AwakeInv, Cycle
  PROVE  AwakeInv'
<1>1. PICK w : \E c : /\ c = WriteOutputs(Evaluated(w)) /\ hub' = c.hub /\ token_hold' = c.hold
  BY DEF Cycle, Outcomes
<1> DEFINE s == Evaluated(w)
           c == WriteOutputs(s)
<1>2. hub' = c.hub /\ token_hold' = c.hold /\ put' = put
  BY <1>1 DEF Cycle
<1>3. Done(s)
  BY EvaluatedDoes
<1> HIDE DEF s
<1>4. c.hold = s.hold /\ DOMAIN c.hub = H /\ \A h \in H : Leaves(c.hub[h], s.hub[h])
  BY <1>3, WriteOutputsDoes DEF Done
<1> HIDE DEF c
<1>5. ASSUME NEW h \in H
      PROVE  DOMAIN hub'[h] = HubFields /\ SendTypes(hub'[h]) /\ hub'[h].active \in BOOLEAN /\ Rests(hub'[h])
  <2> DEFINE x == c.hub[h]
             r == s.hub[h]
  <2>1. Leaves(x, r) /\ SendTypes(r) /\ Works(r)
    BY <1>3, <1>4 DEF Done
  <2>2. hub'[h] = x
    BY <1>2
  <2> HIDE DEF x, r
  <2>3. SendTypes(x) /\ Rests(x) /\ x.active \in BOOLEAN
    BY <2>1, WorkedRests
  <2>4. DOMAIN x = HubFields
    BY <2>1 DEF Leaves
  <2> QED
    BY <2>2, <2>3, <2>4
<1>6. token_hold' \in BOOLEAN /\ put' \in [Packets -> Nat] /\ DOMAIN hub' = H
  BY <1>2, <1>3, <1>4 DEF AwakeInv, Done
<1> QED
  BY <1>5, <1>6 DEF AwakeInv

(* A flit that comes from the router is no work yet.                         *)
LEMMA SendAwake ==
  ASSUME AwakeInv, NEW h \in H, NEW v \in Vcs, NEW p \in Packets, Send(h, v, p)
  PROVE  AwakeInv'
<1> DEFINE r == hub[h]
           i == <<[f |-> <<p, put[p] + 1>>, v |-> v]>>
           x == [r EXCEPT !.inq = i]
<1>1. /\ hub' = [hub EXCEPT ![h].inq = i] /\ token_hold' = token_hold
      /\ put' = [put EXCEPT ![p] = put[p] + 1]
  BY DEF Send
<1>2. token_hold' \in BOOLEAN /\ put' \in [Packets -> Nat] /\ DOMAIN hub' = H
  BY <1>1 DEF AwakeInv
<1>3. \E f \in FlitType, u \in Vcs : i = <<[f |-> f, v |-> u]>>
  <2>1. <<p, put[p] + 1>> \in FlitType
    BY DEF FlitType, AwakeInv
  <2> QED
    BY <2>1
<1> HIDE DEF i
<1>4. hub'[h] = x /\ \A k \in H : k # h => hub'[k] = hub[k]
  BY <1>1 DEF AwakeInv
<1>5. DOMAIN r = HubFields /\ SendTypes(r) /\ r.active \in BOOLEAN /\ Rests(r)
  BY DEF AwakeInv
<1> HIDE DEF r
<1>6. DOMAIN x = HubFields /\ x.inq = i /\ \A f \in HubFields : f # "inq" => x[f] = r[f]
  BY <1>5, Names
<1> HIDE DEF x
<1>7. /\ x.buf = r.buf /\ x.outq = r.outq /\ x.trav = r.trav /\ x.air = r.air /\ x.credits = r.credits
      /\ x.recv = r.recv /\ x.swq = r.swq /\ x.active = r.active /\ x.xbar = r.xbar
  BY <1>6, Names
<1>8. SendTypes(x) /\ Rests(x) /\ x.active \in BOOLEAN
  BY <1>3, <1>5, <1>6, <1>7 DEF SendTypes, Rests, Nothing
<1>9. \A k \in H : /\ DOMAIN hub'[k] = HubFields /\ SendTypes(hub'[k])
                   /\ hub'[k].active \in BOOLEAN /\ Rests(hub'[k])
  <2>1. \A k \in H : /\ DOMAIN hub[k] = HubFields /\ SendTypes(hub[k])
                     /\ hub[k].active \in BOOLEAN /\ Rests(hub[k])
    BY DEF AwakeInv
  <2> QED
    BY <1>4, <1>6, <1>8, <2>1
<1> QED
  BY <1>2, <1>9 DEF AwakeInv

(* A credit from the router behind wakes the hub.                            *)
LEMMA DrainAwake ==
  ASSUME AwakeInv, NEW h \in H, NEW w \in Vcs, Drain(h, w)
  PROVE  AwakeInv'
<1> DEFINE r == hub[h]
           n == ProcessCredit(r.next, w)
           x == [r EXCEPT !.next = n, !.active = TRUE]
<1>1. hub' = [hub EXCEPT ![h] = x] /\ token_hold' = token_hold /\ put' = put
  BY DEF Drain, ReceiveCredit
<1>2. token_hold' \in BOOLEAN /\ put' \in [Packets -> Nat] /\ DOMAIN hub' = H
  BY <1>1 DEF AwakeInv
<1>3. DOMAIN r = HubFields /\ SendTypes(r) /\ Rests(r)
  BY DEF AwakeInv
<1> HIDE DEF r, n
<1>4. /\ DOMAIN x = HubFields /\ x.active = TRUE
      /\ \A f \in HubFields : f # "next" /\ f # "active" => x[f] = r[f]
  BY <1>3, Names
<1> HIDE DEF x
<1>5. hub'[h] = x /\ \A k \in H : k # h => hub'[k] = hub[k]
  BY <1>1 DEF AwakeInv
<1>6. /\ x.buf = r.buf /\ x.outq = r.outq /\ x.trav = r.trav /\ x.air = r.air /\ x.credits = r.credits
      /\ x.inq = r.inq /\ x.xbar = r.xbar
  BY <1>4, Names
<1>7. SendTypes(x) /\ Rests(x) /\ x.active \in BOOLEAN
  BY <1>3, <1>4, <1>6 DEF SendTypes, Rests
<1>8. \A k \in H : /\ DOMAIN hub'[k] = HubFields /\ SendTypes(hub'[k])
                   /\ hub'[k].active \in BOOLEAN /\ Rests(hub'[k])
  <2>1. \A k \in H : /\ DOMAIN hub[k] = HubFields /\ SendTypes(hub[k])
                     /\ hub[k].active \in BOOLEAN /\ Rests(hub[k])
    BY DEF AwakeInv
  <2> QED
    BY <1>4, <1>5, <1>7, <2>1
<1> QED
  BY <1>2, <1>8 DEF AwakeInv

(* A hub is out of the cycle only with nothing queued and nothing in its        *)
(* crossbar, whatever comes from the routers and from the other hubs: hub.cpp   *)
(* recomputes _active after each Evaluate and looks at it before the next.      *)
THEOREM NeverAsleepStays == Spec => []NeverAsleep
<1>1. HubAssumption
  BY HubAssumption
<1>2. Init => AwakeInv
  BY <1>1, AwakeFirst
<1>3. AwakeInv /\ [Next]_vars => AwakeInv'
  <2>1. SUFFICES ASSUME AwakeInv, [Next]_vars PROVE AwakeInv'
    OBVIOUS
  <2>2. CASE Cycle
    BY <1>1, <2>1, <2>2, CycleAwake
  <2>3. ASSUME NEW h \in H, NEW v \in Vcs, NEW p \in Packets, Send(h, v, p) PROVE AwakeInv'
    BY <2>1, <2>3, SendAwake
  <2>4. ASSUME NEW h \in H, NEW w \in Vcs, Drain(h, w) PROVE AwakeInv'
    BY <2>1, <2>4, DrainAwake
  <2>5. CASE UNCHANGED vars
    BY <2>1, <2>5 DEF AwakeInv, vars
  <2> QED
    BY <2>1, <2>2, <2>3, <2>4, <2>5 DEF Next
<1>4. AwakeInv => NeverAsleep
  BY DEF AwakeInv, Rests, Nothing, NeverAsleep
<1> QED
  BY <1>2, <1>3, <1>4, PTL DEF Spec

-----------------------------------------------------------------------------
(* The first n flits of packet p.                                            *)
Flits(p, n) == [k \in 1 .. n |-> <<p, k>>]
Entire(p)   == Flits(p, Size[p])

(* They are a sequence, and tell p and n.                                    *)
LEMMA FlitsAre ==
  ASSUME NEW p \in Packets, NEW n \in Nat
  PROVE  /\ Flits(p, n) \in Seq(FlitType) /\ Len(Flits(p, n)) = n /\ DOMAIN Flits(p, n) = 1 .. n
         /\ \A k \in 1 .. n : Flits(p, n)[k] = <<p, k>>
         /\ Flits(p, n) = << >> <=> n = 0
<1>1. \A k \in 1 .. n : <<p, k>> \in FlitType
  BY DEF FlitType
<1>2. Flits(p, n) \in Seq(FlitType) /\ Len(Flits(p, n)) = n /\ DOMAIN Flits(p, n) = 1 .. n
  BY <1>1 DEF Flits
<1>3. \A k \in 1 .. n : Flits(p, n)[k] = <<p, k>>
  BY DEF Flits
<1>4. Flits(p, n) = << >> <=> n = 0
  BY <1>2, EmptySeq
<1> QED
  BY <1>2, <1>3, <1>4

(* p and n are told by them.                                                 *)
LEMMA FlitsTell ==
  ASSUME NEW p \in Packets, NEW n \in Nat \ {0}, NEW q \in Packets, NEW m \in Nat, Flits(p, n) = Flits(q, m)
  PROVE  p = q /\ n = m
<1>1. Len(Flits(p, n)) = n /\ Len(Flits(q, m)) = m
  BY FlitsAre
<1>2. n = m /\ 1 \in 1 .. n
  BY <1>1
<1>3. Flits(p, n)[1] = <<p, 1>> /\ Flits(q, m)[1] = <<q, 1>>
  BY <1>2, FlitsAre
<1> QED
  BY <1>2, <1>3

(* One more.                                                                 *)
LEMMA FlitsGrow ==
  ASSUME NEW p \in Packets, NEW n \in Nat \ {0}
  PROVE  Append(Flits(p, n - 1), <<p, n>>) = Flits(p, n)
<1> DEFINE s == Append(Flits(p, n - 1), <<p, n>>)
           t == Flits(p, n)
<1>1. /\ Flits(p, n - 1) \in Seq(FlitType) /\ Len(Flits(p, n - 1)) = n - 1
      /\ \A k \in 1 .. n - 1 : Flits(p, n - 1)[k] = <<p, k>>
  <2>1. n - 1 \in Nat
    OBVIOUS
  <2> QED
    BY <2>1, FlitsAre
<1>2. t \in Seq(FlitType) /\ Len(t) = n /\ \A k \in 1 .. n : t[k] = <<p, k>>
  BY FlitsAre
<1>3. <<p, n>> \in FlitType
  BY DEF FlitType
<1>4. s \in Seq(FlitType) /\ Len(s) = n /\ \A k \in 1 .. n : s[k] = <<p, k>>
  <2> DEFINE x == Flits(p, n - 1)
             f == <<p, n>>
  <2>1. x \in Seq(FlitType) /\ Len(x) = n - 1 /\ \A k \in 1 .. n - 1 : x[k] = <<p, k>>
    BY <1>1
  <2>2. f \in FlitType
    BY <1>3
  <2> HIDE DEF x, f
  <2>3. Append(x, f) \in Seq(FlitType) /\ Len(Append(x, f)) = n
    BY <2>1, <2>2
  <2>4. \A k \in 1 .. n : Append(x, f)[k] = IF k = n THEN f ELSE x[k]
    BY <2>1, <2>2
  <2>5. \A k \in 1 .. n : Append(x, f)[k] = <<p, k>>
    <3>1. ASSUME NEW k \in 1 .. n PROVE Append(x, f)[k] = <<p, k>>
      <4>1. CASE k = n
        BY <2>4, <4>1 DEF f
      <4>2. CASE k # n
        BY <2>1, <2>4, <4>2
      <4> QED
        BY <4>1, <4>2
    <3> QED
      BY <3>1
  <2> QED
    BY <2>3, <2>5 DEF x, f
<1> HIDE DEF s, t
<1>5. s = t
  BY <1>2, <1>4, SeqEqual
<1> QED
  BY <1>5 DEF s, t

-----------------------------------------------------------------------------
(* A flit from the router is on its way on VC v.                             *)
Coming(r, v) == r.inq # << >> /\ r.inq[1].v = v

(* The flits on VC v of a hub are the first n of p.                           *)
Carries(r, v, p, n) ==
  \/ ~Coming(r, v) /\ r.buf[v] = Flits(p, n)
  \/ r.inq = <<[f |-> <<p, n>>, v |-> v]>> /\ r.buf[v] = Flits(p, n - 1)
Vacant(r, v) == ~Coming(r, v) /\ r.buf[v] = << >>

(* A VC carries the part of a packet that was sent, all of one, or nothing; it  *)
(* is in use until its credits are back.                                    *)
Lane(r, b, u, sent, h, v) ==
  /\ \A p \in u[v] :
       /\ u[v] = {p} /\ From[p] = h /\ b.in_use[v] /\ ~b.tail_sent[v]
       /\ sent[p] \in 1 .. Size[p] - 1 /\ Carries(r, v, p, sent[p])
       /\ \A w \in Vcs \ {v} : p \notin u[w]
  /\ u[v] = {} => \/ Vacant(r, v)
                  \/ b.in_use[v] /\ b.tail_sent[v] /\ \E p \in Packets : Carries(r, v, p, Size[p])
  /\ ~b.in_use[v] => b.vc_occupancy[v] = 0 /\ u[v] = {}

(* What a VC holds and what its credits say.                                 *)
Counted(r, b, v) == b.vc_occupancy[v] = Len(r.buf[v]) + One(Coming(r, v)) + Count(r.credits, v)

(* Packets ready to go are whole, each on a VC of its own.                    *)
Ready(r) ==
  /\ \A k \in DOMAIN r.outq : r.buf[r.outq[k][2]] = Entire(r.outq[k][1])
  /\ \A k, l \in DOMAIN r.outq : r.outq[k][2] = r.outq[l][2] => k = l

Orderly(r, b, u, sent, h) ==
  /\ \A v \in Vcs : Lane(r, b, u, sent, h, v) /\ Counted(r, b, v)
  /\ Ready(r)

(* Only these fields matter.                                                 *)
LEMMA OrderlySame ==
  ASSUME NEW r, NEW q, NEW b, NEW u, NEW sent, NEW h, Orderly(r, b, u, sent, h),
         q.inq = r.inq, q.buf = r.buf, q.outq = r.outq, q.credits = r.credits
  PROVE  Orderly(q, b, u, sent, h)
<1>1. \A v \in Vcs : Coming(q, v) = Coming(r, v) /\ Vacant(q, v) = Vacant(r, v)
  BY DEF Coming, Vacant
<1>2. \A v, p, n : Carries(q, v, p, n) = Carries(r, v, p, n)
  BY DEF Carries, Coming
<1>3. \A v \in Vcs : Counted(q, b, v)
  BY <1>1 DEF Counted, Orderly
<1>4. \A v \in Vcs : Lane(q, b, u, sent, h, v)
  BY <1>1, <1>2 DEF Lane, Orderly
<1>5. Ready(q)
  BY DEF Ready, Orderly
<1> QED
  BY <1>3, <1>4, <1>5 DEF Orderly

(* A VC on which a flit comes carries it as the next of its packet, the last    *)
(* one if it is a tail, and is not of a packet that is ready.                *)
IsNext(r, b, u, sent, f, v) ==
  /\ f[1] \in Packets /\ f[2] \in 1 .. Size[f[1]] /\ f = <<f[1], f[2]>>
  /\ r.buf[v] = Flits(f[1], f[2] - 1)
  /\ \A k \in DOMAIN r.outq : r.outq[k][2] # v
  /\ \A p \in u[v] : p = f[1] /\ sent[p] = f[2]
  /\ u[v] = {} => f[2] = Size[f[1]] /\ b.in_use[v] /\ b.tail_sent[v]

(* So it is.                                                                 *)
LEMMA Comes ==
  ASSUME HubAssumption, NEW r, NEW b, NEW u \in [Vcs -> SUBSET Packets], NEW sent, NEW h, SendTypes(r),
         Orderly(r, b, u, sent, h), NEW f \in FlitType, NEW v \in Vcs, r.inq = <<[f |-> f, v |-> v]>>
  PROVE  IsNext(r, b, u, sent, f, v)
<1>1. r.inq # << >> /\ r.inq[1].v = v /\ r.inq[1].f = f /\ Coming(r, v)
  BY DEF Coming
<1>2. Lane(r, b, u, sent, h, v) /\ Ready(r)
  BY DEF Orderly
<1>3. f[1] \in Packets /\ f[2] \in Nat \ {0} /\ f = <<f[1], f[2]>>
  BY DEF FlitType
<1>4. \A p \in Packets, n \in Nat : Carries(r, v, p, n) => p = f[1] /\ n = f[2] /\ r.buf[v] = Flits(f[1], f[2] - 1)
  <2>1. ASSUME NEW p \in Packets, NEW n \in Nat, Carries(r, v, p, n)
        PROVE  p = f[1] /\ n = f[2] /\ r.buf[v] = Flits(f[1], f[2] - 1)
    <3>1. r.inq = <<[f |-> <<p, n>>, v |-> v]>> /\ r.buf[v] = Flits(p, n - 1)
      BY <1>1, <2>1 DEF Carries
    <3>2. f = <<p, n>>
      <4>1. r.inq[1].f = <<p, n>>
        BY <3>1
      <4> QED
        BY <1>1, <4>1
    <3> QED
      BY <3>1, <3>2
  <2> QED
    BY <2>1
<1>5. \A p \in Packets : Size[p] \in Nat \ {0}
  BY DEF HubAssumption
<1>6. ASSUME NEW p \in u[v]
      PROVE  /\ p = f[1] /\ sent[p] = f[2] /\ f[2] \in 1 .. Size[f[1]] /\ r.buf[v] = Flits(f[1], f[2] - 1)
             /\ u[v] # {}
  <2>1. p \in Packets /\ sent[p] \in 1 .. Size[p] - 1 /\ Carries(r, v, p, sent[p])
    BY <1>2 DEF Lane
  <2>2. sent[p] \in Nat /\ sent[p] \in 1 .. Size[p]
    BY <1>5, <2>1
  <2> QED
    BY <1>4, <2>1, <2>2
<1>7. ASSUME u[v] = {}
      PROVE  /\ f[2] = Size[f[1]] /\ r.buf[v] = Flits(f[1], f[2] - 1)
             /\ b.in_use[v] /\ b.tail_sent[v]
  <2>1. ~Vacant(r, v)
    BY <1>1 DEF Vacant
  <2>2. PICK p \in Packets : Carries(r, v, p, Size[p]) /\ b.in_use[v] /\ b.tail_sent[v]
    BY <1>2, <1>7, <2>1 DEF Lane
  <2> QED
    BY <1>4, <1>5, <2>2
<1>8. f[2] \in 1 .. Size[f[1]] /\ r.buf[v] = Flits(f[1], f[2] - 1)
  <2>1. CASE u[v] = {}
    BY <1>3, <1>5, <1>7, <2>1
  <2>2. CASE u[v] # {}
    BY <1>6, <2>2
  <2> QED
    BY <2>1, <2>2
<1>9. ASSUME NEW k \in DOMAIN r.outq, r.outq[k][2] = v PROVE FALSE
  <2> DEFINE q == r.outq[k][1]
  <2>1. r.outq \in Seq(Packets \X Vcs)
    BY DEF SendTypes
  <2>2. q \in Packets
    BY <2>1
  <2>3. Flits(q, Size[q]) = Flits(f[1], f[2] - 1)
    BY <1>2, <1>8, <1>9 DEF Ready, Entire
  <2> HIDE DEF q
  <2>4. f[2] - 1 \in Nat
    BY <1>3
  <2>5. q = f[1] /\ Size[q] = f[2] - 1
    BY <1>3, <1>5, <2>2, <2>3, <2>4, FlitsTell
  <2>6. Size[q] \in Nat /\ f[2] \in Nat /\ f[2] <= Size[q]
    BY <1>3, <1>5, <1>8, <2>2, <2>5
  <2> QED
    BY <2>5, <2>6
<1> QED
  BY <1>3, <1>6, <1>7, <1>8, <1>9 DEF IsNext

(* The flit goes to its VC.                                                  *)
LEMMA QueuedOrderly ==
  ASSUME HubAssumption, NEW r, NEW q, NEW b, NEW u \in [Vcs -> SUBSET Packets], NEW sent, NEW h,
         SendTypes(r), Orderly(r, b, u, sent, h), Queued(r, q), q.credits = r.credits
  PROVE  /\ Orderly(q, b, u, sent, h)
         /\ r.outq # << >> => q.outq # << >> /\ q.outq[1] = r.outq[1]
<1>1. CASE r.inq = << >>
  <2>1. q.inq = r.inq /\ q.buf = r.buf /\ q.outq = r.outq
    BY <1>1 DEF Queued
  <2> QED
    BY <2>1, OrderlySame
<1>2. ASSUME NEW f \in FlitType, NEW v \in Vcs, r.inq = <<[f |-> f, v |-> v]>>
      PROVE  /\ Orderly(q, b, u, sent, h)
             /\ r.outq # << >> => q.outq # << >> /\ q.outq[1] = r.outq[1]
  <2> DEFINE p == f[1]
             n == f[2]
  <2>1. r.inq # << >> /\ r.inq[1].v = v /\ r.inq[1].f = f
    BY <1>2
  <2>2. /\ q.inq = << >> /\ q.buf = [r.buf EXCEPT ![v] = Append(r.buf[v], f)]
        /\ q.outq = IF IsTail(f) THEN Append(r.outq, <<p, v>>) ELSE r.outq
    BY <2>1 DEF Queued
  <2>3. /\ p \in Packets /\ n \in 1 .. Size[p] /\ f = <<p, n>> /\ r.buf[v] = Flits(p, n - 1)
        /\ \A k \in DOMAIN r.outq : r.outq[k][2] # v
        /\ \A o \in u[v] : o = p /\ sent[o] = n
        /\ u[v] = {} => n = Size[p] /\ b.in_use[v] /\ b.tail_sent[v]
    <3>1. IsNext(r, b, u, sent, f, v)
      BY <1>2, Comes
    <3> QED
      BY <3>1 DEF IsNext
  <2>4. Size[p] \in Nat \ {0} /\ n \in Nat \ {0} /\ n - 1 \in Nat
    <3>1. p \in Packets /\ n \in 1 .. Size[p]
      BY <2>3
    <3> HIDE DEF p, n
    <3>2. Size[p] \in Nat \ {0}
      BY <3>1 DEF HubAssumption
    <3> QED
      BY <3>1, <3>2
  <2> DEFINE tail == IsTail(f)
  <2>5. tail <=> n = Size[p]
    BY DEF IsTail
  <2> HIDE DEF p, n, tail
  <2>6. r.buf \in [Vcs -> Seq(FlitType)] /\ r.outq \in Seq(Packets \X Vcs) /\ r.credits \in Seq(Vcs)
    BY DEF SendTypes
  <2>7. q.buf[v] = Flits(p, n) /\ \A w \in Vcs : w # v => q.buf[w] = r.buf[w]
    <3>1. Append(Flits(p, n - 1), <<p, n>>) = Flits(p, n)
      BY <2>3, <2>4, FlitsGrow
    <3>2. Append(r.buf[v], f) = Flits(p, n)
      BY <2>3, <3>1
    <3> QED
      BY <2>2, <2>6, <3>2
  <2>8. \A w \in Vcs : ~Coming(q, w) /\ (w # v => ~Coming(r, w)) /\ Coming(r, v)
    BY <2>1, <2>2 DEF Coming
  <2>9. ASSUME NEW w \in Vcs PROVE Lane(q, b, u, sent, h, w)
    <3>1. Lane(r, b, u, sent, h, w)
      BY DEF Orderly
    <3>2. CASE w # v
      <4>1. Vacant(q, w) = Vacant(r, w)
        BY <2>7, <2>8, <3>2 DEF Vacant
      <4>2. \A o, m : Carries(r, w, o, m) => Carries(q, w, o, m)
        <5>1. \A o, m : r.inq = <<[f |-> <<o, m>>, v |-> w]>> => r.inq[1].v = w
          OBVIOUS
        <5> QED
          BY <2>1, <2>7, <2>8, <3>2, <5>1 DEF Carries
      <4> QED
        BY <3>1, <4>1, <4>2 DEF Lane
    <3>3. CASE w = v
      <4>1. Carries(q, v, p, n)
        BY <2>7, <2>8 DEF Carries
      <4>2. \A o \in u[v] : Carries(q, v, o, sent[o])
        BY <2>3, <4>1
      <4>3. u[v] = {} => b.in_use[v] /\ b.tail_sent[v] /\ \E o \in Packets : Carries(q, v, o, Size[o])
        BY <2>3, <4>1
      <4> QED
        BY <3>1, <3>3, <4>2, <4>3 DEF Lane
    <3> QED
      BY <3>2, <3>3
  <2>10. ASSUME NEW w \in Vcs PROVE Counted(q, b, w)
    <3>1. Counted(r, b, w)
      BY DEF Orderly
    <3>2. CASE w # v
      BY <2>7, <2>8, <3>1, <3>2 DEF Counted, One
    <3>3. CASE w = v
      <4>1. Len(q.buf[v]) = n /\ Len(r.buf[v]) = n - 1
        BY <2>3, <2>4, <2>7, FlitsAre
      <4>2. One(Coming(r, v)) = 1 /\ One(Coming(q, v)) = 0
        BY <2>8 DEF One
      <4>3. Count(r.credits, v) \in Nat
        BY <2>6, CountType
      <4>4. Len(q.buf[v]) + One(Coming(q, v)) + Count(q.credits, v) = Len(r.buf[v]) + One(Coming(r, v)) + Count(r.credits, v)
        BY <2>4, <4>1, <4>2, <4>3
      <4> QED
        BY <3>1, <3>3, <4>4 DEF Counted
    <3> QED
      BY <3>2, <3>3
  <2>11. \A k \in DOMAIN r.outq : /\ q.buf[r.outq[k][2]] = Entire(r.outq[k][1])
                                  /\ r.outq[k][2] # v
                                  /\ \A l \in DOMAIN r.outq : r.outq[k][2] = r.outq[l][2] => k = l
    <3>1. \A k \in DOMAIN r.outq : r.outq[k] \in Packets \X Vcs
      BY <2>6
    <3>2. Ready(r)
      BY DEF Orderly
    <3>3. \A k \in DOMAIN r.outq : r.buf[r.outq[k][2]] = Entire(r.outq[k][1])
      BY <3>2 DEF Ready
    <3>4. \A k, l \in DOMAIN r.outq : r.outq[k][2] = r.outq[l][2] => k = l
      BY <3>2 DEF Ready
    <3>5. \A k \in DOMAIN r.outq : r.outq[k][2] # v /\ r.outq[k][2] \in Vcs
      BY <2>3, <3>1
    <3> QED
      BY <2>7, <3>3, <3>4, <3>5
  <2>12. /\ Ready(q)
         /\ r.outq # << >> => q.outq # << >> /\ q.outq[1] = r.outq[1]
    <3>1. CASE ~tail
      <4>1. q.outq = r.outq
        BY <2>2, <3>1 DEF tail
      <4> QED
        BY <2>11, <4>1 DEF Ready
    <3>2. CASE tail
      <4> DEFINE o == r.outq
                 e == <<p, v>>
                 z == Append(o, e)
                 m == Len(o)
      <4>1. q.outq = z
        BY <2>2, <3>2 DEF tail, p
      <4>2. o \in Seq(Packets \X Vcs) /\ e \in Packets \X Vcs
        BY <2>3, <2>6
      <4>3. e[1] = p /\ e[2] = v /\ q.buf[v] = Entire(p)
        BY <2>5, <2>7, <3>2 DEF Entire
      <4> HIDE DEF o, e
      <4>4. /\ m \in Nat /\ DOMAIN o = 1 .. m /\ DOMAIN z = 1 .. m + 1 /\ z[m + 1] = e
            /\ \A k \in 1 .. m : z[k] = o[k]
        BY <4>2
      <4> HIDE DEF z, m
      <4>5. \A k \in 1 .. m : /\ q.buf[z[k][2]] = Entire(z[k][1]) /\ z[k][2] # v
                              /\ \A l \in 1 .. m : z[k][2] = z[l][2] => k = l
        <5> SUFFICES ASSUME NEW k \in 1 .. m
                     PROVE  /\ q.buf[z[k][2]] = Entire(z[k][1]) /\ z[k][2] # v
                            /\ \A l \in 1 .. m : z[k][2] = z[l][2] => k = l
          OBVIOUS
        <5>1. /\ q.buf[o[k][2]] = Entire(o[k][1]) /\ o[k][2] # v
              /\ \A l \in DOMAIN o : o[k][2] = o[l][2] => k = l
          BY <2>11, <4>4 DEF o
        <5> QED
          BY <4>4, <5>1
      <4>6. q.buf[z[m + 1][2]] = Entire(z[m + 1][1]) /\ z[m + 1][2] = v
        BY <4>3, <4>4
      <4>7. \A k \in 1 .. m + 1 : k \in 1 .. m \/ k = m + 1
        BY <4>4
      <4>8. \A k \in 1 .. m + 1 : q.buf[z[k][2]] = Entire(z[k][1])
        BY <4>5, <4>6, <4>7
      <4>9. \A k, l \in 1 .. m + 1 : z[k][2] = z[l][2] => k = l
        BY <4>5, <4>6, <4>7
      <4>10. Ready(q)
        BY <4>1, <4>4, <4>8, <4>9 DEF Ready
      <4>11. ASSUME r.outq # << >> PROVE q.outq # << >> /\ q.outq[1] = r.outq[1]
        <5>1. m # 0 /\ 1 \in 1 .. m
          BY <4>2, <4>4, <4>11, EmptySeq DEF o, m
        <5>2. z # << >>
          BY <4>4, <5>1
        <5> QED
          BY <4>1, <4>4, <5>1, <5>2 DEF o
      <4> QED
        BY <4>10, <4>11
    <3> QED
      BY <3>1, <3>2
  <2> QED
    BY <2>9, <2>10, <2>12 DEF Orderly
<1> QED
  BY <1>1, <1>2 DEF SendTypes

(* Sequences that differ in the first at most have the same rest.               *)
LEMMA SameTail ==
  ASSUME NEW S, NEW a \in Seq(S), NEW b \in Seq(S), a # << >>, b # << >>, Len(a) = Len(b),
         \A k \in 1 .. Len(a) : k # 1 => a[k] = b[k]
  PROVE  Tail(a) = Tail(b)
<1> DEFINE x == Tail(a)
           y == Tail(b)
<1>1. /\ x \in Seq(S) /\ Len(x) = Len(a) - 1 /\ \A k \in 1 .. Len(x) : x[k] = a[k + 1]
      /\ y \in Seq(S) /\ Len(y) = Len(b) - 1 /\ \A k \in 1 .. Len(y) : y[k] = b[k + 1]
  BY HeadTailProperties
<1> HIDE DEF x, y
<1>2. Len(x) = Len(y)
  BY <1>1
<1>3. ASSUME NEW k \in 1 .. Len(x) PROVE x[k] = y[k]
  <2>1. k + 1 \in 1 .. Len(a) /\ k + 1 # 1 /\ k \in 1 .. Len(y)
    BY <1>1, <1>2
  <2> QED
    BY <1>1, <2>1
<1>4. x = y
  BY <1>1, <1>2, <1>3, SeqEqual
<1> QED
  BY <1>4 DEF x, y

(* The entry of a packet is the first when it leaves, so that the others stay    *)
(* as they are.                                                            *)
OwnTurn(r, p, v) == Popped(r.outq, <<p, v>>) = Tail(r.outq)

(* Of the packets that are ready only the one that leaves is on its VC, so that  *)
(* the others keep theirs.                                                  *)
LEMMA ReadyPops ==
  ASSUME NEW r, Ready(r), r.outq \in Seq(Packets \X Vcs), r.outq # << >>, NEW p \in Packets, NEW v, r.outq[1][2] = v
  PROVE  OwnTurn(r, p, v)
<1> DEFINE q == r.outq
           e == <<p, v>>
           o == Overwritten(q, e)
           n == Len(q)
<1>1. n \in Nat \ {0} /\ DOMAIN q = 1 .. n
  OBVIOUS
<1>2. \A k \in 1 .. n : k # 1 => q[k] # e
  <2>1. \A k, l \in 1 .. n : q[k][2] = q[l][2] => k = l
    BY <1>1 DEF Ready
  <2>2. e[2] = v
    OBVIOUS
  <2> HIDE DEF q, e, n
  <2> QED
    BY <1>1, <2>1, <2>2 DEF q
<1>3. o = [k \in 1 .. n |-> IF q[k] = e THEN <<e[1], 0>> ELSE q[k]]
  BY <1>1 DEF Overwritten
<1> HIDE DEF q, e, o
<1>4. DOMAIN o = 1 .. n /\ \A k \in 1 .. n : k # 1 => o[k] = q[k]
  BY <1>2, <1>3
<1>5. Len(o) = n
  BY <1>1, <1>3
<1> HIDE DEF n
<1>6. o \in Seq(Packets \X Vcs)
  <2>1. e[1] \in Packets /\ q \in Seq(Packets \X Vcs)
    BY DEF e, q
  <2> QED
    BY <2>1, OverwrittenTypes DEF o
<1>7. q \in Seq(Packets \X Vcs) /\ q # << >> /\ Len(q) = n
  BY DEF q, n
<1>8. o # << >>
  BY <1>1, <1>5, <1>6
<1>9. \A k \in 1 .. Len(o) : k # 1 => o[k] = q[k]
  BY <1>4, <1>5
<1>10. Tail(o) = Tail(q)
  BY <1>5, <1>6, <1>7, <1>8, <1>9, SameTail
<1> QED
  BY <1>10 DEF OwnTurn, Popped, q, e, o

-----------------------------------------------------------------------------
(* A whole packet leaves: its flits are in the air, each gave a credit, and the *)
(* turn is over.                                                            *)
Gone(s, t, h, v, p) ==
  LET r == s.hub[h]
      x == t.hub[h]
  IN  /\ Within(s, t, h, SaidFields) /\ t.hold = FALSE
      /\ x.air = Entire(p) /\ x.outq = Tail(r.outq) /\ x.credits \in Seq(Vcs)
      /\ \A w \in Vcs : Count(x.credits, w) = Count(r.credits, w) + (IF w = v THEN Size[p] ELSE 0)

(* So it does.                                                               *)
LEMMA SaidEntire ==
  ASSUME HubAssumption, NEW s, Shaped(s), NEW h \in H, NEW v \in Vcs, NEW p \in Packets,
         s.hub[h].air = << >>, OwnTurn(s.hub[h], p, v), s.hub[h].credits \in Seq(Vcs)
  PROVE  Gone(s, SaidAll(s, h, v, Entire(p)), h, v, p)
<1> DEFINE n == Size[p]
           q == Entire(p)
           r == s.hub[h]
           Added(k, w) == IF w = v THEN k ELSE 0
           P(t, k) == /\ Within(s, t, h, SaidFields)
                      /\ t.hub[h].air = Flits(p, k) /\ t.hub[h].credits \in Seq(Vcs)
                      /\ \A w \in Vcs : Count(t.hub[h].credits, w) = Count(r.credits, w) + Added(k, w)
                      /\ k < n => t.hold = s.hold /\ t.hub[h].outq = r.outq
                      /\ k = n => t.hold = FALSE /\ t.hub[h].outq = Tail(r.outq)
<1>1. n \in Nat \ {0}
  BY DEF HubAssumption
<1>2. DOMAIN q = 1 .. n /\ \A k \in 1 .. n : q[k] = <<p, k>>
  BY <1>1, FlitsAre DEF Entire
<1> HIDE DEF q
<1>3. PICK g : Chain(g, s, h, v, q, n) /\ SaidAll(s, h, v, q) = g[n]
  <2>1. n \in Nat /\ DOMAIN q = 1 .. n
    BY <1>1, <1>2
  <2> HIDE DEF n
  <2> QED
    BY <2>1, SaidChain
<1>4. \A w : Count(r.credits, w) \in Nat
  BY CountType
<1> DEFINE S == {k \in 0 .. n : P(g[k], k)}
<1>5. 0 \in S
  <2>1. g[0] = s /\ Within(s, s, h, SaidFields)
    BY <1>3, WithinNone DEF Chain
  <2>2. Flits(p, 0) = << >>
    BY FlitsAre
  <2>3. \A w : Added(0, w) = 0
    OBVIOUS
  <2> HIDE DEF Added
  <2>4. P(s, 0)
    BY <1>1, <1>4, <2>1, <2>2, <2>3
  <2> QED
    BY <1>1, <2>1, <2>4
<1>6. ASSUME NEW k \in 1 .. n, k - 1 \in S PROVE k \in S
  <2> DEFINE t == g[k - 1]
             f == <<p, k>>
             x == Say(t, h, v, f)
             m == k - 1
  <2>1. g[k] = x
    BY <1>2, <1>3 DEF Chain
  <2>2. P(t, m) /\ Shaped(t) /\ m \in Nat /\ m < n /\ k \in Nat \ {0} /\ k = m + 1 /\ k <= n
    BY <1>1, <1>6 DEF Within
  <2>3. IsTail(f) <=> k = n
    BY DEF IsTail
  <2>11. f[1] = p
    OBVIOUS
  <2> HIDE DEF t, f, m, Added
  <2>4. Said(t, x, h, v, f)
    BY <2>2, SayDoes
  <2> HIDE DEF x
  <2>5. Within(s, x, h, SaidFields)
    BY <2>2, <2>4 DEF Within, Said
  <2>6. x.hub[h].air = Flits(p, k)
    <3>1. x.hub[h].air = Append(Flits(p, m), f)
      BY <2>2, <2>4 DEF Said
    <3>2. Append(Flits(p, m), f) = Flits(p, k)
      BY <2>2, FlitsGrow DEF f, m
    <3> QED
      BY <3>1, <3>2
  <2>7. /\ x.hub[h].credits \in Seq(Vcs)
        /\ \A w \in Vcs : Count(x.hub[h].credits, w) = Count(r.credits, w) + Added(k, w)
    <3> DEFINE c == t.hub[h].credits
    <3>1. x.hub[h].credits = Append(c, v)
      BY <2>4 DEF Said
    <3>2. c \in Seq(Vcs) /\ \A w \in Vcs : Count(c, w) = Count(r.credits, w) + Added(m, w)
      BY <2>2
    <3> HIDE DEF c
    <3>3. Append(c, v) \in Seq(Vcs)
      BY <3>2
    <3>4. ASSUME NEW w \in Vcs PROVE Count(Append(c, v), w) = Count(r.credits, w) + Added(k, w)
      <4>1. Count(Append(c, v), w) = Count(c, w) + One(v = w)
        BY <3>2, CountAppend
      <4>2. Added(k, w) = Added(m, w) + One(v = w) /\ Added(m, w) \in Nat /\ One(v = w) \in Nat
        BY <2>2 DEF Added, One
      <4>3. Count(c, w) = Count(r.credits, w) + Added(m, w) /\ Count(r.credits, w) \in Nat
        BY <1>4, <3>2
      <4> QED
        BY <4>1, <4>2, <4>3
    <3> QED
      BY <3>1, <3>3, <3>4
  <2>8. t.hold = s.hold /\ t.hub[h].outq = r.outq
    BY <2>2
  <2>9. /\ k < n => x.hold = s.hold /\ x.hub[h].outq = r.outq
        /\ k = n => x.hold = FALSE /\ x.hub[h].outq = Tail(r.outq)
    <3>1. /\ IsTail(f) => x.hold = FALSE /\ x.hub[h].outq = Tail(r.outq)
          /\ ~IsTail(f) => x.hold = s.hold /\ x.hub[h].outq = r.outq
      BY <2>4, <2>8, <2>11 DEF Said, OwnTurn
    <3>2. k < n => k # n
      BY <1>1, <2>2
    <3> QED
      BY <2>3, <3>1, <3>2
  <2>10. P(x, k)
    BY <2>5, <2>6, <2>7, <2>9
  <2> HIDE DEF P
  <2> QED
    BY <2>1, <2>10
<1>7. n \in S
  <2> HIDE DEF S
  <2> QED
    BY <1>1, <1>5, <1>6, Climb DEF Climbs
<1>8. P(SaidAll(s, h, v, q), n)
  BY <1>3, <1>7
<1> QED
  BY <1>8 DEF Gone, q, Entire

(* What a hub is left with that has sent.                                    *)
Sent(s, t, h) ==
  /\ t.hold = FALSE /\ t.hub[h].trav = << >> /\ \E p \in Packets : t.hub[h].air = Entire(p)

(* All that is on a VC leaves, and its lane is vacant then.                   *)
LEMMA TraverseOrderly ==
  ASSUME HubAssumption, NEW s, Shaped(s), NEW h \in H, SendTypes(s.hub[h]), NEW v \in Vcs,
         NEW b, NEW u \in [Vcs -> SUBSET Packets], NEW sent, Orderly(s.hub[h], b, u, sent, h),
         s.hub[h].inq = << >>, s.hub[h].air = << >>, s.hub[h].trav = <<[v |-> v, new |-> FALSE]>>,
         s.hub[h].outq # << >>, s.hub[h].outq[1][2] = v
  PROVE  LET t == HubTraverse(s, h)
         IN  Orderly(t.hub[h], b, u, sent, h) /\ Sent(s, t, h)
<1> DEFINE r == s.hub[h]
           t == HubTraverse(s, h)
           x == t.hub[h]
           e == Emptied(s, h, v)
           o == r.outq
           p == o[1][1]
<1>1. /\ o \in Seq(Packets \X Vcs) /\ r.buf \in [Vcs -> Seq(FlitType)] /\ r.credits \in Seq(Vcs)
      /\ o # << >> /\ o[1][2] = v
  BY DEF SendTypes
<1>2. 1 \in DOMAIN o /\ o[1] \in Packets \X Vcs /\ p \in Packets
  BY <1>1
<1>3. \A w \in Vcs : Lane(r, b, u, sent, h, w) /\ Counted(r, b, w)
  BY DEF Orderly
<1>4. Ready(r)
  BY DEF Orderly
<1>5. r.buf[v] = Entire(p)
  BY <1>1, <1>2, <1>4 DEF Ready
<1>6. t = SaidAll(e, h, v, Entire(p))
  <2>1. \A a \in BOOLEAN :
           r.trav = <<[v |-> v, new |-> a]>> =>
             t = IF a THEN Put(s, h, "trav", <<[v |-> v, new |-> FALSE]>>) ELSE SaidAll(e, h, v, r.buf[v])
    BY HubTraverseIs
  <2> QED
    BY <1>5, <2>1
<1>7. IsEmptied(s, e, h, v)
  BY EmptiedDoes
<1> HIDE DEF t, e, p
<1>8. /\ Shaped(e) /\ e.hub[h].air = << >> /\ e.hub[h].outq = o /\ e.hub[h].credits = r.credits
      /\ e.hub[h].inq = << >> /\ e.hub[h].trav = << >> /\ e.hub[h].buf = [r.buf EXCEPT ![v] = << >>]
  BY <1>7, Names DEF IsEmptied, Within
<1>9. Gone(e, t, h, v, p)
  <2>1. OwnTurn(r, p, v) /\ OwnTurn(e.hub[h], p, v)
    <3>1. OwnTurn(r, p, v)
      BY <1>1, <1>2, <1>4, ReadyPops
    <3> QED
      BY <1>8, <3>1 DEF OwnTurn
  <2> QED
    BY <1>1, <1>2, <1>6, <1>8, <2>1, SaidEntire
<1>10. /\ x.inq = << >> /\ x.trav = << >> /\ x.buf = [r.buf EXCEPT ![v] = << >>]
       /\ x.air = Entire(p) /\ x.outq = Tail(o) /\ t.hold = FALSE
       /\ \A w \in Vcs : Count(x.credits, w) = Count(r.credits, w) + (IF w = v THEN Size[p] ELSE 0)
  BY <1>8, <1>9, Names DEF Gone, Within, SaidFields
<1>11. x.buf[v] = << >> /\ \A w \in Vcs : w # v => x.buf[w] = r.buf[w]
  BY <1>1, <1>10
<1>12. \A w : ~Coming(x, w) /\ ~Coming(r, w)
  BY <1>10 DEF Coming
<1>13. Size[p] \in Nat \ {0} /\ Len(r.buf[v]) = Size[p] /\ \A q \in Packets : Size[q] \in Nat \ {0}
  <2>1. \A q \in Packets : Size[q] \in Nat \ {0}
    BY DEF HubAssumption
  <2> QED
    BY <1>2, <1>5, <2>1, FlitsAre DEF Entire
<1>14. ASSUME NEW w \in Vcs PROVE Counted(x, b, w)
  <2>1. Count(r.credits, w) \in Nat /\ One(Coming(x, w)) = One(Coming(r, w))
    BY <1>1, <1>12, CountType DEF One
  <2>2. Counted(r, b, w)
    BY <1>3
  <2>3. CASE w # v
    <3>1. x.buf[w] = r.buf[w] /\ Count(x.credits, w) = Count(r.credits, w) + 0
      BY <1>10, <1>11, <2>3
    <3> QED
      BY <2>1, <2>2, <3>1 DEF Counted
  <2>4. CASE w = v
    <3>1. Len(x.buf[w]) = 0
      BY <1>11, <2>4
    <3>2. Count(x.credits, w) = Count(r.credits, w) + Size[p]
      BY <1>10, <2>4
    <3>3. One(Coming(x, w)) = 0 /\ One(Coming(r, w)) = 0
      BY <1>12 DEF One
    <3> QED
      BY <1>13, <2>1, <2>2, <2>4, <3>1, <3>2, <3>3 DEF Counted
  <2> QED
    BY <2>3, <2>4
<1>15. ASSUME NEW w \in Vcs PROVE Lane(x, b, u, sent, h, w)
  <2>1. Lane(r, b, u, sent, h, w)
    BY <1>3
  <2>2. CASE w # v
    <3>1. Vacant(x, w) = Vacant(r, w) /\ \A q, m : Carries(r, w, q, m) => Carries(x, w, q, m)
      <4>1. r.inq = << >>
        OBVIOUS
      <4> QED
        BY <1>11, <1>12, <2>2, <4>1 DEF Vacant, Carries
    <3> QED
      BY <2>1, <3>1 DEF Lane
  <2>3. CASE w = v
    <3>1. u[v] = {}
      <4>1. SUFFICES ASSUME NEW q \in u[v] PROVE FALSE
        OBVIOUS
      <4>2. q \in Packets /\ sent[q] \in 1 .. Size[q] - 1 /\ Carries(r, v, q, sent[q])
        BY <2>1, <2>3 DEF Lane
      <4>3. r.buf[v] = Flits(q, sent[q])
        BY <4>2, <1>12 DEF Carries, Coming
      <4>4. Flits(p, Size[p]) = Flits(q, sent[q])
        BY <1>5, <4>3 DEF Entire
      <4>5. sent[q] \in Nat /\ Size[q] \in Nat
        BY <1>13, <4>2
      <4>6. p = q /\ Size[p] = sent[q]
        BY <1>2, <1>13, <4>2, <4>4, <4>5, FlitsTell
      <4> QED
        BY <4>2, <4>5, <4>6
    <3>2. Vacant(x, v)
      BY <1>11, <1>12 DEF Vacant
    <3> QED
      BY <2>1, <2>3, <3>1, <3>2 DEF Lane
  <2> QED
    BY <2>2, <2>3
<1>16. Ready(x)
  <2> DEFINE m == Len(o)
             z == Tail(o)
  <2> HIDE DEF o
  <2>1. /\ m \in Nat \ {0} /\ DOMAIN o = 1 .. m /\ DOMAIN z = 1 .. m - 1
        /\ \A k \in 1 .. m - 1 : z[k] = o[k + 1] /\ k + 1 \in 1 .. m /\ k + 1 # 1
    BY <1>1
  <2>2. /\ \A k \in 1 .. m : r.buf[o[k][2]] = Entire(o[k][1])
        /\ \A k, l \in 1 .. m : o[k][2] = o[l][2] => k = l
    BY <1>4, <2>1 DEF Ready, o
  <2>3. \A k \in 1 .. m : o[k][2] \in Vcs
    BY <1>1, <2>1
  <2> HIDE DEF m, z
  <2>4. \A k \in 1 .. m - 1 : z[k][2] # v /\ z[k][2] \in Vcs
    BY <1>1, <1>2, <2>1, <2>2, <2>3
  <2>5. ASSUME NEW k \in 1 .. m - 1 PROVE x.buf[z[k][2]] = Entire(z[k][1])
    <3>1. r.buf[z[k][2]] = Entire(z[k][1])
      BY <2>1, <2>2
    <3>2. x.buf[z[k][2]] = r.buf[z[k][2]]
      BY <1>11, <2>4
    <3> QED
      BY <3>1, <3>2
  <2>6. \A k, l \in 1 .. m - 1 : z[k][2] = z[l][2] => k = l
    <3>1. ASSUME NEW k \in 1 .. m - 1, NEW l \in 1 .. m - 1, z[k][2] = z[l][2] PROVE k = l
      <4>1. o[k + 1][2] = o[l + 1][2] /\ k + 1 \in 1 .. m /\ l + 1 \in 1 .. m
        BY <2>1, <3>1
      <4>2. k + 1 = l + 1
        BY <2>2, <4>1
      <4> QED
        BY <4>2
    <3> QED
      BY <3>1
  <2> QED
    BY <1>10, <2>1, <2>5, <2>6 DEF Ready, z
<1>17. Orderly(x, b, u, sent, h)
  BY <1>14, <1>15, <1>16 DEF Orderly
<1>18. Sent(s, t, h)
  BY <1>2, <1>10 DEF Sent
<1> QED
  BY <1>17, <1>18 DEF t

-----------------------------------------------------------------------------
(* Only the hub with the token sends, and while it is held, what it queued first. *)
Sends(r, h, hold) ==
  r.trav # << >> => hold /\ token = h /\ r.outq # << >> /\ r.outq[1][2] = r.trav[1].v

(* A hub before its turn, and after it.                                      *)
Before(s, h) ==
  /\ Orderly(s.hub[h], up[h], sending[h], put, h) /\ Sends(s.hub[h], h, s.hold)
  /\ token = h /\ s.hold => s.hub[h].trav # << >>
After(s, t, h) ==
  /\ Orderly(t.hub[h], up[h], sending[h], put, h) /\ Sends(t.hub[h], h, t.hold)
  /\ token = h /\ t.hold => t.hub[h].trav # << >>
  /\ token # h => t.hold = s.hold
  /\ t.hub[h].air = << >> \/ (token = h /\ \E p \in Packets : t.hub[h].air = Entire(p))

(* All before the traversal: a hub that has the token may have started.        *)
LEMMA PreparedTalks ==
  ASSUME HubAssumption, NEW s, NEW p, NEW h \in H, SendTypes(s.hub[h]), s.hold \in BOOLEAN,
         sending[h] \in [Vcs -> SUBSET Packets], Before(s, h), IsPrepared(s, p, h)
  PROVE  /\ Before(p, h) /\ (token # h => p.hold = s.hold)
         /\ p.hub[h].air = s.hub[h].air /\ p.hub[h].inq = << >>
<1> DEFINE r == s.hub[h]
           q == p.hub[h]
           b == up[h]
           u == sending[h]
<1>1. /\ Orderly(r, b, u, put, h) /\ Sends(r, h, s.hold) /\ (token = h /\ s.hold => r.trav # << >>)
  BY DEF Before
<1>2. /\ Queued(r, q) /\ q.air = r.air /\ q.credits = r.credits
      /\ (p.hold = s.hold /\ q.trav = r.trav) \/ Starts(s, p, h)
  BY DEF IsPrepared
<1>3. Starts(s, p, h) => /\ token = h /\ ~s.hold /\ p.hold = TRUE /\ q.outq # << >>
                         /\ q.trav = IF r.trav = << >> THEN <<[v |-> q.outq[1][2], new |-> TRUE]>> ELSE r.trav
  BY DEF Starts
<1> HIDE DEF r, q, b, u
<1>4. /\ Orderly(q, b, u, put, h)
      /\ r.outq # << >> => q.outq # << >> /\ q.outq[1] = r.outq[1]
  <2>1. SendTypes(r) /\ u \in [Vcs -> SUBSET Packets]
    BY DEF r, u
  <2> QED
    BY <1>1, <1>2, <2>1, QueuedOrderly
<1>5. q.inq = << >>
  BY <1>2 DEF Queued
<1>6. CASE p.hold = s.hold /\ q.trav = r.trav
  <2>1. Sends(q, h, p.hold) /\ (token = h /\ p.hold => q.trav # << >>)
    BY <1>1, <1>4, <1>6 DEF Sends
  <2> QED
    BY <1>2, <1>4, <1>5, <1>6, <2>1 DEF Before, r, q, b, u
<1>7. CASE Starts(s, p, h)
  <2>1. r.trav = << >>
    BY <1>1, <1>3, <1>7 DEF Sends
  <2>2. token = h /\ p.hold = TRUE /\ q.outq # << >> /\ q.trav = <<[v |-> q.outq[1][2], new |-> TRUE]>>
    BY <1>3, <1>7, <2>1
  <2>3. Sends(q, h, p.hold) /\ q.trav # << >>
    BY <2>2 DEF Sends
  <2> QED
    BY <1>2, <1>4, <1>5, <2>2, <2>3 DEF Before, r, q, b, u
<1> QED
  BY <1>2, <1>6, <1>7

(* The traversal.                                                            *)
LEMMA TraverseTalks ==
  ASSUME HubAssumption, NEW s, Shaped(s), NEW h \in H, SendTypes(s.hub[h]), s.hold \in BOOLEAN,
         sending[h] \in [Vcs -> SUBSET Packets], Before(s, h), s.hub[h].inq = << >>, s.hub[h].air = << >>
  PROVE  After(s, HubTraverse(s, h), h)
<1> DEFINE r == s.hub[h]
           t == HubTraverse(s, h)
           b == up[h]
           u == sending[h]
<1>1. /\ Orderly(r, b, u, put, h) /\ Sends(r, h, s.hold) /\ (token = h /\ s.hold => r.trav # << >>)
  BY DEF Before
<1>2. CASE r.trav = << >>
  <2>1. t = s
    BY <1>2, HubTraverseIs
  <2> QED
    BY <1>1, <2>1 DEF After
<1>3. ASSUME NEW v \in Vcs, r.trav = <<[v |-> v, new |-> TRUE]>>
      PROVE  After(s, t, h)
  <2> DEFINE x == <<[v |-> v, new |-> FALSE]>>
  <2>1. t = Put(s, h, "trav", x)
    <3>1. \A a \in BOOLEAN :
             r.trav = <<[v |-> v, new |-> a]>> => t = IF a THEN Put(s, h, "trav", x) ELSE SaidAll(Emptied(s, h, v), h, v, r.buf[v])
      BY HubTraverseIs
    <3> QED
      BY <1>3, <3>1
  <2>2. r.trav[1].v = v /\ x[1].v = v /\ x # << >> /\ r.trav # << >>
    BY <1>3
  <2> HIDE DEF t, x
  <2>3. /\ t.hub[h].trav = x /\ t.hold = s.hold
        /\ \A g \in HubFields : g # "trav" => t.hub[h][g] = s.hub[h][g]
    BY <2>1, PutDoes, Names
  <2>4. /\ t.hub[h].inq = r.inq /\ t.hub[h].air = r.air /\ t.hub[h].buf = r.buf
        /\ t.hub[h].outq = r.outq /\ t.hub[h].credits = r.credits
    BY <2>3, Names
  <2> HIDE DEF r, b, u
  <2>5. Orderly(t.hub[h], b, u, put, h)
    BY <1>1, <2>4, OrderlySame
  <2>6. Sends(t.hub[h], h, t.hold)
    BY <1>1, <2>2, <2>3, <2>4 DEF Sends
  <2> QED
    BY <2>2, <2>3, <2>4, <2>5, <2>6 DEF After, r, b, u
<1>4. ASSUME NEW v \in Vcs, r.trav = <<[v |-> v, new |-> FALSE]>>
      PROVE  After(s, t, h)
  <2>1. r.trav[1].v = v /\ r.trav # << >>
    BY <1>4
  <2>2. token = h /\ r.outq # << >> /\ r.outq[1][2] = v
    BY <1>1, <2>1 DEF Sends
  <2>3. r.inq = << >> /\ r.air = << >> /\ u \in [Vcs -> SUBSET Packets]
    OBVIOUS
  <2> HIDE DEF u, b
  <2>4. Orderly(t.hub[h], b, u, put, h) /\ Sent(s, t, h)
    BY <1>1, <1>4, <2>2, <2>3, TraverseOrderly
  <2>5. Sends(t.hub[h], h, t.hold)
    BY <2>4 DEF Sent, Sends
  <2> QED
    BY <2>2, <2>4, <2>5 DEF After, Sent, u, b
<1>5. r.trav = << >> \/ \E v \in Vcs, a \in {TRUE, FALSE} : r.trav = <<[v |-> v, new |-> a]>>
  BY DEF SendTypes
<1> HIDE DEF t, r
<1> QED
  BY <1>2, <1>3, <1>4, <1>5 DEF t

(* The turn.                                                                 *)
LEMMA EvaluateTalks ==
  ASSUME HubAssumption, NEW s, Shaped(s), NEW h \in H, SendTypes(s.hub[h]), s.hold \in BOOLEAN,
         NEW n \in Nat, NEW payload, DOMAIN payload = 1 .. n, NEW w,
         sending[h] \in [Vcs -> SUBSET Packets], Before(s, h), s.hub[h].air = << >>
  PROVE  After(s, Evaluate(s, h, payload, w), h)
<1> DEFINE p == Prepared(s, h, payload, w)
           c == HubTraverse(p, h)
           t == Put(c, h, "active", StaysActive(c.hub[h]))
           a == s.hub[h].active \/ ReceiveFlits(s, h, payload)
<1>1. CASE ~a
  <2>1. Evaluate(s, h, payload, w) = s
    BY <1>1, EvaluateIs
  <2> QED
    BY <2>1 DEF Before, After
<1>2. CASE a
  <2>1. Evaluate(s, h, payload, w) = t
    BY <1>2, EvaluateIs DEF Woken
  <2>2. IsPrepared(s, p, h)
    BY PreparedDoes
  <2> HIDE DEF p
  <2>3. SendTypes(p.hub[h]) /\ p.hold \in BOOLEAN /\ Shaped(p)
    <3>1. SendTypes(p.hub[h]) /\ p.hold \in BOOLEAN
      BY <2>2, PreparedTypes
    <3>2. Within(s, p, h, HubFields)
      BY <2>2 DEF IsPrepared
    <3> QED
      BY <3>1, <3>2 DEF Within
  <2>4. Before(p, h) /\ (token # h => p.hold = s.hold) /\ p.hub[h].air = << >> /\ p.hub[h].inq = << >>
    BY <2>2, PreparedTalks
  <2>5. After(p, c, h)
    BY <2>3, <2>4, TraverseTalks
  <2>6. Shaped(c)
    <3>1. Within(p, c, h, TraverseFields)
      BY <2>3, HubTraverseTypes
    <3> QED
      BY <3>1 DEF Within
  <2> HIDE DEF c
  <2> DEFINE x == StaysActive(c.hub[h])
  <2> HIDE DEF x
  <2>7. t = Put(c, h, "active", x)
    BY DEF x
  <2> HIDE DEF t
  <2>8. t.hold = c.hold /\ \A g \in HubFields : g # "active" => t.hub[h][g] = c.hub[h][g]
    BY <2>6, <2>7, PutDoes, Names
  <2>9. /\ t.hub[h].inq = c.hub[h].inq /\ t.hub[h].air = c.hub[h].air /\ t.hub[h].buf = c.hub[h].buf
        /\ t.hub[h].outq = c.hub[h].outq /\ t.hub[h].credits = c.hub[h].credits
        /\ t.hub[h].trav = c.hub[h].trav
    BY <2>8, Names
  <2>10. Orderly(t.hub[h], up[h], sending[h], put, h)
    <3>1. Orderly(c.hub[h], up[h], sending[h], put, h)
      BY <2>5 DEF After
    <3> QED
      BY <2>9, <3>1, OrderlySame
  <2>11. Sends(t.hub[h], h, t.hold)
    BY <2>5, <2>8, <2>9 DEF After, Sends
  <2>12. After(s, t, h)
    BY <2>4, <2>5, <2>8, <2>9, <2>10, <2>11 DEF After
  <2> QED
    BY <2>1, <2>12
<1> QED
  BY <1>1, <1>2

-----------------------------------------------------------------------------
(* What a hub knows of the buffer of the router before it.                    *)
LaneFields == {"vc_occupancy", "in_use", "tail_sent"}
LaneTypes(b) ==
  /\ LaneFields \subseteq DOMAIN b
  /\ b.vc_occupancy \in [Vcs -> Int] /\ b.in_use \in [Vcs -> BOOLEAN] /\ b.tail_sent \in [Vcs -> BOOLEAN]

(* What holds of all hubs and routers between the cycles.                     *)
TalkInv ==
  /\ AwakeInv /\ token \in H /\ sending \in [H -> [Vcs -> SUBSET Packets]] /\ DOMAIN up = H
  /\ \A h \in H : /\ LaneTypes(up[h]) /\ Orderly(hub[h], up[h], sending[h], put, h)
                  /\ Sends(hub[h], h, token_hold)
                  /\ hub[h].air = << >> \/ \E p \in Packets : hub[h].air = Entire(p)
  /\ token_hold => hub[token].trav # << >>
  /\ \A h, k \in H : hub[h].air # << >> /\ hub[k].air # << >> => h = k

(* After the turns.                                                          *)
Talked(s) ==
  /\ \A h \in H : /\ Orderly(s.hub[h], up[h], sending[h], put, h) /\ Sends(s.hub[h], h, s.hold)
                  /\ s.hub[h].air = << >> \/ (token = h /\ \E p \in Packets : s.hub[h].air = Entire(p))
  /\ s.hold => s.hub[token].trav # << >>

(* Before them.                                                              *)
LEMMA BaseTalks ==
  ASSUME TalkInv
  PROVE  Talked(Base)
<1>1. AwakeInv /\ token \in H
  BY DEF TalkInv
<1>2. /\ Base.hold = token_hold
      /\ \A h \in H : /\ Base.hub[h].air = << >>
                      /\ \A f \in HubFields : f # "air" => Base.hub[h][f] = hub[h][f]
  BY <1>1, BaseIs
<1>3. ASSUME NEW h \in H
      PROVE  /\ Orderly(Base.hub[h], up[h], sending[h], put, h) /\ Sends(Base.hub[h], h, token_hold)
             /\ Base.hub[h].trav = hub[h].trav
  <2> DEFINE q == Base.hub[h]
             r == hub[h]
  <2>1. q.inq = r.inq /\ q.buf = r.buf /\ q.outq = r.outq /\ q.credits = r.credits /\ q.trav = r.trav
    BY <1>2, Names
  <2>2. Orderly(r, up[h], sending[h], put, h) /\ Sends(r, h, token_hold)
    BY DEF TalkInv
  <2> HIDE DEF q, r
  <2>3. Orderly(q, up[h], sending[h], put, h)
    BY <2>1, <2>2, OrderlySame
  <2>4. Sends(q, h, token_hold)
    BY <2>1, <2>2 DEF Sends
  <2> QED
    BY <2>1, <2>3, <2>4 DEF q, r
<1>4. token_hold => Base.hub[token].trav # << >>
  BY <1>1, <1>3 DEF TalkInv
<1> QED
  BY <1>2, <1>3, <1>4 DEF Talked

(* One turn after the other.                                                 *)
LEMMA TalkedHalfWay ==
  ASSUME HubAssumption, TalkInv, NEW w, NEW g, Turns(g, w), NEW m \in 0 .. Hubs
  PROVE  Talked(g[m])
<1>2. Hubs \in Nat \ {0} /\ AwakeInv /\ token \in H
  BY DEF HubAssumption, TalkInv
<1> DEFINE S == {k \in 0 .. m : Talked(g[k])}
<1>3. Talked(g[0])
  BY BaseTalks DEF Turns
<1>4. ASSUME NEW k \in 1 .. Hubs, Talked(g[k - 1]) PROVE Talked(g[k])
  <2> DEFINE s == g[k - 1]
             h == k - 1
             p == Payload(h)
             t == g[k]
             x == w[h]
  <2>1. h \in H /\ h \in 0 .. Hubs /\ h >= h /\ h < k /\ k \in 0 .. Hubs
    BY <1>2 DEF H
  <2>2. t = Evaluate(s, h, p, x)
    BY DEF Turns
  <2>3. Half(s, h)
    BY <1>2, <2>1, HalfWay
  <2>4. s.hub[h] = Base.hub[h] /\ Shaped(s) /\ s.hold \in BOOLEAN
    BY <2>1, <2>3 DEF Half
  <2>5. SendTypes(s.hub[h]) /\ s.hub[h].air = << >> /\ Rests(s.hub[h]) /\ s.hub[h].active \in BOOLEAN
    <3>1. Fit(Base.hub[h])
      BY <1>2, <2>1, BaseFits
    <3>2. Base.hub[h].air = << >>
      BY <1>2, <2>1, BaseIs
    <3> QED
      BY <2>4, <3>1, <3>2 DEF Fit
  <2>6. p \in Seq(FlitType)
    <3>1. \A j \in H : hub[j].air \in Seq(FlitType)
      BY <1>2 DEF AwakeInv, SendTypes
    <3> QED
      BY <2>1, <3>1, PayloadIs
  <2>7. Talked(s)
    BY <1>4
  <2> HIDE DEF p, s, x, h
  <2>8. Len(p) \in Nat /\ DOMAIN p = 1 .. Len(p)
    BY <2>6, LenProperties
  <2>9. Before(s, h)
    BY <2>1, <2>7 DEF Talked, Before
  <2> DEFINE n == Len(p)
             e == Evaluate(s, h, p, x)
  <2> HIDE DEF n
  <2>10. n \in Nat /\ DOMAIN p = 1 .. n
    BY <2>8 DEF n
  <2>11. sending[h] \in [Vcs -> SUBSET Packets]
    BY <2>1 DEF TalkInv
  <2>12. After(s, e, h)
    BY <2>1, <2>4, <2>5, <2>9, <2>10, <2>11, EvaluateTalks
  <2>13. Worked(s, e, h)
    BY <2>1, <2>4, <2>5, <2>10, EvaluateDoes
  <2>14. \A l \in H : l # h => e.hub[l] = s.hub[l]
    BY <2>13 DEF Worked, Within
  <2> HIDE DEF e
  <2>15. ASSUME NEW l \in H, l # h
         PROVE  /\ Orderly(e.hub[l], up[l], sending[l], put, l) /\ Sends(e.hub[l], l, e.hold)
                /\ e.hub[l].air = << >> \/ (token = l /\ \E o \in Packets : e.hub[l].air = Entire(o))
    <3>1. e.hub[l] = s.hub[l]
      BY <2>14, <2>15
    <3>2. /\ Orderly(s.hub[l], up[l], sending[l], put, l) /\ Sends(s.hub[l], l, s.hold)
          /\ s.hub[l].air = << >> \/ (token = l /\ \E o \in Packets : s.hub[l].air = Entire(o))
      BY <2>7 DEF Talked
    <3>3. Sends(s.hub[l], l, e.hold)
      BY <2>12, <2>15, <3>2 DEF Sends, After
    <3> QED
      BY <3>1, <3>2, <3>3
  <2>16. e.hold => e.hub[token].trav # << >>
    <3>1. CASE token = h
      BY <2>12, <3>1 DEF After
    <3>2. CASE token # h
      BY <1>2, <2>7, <2>12, <2>14, <3>2 DEF After, Talked
    <3> QED
      BY <3>1, <3>2
  <2>17. /\ Orderly(e.hub[h], up[h], sending[h], put, h) /\ Sends(e.hub[h], h, e.hold)
         /\ e.hub[h].air = << >> \/ (token = h /\ \E o \in Packets : e.hub[h].air = Entire(o))
    BY <2>12 DEF After
  <2>18. Talked(e)
    <3>1. \A l \in H : /\ Orderly(e.hub[l], up[l], sending[l], put, l) /\ Sends(e.hub[l], l, e.hold)
                       /\ e.hub[l].air = << >> \/ (token = l /\ \E o \in Packets : e.hub[l].air = Entire(o))
      BY <2>15, <2>17
    <3> QED
      BY <2>16, <3>1 DEF Talked
  <2> QED
    BY <2>2, <2>18 DEF e
<1>5. 0 \in S /\ \A k \in 1 .. m : k - 1 \in S => k \in S
  <2>1. m \in Nat /\ 0 \in 0 .. m /\ \A k \in 1 .. m : k \in 1 .. Hubs /\ k \in 0 .. m
    BY <1>2
  <2> QED
    BY <1>3, <1>4, <2>1
<1>6. m \in S
  <2>1. m \in Nat
    BY <1>2
  <2> HIDE DEF S
  <2> QED
    BY <1>5, <2>1, Climb DEF Climbs
<1> QED
  BY <1>6

(* All turns taken.                                                          *)
LEMMA EvaluatedTalks ==
  ASSUME HubAssumption, TalkInv, NEW w
  PROVE  Talked(Evaluated(w))
<1>1. PICK g : Turns(g, w) /\ Evaluated(w) = g[Hubs]
  BY CycleChain
<1>2. Hubs \in 0 .. Hubs
  BY DEF HubAssumption
<1> QED
  BY <1>1, <1>2, TalkedHalfWay

-----------------------------------------------------------------------------
(* What the policies count apart from the lanes changes nothing of them.       *)
SameLane(s, t) ==
  DOMAIN t = DOMAIN s /\ t.vc_occupancy = s.vc_occupancy /\ t.in_use = s.in_use /\ t.tail_sent = s.tail_sent
HasLane(b) == LaneFields \subseteq DOMAIN b

(* Slots that go back.                                                       *)
LEMMA FreeSlotsLane ==
  ASSUME NEW b, HasLane(b), NEW v, NEW n
  PROVE  SameLane(b, FreeSlots(b, v, n))
  BY DEF FreeSlots, SameLane, HasLane, LaneFields

(* A slot taken.                                                             *)
LEMMA ShareLane ==
  ASSUME NEW b, HasLane(b), NEW v, NEW tail
  PROVE  SameLane(b, Share(b, v, tail))
<1> DEFINE g == GroupOf[v]
           t1 == [b EXCEPT !.reserved[v] = @ - 1]
           t2 == [b EXCEPT !.group[g] = @ + 1, !.shared = IF b.group[g] >= GroupSize[g] THEN @ + 1 ELSE @]
           t == IF b.reserved[v] > 0 THEN t1 ELSE t2
           e == [FreeSlots(t, v, t.reserved[v]) EXCEPT !.reserved[v] = 0]
<1>1. SameLane(b, t1) /\ SameLane(b, t2)
  BY DEF SameLane, HasLane, LaneFields
<1>2. Share(b, v, tail) = IF tail THEN e ELSE t
  BY DEF Share
<1>3. SameLane(b, t) /\ HasLane(t)
  BY <1>1 DEF SameLane, HasLane
<1> HIDE DEF t
<1> DEFINE f == FreeSlots(t, v, t.reserved[v])
<1>4. SameLane(t, f)
  BY <1>3, FreeSlotsLane
<1> HIDE DEF f
<1>5. HasLane(f)
  BY <1>3, <1>4 DEF SameLane, HasLane
<1>6. SameLane(f, [f EXCEPT !.reserved[v] = 0])
  BY <1>5 DEF SameLane, HasLane, LaneFields
<1>7. SameLane(b, [f EXCEPT !.reserved[v] = 0])
  BY <1>3, <1>4, <1>6 DEF SameLane
<1> QED
  BY <1>2, <1>3, <1>7 DEF f

(* The activity of a VC.                                                     *)
LEMMA LimitLane ==
  ASSUME NEW b, HasLane(b), NEW tail
  PROVE  SameLane(b, Limit(b, tail))
<1>1. SameLane(b, b)
  BY DEF SameLane
<1> DEFINE a == b.active - 1
           x == IF b.active > 1 THEN HeldBy(b, b.active - 1) ELSE b.held
           t == [b EXCEPT !.active = a, !.held = x]
<1>2. Limit(b, tail) \in {b, t}
  BY DEF Limit
<1> HIDE DEF a, x
<1>3. SameLane(b, t)
  BY DEF SameLane, HasLane, LaneFields
<1> QED
  BY <1>1, <1>2, <1>3

(* The times.                                                                *)
LEMMA TimeLane ==
  ASSUME NEW b, HasLane(b), NEW v
  PROVE  SameLane(b, Time(b, v)) /\ SameLane(b, Timed(b, v))
  BY DEF Time, Timed, SameLane, HasLane, LaneFields

(* A slot that a credit frees.                                               *)
LEMMA FreeSlotForLane ==
  ASSUME NEW b, HasLane(b), NEW v
  PROVE  SameLane(b, FreeSlotFor(b, v))
<1>1. SameLane(b, [b EXCEPT !.reserved[v] = @ + 1])
  BY DEF SameLane, HasLane, LaneFields
<1>2. SameLane(b, FreeSlots(b, v, 1))
  BY FreeSlotsLane
<1> QED
  BY <1>1, <1>2 DEF FreeSlotFor

(* A packet takes a VC.                                                      *)
Taken(b, t, v) ==
  /\ LaneTypes(t) /\ t.vc_occupancy = b.vc_occupancy
  /\ t.in_use = [b.in_use EXCEPT ![v] = TRUE] /\ t.tail_sent = [b.tail_sent EXCEPT ![v] = FALSE]
(* TakeBuffer does that under every policy.                                  *)
LEMMA TakeLane ==
  ASSUME NEW b, LaneTypes(b), NEW v \in Vcs
  PROVE  Taken(b, TakeBuffer(b, v), v)
<1> DEFINE i == [b.in_use EXCEPT ![v] = TRUE]
           j == [b.tail_sent EXCEPT ![v] = FALSE]
           t == [b EXCEPT !.in_use = i, !.tail_sent = j]
           a == t.active + 1
           x == HeldBy(b, b.active + 1)
           e == [t EXCEPT !.active = a, !.held = x]
<1>1. TakeBuffer(b, v) \in {t, e}
  BY DEF TakeBuffer
<1>2. i \in [Vcs -> BOOLEAN] /\ j \in [Vcs -> BOOLEAN] /\ b.vc_occupancy \in [Vcs -> Int] /\ LaneFields \subseteq DOMAIN b
  BY DEF LaneTypes
<1> HIDE DEF i, j
<1>3. DOMAIN t = DOMAIN b /\ t.vc_occupancy = b.vc_occupancy /\ t.in_use = i /\ t.tail_sent = j
  BY <1>2 DEF LaneFields
<1> HIDE DEF t, a, x
<1>4. SameLane(t, e)
  BY <1>2, <1>3 DEF SameLane, LaneFields
<1>5. Taken(b, t, v)
  BY <1>2, <1>3 DEF Taken, LaneTypes, i, j
<1>6. Taken(b, e, v)
  BY <1>4, <1>5 DEF Taken, LaneTypes, SameLane
<1> QED
  BY <1>1, <1>5, <1>6

(* A flit leaves on a VC.                                                    *)
Filled(b, t, v, tail) ==
  /\ LaneTypes(t) /\ t.vc_occupancy = [b.vc_occupancy EXCEPT ![v] = b.vc_occupancy[v] + 1]
  /\ t.in_use = b.in_use
  /\ t.tail_sent = IF tail THEN [b.tail_sent EXCEPT ![v] = TRUE] ELSE b.tail_sent
(* SendingFlit does that under every policy.                                 *)
LEMMA SendingLane ==
  ASSUME WaitForTail, NEW b, LaneTypes(b), NEW v \in Vcs, NEW tail \in BOOLEAN
  PROVE  Filled(b, SendingFlit(b, v, tail), v, tail)
<1> DEFINE n == [b.vc_occupancy EXCEPT ![v] = b.vc_occupancy[v] + 1]
           o == b.occupancy + 1
           t == [b EXCEPT !.occupancy = o, !.vc_occupancy = n]
           q == Limit(Share(Time(t, v), v, tail), tail)
           p == IF Policy = "private" THEN t ELSE q
           e == [p EXCEPT !.tail_sent[v] = TRUE, !.in_use[v] = IF WaitForTail THEN @ ELSE FALSE]
<1>1. SendingFlit(b, v, tail) = IF tail THEN e ELSE p
  BY DEF SendingFlit
<1>2. /\ n \in [Vcs -> Int] /\ b.in_use \in [Vcs -> BOOLEAN] /\ b.tail_sent \in [Vcs -> BOOLEAN]
      /\ LaneFields \subseteq DOMAIN b
  BY DEF LaneTypes
<1> HIDE DEF n, o
<1>3. DOMAIN t = DOMAIN b /\ t.vc_occupancy = n /\ t.in_use = b.in_use /\ t.tail_sent = b.tail_sent /\ HasLane(t)
  BY <1>2 DEF LaneFields, HasLane
<1> HIDE DEF t
<1>4. SameLane(t, q)
  <2> DEFINE x == Time(t, v)
             y == Share(x, v, tail)
  <2>1. SameLane(t, x)
    BY <1>3, TimeLane
  <2> HIDE DEF x
  <2>2. HasLane(x)
    BY <1>3, <2>1 DEF SameLane, HasLane
  <2>3. SameLane(x, y)
    BY <2>2, ShareLane
  <2> HIDE DEF y
  <2>4. HasLane(y)
    BY <2>2, <2>3 DEF SameLane, HasLane
  <2>5. SameLane(y, Limit(y, tail))
    BY <2>4, LimitLane
  <2> QED
    BY <2>1, <2>3, <2>5 DEF SameLane, x, y
<1> HIDE DEF q
<1>5. DOMAIN p = DOMAIN b /\ p.vc_occupancy = n /\ p.in_use = b.in_use /\ p.tail_sent = b.tail_sent
  BY <1>3, <1>4 DEF SameLane
<1> HIDE DEF p
<1>6. /\ DOMAIN e = DOMAIN b /\ e.vc_occupancy = n /\ e.in_use = b.in_use
      /\ e.tail_sent = [b.tail_sent EXCEPT ![v] = TRUE]
  <2> DEFINE f == [p EXCEPT !.tail_sent[v] = TRUE, !.in_use[v] = p.in_use[v]]
  <2>1. e = f
    OBVIOUS
  <2>2. [p.in_use EXCEPT ![v] = p.in_use[v]] = p.in_use
    BY <1>2, <1>5
  <2> QED
    BY <1>2, <1>5, <2>1, <2>2 DEF LaneFields
<1> HIDE DEF e
<1>7. [b.tail_sent EXCEPT ![v] = TRUE] \in [Vcs -> BOOLEAN]
  BY <1>2
<1>8. LaneTypes(p) /\ LaneTypes(e)
  BY <1>2, <1>5, <1>6, <1>7 DEF LaneTypes
<1> QED
  BY <1>1, <1>5, <1>6, <1>8 DEF Filled, n

(* A credit; the VC is free with the last one after the tail.                 *)
Credited(b, t, v) ==
  LET n == b.vc_occupancy[v] - 1
  IN  /\ LaneTypes(t) /\ t.vc_occupancy = [b.vc_occupancy EXCEPT ![v] = n]
      /\ t.in_use = [b.in_use EXCEPT ![v] = IF n = 0 /\ b.tail_sent[v] THEN FALSE ELSE b.in_use[v]]
      /\ t.tail_sent = b.tail_sent
(* ProcessCredit does that under every policy.                               *)
LEMMA ProcessLane ==
  ASSUME WaitForTail, NEW b, LaneTypes(b), NEW v \in Vcs
  PROVE  Credited(b, ProcessCredit(b, v), v)
<1> DEFINE n == b.vc_occupancy[v] - 1
           m == [b.vc_occupancy EXCEPT ![v] = n]
           o == b.occupancy - 1
           i == [b.in_use EXCEPT ![v] = IF n = 0 /\ b.tail_sent[v] THEN FALSE ELSE b.in_use[v]]
           t == [b EXCEPT !.occupancy = o, !.vc_occupancy = m, !.in_use = i]
           q == Timed(FreeSlotFor(t, v), v)
<1>1. ProcessCredit(b, v) = IF Policy = "private" THEN t ELSE q
  BY DEF ProcessCredit
<1>2. /\ m \in [Vcs -> Int] /\ i \in [Vcs -> BOOLEAN] /\ b.tail_sent \in [Vcs -> BOOLEAN]
      /\ LaneFields \subseteq DOMAIN b
  <2> DEFINE z == IF n = 0 /\ b.tail_sent[v] THEN FALSE ELSE b.in_use[v]
  <2>1. /\ b.vc_occupancy \in [Vcs -> Int] /\ b.in_use \in [Vcs -> BOOLEAN] /\ b.tail_sent \in [Vcs -> BOOLEAN]
        /\ LaneFields \subseteq DOMAIN b
    BY DEF LaneTypes
  <2>2. m \in [Vcs -> Int] /\ z \in BOOLEAN
    <3>1. m \in [Vcs -> Int] /\ b.in_use[v] \in BOOLEAN
      BY <2>1
    <3>2. z = FALSE \/ z = b.in_use[v]
      OBVIOUS
    <3> HIDE DEF z, m
    <3> QED
      BY <3>1, <3>2
  <2> HIDE DEF z
  <2>3. [b.in_use EXCEPT ![v] = z] \in [Vcs -> BOOLEAN]
    BY <2>1, <2>2
  <2> QED
    BY <2>1, <2>2, <2>3 DEF z
<1> HIDE DEF m, o, i
<1>3. DOMAIN t = DOMAIN b /\ t.vc_occupancy = m /\ t.in_use = i /\ t.tail_sent = b.tail_sent /\ HasLane(t)
  BY <1>2 DEF LaneFields, HasLane
<1> HIDE DEF t
<1>4. SameLane(t, q)
  <2> DEFINE x == FreeSlotFor(t, v)
  <2>1. SameLane(t, x)
    BY <1>3, FreeSlotForLane
  <2> HIDE DEF x
  <2>2. HasLane(x)
    BY <1>3, <2>1 DEF SameLane, HasLane
  <2>3. SameLane(x, Timed(x, v))
    BY <2>2, TimeLane
  <2> QED
    BY <2>1, <2>3 DEF SameLane, x
<1> HIDE DEF q
<1>5. Credited(b, t, v)
  BY <1>2, <1>3 DEF Credited, LaneTypes, m, i
<1>6. Credited(b, q, v)
  BY <1>4, <1>5 DEF Credited, LaneTypes, SameLane
<1> QED
  BY <1>1, <1>5, <1>6

-----------------------------------------------------------------------------
(* A credit goes back: what was counted is still counted.                     *)
LEMMA LeavesOrderly ==
  ASSUME WaitForTail, NEW x, NEW r, NEW b, NEW c, NEW u \in [Vcs -> SUBSET Packets], NEW sent, NEW h,
         SendTypes(r), Leaves(x, r), LaneTypes(b), Orderly(r, b, u, sent, h),
         c = IF r.credits = << >> THEN b ELSE ProcessCredit(b, r.credits[1])
  PROVE  Orderly(x, c, u, sent, h) /\ LaneTypes(c)
<1>1. x.inq = r.inq /\ x.buf = r.buf /\ x.outq = r.outq
  BY Names DEF Leaves
<1>2. CASE r.credits = << >>
  <2>1. x.credits = r.credits /\ c = b
    BY <1>2 DEF Leaves
  <2> QED
    BY <1>1, <2>1, OrderlySame
<1>3. CASE r.credits # << >>
  <2> DEFINE q == r.credits
             v == q[1]
  <2>1. q \in Seq(Vcs) /\ q # << >> /\ x.credits = Tail(q) /\ c = ProcessCredit(b, v)
    BY <1>3 DEF SendTypes, Leaves
  <2>2. v \in Vcs
    BY <2>1
  <2> HIDE DEF v, q
  <2>3. Credited(b, c, v)
    BY <2>1, <2>2, ProcessLane
  <2> DEFINE n == b.vc_occupancy[v] - 1
  <2>4. /\ LaneTypes(c) /\ c.tail_sent = b.tail_sent
        /\ c.vc_occupancy = [b.vc_occupancy EXCEPT ![v] = n]
        /\ c.in_use = [b.in_use EXCEPT ![v] = IF n = 0 /\ b.tail_sent[v] THEN FALSE ELSE b.in_use[v]]
    BY <2>3 DEF Credited
  <2>5. b.vc_occupancy \in [Vcs -> Int] /\ b.in_use \in [Vcs -> BOOLEAN]
    BY DEF LaneTypes
  <2>6. /\ c.vc_occupancy[v] = n /\ c.in_use[v] = IF n = 0 /\ b.tail_sent[v] THEN FALSE ELSE b.in_use[v]
        /\ \A w \in Vcs : w # v => c.vc_occupancy[w] = b.vc_occupancy[w] /\ c.in_use[w] = b.in_use[w]
    BY <2>2, <2>4, <2>5
  <2>7. \A w \in Vcs : Count(x.credits, w) = Count(r.credits, w) - One(v = w) /\ Count(r.credits, w) \in Nat
                       /\ Count(x.credits, w) \in Nat
    <3>1. \A w \in Vcs : Count(Tail(q), w) = Count(q, w) - One(v = w) /\ Count(q, w) \in Nat
      BY <2>1, CountTail DEF v
    <3>2. Tail(q) \in Seq(Vcs)
      BY <2>1, HeadTailProperties
    <3>3. \A w \in Vcs : Count(Tail(q), w) \in Nat
      BY <3>2, CountType
    <3> QED
      BY <2>1, <3>1, <3>3 DEF q
  <2>8. \A w : Coming(x, w) = Coming(r, w) /\ Vacant(x, w) = Vacant(r, w)
    BY <1>1 DEF Coming, Vacant
  <2>9. \A w, p, m : Carries(x, w, p, m) = Carries(r, w, p, m)
    BY <1>1 DEF Carries, Coming
  <2>10. \A w \in Vcs : Lane(r, b, u, sent, h, w) /\ Counted(r, b, w)
    BY DEF Orderly
  <2>11. \A w \in Vcs : Len(r.buf[w]) \in Nat /\ (Len(r.buf[w]) = 0 => r.buf[w] = << >>)
    <3>1. \A w \in Vcs : r.buf[w] \in Seq(FlitType)
      BY DEF SendTypes
    <3> QED
      BY <3>1, EmptySeq, LenProperties
  <2>12. ASSUME NEW w \in Vcs PROVE Counted(x, c, w)
    <3>1. b.vc_occupancy[w] = Len(r.buf[w]) + One(Coming(r, w)) + Count(r.credits, w)
      BY <2>10 DEF Counted
    <3>2. One(Coming(r, w)) \in Nat /\ One(Coming(x, w)) = One(Coming(r, w))
      BY <2>8 DEF One
    <3>3. c.vc_occupancy[w] = b.vc_occupancy[w] - One(v = w)
      <4>1. CASE w = v
        BY <2>6, <4>1 DEF One
      <4>2. CASE w # v
        <5>1. One(v = w) = 0 /\ b.vc_occupancy[w] \in Int
          BY <4>2, <2>5 DEF One
        <5> QED
          BY <2>6, <4>2, <5>1
      <4> QED
        BY <4>1, <4>2
    <3>4. One(v = w) \in Nat
      BY DEF One
    <3> QED
      BY <1>1, <2>7, <2>11, <3>1, <3>2, <3>3, <3>4 DEF Counted
  <2>13. n = Len(r.buf[v]) + One(Coming(r, v)) + Count(x.credits, v) /\ b.vc_occupancy[v] # 0
    <3>1. Counted(r, b, v) /\ Count(x.credits, v) = Count(r.credits, v) - 1 /\ Count(x.credits, v) \in Nat
          /\ Count(r.credits, v) \in Nat
      BY <2>2, <2>7, <2>10 DEF One
    <3>2. One(Coming(r, v)) \in Nat /\ Len(r.buf[v]) \in Nat
      BY <2>2, <2>11 DEF One
    <3> QED
      BY <3>1, <3>2 DEF Counted
  <2>14. n = 0 => Vacant(r, v)
    <3>1. ASSUME n = 0 PROVE Vacant(r, v)
      <4>1. One(Coming(r, v)) \in Nat /\ Len(r.buf[v]) \in Nat /\ Count(x.credits, v) \in Nat
        BY <2>2, <2>7, <2>11 DEF One
      <4> HIDE DEF n
      <4>2. One(Coming(r, v)) = 0 /\ Len(r.buf[v]) = 0
        BY <2>13, <3>1, <4>1
      <4>3. ~Coming(r, v)
        BY <4>2 DEF One
      <4> QED
        BY <2>2, <2>11, <4>2, <4>3 DEF Vacant
    <3> QED
      BY <3>1
  <2> HIDE DEF n
  <2>15. ASSUME NEW w \in Vcs PROVE Lane(x, c, u, sent, h, w)
    <3>1. Lane(r, b, u, sent, h, w)
      BY <2>10
    <3>2. CASE w # v
      BY <2>4, <2>6, <2>8, <2>9, <3>1, <3>2 DEF Lane
    <3>3. CASE w = v
      <4>1. \A p \in u[v] :
              /\ u[v] = {p} /\ From[p] = h /\ c.in_use[v] /\ ~c.tail_sent[v]
              /\ sent[p] \in 1 .. Size[p] - 1 /\ Carries(x, v, p, sent[p])
              /\ \A y \in Vcs \ {v} : p \notin u[y]
        <5>1. SUFFICES ASSUME NEW p \in u[v]
                       PROVE  /\ u[v] = {p} /\ From[p] = h /\ c.in_use[v] /\ ~c.tail_sent[v]
                              /\ sent[p] \in 1 .. Size[p] - 1 /\ Carries(x, v, p, sent[p])
                              /\ \A y \in Vcs \ {v} : p \notin u[y]
          OBVIOUS
        <5>2. /\ u[v] = {p} /\ From[p] = h /\ b.in_use[v] /\ ~b.tail_sent[v]
              /\ sent[p] \in 1 .. Size[p] - 1 /\ Carries(r, v, p, sent[p])
              /\ \A y \in Vcs \ {v} : p \notin u[y]
          BY <3>1, <3>3 DEF Lane
        <5>3. c.in_use[v] = b.in_use[v] /\ c.tail_sent = b.tail_sent
          BY <2>4, <2>6, <5>2
        <5>4. Carries(x, v, p, sent[p])
          BY <2>9, <5>2
        <5> QED
          BY <5>2, <5>3, <5>4
      <4>2. u[v] = {} => \/ Vacant(x, v)
                         \/ c.in_use[v] /\ c.tail_sent[v] /\ \E p \in Packets : Carries(x, v, p, Size[p])
        <5>1. SUFFICES ASSUME u[v] = {}, ~Vacant(x, v)
                       PROVE  c.in_use[v] /\ c.tail_sent[v] /\ \E p \in Packets : Carries(x, v, p, Size[p])
          OBVIOUS
        <5>2. ~Vacant(r, v)
          BY <2>8, <5>1
        <5>3. b.in_use[v] /\ b.tail_sent[v] /\ \E p \in Packets : Carries(r, v, p, Size[p])
          BY <3>1, <3>3, <5>1, <5>2 DEF Lane
        <5>4. c.in_use[v] = b.in_use[v] /\ c.tail_sent = b.tail_sent
          BY <2>4, <2>6, <2>14, <5>2
        <5> QED
          BY <2>9, <5>3, <5>4
      <4>3. ~c.in_use[v] => c.vc_occupancy[v] = 0 /\ u[v] = {}
        <5>1. ASSUME ~c.in_use[v] PROVE c.vc_occupancy[v] = 0 /\ u[v] = {}
          <6>1. n = 0 /\ b.tail_sent[v]
            <7>1. SUFFICES ASSUME ~(n = 0 /\ b.tail_sent[v]) PROVE FALSE
              OBVIOUS
            <7>2. ~b.in_use[v]
              BY <2>6, <5>1, <7>1
            <7> QED
              BY <2>13, <3>1, <3>3, <7>2 DEF Lane
          <6>2. u[v] = {}
            BY <3>1, <3>3, <6>1 DEF Lane
          <6> QED
            BY <2>6, <6>1, <6>2
        <5> QED
          BY <5>1
      <4> QED
        BY <3>3, <4>1, <4>2, <4>3 DEF Lane
    <3> QED
      BY <3>2, <3>3
  <2>16. Ready(x)
    BY <1>1 DEF Ready, Orderly
  <2> QED
    BY <2>4, <2>12, <2>15, <2>16 DEF Orderly
<1> QED
  BY <1>2, <1>3

-----------------------------------------------------------------------------
(* It holds at the start.                                                    *)
LEMMA TalkFirst ==
  ASSUME HubAssumption, Init
  PROVE  TalkInv
<1>1. AwakeInv
  BY AwakeFirst
<1>2. \A h \in H : hub[h] = HubInit /\ up[h] = StateInit
  BY DEF Init
<1>3. token \in H /\ sending = [h \in H |-> [v \in Vcs |-> {}]] /\ DOMAIN up = H /\ token_hold = FALSE
  BY DEF Init, HubAssumption, H
<1> DEFINE r == HubInit
           b == StateInit
           u == [v \in Vcs |-> {}]
<1>4. /\ r.inq = << >> /\ r.air = << >> /\ r.buf = [v \in Vcs |-> << >>] /\ r.outq = << >> /\ r.trav = << >>
      /\ r.credits = << >>
  BY DEF HubInit
<1>5. /\ LaneTypes(b) /\ b.vc_occupancy = [v \in Vcs |-> 0] /\ b.in_use = [v \in Vcs |-> FALSE]
  <2>1. /\ b.vc_occupancy = [v \in Vcs |-> 0] /\ b.in_use = [v \in Vcs |-> FALSE]
        /\ b.tail_sent = [v \in Vcs |-> FALSE] /\ LaneFields \subseteq DOMAIN b
    BY DEF StateInit, LaneFields
  <2> HIDE DEF b
  <2> QED
    BY <2>1 DEF LaneTypes
<1> HIDE DEF r, b
<1>6. \A v : Count(r.credits, v) = 0
  <2>1. \A v : {k \in DOMAIN << >> : << >>[k] = v} = {}
    OBVIOUS
  <2> QED
    BY <1>4, <2>1, FS_EmptySet DEF Count
<1>7. ASSUME NEW v \in Vcs, NEW h PROVE Lane(r, b, u, put, h, v) /\ Counted(r, b, v)
  <2>1. ~Coming(r, v) /\ r.buf[v] = << >> /\ b.vc_occupancy[v] = 0 /\ u[v] = {}
    BY <1>4, <1>5 DEF Coming
  <2>2. Lane(r, b, u, put, h, v)
    BY <2>1 DEF Lane, Vacant
  <2>3. Counted(r, b, v)
    BY <1>6, <2>1 DEF Counted, One
  <2> QED
    BY <2>2, <2>3
<1>8. \A h : Orderly(r, b, u, put, h)
  <2>1. Ready(r)
    BY <1>4 DEF Ready
  <2> QED
    BY <1>7, <2>1 DEF Orderly
<1>9. \A h \in H : sending[h] = u
  BY <1>3
<1> HIDE DEF u
<1>10. sending \in [H -> [Vcs -> SUBSET Packets]]
  BY <1>3
<1>11. \A h \in H : /\ LaneTypes(up[h]) /\ Orderly(hub[h], up[h], sending[h], put, h)
                    /\ Sends(hub[h], h, token_hold) /\ hub[h].air = << >>
  BY <1>2, <1>4, <1>5, <1>8, <1>9 DEF r, b, Sends
<1> QED
  BY <1>1, <1>3, <1>10, <1>11 DEF TalkInv

(* A cycle keeps it.                                                         *)
LEMMA CycleTalks ==
  ASSUME HubAssumption, WaitForTail, TalkInv, Cycle
  PROVE  TalkInv'
<1>0. AwakeInv /\ token \in H /\ sending \in [H -> [Vcs -> SUBSET Packets]]
  BY DEF TalkInv
<1>1. PICK w : \E c : /\ c = WriteOutputs(Evaluated(w))
                      /\ hub' = c.hub /\ token_hold' = c.hold /\ up' = c.up /\ token' = c.token
  BY DEF Cycle, Outcomes
<1> DEFINE s == Evaluated(w)
           c == WriteOutputs(s)
<1>2. /\ hub' = c.hub /\ token_hold' = c.hold /\ up' = c.up /\ token' = c.token
      /\ put' = put /\ sending' = sending
  BY <1>1 DEF Cycle
<1>3. Done(s) /\ Talked(s)
  BY <1>0, EvaluatedDoes, EvaluatedTalks
<1> HIDE DEF s
<1>4. /\ c.hold = s.hold /\ c.token = Moved(token, s.hold) /\ DOMAIN c.up = H
      /\ \A h \in H : Leaves(c.hub[h], s.hub[h])
      /\ \A h \in H : c.up[h] = IF s.hub[h].credits = << >> THEN up[h] ELSE ProcessCredit(up[h], s.hub[h].credits[1])
  BY <1>3, WriteOutputsDoes DEF Done
<1> HIDE DEF c
<1>5. token' \in H /\ (token_hold' => token' = token)
  <2>1. Hubs \in Nat \ {0} /\ token \in 0 .. Hubs - 1
    BY <1>0 DEF HubAssumption, H
  <2>2. (token + Hubs - 1) % Hubs \in 0 .. Hubs - 1
    BY <2>1
  <2> QED
    BY <1>0, <1>2, <1>4, <2>2 DEF Moved, H
<1>6. ASSUME NEW h \in H
      PROVE  /\ LaneTypes(up'[h]) /\ Orderly(hub'[h], up'[h], sending'[h], put', h)
             /\ hub'[h].air = s.hub[h].air /\ hub'[h].trav = s.hub[h].trav /\ hub'[h].outq = s.hub[h].outq
  <2> DEFINE x == c.hub[h]
             r == s.hub[h]
             b == up[h]
             d == c.up[h]
             u == sending[h]
  <2>1. Leaves(x, r) /\ SendTypes(r) /\ LaneTypes(b) /\ Orderly(r, b, u, put, h)
    BY <1>3, <1>4 DEF Done, Talked, TalkInv
  <2>2. d = (IF r.credits = << >> THEN b ELSE ProcessCredit(b, r.credits[1])) /\ u \in [Vcs -> SUBSET Packets]
    BY <1>0, <1>4
  <2>3. hub'[h] = x /\ up'[h] = d /\ sending'[h] = u /\ put' = put
    BY <1>2
  <2> HIDE DEF x, r, b, d, u
  <2>4. Orderly(x, d, u, put, h) /\ LaneTypes(d)
    BY <2>1, <2>2, LeavesOrderly
  <2>5. x.air = r.air /\ x.trav = r.trav /\ x.outq = r.outq
    BY <2>1, Names DEF Leaves
  <2> QED
    BY <2>3, <2>4, <2>5 DEF r
<1>7. \A h \in H : /\ Sends(s.hub[h], h, s.hold)
                   /\ s.hub[h].air = << >> \/ (token = h /\ \E p \in Packets : s.hub[h].air = Entire(p))
  BY <1>3 DEF Talked
<1>8. ASSUME NEW h \in H PROVE Sends(hub[h], h, token_hold)'
  BY <1>2, <1>4, <1>5, <1>6, <1>7 DEF Sends
<1>9. token_hold' => hub'[token'].trav # << >>
  BY <1>0, <1>2, <1>3, <1>4, <1>5, <1>6 DEF Talked
<1>10. \A h \in H : hub'[h].air = << >> \/ \E p \in Packets : hub'[h].air = Entire(p)
  BY <1>6, <1>7
<1>11. \A h, k \in H : hub'[h].air # << >> /\ hub'[k].air # << >> => h = k
  BY <1>6, <1>7
<1>12. AwakeInv'
  BY <1>0, CycleAwake
<1>13. DOMAIN up' = H /\ sending' \in [H -> [Vcs -> SUBSET Packets]]
  BY <1>0, <1>2, <1>4
<1> QED
  BY <1>5, <1>6, <1>8, <1>9, <1>10, <1>11, <1>12, <1>13 DEF TalkInv

(* A credit from the router behind changes nothing of what the hub sends.      *)
LEMMA DrainTalks ==
  ASSUME TalkInv, NEW h \in H, NEW w \in Vcs, Drain(h, w)
  PROVE  TalkInv'
<1>0. AwakeInv /\ token \in H
  BY DEF TalkInv
<1> DEFINE r == hub[h]
           n == ProcessCredit(r.next, w)
           x == [r EXCEPT !.next = n, !.active = TRUE]
<1>1. /\ hub' = [hub EXCEPT ![h] = x] /\ token_hold' = token_hold /\ put' = put /\ sending' = sending
      /\ up' = up /\ token' = token
  BY DEF Drain, ReceiveCredit
<1>2. DOMAIN r = HubFields /\ DOMAIN hub = H
  BY <1>0 DEF AwakeInv
<1> HIDE DEF r, n
<1>3. \A f \in HubFields : f # "next" /\ f # "active" => x[f] = r[f]
  BY <1>2
<1> HIDE DEF x
<1>4. hub'[h] = x /\ \A k \in H : k # h => hub'[k] = hub[k]
  BY <1>1, <1>2
<1>5. /\ x.buf = r.buf /\ x.outq = r.outq /\ x.trav = r.trav /\ x.air = r.air /\ x.credits = r.credits
      /\ x.inq = r.inq
  BY <1>3, Names
<1>6. \A k \in H : hub'[k].air = hub[k].air /\ hub'[k].trav = hub[k].trav /\ hub'[k].outq = hub[k].outq
  BY <1>4, <1>5 DEF r
<1>7. \A k \in H : Orderly(hub'[k], up[k], sending[k], put, k)
  <2>1. \A k \in H : Orderly(hub[k], up[k], sending[k], put, k)
    BY DEF TalkInv
  <2>2. Orderly(x, up[h], sending[h], put, h)
    BY <1>5, <2>1, OrderlySame DEF r
  <2> QED
    BY <1>4, <2>1, <2>2
<1>8. \A k \in H : Sends(hub[k], k, token_hold)'
  <2>1. \A k \in H : Sends(hub[k], k, token_hold)
    BY DEF TalkInv
  <2> QED
    BY <1>1, <1>6, <2>1 DEF Sends
<1>9. AwakeInv'
  BY <1>0, DrainAwake
<1>10. token_hold' => hub'[token'].trav # << >>
  BY <1>0, <1>1, <1>6 DEF TalkInv
<1>11. \A k \in H : LaneTypes(up'[k]) /\ (hub'[k].air = << >> \/ \E p \in Packets : hub'[k].air = Entire(p))
  BY <1>1, <1>6 DEF TalkInv
<1>12. \A k, l \in H : hub'[k].air # << >> /\ hub'[l].air # << >> => k = l
  BY <1>6 DEF TalkInv
<1>13. token' \in H /\ sending' \in [H -> [Vcs -> SUBSET Packets]] /\ DOMAIN up' = H
  BY <1>1 DEF TalkInv
<1> QED
  BY <1>1, <1>7, <1>8, <1>9, <1>10, <1>11, <1>12, <1>13 DEF TalkInv

(* A flit comes: the VC was vacant, or carried what was sent of its packet.    *)
Prior(r, b, u, sent, h, v, p) ==
  /\ r.inq = << >> /\ sent[p] < Size[p] /\ From[p] = h
  /\ IF sent[p] = 0 THEN ~b.in_use[v] ELSE u[v] = {p}
(* So the VC of the hub holds just what was sent, and no other VC has any.   *)
LEMMA SendFinds ==
  ASSUME HubAssumption, NEW r, NEW b, NEW u \in [Vcs -> SUBSET Packets], NEW sent \in [Packets -> Nat],
         NEW h \in H, NEW v \in Vcs, NEW p \in Packets, SendTypes(r), LaneTypes(b), Orderly(r, b, u, sent, h),
         Prior(r, b, u, sent, h, v, p)
  PROVE  /\ r.buf[v] = Flits(p, sent[p])
         /\ \A w \in Vcs : w # v => p \notin u[w]
         /\ u[v] \subseteq {p}
         /\ sent[p] # 0 => b.in_use[v] /\ ~b.tail_sent[v]
<1>1. /\ \A w \in Vcs : Lane(r, b, u, sent, h, w)
      /\ Counted(r, b, v)
  BY DEF Orderly
<1>2. r.inq = << >> /\ ~Coming(r, v)
  BY DEF Prior, Coming
<1>3. CASE sent[p] = 0
  <2>1. ~b.in_use[v]
    BY <1>3 DEF Prior
  <2>2. b.vc_occupancy[v] = 0 /\ u[v] = {}
    BY <1>1, <2>1 DEF Lane
  <2>3. r.buf[v] = << >>
    <3>1. r.buf[v] \in Seq(FlitType) /\ r.credits \in Seq(Vcs)
      BY DEF SendTypes
    <3>2. Len(r.buf[v]) \in Nat /\ Count(r.credits, v) \in Nat /\ One(Coming(r, v)) = 0
      BY <1>2, <3>1, CountType, LenProperties DEF One
    <3>3. Len(r.buf[v]) = 0
      BY <1>1, <2>2, <3>2 DEF Counted
    <3> QED
      BY <3>1, <3>3, EmptySeq
  <2>4. \A w \in Vcs : p \notin u[w]
    <3>1. SUFFICES ASSUME NEW w \in Vcs, p \in u[w] PROVE FALSE
      OBVIOUS
    <3>2. sent[p] \in 1 .. Size[p] - 1
      BY <1>1, <3>1 DEF Lane
    <3> QED
      BY <1>3, <3>2
  <2>5. Flits(p, 0) = << >>
    BY FlitsAre
  <2> QED
    BY <1>3, <2>2, <2>3, <2>4, <2>5
<1>4. CASE sent[p] # 0
  <2>1. u[v] = {p} /\ p \in u[v]
    BY <1>4 DEF Prior
  <2>2. /\ b.in_use[v] /\ ~b.tail_sent[v] /\ Carries(r, v, p, sent[p])
        /\ \A w \in Vcs \ {v} : p \notin u[w]
    BY <1>1, <2>1 DEF Lane
  <2>3. r.buf[v] = Flits(p, sent[p])
    BY <1>2, <2>2 DEF Carries
  <2> QED
    BY <2>1, <2>2, <2>3
<1> QED
  BY <1>3, <1>4

(* A flit comes on VC v.                                                      *)
Arrived(r, x, b, c, v, p, k, sent) ==
  /\ k = sent[p] + 1
  /\ x.inq = <<[f |-> <<p, k>>, v |-> v]>> /\ x.buf = r.buf /\ x.outq = r.outq /\ x.credits = r.credits
  /\ c = SendingFlit(IF k = 1 THEN TakeBuffer(b, v) ELSE b, v, k = Size[p])
UnderWay(u, v, p, k) == [u EXCEPT ![v] = IF k = Size[p] THEN {} ELSE {p}]
Counter(sent, p, k) == [sent EXCEPT ![p] = k]
(* Its lane carries one flit more then, and the others what they did.          *)
LEMMA SendOrderly ==
  ASSUME HubAssumption, WaitForTail, NEW r, NEW x, NEW b, NEW c, NEW u \in [Vcs -> SUBSET Packets],
         NEW sent \in [Packets -> Nat], NEW h \in H, NEW v \in Vcs, NEW p \in Packets, NEW k,
         SendTypes(r), LaneTypes(b), Orderly(r, b, u, sent, h), Prior(r, b, u, sent, h, v, p),
         Arrived(r, x, b, c, v, p, k, sent)
  PROVE  LaneTypes(c) /\ Orderly(x, c, UnderWay(u, v, p, k), Counter(sent, p, k), h)
<1>0. /\ x.inq = <<[f |-> <<p, k>>, v |-> v]>> /\ x.buf = r.buf /\ x.outq = r.outq /\ x.credits = r.credits
      /\ c = SendingFlit(IF k = 1 THEN TakeBuffer(b, v) ELSE b, v, k = Size[p]) /\ k = sent[p] + 1
  BY DEF Arrived
<1> DEFINE u2 == [u EXCEPT ![v] = IF k = Size[p] THEN {} ELSE {p}]
           sent2 == [sent EXCEPT ![p] = k]
           a == IF k = 1 THEN TakeBuffer(b, v) ELSE b
           tail == k = Size[p]
<1>1. /\ r.buf[v] = Flits(p, sent[p]) /\ u[v] \subseteq {p}
      /\ \A w \in Vcs : w # v => p \notin u[w]
      /\ sent[p] # 0 => b.in_use[v] /\ ~b.tail_sent[v]
  BY SendFinds
<1>2. sent[p] \in Nat /\ k \in Nat \ {0} /\ k - 1 = sent[p] /\ Size[p] \in Nat \ {0} /\ k <= Size[p] /\ r.inq = << >> /\ From[p] = h
  <2>1. Size[p] \in Nat \ {0} /\ sent[p] \in Nat /\ sent[p] < Size[p] /\ r.inq = << >> /\ From[p] = h
    BY DEF HubAssumption, Prior
  <2> DEFINE n == sent[p]
             z == Size[p]
  <2>2. k = n + 1 /\ z \in Nat \ {0} /\ n \in Nat /\ n < z
    BY <1>0, <2>1
  <2> HIDE DEF n, z
  <2>3. n \in Nat /\ k \in Nat \ {0} /\ k - 1 = n /\ z \in Nat \ {0} /\ k <= z
    BY <2>2
  <2> QED
    BY <2>1, <2>3 DEF n, z
<1>3. /\ LaneTypes(a) /\ a.vc_occupancy = b.vc_occupancy /\ a.in_use[v] /\ ~a.tail_sent[v]
      /\ \A w \in Vcs : w # v => a.in_use[w] = b.in_use[w] /\ a.tail_sent[w] = b.tail_sent[w]
  <2>1. CASE k = 1
    <3> DEFINE t == TakeBuffer(b, v)
    <3>1. Taken(b, t, v)
      BY TakeLane
    <3>2. a = t
      BY <2>1
    <3>3. b.in_use \in [Vcs -> BOOLEAN] /\ b.tail_sent \in [Vcs -> BOOLEAN]
      BY DEF LaneTypes
    <3> HIDE DEF t, a
    <3> QED
      BY <3>1, <3>2, <3>3 DEF Taken
  <2>2. CASE k # 1
    <3>1. a = b /\ sent[p] # 0
      BY <1>2, <2>2
    <3> QED
      BY <1>1, <3>1
  <2> QED
    BY <2>1, <2>2
<1> HIDE DEF a
<1>4. Filled(a, c, v, tail)
  <2>1. tail \in BOOLEAN /\ c = SendingFlit(a, v, tail)
    BY <1>0 DEF a
  <2> HIDE DEF tail
  <2> QED
    BY <1>3, <2>1, SendingLane
<1>5. /\ LaneTypes(c) /\ c.in_use[v] /\ (tail => c.tail_sent[v]) /\ (~tail => ~c.tail_sent[v])
      /\ c.vc_occupancy[v] = b.vc_occupancy[v] + 1
      /\ \A w \in Vcs : w # v => /\ c.in_use[w] = b.in_use[w] /\ c.tail_sent[w] = b.tail_sent[w]
                                 /\ c.vc_occupancy[w] = b.vc_occupancy[w]
  <2>1. a.vc_occupancy \in [Vcs -> Int] /\ a.tail_sent \in [Vcs -> BOOLEAN]
    BY <1>3 DEF LaneTypes
  <2> HIDE DEF tail
  <2>2. /\ LaneTypes(c) /\ c.vc_occupancy = [a.vc_occupancy EXCEPT ![v] = a.vc_occupancy[v] + 1]
        /\ c.in_use = a.in_use
        /\ c.tail_sent = IF tail THEN [a.tail_sent EXCEPT ![v] = TRUE] ELSE a.tail_sent
    BY <1>4 DEF Filled
  <2> QED
    BY <1>3, <2>1, <2>2
<1>6. /\ u2[v] = (IF tail THEN {} ELSE {p}) /\ \A w \in Vcs : w # v => u2[w] = u[w]
      /\ sent2[p] = k /\ \A o \in Packets : o # p => sent2[o] = sent[o]
  OBVIOUS
<1>7. x.inq # << >> /\ x.inq[1].v = v /\ Coming(x, v) /\ \A w : ~Coming(r, w) /\ (w # v => ~Coming(x, w))
  BY <1>0, <1>2 DEF Coming
<1>8. Carries(x, v, p, k)
  BY <1>0, <1>1, <1>2 DEF Carries
<1> HIDE DEF u2, sent2
<1>9. ASSUME NEW w \in Vcs PROVE Counted(x, c, w)
  <2>1. Counted(r, b, w)
    BY DEF Orderly
  <2>2. CASE w # v
    <3>1. One(Coming(x, w)) = One(Coming(r, w))
      <4>1. ~Coming(x, w) /\ ~Coming(r, w)
        BY <1>7, <2>2
      <4> QED
        BY <4>1 DEF One
    <3>2. c.vc_occupancy[w] = b.vc_occupancy[w] /\ x.buf = r.buf /\ x.credits = r.credits
      BY <1>0, <1>5, <2>2
    <3> QED
      BY <2>1, <3>1, <3>2 DEF Counted
  <2>3. CASE w = v
    <3>1. One(Coming(x, v)) = 1 /\ One(Coming(r, v)) = 0
      BY <1>7 DEF One
    <3>2. Len(r.buf[v]) \in Nat /\ Count(r.credits, v) \in Nat
      <4>1. r.buf[v] \in Seq(FlitType) /\ r.credits \in Seq(Vcs)
        BY DEF SendTypes
      <4> QED
        BY <4>1, CountType, LenProperties
    <3> QED
      BY <1>0, <1>5, <2>1, <2>3, <3>1, <3>2 DEF Counted
  <2> QED
    BY <2>2, <2>3
<1>10. ASSUME NEW w \in Vcs PROVE Lane(x, c, u2, sent2, h, w)
  <2>1. Lane(r, b, u, sent, h, w)
    BY DEF Orderly
  <2>2. CASE w # v
    <3>1. Vacant(x, w) = Vacant(r, w) /\ \A o, m : Carries(r, w, o, m) => Carries(x, w, o, m)
      BY <1>0, <1>2, <1>7, <2>2 DEF Vacant, Carries
    <3>2. ASSUME NEW o \in u2[w]
          PROVE  /\ u2[w] = {o} /\ From[o] = h /\ c.in_use[w] /\ ~c.tail_sent[w]
                 /\ sent2[o] \in 1 .. Size[o] - 1 /\ Carries(x, w, o, sent2[o])
                 /\ \A y \in Vcs \ {w} : o \notin u2[y]
      <4>1. o \in u[w] /\ u2[w] = u[w]
        BY <1>6, <2>2, <3>2
      <4>2. /\ u[w] = {o} /\ From[o] = h /\ b.in_use[w] /\ ~b.tail_sent[w]
            /\ sent[o] \in 1 .. Size[o] - 1 /\ Carries(r, w, o, sent[o])
            /\ \A y \in Vcs \ {w} : o \notin u[y]
        BY <2>1, <4>1 DEF Lane
      <4>3. o # p /\ o \in Packets
        BY <1>1, <2>2, <4>1
      <4>4. sent2[o] = sent[o] /\ Carries(x, w, o, sent[o])
        BY <1>6, <3>1, <4>2, <4>3
      <4>5. \A y \in Vcs \ {w} : o \notin u2[y]
        BY <1>6, <4>2, <4>3
      <4> QED
        BY <1>5, <2>2, <4>1, <4>2, <4>4, <4>5
    <3>3. u2[w] = {} => \/ Vacant(x, w)
                        \/ c.in_use[w] /\ c.tail_sent[w] /\ \E o \in Packets : Carries(x, w, o, Size[o])
      BY <1>5, <1>6, <2>1, <2>2, <3>1 DEF Lane
    <3>4. ~c.in_use[w] => c.vc_occupancy[w] = 0 /\ u2[w] = {}
      BY <1>5, <1>6, <2>1, <2>2 DEF Lane
    <3> QED
      BY <3>2, <3>3, <3>4 DEF Lane
  <2>3. CASE w = v
    <3>1. ASSUME NEW o \in u2[v]
          PROVE  /\ u2[v] = {o} /\ From[o] = h /\ c.in_use[v] /\ ~c.tail_sent[v]
                 /\ sent2[o] \in 1 .. Size[o] - 1 /\ Carries(x, v, o, sent2[o])
                 /\ \A y \in Vcs \ {v} : o \notin u2[y]
      <4>1. o = p /\ u2[v] = {p} /\ ~tail
        BY <1>6, <3>1
      <4>2. k \in 1 .. Size[p] - 1
        BY <1>2, <4>1
      <4> QED
        BY <1>1, <1>2, <1>5, <1>6, <1>8, <4>1, <4>2
    <3>2. u2[v] = {} => c.in_use[v] /\ c.tail_sent[v] /\ Carries(x, v, p, Size[p])
      <4>1. u2[v] = {} => tail /\ k = Size[p]
        BY <1>6
      <4> QED
        BY <1>5, <1>8, <4>1
    <3> QED
      BY <1>5, <2>3, <3>1, <3>2 DEF Lane
  <2> QED
    BY <2>2, <2>3
<1>11. Ready(x)
  BY <1>0 DEF Ready, Orderly
<1>12. Orderly(x, c, u2, sent2, h)
  BY <1>9, <1>10, <1>11 DEF Orderly
<1> QED
  BY <1>5, <1>12 DEF u2, sent2, UnderWay, Counter

(* A packet of one hub is on no lane of another.                             *)
LEMMA OrderlyOther ==
  ASSUME NEW r, NEW b, NEW u \in [Vcs -> SUBSET Packets], NEW sent, NEW put2, NEW l, NEW p \in Packets,
         From[p] # l, \A o \in Packets : o # p => put2[o] = sent[o], Orderly(r, b, u, sent, l)
  PROVE  Orderly(r, b, u, put2, l)
<1>1. ASSUME NEW w \in Vcs PROVE Lane(r, b, u, put2, l, w)
  <2>1. Lane(r, b, u, sent, l, w)
    BY DEF Orderly
  <2>2. ASSUME NEW o \in u[w]
        PROVE  /\ u[w] = {o} /\ From[o] = l /\ b.in_use[w] /\ ~b.tail_sent[w]
               /\ put2[o] \in 1 .. Size[o] - 1 /\ Carries(r, w, o, put2[o])
               /\ \A y \in Vcs \ {w} : o \notin u[y]
    <3>1. /\ u[w] = {o} /\ From[o] = l /\ b.in_use[w] /\ ~b.tail_sent[w]
          /\ sent[o] \in 1 .. Size[o] - 1 /\ Carries(r, w, o, sent[o])
          /\ \A y \in Vcs \ {w} : o \notin u[y]
      BY <2>1 DEF Lane
    <3>2. put2[o] = sent[o]
      BY <3>1
    <3> QED
      BY <3>1, <3>2
  <2> QED
    BY <2>1, <2>2 DEF Lane
<1> QED
  BY <1>1 DEF Orderly

(* The router sends a flit to one hub: its lane has one more.                  *)
LEMMA SendTalks ==
  ASSUME HubAssumption, WaitForTail, TalkInv, NEW h \in H, NEW v \in Vcs, NEW p \in Packets, Send(h, v, p)
  PROVE  TalkInv'
<1>0. AwakeInv /\ token \in H /\ sending \in [H -> [Vcs -> SUBSET Packets]] /\ DOMAIN up = H
  BY DEF TalkInv
<1>1. put \in [Packets -> Nat] /\ DOMAIN hub = H /\ DOMAIN hub[h] = HubFields /\ SendTypes(hub[h])
  BY <1>0 DEF AwakeInv
<1> DEFINE k == put[p] + 1
           r == hub[h]
           b == up[h]
           i == <<[f |-> <<p, k>>, v |-> v]>>
           x == [r EXCEPT !.inq = i]
           c == SendingFlit(IF k = 1 THEN TakeBuffer(b, v) ELSE b, v, k = Size[p])
           s == IF k = Size[p] THEN {} ELSE {p}
           u == sending[h]
           u2 == [u EXCEPT ![v] = s]
           put2 == [put EXCEPT ![p] = k]
<1>2. /\ hub' = [hub EXCEPT ![h] = x] /\ up' = [up EXCEPT ![h] = c]
      /\ sending' = [sending EXCEPT ![h][v] = s] /\ put' = put2
      /\ token' = token /\ token_hold' = token_hold
  BY DEF Send
<1>3. Prior(r, b, u, put, h, v, p)
  BY DEF Prior, Send, MaySend, IsAvailableFor
<1>4. u \in [Vcs -> SUBSET Packets] /\ LaneTypes(b) /\ Orderly(r, b, u, put, h)
  BY DEF TalkInv
<1>5. x.inq = i /\ \A f \in HubFields : f # "inq" => x[f] = r[f]
  BY <1>1, Names
<1>6. x.buf = r.buf /\ x.outq = r.outq /\ x.credits = r.credits /\ x.trav = r.trav /\ x.air = r.air
  <2> HIDE DEF x, r
  <2> QED
    BY <1>5, Names
<1>7. LaneTypes(c) /\ Orderly(x, c, u2, put2, h)
  <2>1. SendTypes(r)
    BY <1>1
  <2>2. Arrived(r, x, b, c, v, p, k, put)
    BY <1>5, <1>6 DEF Arrived
  <2>3. u2 = UnderWay(u, v, p, k) /\ put2 = Counter(put, p, k)
    BY DEF UnderWay, Counter
  <2> HIDE DEF k, r, b, x, c, u, i, u2, put2, s
  <2>4. LaneTypes(c) /\ Orderly(x, c, UnderWay(u, v, p, k), Counter(put, p, k), h)
    BY <1>1, <1>3, <1>4, <2>1, <2>2, SendOrderly
  <2> QED
    BY <2>3, <2>4
<1>8. /\ hub'[h] = x /\ up'[h] = c /\ sending'[h] = u2
      /\ \A l \in H : l # h => hub'[l] = hub[l] /\ up'[l] = up[l] /\ sending'[l] = sending[l]
  BY <1>0, <1>1, <1>2
<1>9. u2 \in [Vcs -> SUBSET Packets]
  BY <1>4
<1>10. put2[p] = k /\ \A o \in Packets : o # p => put2[o] = put[o]
  BY <1>1
<1>11. From[p] = h
  BY <1>3 DEF Prior
<1>12. AwakeInv'
  BY <1>0, SendAwake
<1> HIDE DEF x, c, u2, put2, s, k, i
<1>13. \A l \in H : hub'[l].air = hub[l].air /\ hub'[l].trav = hub[l].trav /\ hub'[l].outq = hub[l].outq
  BY <1>6, <1>8
<1>14. ASSUME NEW l \in H PROVE LaneTypes(up'[l]) /\ Orderly(hub'[l], up'[l], sending'[l], put', l)
  <2>1. CASE l = h
    BY <1>2, <1>7, <1>8, <2>1
  <2>2. CASE l # h
    <3>1. LaneTypes(up[l]) /\ Orderly(hub[l], up[l], sending[l], put, l) /\ sending[l] \in [Vcs -> SUBSET Packets]
      BY <1>0 DEF TalkInv
    <3>2. Orderly(hub[l], up[l], sending[l], put2, l)
      BY <1>10, <1>11, <2>2, <3>1, OrderlyOther
    <3> QED
      BY <1>2, <1>8, <2>2, <3>1, <3>2
  <2> QED
    BY <2>1, <2>2
<1>15. \A l \in H : Sends(hub[l], l, token_hold)'
  <2>1. \A l \in H : Sends(hub[l], l, token_hold)
    BY DEF TalkInv
  <2> QED
    BY <1>2, <1>13, <2>1 DEF Sends
<1>16. token_hold' => hub'[token'].trav # << >>
  BY <1>0, <1>2, <1>13 DEF TalkInv
<1>17. \A l \in H : hub'[l].air = << >> \/ \E o \in Packets : hub'[l].air = Entire(o)
  BY <1>13 DEF TalkInv
<1>18. \A l, m \in H : hub'[l].air # << >> /\ hub'[m].air # << >> => l = m
  BY <1>13 DEF TalkInv
<1>19. token' \in H /\ sending' \in [H -> [Vcs -> SUBSET Packets]] /\ DOMAIN up' = H
  <2>1. \A l \in H : sending'[l] \in [Vcs -> SUBSET Packets]
    BY <1>0, <1>8, <1>9
  <2>2. DOMAIN sending' = H /\ sending' = [l \in H |-> sending'[l]]
    BY <1>0, <1>2
  <2> QED
    BY <1>0, <1>2, <2>1, <2>2
<1> QED
  BY <1>12, <1>14, <1>15, <1>16, <1>17, <1>18, <1>19 DEF TalkInv

(* All of it together: what is inductive of the talk among the hubs.           *)
LEMMA AlwaysTalks ==
  ASSUME WaitForTail
  PROVE  (Init => TalkInv) /\ (TalkInv /\ [Next]_vars => TalkInv')
<1>1. HubAssumption
  BY HubAssumption
<1>2. Init => TalkInv
  BY <1>1, TalkFirst
<1>3. ASSUME TalkInv, [Next]_vars PROVE TalkInv'
  <2>1. CASE Cycle
    BY <1>1, <1>3, <2>1, CycleTalks
  <2>2. ASSUME NEW h \in H, NEW v \in Vcs, NEW p \in Packets, Send(h, v, p) PROVE TalkInv'
    BY <1>1, <1>3, <2>2, SendTalks
  <2>3. ASSUME NEW h \in H, NEW w \in Vcs, Drain(h, w) PROVE TalkInv'
    BY <1>3, <2>3, DrainTalks
  <2>4. CASE UNCHANGED vars
    BY <1>3, <2>4 DEF TalkInv, AwakeInv, Sends, vars
  <2> QED
    BY <1>3, <2>1, <2>2, <2>3, <2>4 DEF Next
<1> QED
  BY <1>2, <1>3

(* A hub that is about to send has all of the packet it queued first.           *)
AtTurn(r) ==
  LET f == r.outq[1]  v == r.trav[1].v
  IN  r.outq # << >> /\ f \in Packets \X Vcs /\ f[2] = v /\ r.buf[v] = Entire(f[1])
(* A turn is for a packet that is all there.                                 *)
LEMMA TurnWhole ==
  ASSUME TalkInv, NEW h \in H, hub[h].trav # << >>
  PROVE  AtTurn(hub[h])
<1> DEFINE r == hub[h]
           f == r.outq[1]
<1>1. r.outq # << >> /\ r.outq \in Seq(Packets \X Vcs) /\ f[2] = r.trav[1].v
  BY DEF TalkInv, Sends, AwakeInv, SendTypes
<1>2. Ready(r)
  BY DEF TalkInv, Orderly
<1> HIDE DEF r
<1>3. 1 \in DOMAIN r.outq /\ f \in Packets \X Vcs
  BY <1>1
<1>4. r.buf[f[2]] = Entire(f[1])
  BY <1>2, <1>3 DEF Ready
<1>5. AtTurn(r)
  BY <1>1, <1>3, <1>4 DEF AtTurn
<1> QED
  BY <1>5 DEF r

(* A packet in full is not nothing, and its flits tell it.                      *)
LEMMA EntireTells ==
  ASSUME HubAssumption, NEW p \in Packets
  PROVE  /\ Entire(p) # << >> /\ Entire(p)[1] = <<p, 1>>
         /\ Entire(p) = [k \in 1 .. Size[p] |-> <<p, k>>]
<1>1. Size[p] \in Nat \ {0}
  BY DEF HubAssumption
<1>2. 1 \in 1 .. Size[p]
  BY <1>1
<1> QED
  BY <1>1, <1>2, FlitsAre DEF Entire, Flits

(* With wait_for_tail_credit one hub at a time uses the air, the one with the   *)
(* token: hub.cpp moves the token on only when token_hold is false after all    *)
(* hubs were evaluated, and sets it only for the hub with the token.            *)
THEOREM OneTalkerStays == WaitForTail => (Spec => []OneTalker)
<1> SUFFICES ASSUME WaitForTail PROVE Spec => []OneTalker
  OBVIOUS
<1>1. Init => TalkInv
  BY AlwaysTalks
<1>2. TalkInv /\ [Next]_vars => TalkInv'
  BY AlwaysTalks
<1>3. TalkInv => OneTalker
  BY DEF TalkInv, OneTalker, Sends
<1> QED
  BY <1>1, <1>2, <1>3, PTL DEF Spec

(* With it the hub on its turn finds its packet in the VC: what hub.cpp asserts  *)
(* on entry of the traversal, and the default of the option breaks.             *)
THEOREM HasPacketStays == WaitForTail => (Spec => []HasPacket)
<1> SUFFICES ASSUME WaitForTail PROVE Spec => []HasPacket
  OBVIOUS
<1>1. Init => TalkInv
  BY AlwaysTalks
<1>2. TalkInv /\ [Next]_vars => TalkInv'
  BY AlwaysTalks
<1>3. TalkInv => HasPacket
  <2>1. SUFFICES ASSUME TalkInv, NEW h \in H, hub[h].trav # << >>
                 PROVE  hub[h].buf[hub[h].trav[1].v] # << >>
    BY DEF HasPacket
  <2>2. AtTurn(hub[h])
    BY <2>1, TurnWhole
  <2>3. hub[h].outq[1][1] \in Packets
    BY <2>2 DEF AtTurn
  <2>4. HubAssumption
    BY HubAssumption
  <2> QED
    BY <2>2, <2>3, <2>4, EntireTells DEF AtTurn
<1> QED
  BY <1>1, <1>2, <1>3, PTL DEF Spec

(* With it a hub sends all of the packet it queued first and nothing else: what  *)
(* is on the air is one packet from its head to its tail, and the hub on its    *)
(* turn has the head of the packet of the first entry of its queue in the VC.   *)
THEOREM WholePacketsStay == WaitForTail => (Spec => []WholePackets)
<1> SUFFICES ASSUME WaitForTail PROVE Spec => []WholePackets
  OBVIOUS
<1>0. HubAssumption
  BY HubAssumption
<1>1. Init => TalkInv
  BY AlwaysTalks
<1>2. TalkInv /\ [Next]_vars => TalkInv'
  BY AlwaysTalks
<1>3. TalkInv => WholePackets
  <2>1. ASSUME TalkInv, NEW h \in H, hub[h].air # << >>
        PROVE  hub[h].air = [k \in 1 .. Size[hub[h].air[1][1]] |-> <<hub[h].air[1][1], k>>]
    <3>1. PICK p \in Packets : hub[h].air = Entire(p)
      BY <2>1 DEF TalkInv
    <3> DEFINE a == hub[h].air
    <3> HIDE DEF a
    <3>2. a = Entire(p)
      BY <3>1 DEF a
    <3>3. a[1][1] = p
      BY <1>0, <3>2, EntireTells
    <3>4. a = [k \in 1 .. Size[a[1][1]] |-> <<a[1][1], k>>]
      BY <1>0, <3>2, <3>3, EntireTells
    <3> QED
      BY <3>4 DEF a
  <2>2. ASSUME TalkInv, NEW h \in H, hub[h].trav # << >>
        PROVE  LET q == hub[h].outq  b == hub[h].buf[hub[h].trav[1].v]
               IN  q # << >> /\ q[1][2] = hub[h].trav[1].v /\ b # << >> /\ b[1] = <<q[1][1], 1>>
    <3>1. AtTurn(hub[h])
      BY <2>2, TurnWhole
    <3>2. hub[h].outq[1][1] \in Packets
      BY <3>1 DEF AtTurn
    <3> QED
      BY <1>0, <3>1, <3>2, EntireTells DEF AtTurn
  <2> QED
    BY <2>1, <2>2 DEF WholePackets
<1> QED
  BY <1>1, <1>2, <1>3, PTL DEF Spec

(* Both: hubs talk in turn, each all of what it is to say; hub.cpp gives up     *)
(* token_hold at a tail, so the one rests on the other.                        *)
THEOREM TalkStaysInTurn == WaitForTail => (Spec => []TalkInTurn)
<1> SUFFICES ASSUME WaitForTail PROVE Spec => []TalkInTurn
  OBVIOUS
<1>1. Spec => []OneTalker
  BY OneTalkerStays
<1>2. Spec => []WholePackets
  BY WholePacketsStay
<1>3. OneTalker /\ WholePackets => TalkInTurn
  BY DEF TalkInTurn
<1> QED
  BY <1>1, <1>2, <1>3, PTL

(* The states on the way of a hub that hears q.                              *)
Hearing(g, s, h, q, n) == g[0] = s /\ \A k \in 1 .. n : g[k] = Hear(g[k - 1], h, q[k])

(* There are such.                                                           *)
LEMMA HeardChain ==
  ASSUME NEW s, NEW h, NEW n \in Nat, NEW q, DOMAIN q = 1 .. n
  PROVE  \E g : Hearing(g, s, h, q, n) /\ FromAir(s, h, q) = g[n]
<1> DEFINE D == DOMAIN q
           R(g) == g = [z \in SUBSET D |-> IF z = {} THEN s
                          ELSE IF NotForHub(g[z \ {Max(z)}], h, q[Max(z)])
                               THEN Drop(g[z \ {Max(z)}], h, q[Max(z)])
                               ELSE [g[z \ {Max(z)}] EXCEPT !.hub[h].recv = Append(@, q[Max(z)])]]
           g == CHOOSE g : R(g)
           f == [k \in 0 .. n |-> g[1 .. k]]
<1>1. FromAir(s, h, q) = g[D]
  BY DEF FromAir, FoldLeft, MapThenFoldSet
<1>2. R(g)
  <2>1. IsFiniteSet(D) /\ Ints(D)
    BY FS_Interval DEF Ints
  <2> DEFINE c == [what |-> "hear", h |-> h]
  <2> HIDE DEF D, c
  <2>2. PICK e : Unfolds(e, D, c, s, q)
    BY <2>1, TurnsUnfold
  <2>3. \A t, x : Turn(c, t, x) = IF NotForHub(t, h, x) THEN Drop(t, h, x)
                                  ELSE [t EXCEPT !.hub[h].recv = Append(@, x)]
    BY DEF Turn, Hear, c
  <2>4. R(e)
    BY <2>2, <2>3, Zenon DEF Unfolds
  <2> HIDE DEF R
  <2> QED
    BY <2>4
<1> HIDE DEF g
<1>3. \A z \in SUBSET D : z # {} => g[z] = Hear(g[z \ {Max(z)}], h, q[Max(z)])
  BY <1>2, Zenon DEF Hear
<1>4. g[{}] = s
  BY <1>2
<1>5. f[0] = s
  <2>1. 1 .. 0 = {}
    OBVIOUS
  <2> QED
    BY <1>4, <2>1
<1>6. ASSUME NEW k \in 1 .. n PROVE f[k] = Hear(f[k - 1], h, q[k])
  <2>1. g[1 .. k] = Hear(g[1 .. k - 1], h, q[k])
    BY <1>3, TopIndex
  <2>2. f[k] = g[1 .. k] /\ f[k - 1] = g[1 .. k - 1]
    OBVIOUS
  <2> QED
    BY <2>1, <2>2
<1>7. f[n] = g[D]
  OBVIOUS
<1> QED
  BY <1>1, <1>5, <1>6, <1>7 DEF Hearing

(* Two sequences one after the other, place by place.                        *)
LEMMA ConcatAt ==
  ASSUME NEW S, NEW a \in Seq(S), NEW b \in Seq(S)
  PROVE  /\ a \o b \in Seq(S) /\ Len(a \o b) = Len(a) + Len(b)
         /\ \A k \in 1 .. Len(a) : (a \o b)[k] = a[k]
         /\ \A k \in 1 .. Len(b) : (a \o b)[Len(a) + k] = b[k]
  BY ConcatProperties

(* One more behind a sequence.                                               *)
LEMMA AppendAt ==
  ASSUME NEW S, NEW a \in Seq(S), NEW f \in S
  PROVE  /\ Append(a, f) \in Seq(S) /\ Len(Append(a, f)) = Len(a) + 1
         /\ \A k \in 1 .. Len(a) : Append(a, f)[k] = a[k]
         /\ Append(a, f)[Len(a) + 1] = f
  BY AppendProperties

(* It does not matter which is put behind first.                             *)
LEMMA AppendBehind ==
  ASSUME NEW S, NEW a \in Seq(S), NEW b \in Seq(S), NEW f \in S
  PROVE  Append(a \o b, f) = a \o Append(b, f)
<1>1. PICK c : c = a \o b
  OBVIOUS
<1>2. PICK o : o = <<f>>
  OBVIOUS
<1>3. c \in Seq(S) /\ o \in Seq(S)
  BY <1>1, <1>2, ConcatAt
<1>4. Append(c, f) = c \o o /\ Append(b, f) = b \o o
  BY <1>2, <1>3, AppendIsConcat
<1>5. c \o o = a \o (b \o o)
  BY <1>1, <1>3, ConcatAssociative
<1> QED
  BY <1>1, <1>4, <1>5

(* One more flit of p behind a.                                              *)
LEMMA FlitsFollow ==
  ASSUME NEW a \in Seq(FlitType), NEW p \in Packets, NEW n \in Nat \ {0}
  PROVE  Append(a \o Flits(p, n - 1), <<p, n>>) = a \o Flits(p, n)
<1>1. n - 1 \in Nat
  OBVIOUS
<1>2. PICK b : b = Flits(p, n - 1)
  OBVIOUS
<1>3. PICK f : f = <<p, n>>
  OBVIOUS
<1>4. b \in Seq(FlitType) /\ f \in FlitType /\ Append(b, f) = Flits(p, n)
  BY <1>1, <1>2, <1>3, FlitsAre, FlitsGrow DEF FlitType
<1>5. Append(a \o b, f) = a \o Append(b, f)
  <2>1. b \in Seq(FlitType) /\ f \in FlitType
    BY <1>4
  <2>2. PICK T : T = FlitType
    OBVIOUS
  <2>3. a \in Seq(T) /\ b \in Seq(T) /\ f \in T
    BY <2>1, <2>2
  <2> QED
    BY <2>3, AppendBehind
<1> QED
  BY <1>2, <1>3, <1>4, <1>5

(* What a hub dropped was not for it.                                        *)
DropsOthers(r, h) == \A o \in r.drop : o \in Packets /\ h \notin To[o]

(* What it has heard of packet p after k flits.                              *)
Heard(s, t, h, p, k) ==
  LET r == s.hub[h]
      x == t.hub[h]
  IN  /\ Within(s, t, h, {"recv", "drop"}) /\ t.hold = s.hold /\ DropsOthers(x, h)
      /\ x.recv = IF h \in To[p] THEN r.recv \o Flits(p, k) ELSE r.recv
      /\ h \notin To[p] /\ p \notin Multi /\ 1 <= k /\ k < Size[p] => p \in x.drop
      /\ t.ready \in [H -> Int] /\ \A j \in H \ {h} : t.ready[j] = s.ready[j]
      /\ t.ready[h] = IF h \notin To[p] /\ p \in Multi THEN s.ready[h] + k ELSE s.ready[h]

(* One flit more.                                                            *)
LEMMA HearMore ==
  ASSUME HubAssumption, NEW s, Shaped(s), NEW h \in H, NEW p \in Packets, NEW k \in 1 .. Size[p], NEW t,
         s.hub[h].recv \in Seq(FlitType), s.ready \in [H -> Int], Heard(s, t, h, p, k - 1)
  PROVE  Heard(s, Hear(t, h, <<p, k>>), h, p, k)
<1> DEFINE f == <<p, k>>
           u == Hear(t, h, f)
           r == s.hub[h]
           x == t.hub[h]
           y == u.hub[h]
<1> SUFFICES Heard(s, u, h, p, k)
  OBVIOUS
<1>1. /\ Size[p] \in Nat /\ k \in Nat \ {0} /\ k - 1 \in Nat /\ k - 1 < Size[p]
      /\ f[1] = p /\ (IsHead(f) <=> k = 1) /\ (IsTail(f) <=> k = Size[p])
  BY DEF HubAssumption, IsHead, IsTail
<1>2. Shaped(t) /\ Within(s, t, h, {"recv", "drop"}) /\ DropsOthers(x, h)
  BY DEF Heard, Within
<1> HIDE DEF f
<1>3. Within(t, u, h, {"recv", "drop"}) /\ u.hold = t.hold /\ KeptOrDropped(t, u, h, f)
  BY <1>2, HearDoes
<1> HIDE DEF u
<1>4. Within(s, u, h, {"recv", "drop"}) /\ u.hold = s.hold
  BY <1>2, <1>3 DEF Within, Heard
<1>5. t.ready \in [H -> Int]
  BY DEF Heard
<1>6. CASE h \in To[p]
  <2>1. ~NotForHub(t, h, f)
    BY <1>1, <1>2, <1>6 DEF NotForHub, DropsOthers
  <2>2. Append(r.recv \o Flits(p, k - 1), f) = r.recv \o Flits(p, k)
    <3> DEFINE a == r.recv
    <3>1. a \in Seq(FlitType)
      OBVIOUS
    <3> HIDE DEF a
    <3>2. Append(a \o Flits(p, k - 1), <<p, k>>) = a \o Flits(p, k)
      BY <1>1, <3>1, FlitsFollow
    <3> QED
      BY <3>2 DEF f, a
  <2>3. y.recv = Append(x.recv, f) /\ y.drop = x.drop /\ u.ready = t.ready
    BY <1>3, <2>1 DEF KeptOrDropped
  <2>4. x.recv = r.recv \o Flits(p, k - 1)
    BY <1>6 DEF Heard
  <2>5. y.recv = r.recv \o Flits(p, k) /\ DropsOthers(y, h)
    BY <1>2, <2>2, <2>3, <2>4 DEF DropsOthers
  <2>6. /\ u.ready \in [H -> Int] /\ u.ready[h] = s.ready[h]
        /\ \A j \in H \ {h} : u.ready[j] = s.ready[j]
    BY <1>6, <2>3 DEF Heard
  <2> QED
    BY <1>4, <1>6, <2>5, <2>6 DEF Heard
<1>7. CASE h \notin To[p] /\ p \in Multi
  <2>1. NotForHub(t, h, f)
    BY <1>1, <1>7 DEF NotForHub
  <2>2. y.recv = x.recv /\ y.drop = x.drop /\ u.ready = [t.ready EXCEPT ![h] = t.ready[h] + 1]
    BY <1>1, <1>3, <1>7, <2>1 DEF KeptOrDropped
  <2>3. /\ u.ready \in [H -> Int] /\ u.ready[h] = s.ready[h] + k
        /\ \A j \in H \ {h} : u.ready[j] = s.ready[j]
    BY <1>1, <1>5, <1>7, <2>2 DEF Heard
  <2>4. DropsOthers(y, h) /\ y.recv = r.recv
    BY <1>2, <1>7, <2>2 DEF DropsOthers, Heard
  <2> QED
    BY <1>4, <1>7, <2>3, <2>4 DEF Heard
<1>8. CASE h \notin To[p] /\ p \notin Multi
  <2>1. NotForHub(t, h, f)
    <3>1. k # 1 => p \in x.drop
      BY <1>1, <1>8 DEF Heard
    <3> QED
      BY <1>1, <1>8, <3>1 DEF NotForHub
  <2>2. y.recv = x.recv /\ u.ready = t.ready
    BY <1>1, <1>3, <1>8, <2>1 DEF KeptOrDropped
  <2>3. /\ k = 1 => y.drop = x.drop \cup {p}
        /\ k # 1 /\ k = Size[p] => y.drop = x.drop \ {p}
        /\ k # 1 /\ k # Size[p] => y.drop = x.drop
    BY <1>1, <1>3, <1>8, <2>1 DEF KeptOrDropped
  <2>4. DropsOthers(y, h)
    BY <1>2, <1>8, <2>3 DEF DropsOthers
  <2>5. k < Size[p] => p \in y.drop
    <3>1. k # 1 => p \in x.drop
      BY <1>1, <1>8 DEF Heard
    <3> QED
      BY <1>1, <2>3, <3>1
  <2>6. /\ u.ready \in [H -> Int] /\ u.ready[h] = s.ready[h] /\ y.recv = r.recv
        /\ \A j \in H \ {h} : u.ready[j] = s.ready[j]
    BY <1>8, <2>2 DEF Heard
  <2> QED
    BY <1>4, <1>8, <2>4, <2>5, <2>6 DEF Heard
<1> QED
  BY <1>6, <1>7, <1>8

(* All of a packet.                                                          *)
LEMMA FromAirEntire ==
  ASSUME HubAssumption, NEW s, Shaped(s), NEW h \in H, NEW p \in Packets, DropsOthers(s.hub[h], h),
         s.hub[h].recv \in Seq(FlitType), s.ready \in [H -> Int]
  PROVE  Heard(s, FromAir(s, h, Entire(p)), h, p, Size[p])
<1> DEFINE n == Size[p]
           q == Entire(p)
<1>1. n \in Nat \ {0} /\ DOMAIN q = 1 .. n /\ \A k \in 1 .. n : q[k] = <<p, k>>
  <2>1. n \in Nat \ {0}
    BY DEF HubAssumption
  <2> QED
    BY <2>1, FlitsAre DEF Entire
<1> HIDE DEF n, q
<1>2. PICK g : Hearing(g, s, h, q, n) /\ FromAir(s, h, q) = g[n]
  BY <1>1, HeardChain
<1> DEFINE S == {k \in 0 .. n : Heard(s, g[k], h, p, k)}
<1>3. 0 \in S
  <2>1. Flits(p, 0) = << >>
    BY FlitsAre
  <2>2. s.hub[h].recv \o << >> = s.hub[h].recv
    OBVIOUS
  <2>3. Within(s, s, h, {"recv", "drop"})
    BY WithinNone
  <2>6. h \notin To[p] /\ p \in Multi => s.ready[h] = s.ready[h] + 0
    OBVIOUS
  <2> DEFINE r == s.hub[h]
  <2>7. r.recv = IF h \in To[p] THEN r.recv \o Flits(p, 0) ELSE r.recv
    BY <2>1, <2>2
  <2> HIDE DEF r
  <2>4. Heard(s, s, h, p, 0)
    BY <2>3, <2>6, <2>7 DEF Heard, r
  <2>5. g[0] = s /\ 0 \in 0 .. n
    BY <1>1, <1>2 DEF Hearing
  <2> QED
    BY <2>4, <2>5
<1>4. ASSUME NEW k \in 1 .. n, k - 1 \in S PROVE k \in S
  <2>1. g[k] = Hear(g[k - 1], h, <<p, k>>)
    BY <1>1, <1>2 DEF Hearing
  <2>2. Heard(s, Hear(g[k - 1], h, <<p, k>>), h, p, k)
    BY <1>4, HearMore DEF n
  <2>3. k \in 0 .. n
    BY <1>1
  <2> QED
    BY <2>1, <2>2, <2>3
<1>5. n \in S
  <2> HIDE DEF S
  <2> QED
    BY <1>1, <1>3, <1>4, Climb DEF Climbs
<1> QED
  BY <1>2, <1>5 DEF n, q

(* Packets in a row, the last one to its tail.                               *)
NextOf(f) == <<f[1], f[2] + 1>>
Strung(q) ==
  \A k \in 1 .. Len(q) : IF IsTail(q[k]) THEN k < Len(q) => IsHead(q[k + 1])
                         ELSE k < Len(q) /\ q[k + 1] = NextOf(q[k])

(* One packet more.                                                          *)
LEMMA StrungMore ==
  ASSUME HubAssumption, NEW a \in Seq(FlitType), Strung(a), NEW p \in Packets
  PROVE  a \o Entire(p) \in Seq(FlitType) /\ Strung(a \o Entire(p))
<1>1. PICK e : e = Entire(p)
  OBVIOUS
<1>2. PICK x : x = a \o e
  OBVIOUS
<1>3. PICK n : n = Size[p]
  OBVIOUS
<1>4. n \in Nat \ {0}
  BY <1>3 DEF HubAssumption
<1>5. e \in Seq(FlitType) /\ Len(e) = n /\ \A k \in 1 .. n : e[k] = <<p, k>>
  BY <1>1, <1>3, <1>4, FlitsAre DEF Entire
<1>6. /\ x \in Seq(FlitType) /\ Len(x) = Len(a) + Len(e)
      /\ \A k \in 1 .. Len(a) : x[k] = a[k]
      /\ \A k \in 1 .. Len(e) : x[Len(a) + k] = e[k]
  <2>1. e \in Seq(FlitType)
    BY <1>5
  <2> QED
    BY <1>2, <2>1, ConcatAt
<1>7. PICK m \in Nat : m = Len(a)
  OBVIOUS
<1>8. Len(x) = m + n /\ (\A k \in 1 .. m : x[k] = a[k]) /\ \A k \in 1 .. n : x[m + k] = <<p, k>>
  BY <1>5, <1>6, <1>7
<1>9. ASSUME NEW k \in 1 .. m + n
      PROVE  IF IsTail(x[k]) THEN k < m + n => IsHead(x[k + 1])
             ELSE k < m + n /\ x[k + 1] = NextOf(x[k])
  <2>1. CASE k \in 1 .. m
    <3>1. x[k] = a[k] /\ k \in 1 .. Len(a)
      BY <1>7, <1>8, <2>1
    <3>2. CASE k < m
      <4>1. x[k + 1] = a[k + 1] /\ k < Len(a) /\ k < m + n
        BY <1>4, <1>7, <1>8, <2>1, <3>2
      <4> QED
        BY <3>1, <4>1 DEF Strung
    <3>3. CASE k = m
      <4>1. IsTail(x[k])
        BY <1>7, <3>1, <3>3 DEF Strung
      <4>2. 1 \in 1 .. n /\ x[k + 1] = <<p, 1>>
        BY <1>4, <1>8, <3>3
      <4> QED
        BY <4>1, <4>2 DEF IsHead
    <3> QED
      BY <2>1, <3>2, <3>3
  <2>2. CASE k \notin 1 .. m
    <3>1. PICK j \in 1 .. n : k = m + j
      <4>1. k - m \in 1 .. n /\ k = m + (k - m)
        BY <1>4, <2>2
      <4> QED
        BY <4>1
    <3>2. x[k] = <<p, j>> /\ (IsTail(x[k]) <=> j = n)
      BY <1>3, <1>8, <3>1 DEF IsTail
    <3>3. j # n => k < m + n /\ x[k + 1] = <<p, j + 1>>
      <4>1. j # n => j + 1 \in 1 .. n /\ k + 1 = m + (j + 1)
        BY <1>4, <3>1
      <4>2. j # n => x[m + (j + 1)] = <<p, j + 1>>
        BY <1>8, <4>1
      <4>3. j # n => k < m + n
        BY <1>4, <3>1
      <4> QED
        BY <4>1, <4>2, <4>3
    <3>4. j = n => ~(k < m + n)
      BY <3>1
    <3> QED
      BY <3>2, <3>3, <3>4 DEF NextOf
  <2> QED
    BY <2>1, <2>2
<1>10. x \in Seq(FlitType) /\ Strung(x)
  BY <1>6, <1>8, <1>9 DEF Strung
<1> QED
  BY <1>1, <1>2, <1>10

(* The first flit goes.                                                      *)
LEMMA StrungTail ==
  ASSUME NEW a \in Seq(FlitType), Strung(a), a # << >>
  PROVE  /\ Tail(a) \in Seq(FlitType) /\ Strung(Tail(a)) /\ a[1] \in FlitType
         /\ IsTail(a[1]) => Tail(a) = << >> \/ IsHead(Tail(a)[1])
         /\ ~IsTail(a[1]) => Tail(a) # << >> /\ Tail(a)[1] = NextOf(a[1])
<1>1. PICK x : x = Tail(a)
  OBVIOUS
<1>2. PICK m \in Nat \ {0} : m = Len(a)
  BY EmptySeq
<1>3. x \in Seq(FlitType) /\ Len(x) = m - 1 /\ (\A k \in 1 .. m - 1 : x[k] = a[k + 1]) /\ a[1] \in FlitType
  BY <1>1, <1>2
<1>4. x = << >> <=> m = 1
  BY <1>2, <1>3, EmptySeq
<1>5. \A k \in 1 .. m : IF IsTail(a[k]) THEN k < m => IsHead(a[k + 1])
                        ELSE k < m /\ a[k + 1] = NextOf(a[k])
  BY <1>2 DEF Strung
<1>6. Strung(x)
  <2>1. ASSUME NEW k \in 1 .. m - 1
        PROVE  IF IsTail(x[k]) THEN k < m - 1 => IsHead(x[k + 1])
               ELSE k < m - 1 /\ x[k + 1] = NextOf(x[k])
    <3>1. k + 1 \in 1 .. m /\ x[k] = a[k + 1]
      BY <1>3
    <3>2. k < m - 1 => k + 1 \in 1 .. m - 1 /\ x[k + 1] = a[k + 1 + 1]
      BY <1>3
    <3>3. IF IsTail(a[k + 1]) THEN k + 1 < m => IsHead(a[k + 1 + 1])
          ELSE k + 1 < m /\ a[k + 1 + 1] = NextOf(a[k + 1])
      BY <1>5, <3>1
    <3> QED
      BY <3>1, <3>2, <3>3
  <2> QED
    BY <1>3, <2>1 DEF Strung
<1>7. m # 1 => x[1] = a[2]
  BY <1>3
<1>8. 1 \in 1 .. m /\ (1 < m <=> m # 1) /\ 1 + 1 = 2
  OBVIOUS
<1>9. IF IsTail(a[1]) THEN 1 < m => IsHead(a[2]) ELSE 1 < m /\ a[2] = NextOf(a[1])
  BY <1>5, <1>8
<1> QED
  BY <1>1, <1>3, <1>4, <1>6, <1>7, <1>8, <1>9

(* The way from the receive queue of a hub to the router behind it.  The VC    *)
(* that its packet has taken, the flits that are on the way on each VC, and     *)
(* what the hub counts of them.                                              *)
Engaged(b, w) == b.in_use[w] /\ ~b.tail_sent[w]
Aims(swq, w)  == swq # << >> /\ swq[1][2] = w
AtFront(recv, swq) ==
  /\ recv \in Seq(FlitType) /\ Strung(recv)
  /\ swq = << >> \/ (recv # << >> /\ \E w \in Vcs : swq = << <<recv[1], w>> >>)
Along(recv, swq, b, q, w) ==
  /\ q \in Seq(FlitType) /\ IsPart(q) /\ b.vc_occupancy[w] = Len(q)
  /\ Engaged(b, w) <=> Aims(swq, w)
  /\ ~b.in_use[w] => b.vc_occupancy[w] = 0
  /\ q # << >> /\ Aims(swq, w) => ~IsTail(q[Len(q)]) /\ recv[1] = NextOf(q[Len(q)])
  /\ q # << >> /\ ~Aims(swq, w) => IsTail(q[Len(q)])
Flows(recv, swq, b, Q) ==
  LaneTypes(b) /\ AtFront(recv, swq) /\ Q \in [Vcs -> Seq(FlitType)] /\ \A w \in Vcs : Along(recv, swq, b, Q[w], w)

(* A hub with a packet that has no VC yet asks for one.                        *)
Waits(recv, swq) == swq = << >> <=> (recv = << >> \/ IsHead(recv[1]))

(* A packet more is heard.                                                   *)
LEMMA HearFlows ==
  ASSUME HubAssumption, NEW recv, NEW swq, NEW b, NEW Q, Flows(recv, swq, b, Q), NEW p \in Packets
  PROVE  /\ Flows(recv \o Entire(p), swq, b, Q)
         /\ Waits(recv, swq) => Waits(recv \o Entire(p), swq)
         /\ Len(recv \o Entire(p)) = Len(recv) + Size[p]
<1>1. PICK x : x = recv \o Entire(p)
  OBVIOUS
<1>2. AtFront(recv, swq)
  BY DEF Flows
<1>3. recv \in Seq(FlitType) /\ Strung(recv)
  BY <1>2 DEF AtFront
<1>4. x \in Seq(FlitType) /\ Strung(x)
  BY <1>1, <1>3, StrungMore
<1>5. Entire(p) \in Seq(FlitType) /\ Len(Entire(p)) = Size[p]
  <2>1. Size[p] \in Nat
    BY DEF HubAssumption
  <2> QED
    BY <2>1, FlitsAre DEF Entire
<1>6. Len(x) = Len(recv) + Len(Entire(p)) /\ \A k \in 1 .. Len(recv) : x[k] = recv[k]
  BY <1>1, <1>3, <1>5, ConcatAt
<1>7. recv # << >> => x # << >> /\ x[1] = recv[1]
  <2>1. ASSUME recv # << >> PROVE x # << >> /\ x[1] = recv[1]
    <3>1. 1 \in 1 .. Len(recv) /\ Len(x) # 0
      <4>1. Size[p] \in Nat
        BY DEF HubAssumption
      <4>2. Len(recv) \in Nat /\ Len(recv) # 0
        BY <1>3, <2>1, EmptySeq
      <4> QED
        BY <1>5, <1>6, <4>1, <4>2
    <3> QED
      BY <1>4, <1>6, <3>1, EmptySeq
  <2> QED
    BY <2>1
<1>8. AtFront(x, swq)
  BY <1>2, <1>4, <1>7 DEF AtFront
<1>9. ASSUME NEW w \in Vcs PROVE Along(x, swq, b, Q[w], w)
  <2>1. Along(recv, swq, b, Q[w], w)
    BY DEF Flows
  <2>2. Aims(swq, w) => x[1] = recv[1]
    BY <1>2, <1>7 DEF Aims, AtFront
  <2> QED
    BY <2>1, <2>2 DEF Along
<1>10. Flows(x, swq, b, Q)
  BY <1>8, <1>9 DEF Flows
<1>11. recv = << >> => IsHead(x[1])
  <2>1. recv = << >> => x = Entire(p)
    BY <1>1, <1>5, ConcatEmptySeq
  <2> QED
    BY <2>1, EntireTells DEF IsHead
<1>12. Waits(recv, swq) => Waits(x, swq)
  BY <1>2, <1>7, <1>11 DEF Waits, AtFront
<1> QED
  BY <1>1, <1>5, <1>6, <1>10, <1>12

(* The head of a packet gets a VC.                                           *)
LEMMA TakeFlows ==
  ASSUME NEW recv, NEW b, NEW Q, Flows(recv, << >>, b, Q), recv # << >>, IsHead(recv[1]),
         NEW w \in Vcs, ~b.in_use[w]
  PROVE  Flows(recv, << <<recv[1], w>> >>, TakeBuffer(b, w), Q) /\ TakeBuffer(b, w).vc_occupancy[w] = 0
<1>1. PICK c : c = TakeBuffer(b, w)
  OBVIOUS
<1>2. PICK s : s = << <<recv[1], w>> >>
  OBVIOUS
<1>3. LaneTypes(b) /\ Q \in [Vcs -> Seq(FlitType)]
  BY DEF Flows
<1>4. Taken(b, c, w)
  BY <1>1, <1>3, TakeLane
<1>5. /\ LaneTypes(c) /\ c.vc_occupancy = b.vc_occupancy
      /\ c.in_use = [b.in_use EXCEPT ![w] = TRUE] /\ c.tail_sent = [b.tail_sent EXCEPT ![w] = FALSE]
  BY <1>4 DEF Taken
<1>6. s # << >> /\ s[1][2] = w /\ \A v : Aims(s, v) <=> v = w
  BY <1>2 DEF Aims
<1>7. \A v : ~Aims(<< >>, v)
  BY DEF Aims
<1>8. AtFront(recv, s)
  BY <1>2 DEF Flows, AtFront
<1>9. ASSUME NEW v \in Vcs PROVE Along(recv, s, c, Q[v], v)
  <2>1. Along(recv, << >>, b, Q[v], v)
    BY DEF Flows
  <2>2. c.vc_occupancy[v] = b.vc_occupancy[v]
    BY <1>5
  <2>3. CASE v = w
    <3>1. c.in_use[v] /\ ~c.tail_sent[v]
      BY <1>3, <1>5, <2>3 DEF LaneTypes
    <3>2. Len(Q[v]) = 0
      BY <2>1, <2>3 DEF Along
    <3>3. Q[v] = << >>
      BY <1>3, <3>2, EmptySeq
    <3> QED
      BY <1>6, <2>1, <2>2, <2>3, <3>1, <3>3 DEF Along, Engaged
  <2>4. CASE v # w
    <3>1. c.in_use[v] = b.in_use[v] /\ c.tail_sent[v] = b.tail_sent[v]
      BY <1>3, <1>5, <2>4 DEF LaneTypes
    <3> QED
      BY <1>6, <1>7, <2>1, <2>2, <2>4, <3>1 DEF Along, Engaged
  <2> QED
    BY <2>3, <2>4
<1>10. c.vc_occupancy[w] = 0
  <2>1. Along(recv, << >>, b, Q[w], w)
    BY DEF Flows
  <2> QED
    BY <1>5, <2>1 DEF Along
<1> QED
  BY <1>1, <1>2, <1>3, <1>5, <1>8, <1>9, <1>10 DEF Flows

(* One flit more on the way of a VC.                                         *)
LEMMA PartMore ==
  ASSUME NEW q \in Seq(FlitType), IsPart(q), NEW f \in FlitType,
         q # << >> => ~IsTail(q[Len(q)]) /\ f = NextOf(q[Len(q)])
  PROVE  /\ Append(q, f) \in Seq(FlitType) /\ IsPart(Append(q, f)) /\ Append(q, f) # << >>
         /\ Len(Append(q, f)) = Len(q) + 1 /\ Append(q, f)[Len(Append(q, f))] = f
<1>1. PICK x : x = Append(q, f)
  OBVIOUS
<1>2. PICK m \in Nat : m = Len(q)
  OBVIOUS
<1>3. /\ x \in Seq(FlitType) /\ Len(x) = m + 1 /\ (\A k \in 1 .. m : x[k] = q[k]) /\ x[m + 1] = f
  <2>1. PICK T : T = FlitType
    OBVIOUS
  <2>2. q \in Seq(T) /\ f \in T
    BY <2>1
  <2> QED
    BY <1>1, <1>2, <2>1, <2>2, AppendAt
<1>4. x # << >>
  BY <1>3, EmptySeq
<1>5. \A k \in 1 .. m - 1 : q[k + 1] = IF IsTail(q[k]) THEN <<q[k + 1][1], 1>> ELSE <<q[k][1], q[k][2] + 1>>
  BY <1>2 DEF IsPart
<1>6. ASSUME NEW k \in 1 .. m
      PROVE  x[k + 1] = IF IsTail(x[k]) THEN <<x[k + 1][1], 1>> ELSE <<x[k][1], x[k][2] + 1>>
  <2>1. CASE k = m
    <3>1. q # << >> /\ x[k] = q[m] /\ x[k + 1] = f
      BY <1>2, <1>3, <2>1, EmptySeq
    <3> QED
      BY <1>2, <3>1 DEF NextOf
  <2>2. CASE k # m
    <3>1. k \in 1 .. m - 1 /\ k + 1 \in 1 .. m
      BY <2>2
    <3>2. x[k] = q[k] /\ x[k + 1] = q[k + 1]
      BY <1>3, <3>1
    <3> QED
      BY <1>5, <3>1, <3>2
  <2> QED
    BY <2>1, <2>2
<1>7. IsPart(x)
  BY <1>3, <1>6 DEF IsPart
<1> QED
  BY <1>1, <1>2, <1>3, <1>4, <1>7

(* One less.                                                                 *)
LEMMA PartTail ==
  ASSUME NEW q \in Seq(FlitType), IsPart(q), q # << >>
  PROVE  /\ Tail(q) \in Seq(FlitType) /\ IsPart(Tail(q)) /\ Len(Tail(q)) = Len(q) - 1
         /\ Tail(q) # << >> => Tail(q)[Len(Tail(q))] = q[Len(q)]
<1>1. PICK x : x = Tail(q)
  OBVIOUS
<1>2. PICK m \in Nat \ {0} : m = Len(q)
  BY EmptySeq
<1>3. x \in Seq(FlitType) /\ Len(x) = m - 1 /\ \A k \in 1 .. m - 1 : x[k] = q[k + 1]
  BY <1>1, <1>2
<1>4. x = << >> <=> m = 1
  BY <1>2, <1>3, EmptySeq
<1>5. \A k \in 1 .. m - 1 : q[k + 1] = IF IsTail(q[k]) THEN <<q[k + 1][1], 1>> ELSE <<q[k][1], q[k][2] + 1>>
  BY <1>2 DEF IsPart
<1>6. ASSUME NEW k \in 1 .. m - 2
      PROVE  x[k + 1] = IF IsTail(x[k]) THEN <<x[k + 1][1], 1>> ELSE <<x[k][1], x[k][2] + 1>>
  <2>1. k \in 1 .. m - 1 /\ k + 1 \in 1 .. m - 1
    OBVIOUS
  <2>2. x[k] = q[k + 1] /\ x[k + 1] = q[k + 1 + 1]
    BY <1>3, <2>1
  <2>3. q[k + 1 + 1] = IF IsTail(q[k + 1]) THEN <<q[k + 1 + 1][1], 1>> ELSE <<q[k + 1][1], q[k + 1][2] + 1>>
    BY <1>5, <2>1
  <2> QED
    BY <2>2, <2>3
<1>7. IsPart(x)
  <2>1. 1 .. Len(x) - 1 = 1 .. m - 2
    BY <1>3
  <2> QED
    BY <1>6, <2>1 DEF IsPart
<1>8. m # 1 => x[m - 1] = q[m]
  <2>1. m # 1 => m - 1 \in 1 .. m - 1 /\ (m - 1) + 1 = m
    OBVIOUS
  <2> QED
    BY <1>3, <2>1
<1> QED
  BY <1>1, <1>2, <1>3, <1>4, <1>7, <1>8

(* What goes to the switch queue when f went on VC w and rest is left.         *)
FollowUp(rest, w) == IF rest # << >> /\ ~IsHead(rest[1]) THEN << <<rest[1], w>> >> ELSE << >>

(* A flit goes to the crossbar, and the next one of its packet follows.        *)
LEMMA SwitchFlows ==
  ASSUME WaitForTail, NEW recv, NEW b, NEW Q, NEW w \in Vcs, NEW f, Flows(recv, << <<f, w>> >>, b, Q)
  PROVE  /\ recv \in Seq(FlitType) /\ recv # << >> /\ f = recv[1] /\ f \in FlitType
         /\ Flows(Tail(recv), FollowUp(Tail(recv), w), SendingFlit(b, w, IsTail(f)), [Q EXCEPT ![w] = Append(Q[w], f)])
         /\ Waits(Tail(recv), FollowUp(Tail(recv), w)) /\ Len(Tail(recv)) = Len(recv) - 1
<1>1. PICK s : s = << <<f, w>> >>
  OBVIOUS
<1>2. PICK rest : rest = Tail(recv)
  OBVIOUS
<1>3. PICK z : z = FollowUp(rest, w)
  OBVIOUS
<1>4. PICK tail \in BOOLEAN : tail = IsTail(f)
  BY DEF IsTail
<1>5. PICK c : c = SendingFlit(b, w, tail)
  OBVIOUS
<1>6. PICK R : R = [Q EXCEPT ![w] = Append(Q[w], f)]
  OBVIOUS
<1>7. LaneTypes(b) /\ Q \in [Vcs -> Seq(FlitType)] /\ AtFront(recv, s)
  BY <1>1 DEF Flows
<1>8. recv \in Seq(FlitType) /\ Strung(recv) /\ recv # << >> /\ f = recv[1]
  <2>1. s # << >> /\ s[1] = <<f, w>>
    BY <1>1
  <2>2. PICK v \in Vcs : s = << <<recv[1], v>> >>
    BY <1>7, <2>1 DEF AtFront
  <2>3. s[1] = <<recv[1], v>>
    BY <2>2
  <2>4. f = recv[1]
    BY <2>1, <2>3
  <2> QED
    BY <1>7, <2>1, <2>4 DEF AtFront
<1>9. /\ rest \in Seq(FlitType) /\ Strung(rest) /\ f \in FlitType
      /\ tail => rest = << >> \/ IsHead(rest[1])
      /\ ~tail => rest # << >> /\ rest[1] = NextOf(f)
  BY <1>2, <1>4, <1>8, StrungTail
<1>10. ~tail => ~IsHead(rest[1])
  BY <1>9 DEF NextOf, IsHead, FlitType
<1>11. /\ tail => z = << >>
       /\ ~tail => z = << <<rest[1], w>> >>
  BY <1>3, <1>9, <1>10 DEF FollowUp
<1>12. AtFront(rest, z) /\ Waits(rest, z)
  <2>1. << <<rest[1], w>> >> # << >>
    OBVIOUS
  <2> QED
    BY <1>9, <1>10, <1>11, <2>1 DEF AtFront, Waits
<1>13. /\ LaneTypes(c) /\ c.vc_occupancy = [b.vc_occupancy EXCEPT ![w] = b.vc_occupancy[w] + 1]
       /\ c.in_use = b.in_use
       /\ c.tail_sent = IF tail THEN [b.tail_sent EXCEPT ![w] = TRUE] ELSE b.tail_sent
  <2>1. Filled(b, c, w, tail)
    BY <1>5, <1>7, SendingLane
  <2> QED
    BY <2>1 DEF Filled
<1>14. \A v : (Aims(s, v) <=> v = w) /\ (Aims(z, v) <=> ~tail /\ v = w)
  BY <1>1, <1>11 DEF Aims
<1>15. ASSUME NEW v \in Vcs PROVE Along(rest, z, c, R[v], v)
  <2>1. Along(recv, s, b, Q[v], v)
    BY <1>1 DEF Flows
  <2>2. b.vc_occupancy \in [Vcs -> Int] /\ b.in_use \in [Vcs -> BOOLEAN] /\ b.tail_sent \in [Vcs -> BOOLEAN]
    BY <1>7 DEF LaneTypes
  <2>3. CASE v = w
    <3>1. Q[w] \in Seq(FlitType) /\ IsPart(Q[w]) /\ b.vc_occupancy[w] = Len(Q[w])
      BY <2>1, <2>3 DEF Along
    <3>2. Q[w] # << >> => ~IsTail(Q[w][Len(Q[w])]) /\ f = NextOf(Q[w][Len(Q[w])])
      BY <1>8, <1>14, <2>1, <2>3 DEF Along
    <3>3. PICK y : y = Append(Q[w], f)
      OBVIOUS
    <3>4. y \in Seq(FlitType) /\ IsPart(y) /\ y # << >> /\ Len(y) = Len(Q[w]) + 1 /\ y[Len(y)] = f
      BY <1>9, <3>1, <3>2, <3>3, PartMore
    <3>5. R[v] = y
      BY <1>6, <1>7, <2>3, <3>3
    <3>6. b.in_use[w] /\ ~b.tail_sent[w]
      BY <1>14, <2>1, <2>3 DEF Along, Engaged
    <3>7. c.vc_occupancy[w] = Len(y) /\ c.in_use[w] /\ (c.tail_sent[w] <=> tail)
      BY <1>13, <2>2, <3>1, <3>4, <3>6
    <3>8. ~tail => rest[1] = NextOf(f)
      BY <1>9
    <3> QED
      BY <1>4, <1>14, <2>3, <3>4, <3>5, <3>7, <3>8 DEF Along, Engaged
  <2>4. CASE v # w
    <3>1. R[v] = Q[v] /\ c.vc_occupancy[v] = b.vc_occupancy[v] /\ c.in_use[v] = b.in_use[v] /\ c.tail_sent[v] = b.tail_sent[v]
      BY <1>6, <1>7, <1>13, <2>2, <2>4
    <3> QED
      BY <1>14, <2>1, <2>4, <3>1 DEF Along, Engaged
  <2> QED
    BY <2>3, <2>4
<1>16. R \in [Vcs -> Seq(FlitType)]
  <2>1. PICK y : y = Append(Q[w], f)
    OBVIOUS
  <2>2. y \in Seq(FlitType)
    <3>1. PICK T : T = FlitType
      OBVIOUS
    <3>2. Q[w] \in Seq(T) /\ f \in T
      BY <1>7, <1>9, <3>1
    <3> QED
      BY <2>1, <3>1, <3>2, AppendAt
  <2> QED
    BY <1>6, <1>7, <2>1, <2>2
<1>17. Flows(rest, z, c, R)
  BY <1>12, <1>13, <1>15, <1>16 DEF Flows
<1>18. Len(rest) = Len(recv) - 1
  BY <1>2, <1>8
<1> QED
  BY <1>2, <1>3, <1>4, <1>5, <1>6, <1>8, <1>9, <1>12, <1>17, <1>18

(* The router behind takes a flit on.                                        *)
LEMMA DrainFlows ==
  ASSUME WaitForTail, NEW recv, NEW swq, NEW b, NEW Q, NEW w \in Vcs, Flows(recv, swq, b, Q), Q[w] # << >>
  PROVE  Flows(recv, swq, ProcessCredit(b, w), [Q EXCEPT ![w] = Tail(Q[w])])
<1>1. PICK c : c = ProcessCredit(b, w)
  OBVIOUS
<1>2. PICK y : y = Tail(Q[w])
  OBVIOUS
<1>3. PICK R : R = [Q EXCEPT ![w] = y]
  OBVIOUS
<1>4. LaneTypes(b) /\ Q \in [Vcs -> Seq(FlitType)] /\ AtFront(recv, swq)
  BY DEF Flows
<1>5. PICK n : n = b.vc_occupancy[w] - 1
  OBVIOUS
<1>6. /\ LaneTypes(c) /\ c.vc_occupancy = [b.vc_occupancy EXCEPT ![w] = n]
      /\ c.in_use = [b.in_use EXCEPT ![w] = IF n = 0 /\ b.tail_sent[w] THEN FALSE ELSE b.in_use[w]]
      /\ c.tail_sent = b.tail_sent
  <2>1. Credited(b, c, w)
    BY <1>1, <1>4, ProcessLane
  <2> QED
    BY <1>5, <2>1 DEF Credited
<1>7. b.vc_occupancy \in [Vcs -> Int] /\ b.in_use \in [Vcs -> BOOLEAN] /\ b.tail_sent \in [Vcs -> BOOLEAN]
  BY <1>4 DEF LaneTypes
<1>8. ASSUME NEW v \in Vcs PROVE R[v] \in Seq(FlitType) /\ Along(recv, swq, c, R[v], v)
  <2>1. Along(recv, swq, b, Q[v], v)
    BY DEF Flows
  <2>2. CASE v = w
    <3>1. Q[w] \in Seq(FlitType) /\ IsPart(Q[w]) /\ b.vc_occupancy[w] = Len(Q[w])
      BY <2>1, <2>2 DEF Along
    <3>2. y \in Seq(FlitType) /\ IsPart(y) /\ Len(y) = Len(Q[w]) - 1 /\ (y # << >> => y[Len(y)] = Q[w][Len(Q[w])])
      BY <1>2, <3>1, PartTail
    <3>3. R[v] = y
      BY <1>3, <1>4, <2>2
    <3>4. /\ c.vc_occupancy[w] = Len(y) /\ c.tail_sent[w] = b.tail_sent[w]
          /\ c.in_use[w] = IF n = 0 /\ b.tail_sent[w] THEN FALSE ELSE b.in_use[w]
      BY <1>5, <1>6, <1>7, <3>1, <3>2
    <3>5. Engaged(c, w) <=> Engaged(b, w)
      BY <1>7, <3>4 DEF Engaged
    <3>6. b.in_use[w]
      <4>1. Len(Q[w]) # 0
        BY <3>1, EmptySeq
      <4> QED
        BY <2>1, <2>2, <3>1, <4>1 DEF Along
    <3>7. ~c.in_use[w] => c.vc_occupancy[w] = 0
      BY <1>5, <3>1, <3>2, <3>4, <3>6
    <3> QED
      BY <2>1, <2>2, <3>2, <3>3, <3>4, <3>5, <3>7 DEF Along
  <2>3. CASE v # w
    <3>1. R[v] = Q[v] /\ c.vc_occupancy[v] = b.vc_occupancy[v] /\ c.in_use[v] = b.in_use[v] /\ c.tail_sent[v] = b.tail_sent[v]
      BY <1>3, <1>4, <1>6, <1>7, <2>3
    <3> QED
      BY <2>1, <3>1 DEF Along, Engaged
  <2> QED
    BY <2>2, <2>3
<1>9. R \in [Vcs -> Seq(FlitType)]
  <2>1. y \in Seq(FlitType)
    BY <1>3, <1>4, <1>8
  <2> QED
    BY <1>3, <1>4, <2>1
<1>10. Flows(recv, swq, c, R)
  BY <1>4, <1>6, <1>8, <1>9 DEF Flows
<1> QED
  BY <1>1, <1>2, <1>3, <1>10

-----------------------------------------------------------------------------
(* A VC that a packet takes has room for a flit: under the private policy it is *)
(* empty, and a hub that looks whether it is full takes no full one; the       *)
(* dynamic and the shifting policy may still give it less then.              *)
RoomWhenTaken == Policy = "private" \/ (BusyWhenFull /\ Policy \notin {"dynamic", "shifting"})
RoomFields == {"reserved", "group", "shared", "held", "active"}
HasRoom(b) == LaneFields \cup RoomFields \subseteq DOMAIN b

(* It has.                                                                   *)
LEMMA TakenHasRoom ==
  ASSUME RoomWhenTaken, NEW b, HasRoom(b), LaneTypes(b), NEW w \in Vcs, Usable(b, w),
         TakeBuffer(b, w).vc_occupancy[w] = 0
  PROVE  ~IsFullFor(TakeBuffer(b, w), w)
<1>1. PICK c : c = TakeBuffer(b, w)
  OBVIOUS
<1>2. c.vc_occupancy[w] = 0 /\ c.vc_occupancy = b.vc_occupancy
  <2>1. Taken(b, c, w)
    BY <1>1, TakeLane
  <2> QED
    BY <1>1, <2>1 DEF Taken
<1>3. CASE Policy = "private"
  <2>1. PICK n \in Nat : n = Cardinality(Vcs)
    BY FlowAssumption, FS_CardinalityType DEF FlowAssumption
  <2>2. n # 0
    BY <2>1, FlowAssumption, FS_EmptySet DEF FlowAssumption
  <2>3. ConfBufSize >= n => ConfBufSize \div n > 0
    <3>1. ConfBufSize \in Int
      BY FlowAssumption DEF FlowAssumption
    <3> QED
      BY <2>2, <3>1
  <2>4. ConfVcBufSize > 0
    BY FlowAssumption DEF FlowAssumption
  <2>5. VcBufSize > 0
    BY <2>1, <2>3, <2>4 DEF VcBufSize
  <2>6. VcBufSize \in Int
    BY <2>1, <2>2, FlowAssumption DEF VcBufSize, FlowAssumption
  <2>7. ~(0 >= VcBufSize)
    BY <2>5, <2>6
  <2> QED
    BY <1>1, <1>2, <1>3, <2>7 DEF IsFullFor
<1>4. CASE BusyWhenFull /\ Policy \notin {"private", "dynamic", "shifting"}
  <2>1. ~IsFullFor(b, w)
    BY <1>4 DEF Usable
  <2>2. c.reserved = b.reserved /\ c.group = b.group /\ c.shared = b.shared /\ c.held = b.held
    <3> DEFINE t == [b EXCEPT !.in_use[w] = TRUE, !.tail_sent[w] = FALSE]
    <3>1. DOMAIN t = DOMAIN b /\ t.reserved = b.reserved /\ t.group = b.group /\ t.shared = b.shared /\ t.held = b.held
      BY DEF HasRoom, LaneFields, RoomFields
    <3> HIDE DEF t
    <3>2. HeldBy(b, b.active + 1) = b.held
      BY <1>4 DEF HeldBy
    <3>3. c \in {t, [t EXCEPT !.active = t.active + 1, !.held = b.held]}
      BY <1>1, <3>2 DEF TakeBuffer, t
    <3> QED
      BY <3>1, <3>3 DEF HasRoom, LaneFields, RoomFields
  <2>3. IsFullFor(c, w) <=> IsFullFor(b, w)
    BY <1>2, <1>4, <2>2 DEF IsFullFor, GroupLeft
  <2> QED
    BY <1>1, <2>1, <2>3
<1> QED
  BY <1>3, <1>4 DEF RoomWhenTaken

(* The fields of the buffer state stay.                                      *)
LEMMA FieldsStay ==
  ASSUME NEW b, HasRoom(b), NEW v, NEW tail
  PROVE  HasRoom(TakeBuffer(b, v)) /\ HasRoom(SendingFlit(b, v, tail)) /\ HasRoom(ProcessCredit(b, v))
<1>1. \A t, n : DOMAIN FreeSlots(t, v, n) = DOMAIN t
  BY DEF FreeSlots
<1>2. \A t : DOMAIN Limit(t, tail) = DOMAIN t /\ DOMAIN Time(t, v) = DOMAIN t /\ DOMAIN Timed(t, v) = DOMAIN t
  BY DEF Limit, Time, Timed
<1>3. \A t : DOMAIN Share(t, v, tail) = DOMAIN t /\ DOMAIN FreeSlotFor(t, v) = DOMAIN t
  BY <1>1 DEF Share, FreeSlotFor
<1>4. DOMAIN TakeBuffer(b, v) = DOMAIN b
  BY DEF TakeBuffer
<1>5. DOMAIN SendingFlit(b, v, tail) = DOMAIN b
  <2> DEFINE t == [b EXCEPT !.occupancy = @ + 1, !.vc_occupancy[v] = @ + 1]
             p == IF Policy = "private" THEN t ELSE Limit(Share(Time(t, v), v, tail), tail)
             e == [p EXCEPT !.tail_sent[v] = TRUE, !.in_use[v] = IF WaitForTail THEN @ ELSE FALSE]
  <2>1. SendingFlit(b, v, tail) = IF tail THEN e ELSE p
    BY DEF SendingFlit
  <2>2. DOMAIN t = DOMAIN b
    OBVIOUS
  <2> HIDE DEF t
  <2>3. DOMAIN p = DOMAIN b
    BY <1>2, <1>3, <2>2
  <2> HIDE DEF p
  <2>4. DOMAIN e = DOMAIN p
    OBVIOUS
  <2> HIDE DEF e
  <2> QED
    BY <2>1, <2>3, <2>4
<1>6. DOMAIN ProcessCredit(b, v) = DOMAIN b
  <2> DEFINE n == b.vc_occupancy[v] - 1
             t == [b EXCEPT !.occupancy = @ - 1, !.vc_occupancy[v] = n,
                            !.in_use[v] = IF WaitForTail /\ n = 0 /\ b.tail_sent[v] THEN FALSE ELSE @]
  <2>1. ProcessCredit(b, v) = IF Policy = "private" THEN t ELSE Timed(FreeSlotFor(t, v), v)
    BY DEF ProcessCredit
  <2>2. DOMAIN t = DOMAIN b
    OBVIOUS
  <2> HIDE DEF t
  <2> QED
    BY <1>2, <1>3, <2>1, <2>2
<1> QED
  BY <1>4, <1>5, <1>6 DEF HasRoom

(* What is in the crossbar for VC w, and what is on the way on each VC.         *)
Out(c, w)   == IF c.w = w THEN <<c.f>> ELSE << >>
OnWay(x, w) == IF x = << >> THEN << >> ELSE IF Len(x) = 1 THEN Out(x[1], w) ELSE Out(x[1], w) \o Out(x[2], w)
Lanes(d, x) == [w \in Vcs |-> d[w] \o OnWay(x, w)]

(* Between the cycles, after a flit has waited, and after a turn.              *)
Fresh(x) == x = << >> \/ \E f \in FlitType, w \in Vcs : x = <<New(f, w)>>
Stale(x) == x = << >> \/ \E f \in FlitType, w \in Vcs : x = <<Old(f, w)>>
Filling(x) == \/ Fresh(x) \/ Stale(x)
              \/ \E f \in FlitType, w \in Vcs, g \in FlitType, v \in Vcs : x = <<Old(f, w), New(g, v)>>

(* What is on the way.                                                       *)
LEMMA OutIs ==
  ASSUME NEW f \in FlitType, NEW w, NEW v
  PROVE  /\ Out(New(f, w), v) = IF w = v THEN <<f>> ELSE << >>
         /\ Out(Old(f, w), v) = IF w = v THEN <<f>> ELSE << >>
         /\ Out(New(f, w), v) \in Seq(FlitType) /\ Out(Old(f, w), v) \in Seq(FlitType)
  BY DEF Out, New, Old

(* It, with one or two flits in the crossbar.                                 *)
LEMMA WayIs ==
  ASSUME NEW a, NEW b, NEW w
  PROVE  /\ OnWay(<< >>, w) = << >> /\ OnWay(<<a>>, w) = Out(a, w)
         /\ OnWay(<<a, b>>, w) = Out(a, w) \o Out(b, w)
<1> HIDE DEF Out
<1>1. <<a>> # << >> /\ Len(<<a>>) = 1 /\ <<a>>[1] = a /\ <<a, b>> # << >> /\ Len(<<a, b>>) # 1
      /\ <<a, b>>[1] = a /\ <<a, b>>[2] = b
  OBVIOUS
<1> QED
  BY <1>1 DEF OnWay

(* The same, one by one.                                                     *)
LEMMA WayOne ==
  \A a, w : OnWay(<<a>>, w) = Out(a, w)
<1> TAKE a, w
<1> QED
  BY WayIs
(* And for two.                                                              *)
LEMMA WayTwo ==
  \A a, b, w : OnWay(<<a, b>>, w) = Out(a, w) \o Out(b, w)
<1> TAKE a, b, w
<1> HIDE DEF Out
<1>1. <<a, b>> # << >> /\ Len(<<a, b>>) # 1 /\ <<a, b>>[1] = a /\ <<a, b>>[2] = b
  OBVIOUS
<1> QED
  BY <1>1 DEF OnWay

(* A flit in the crossbar, after a cycle.                                    *)
LEMMA AgedNew ==
  ASSUME NEW f, NEW u
  PROVE  Aged(<<New(f, u)>>) = <<Old(f, u)>>
<1> DEFINE y == New(f, u)
           z == Old(f, u)
<1>1. [y EXCEPT !.new = FALSE] = z
  <2>1. y = [i \in {"f", "w", "new"} |-> y[i]] /\ y.f = f /\ y.w = u
    BY DEF New
  <2>2. z = [i \in {"f", "w", "new"} |-> z[i]] /\ z.f = f /\ z.w = u /\ z.new = FALSE
    BY DEF Old
  <2> HIDE DEF y, z
  <2> QED
    BY <2>1, <2>2
<1> HIDE DEF y, z
<1>2. Aged(<<y>>) = <<[y EXCEPT !.new = FALSE]>>
  <2> DEFINE e == [y EXCEPT !.new = FALSE]
  <2>1. DOMAIN <<y>> = {1} /\ <<y>>[1] = y
    OBVIOUS
  <2>2. Aged(<<y>>) = [k \in {1} |-> e]
    BY <2>1 DEF Aged
  <2> HIDE DEF e
  <2>3. <<e>> = [k \in {1} |-> e]
    OBVIOUS
  <2> QED
    BY <2>2, <2>3 DEF e
<1> QED
  BY <1>1, <1>2 DEF y, z

(* It stays so when it waits.                                                *)
LEMMA WayAged ==
  ASSUME NEW x, Fresh(x), NEW d
  PROVE  Stale(Aged(x)) /\ Lanes(d, Aged(x)) = Lanes(d, x)
<1>1. CASE x = << >>
  <2>1. Aged(x) = << >>
    BY <1>1 DEF Aged
  <2> QED
    BY <1>1, <2>1 DEF Stale
<1>2. ASSUME NEW f \in FlitType, NEW w \in Vcs, x = <<New(f, w)>>
      PROVE  Stale(Aged(x)) /\ Lanes(d, Aged(x)) = Lanes(d, x)
  <2>1. Aged(x) = <<Old(f, w)>>
    BY <1>2, AgedNew
  <2>2. \A v : OnWay(Aged(x), v) = OnWay(x, v)
    <3>1. ASSUME NEW v PROVE OnWay(Aged(x), v) = OnWay(x, v)
      <4>1. OnWay(x, v) = Out(New(f, w), v) /\ OnWay(Aged(x), v) = Out(Old(f, w), v)
        BY <1>2, <2>1, WayIs
      <4> QED
        BY <4>1, OutIs
    <3> QED
      BY <3>1
  <2> QED
    BY <2>1, <2>2 DEF Stale, Lanes
<1> QED
  BY <1>1, <1>2 DEF Fresh

(* One flit more.                                                            *)
LEMMA WayMore ==
  ASSUME NEW y, Stale(y), NEW f \in FlitType, NEW w \in Vcs, NEW d \in [Vcs -> Seq(FlitType)]
  PROVE  /\ Filling(Append(y, New(f, w)))
         /\ Lanes(d, Append(y, New(f, w))) = [Lanes(d, y) EXCEPT ![w] = Append(Lanes(d, y)[w], f)]
<1>1. PICK c : c = New(f, w)
  OBVIOUS
<1>2. PICK x : x = Append(y, c)
  OBVIOUS
<1>3. PICK T : T = FlitType
  OBVIOUS
<1>4. \A v : Out(c, v) = IF w = v THEN <<f>> ELSE << >>
  BY <1>1, OutIs
<1>5. ASSUME Filling(x), \A v \in Vcs : OnWay(y, v) \in Seq(T) /\ OnWay(x, v) = OnWay(y, v) \o Out(c, v)
      PROVE  Filling(x) /\ Lanes(d, x) = [Lanes(d, y) EXCEPT ![w] = Append(Lanes(d, y)[w], f)]
  <2>1. ASSUME NEW v \in Vcs
        PROVE  d[v] \o OnWay(x, v) = IF v = w THEN Append(d[v] \o OnWay(y, v), f) ELSE d[v] \o OnWay(y, v)
    <3>1. PICK a : a = d[v]
      OBVIOUS
    <3>2. PICK b : b = OnWay(y, v)
      OBVIOUS
    <3>3. a \in Seq(T) /\ b \in Seq(T) /\ f \in T
      BY <1>3, <1>5, <3>1, <3>2
    <3>4. v # w => b \o Out(c, v) = b
      <4>1. b \o << >> = b
        BY <3>3, ConcatEmptySeq
      <4> QED
        BY <1>4, <4>1
    <3>5. b \o <<f>> = Append(b, f)
      BY <3>3, AppendIsConcat
    <3>6. Append(a \o b, f) = a \o Append(b, f)
      BY <3>3, AppendBehind
    <3>7. OnWay(x, v) = b \o Out(c, v)
      BY <1>5, <3>2
    <3> QED
      BY <1>4, <3>1, <3>2, <3>4, <3>5, <3>6, <3>7
  <2> QED
    BY <1>5, <2>1 DEF Lanes
<1>6. CASE y = << >>
  <2>1. x = <<c>>
    BY <1>2, <1>6
  <2>2. Filling(x)
    BY <1>1, <2>1 DEF Filling, Fresh
  <2>3. ASSUME NEW v \in Vcs PROVE OnWay(y, v) \in Seq(T) /\ OnWay(x, v) = OnWay(y, v) \o Out(c, v)
    <3>1. OnWay(y, v) = << >> /\ OnWay(x, v) = Out(c, v)
      BY <1>6, <2>1, WayIs
    <3>2. Out(c, v) \in Seq(T)
      BY <1>1, <1>3, OutIs
    <3>3. << >> \o Out(c, v) = Out(c, v)
      BY <3>2, ConcatEmptySeq
    <3> QED
      BY <3>1, <3>3
  <2> QED
    BY <1>1, <1>2, <1>5, <2>2, <2>3
<1>7. ASSUME NEW g \in FlitType, NEW u \in Vcs, y = <<Old(g, u)>>
      PROVE  Filling(x) /\ Lanes(d, x) = [Lanes(d, y) EXCEPT ![w] = Append(Lanes(d, y)[w], f)]
  <2>1. x = <<Old(g, u), c>>
    BY <1>2, <1>7, Pair
  <2>2. Filling(x)
    BY <1>1, <2>1 DEF Filling
  <2>3. ASSUME NEW v \in Vcs PROVE OnWay(y, v) \in Seq(T) /\ OnWay(x, v) = OnWay(y, v) \o Out(c, v)
    <3>1. OnWay(y, v) = Out(Old(g, u), v) /\ OnWay(x, v) = Out(Old(g, u), v) \o Out(c, v)
      <4>1. PICK a : a = Old(g, u)
        OBVIOUS
      <4>2. y = <<a>> /\ x = <<a, c>>
        BY <1>7, <2>1, <4>1
      <4>3. OnWay(<<a>>, v) = Out(a, v)
        BY WayOne
      <4>4. OnWay(<<a, c>>, v) = Out(a, v) \o Out(c, v)
        BY WayTwo
      <4> QED
        BY <4>1, <4>2, <4>3, <4>4
    <3>2. Out(Old(g, u), v) \in Seq(T)
      BY <1>3, OutIs
    <3> QED
      BY <3>1, <3>2
  <2> QED
    BY <1>5, <2>2, <2>3
<1> QED
  BY <1>1, <1>2, <1>6, <1>7 DEF Stale

(* A flit that has waited leaves the crossbar.                                *)
Left(x)        == x # << >> /\ ~x[1].new
After1(x)      == IF Left(x) THEN Tail(x) ELSE x
Reached(d, x)  == [v \in Vcs |-> IF Left(x) /\ x[1].w = v THEN Append(d[v], x[1].f) ELSE d[v]]
(* It is on the way as before.                                               *)
LEMMA WayLeaves ==
  ASSUME NEW x, Filling(x), NEW d \in [Vcs -> Seq(FlitType)]
  PROVE  /\ Fresh(After1(x)) /\ Reached(d, x) \in [Vcs -> Seq(FlitType)]
         /\ Lanes(Reached(d, x), After1(x)) = Lanes(d, x)
<1>1. CASE Fresh(x)
  <2>1. ~Left(x)
    BY <1>1 DEF Fresh, Left, New
  <2>2. After1(x) = x /\ Reached(d, x) = d
    BY <2>1 DEF After1, Reached
  <2> QED
    BY <1>1, <2>2
<1>2. PICK T : T = FlitType
  OBVIOUS
<1>3. ASSUME NEW f \in FlitType, NEW w \in Vcs, NEW z, Fresh(z), x # << >>, x[1] = Old(f, w), Tail(x) = z,
             \A v \in Vcs : OnWay(z, v) \in Seq(T) /\ OnWay(x, v) = Out(Old(f, w), v) \o OnWay(z, v)
      PROVE  /\ Fresh(After1(x)) /\ Reached(d, x) \in [Vcs -> Seq(FlitType)]
             /\ Lanes(Reached(d, x), After1(x)) = Lanes(d, x)
  <2>1. Left(x) /\ x[1].f = f /\ x[1].w = w
    BY <1>3 DEF Left, Old
  <2>2. After1(x) = z
    BY <1>3, <2>1 DEF After1
  <2>3. Reached(d, x) = [v \in Vcs |-> IF w = v THEN Append(d[v], f) ELSE d[v]]
    BY <2>1 DEF Reached
  <2>4. ASSUME NEW v \in Vcs
        PROVE  /\ (IF w = v THEN Append(d[v], f) ELSE d[v]) \in Seq(T)
               /\ (IF w = v THEN Append(d[v], f) ELSE d[v]) \o OnWay(z, v) = d[v] \o OnWay(x, v)
    <3>1. PICK a : a = d[v]
      OBVIOUS
    <3>2. PICK b : b = OnWay(z, v)
      OBVIOUS
    <3>3. PICK o : o = IF w = v THEN <<f>> ELSE << >>
      OBVIOUS
    <3>4. a \in Seq(T) /\ b \in Seq(T) /\ f \in T
      BY <1>2, <1>3, <3>1, <3>2
    <3>5. o \in Seq(T) /\ OnWay(x, v) = o \o b
      <4>1. Out(Old(f, w), v) = o
        BY <3>3, OutIs
      <4>2. o \in Seq(T)
        BY <3>3, <3>4
      <4> QED
        BY <1>3, <3>2, <4>1, <4>2
    <3>6. (a \o o) \o b = a \o (o \o b)
      BY <3>4, <3>5, ConcatAssociative
    <3>7. w = v => a \o o = Append(a, f)
      BY <3>3, <3>4, AppendIsConcat
    <3>8. w # v => a \o o = a
      BY <3>3, <3>4, ConcatEmptySeq
    <3>9. a \o o \in Seq(T)
      BY <3>4, <3>5, ConcatAt
    <3> QED
      BY <3>1, <3>2, <3>5, <3>6, <3>7, <3>8, <3>9
  <2> QED
    BY <1>2, <1>3, <2>2, <2>3, <2>4 DEF Lanes
<1>4. ASSUME NEW f \in FlitType, NEW w \in Vcs, x = <<Old(f, w)>>
      PROVE  /\ Fresh(After1(x)) /\ Reached(d, x) \in [Vcs -> Seq(FlitType)]
             /\ Lanes(Reached(d, x), After1(x)) = Lanes(d, x)
  <2>1. x # << >> /\ x[1] = Old(f, w) /\ Tail(x) = << >> /\ Fresh(<< >>)
    BY <1>4 DEF Fresh
  <2>2. ASSUME NEW v \in Vcs
        PROVE  OnWay(<< >>, v) \in Seq(T) /\ OnWay(x, v) = Out(Old(f, w), v) \o OnWay(<< >>, v)
    <3>1. OnWay(<< >>, v) = << >> /\ OnWay(x, v) = Out(Old(f, w), v)
      BY <1>4, WayIs
    <3>2. Out(Old(f, w), v) \in Seq(T)
      BY <1>2, OutIs
    <3>3. PICK o : o = Out(Old(f, w), v)
      OBVIOUS
    <3>4. o \in Seq(T) /\ o \o << >> = o
      BY <3>2, <3>3, ConcatEmptySeq
    <3>5. OnWay(<< >>, v) \in Seq(T)
      <4>1. << >> \in Seq(T)
        OBVIOUS
      <4> QED
        BY <3>1, <4>1
    <3> QED
      BY <3>1, <3>3, <3>4, <3>5
  <2> QED
    BY <1>3, <2>1, <2>2
<1>5. ASSUME NEW f \in FlitType, NEW w \in Vcs, NEW g \in FlitType, NEW u \in Vcs, x = <<Old(f, w), New(g, u)>>
      PROVE  /\ Fresh(After1(x)) /\ Reached(d, x) \in [Vcs -> Seq(FlitType)]
             /\ Lanes(Reached(d, x), After1(x)) = Lanes(d, x)
  <2> DEFINE z == <<New(g, u)>>
  <2>1. x # << >> /\ x[1] = Old(f, w) /\ Tail(x) = z /\ Fresh(z)
    BY <1>5 DEF Fresh
  <2>2. ASSUME NEW v \in Vcs
        PROVE  OnWay(z, v) \in Seq(T) /\ OnWay(x, v) = Out(Old(f, w), v) \o OnWay(z, v)
    <3>1. OnWay(z, v) = Out(New(g, u), v) /\ OnWay(x, v) = Out(Old(f, w), v) \o Out(New(g, u), v)
      <4>1. PICK a : a = Old(f, w)
        OBVIOUS
      <4>2. PICK c : c = New(g, u)
        OBVIOUS
      <4>3. z = <<c>> /\ x = <<a, c>>
        BY <1>5, <4>1, <4>2
      <4>4. OnWay(<<c>>, v) = Out(c, v)
        BY WayOne
      <4>5. OnWay(<<a, c>>, v) = Out(a, v) \o Out(c, v)
        BY WayTwo
      <4> QED
        BY <4>1, <4>2, <4>3, <4>4, <4>5
    <3>2. Out(New(g, u), v) \in Seq(T)
      BY <1>2, OutIs
    <3> QED
      BY <3>1, <3>2
  <2> HIDE DEF z
  <2> QED
    BY <1>3, <2>1, <2>2
<1> QED
  BY <1>1, <1>4, <1>5 DEF Filling, Stale, Fresh

(* The router behind takes on a flit that is there.                           *)
LEMMA WayDrained ==
  ASSUME NEW x, Fresh(x), NEW d \in [Vcs -> Seq(FlitType)], NEW w \in Vcs, d[w] # << >>
  PROVE  /\ Lanes([d EXCEPT ![w] = Tail(d[w])], x) = [Lanes(d, x) EXCEPT ![w] = Tail(Lanes(d, x)[w])]
         /\ Lanes(d, x)[w] # << >> /\ [d EXCEPT ![w] = Tail(d[w])] \in [Vcs -> Seq(FlitType)]
<1>1. PICK T : T = FlitType
  OBVIOUS
<1>2. PICK a : a = d[w]
  OBVIOUS
<1>3. PICK b : b = OnWay(x, w)
  OBVIOUS
<1>4. a \in Seq(T) /\ a # << >>
  BY <1>1, <1>2
<1>5. b \in Seq(T)
  <2>1. CASE x = << >>
    <3>1. b = << >>
      BY <1>3, <2>1 DEF OnWay
    <3> QED
      BY <3>1
  <2>2. ASSUME NEW f \in FlitType, NEW u \in Vcs, x = <<New(f, u)>> PROVE b \in Seq(T)
    <3>1. b = Out(New(f, u), w)
      BY <1>3, <2>2, WayIs
    <3> QED
      BY <1>1, <3>1, OutIs
  <2> QED
    BY <2>1, <2>2 DEF Fresh
<1>6. PICK h : h = <<a[1]>>
  OBVIOUS
<1>7. PICK t : t = Tail(a)
  OBVIOUS
<1>8. a[1] \in T /\ h \in Seq(T) /\ t \in Seq(T) /\ a = h \o t
  <2>1. a[1] \in T /\ t \in Seq(T) /\ Len(a) \in Nat \ {0} /\ Len(t) = Len(a) - 1
        /\ \A i \in 1 .. Len(t) : t[i] = a[i + 1]
    BY <1>4, <1>7, HeadTailProperties, EmptySeq
  <2>2. h \in Seq(T) /\ Len(h) = 1 /\ h[1] = a[1]
    BY <1>6, <2>1
  <2>3. PICK y : y = h \o t
    OBVIOUS
  <2>4. /\ y \in Seq(T) /\ Len(y) = 1 + Len(t) /\ (\A k \in 1 .. 1 : y[k] = h[k])
        /\ \A k \in 1 .. Len(t) : y[1 + k] = t[k]
    BY <2>1, <2>2, <2>3, ConcatAt
  <2>5. Len(y) = Len(a)
    BY <2>1, <2>4
  <2>6. ASSUME NEW k \in 1 .. Len(a) PROVE y[k] = a[k]
    <3>1. CASE k = 1
      BY <2>2, <2>4, <3>1
    <3>2. CASE k # 1
      <4>1. k - 1 \in 1 .. Len(t) /\ 1 + (k - 1) = k /\ (k - 1) + 1 = k
        BY <2>1, <3>2
      <4>2. y[1 + (k - 1)] = t[k - 1] /\ t[k - 1] = a[(k - 1) + 1]
        BY <2>1, <2>4, <4>1
      <4> QED
        BY <4>1, <4>2
    <3> QED
      BY <3>1, <3>2
  <2>7. y = a
    BY <1>4, <2>4, <2>5, <2>6, SeqEqual
  <2> QED
    BY <2>1, <2>2, <2>3, <2>7
<1>9. PICK y : y = t \o b
  OBVIOUS
<1>10. y \in Seq(T) /\ a \o b = h \o y
  <2>1. (h \o t) \o b = h \o (t \o b)
    BY <1>5, <1>8, ConcatAssociative
  <2>2. y \in Seq(T)
    BY <1>5, <1>8, <1>9, ConcatAt
  <2> QED
    BY <1>8, <1>9, <2>1, <2>2
<1>11. h \o y # << >> /\ Tail(h \o y) = y
  <2>1. PICK z : z = h \o y
    OBVIOUS
  <2>2. h \in Seq(T) /\ Len(h) = 1
    BY <1>6, <1>8
  <2>3. z \in Seq(T) /\ Len(z) = 1 + Len(y) /\ \A k \in 1 .. Len(y) : z[1 + k] = y[k]
    <3>1. y \in Seq(T) /\ h \in Seq(T)
      BY <1>10, <2>2
    <3>2. /\ z \in Seq(T) /\ Len(z) = Len(h) + Len(y)
          /\ \A k \in 1 .. Len(y) : z[Len(h) + k] = y[k]
      BY <2>1, <3>1, ConcatAt
    <3> QED
      BY <2>2, <3>2
  <2>4. Len(y) \in Nat
    BY <1>10
  <2>5. z # << >>
    BY <2>3, <2>4, EmptySeq
  <2>6. Tail(z) \in Seq(T) /\ Len(Tail(z)) = Len(y) /\ \A i \in 1 .. Len(y) : Tail(z)[i] = z[i + 1]
    BY <2>3, <2>4, <2>5, HeadTailProperties
  <2>7. \A i \in 1 .. Len(y) : Tail(z)[i] = y[i]
    BY <2>3, <2>4, <2>6
  <2>8. Tail(z) = y
    BY <1>10, <2>6, <2>7, SeqEqual
  <2> QED
    BY <2>1, <2>5, <2>8
<1>12. PICK e : e = [d EXCEPT ![w] = t]
  OBVIOUS
<1>13. e \in [Vcs -> Seq(FlitType)] /\ e[w] = t /\ \A v \in Vcs : v # w => e[v] = d[v]
  BY <1>1, <1>8, <1>12
<1>14. PICK L : L = Lanes(d, x)
  OBVIOUS
<1>15. DOMAIN L = Vcs /\ L[w] = a \o b /\ \A v \in Vcs : L[v] = d[v] \o OnWay(x, v)
  BY <1>2, <1>3, <1>14 DEF Lanes
<1>16. Lanes(e, x) = [L EXCEPT ![w] = y]
  <2>1. \A v \in Vcs : e[v] \o OnWay(x, v) = IF v = w THEN y ELSE L[v]
    BY <1>3, <1>9, <1>13, <1>15
  <2>2. [L EXCEPT ![w] = y] = [v \in Vcs |-> IF v = w THEN y ELSE L[v]]
    BY <1>15
  <2> QED
    BY <2>1, <2>2 DEF Lanes
<1>17. Tail(L[w]) = y /\ L[w] # << >>
  BY <1>10, <1>11, <1>15
<1> QED
  BY <1>2, <1>7, <1>12, <1>13, <1>14, <1>16, <1>17

(* Who has promised a place for each flit of a packet p of hub h, and how many. *)
Owing(p, h, j, k) == IF j \in Others(h) /\ (p \in Multi \/ j \in To[p]) THEN k ELSE 0
Lowered(ready, h, p, k) == [j \in H |-> ready[j] - Owing(p, h, j, k)]

(* A packet that leaves takes them all.                                      *)
LEMMA SaidReady ==
  ASSUME HubAssumption, NEW s, Shaped(s), NEW h \in H, NEW v, NEW p \in Packets, s.ready \in [H -> Int]
  PROVE  SaidAll(s, h, v, Entire(p)).ready = Lowered(s.ready, h, p, Size[p])
<1> DEFINE n == Size[p]
           q == Entire(p)
           P(t, k) == Shaped(t) /\ t.ready = Lowered(s.ready, h, p, k)
<1>1. n \in Nat \ {0}
  BY DEF HubAssumption
<1>2. DOMAIN q = 1 .. n /\ \A k \in 1 .. n : q[k] = <<p, k>>
  BY <1>1, FlitsAre DEF Entire
<1> HIDE DEF q
<1>3. PICK g : Chain(g, s, h, v, q, n) /\ SaidAll(s, h, v, q) = g[n]
  <2>1. n \in Nat /\ DOMAIN q = 1 .. n
    BY <1>1, <1>2
  <2> HIDE DEF n
  <2> QED
    BY <2>1, SaidChain
<1> DEFINE S == {k \in 0 .. n : P(g[k], k)}
<1>4. 0 \in S
  <2>1. g[0] = s
    BY <1>3 DEF Chain
  <2>2. Lowered(s.ready, h, p, 0) = s.ready
    BY DEF Lowered, Owing
  <2> QED
    BY <1>1, <2>1, <2>2
<1>5. ASSUME NEW k \in 1 .. n, k - 1 \in S PROVE k \in S
  <2> DEFINE t == g[k - 1]
             f == <<p, k>>
             x == Say(t, h, v, f)
  <2>1. g[k] = x
    BY <1>2, <1>3 DEF Chain
  <2>2. Shaped(t) /\ t.ready = Lowered(s.ready, h, p, k - 1) /\ f[1] = p
    BY <1>5
  <2> HIDE DEF t, f
  <2>3. Said(t, x, h, v, f)
    BY <2>2, SayDoes
  <2> HIDE DEF x
  <2>4. Shaped(x) /\ x.ready = UpdateReceiveStatus(t.ready, h, p)
    BY <2>2, <2>3 DEF Said, Within
  <2>5. x.ready = Lowered(s.ready, h, p, k)
    <3>1. \A j \in H : t.ready[j] = s.ready[j] - Owing(p, h, j, k - 1) /\ s.ready[j] \in Int
      BY <2>2 DEF Lowered
    <3>2. \A j \in H : (IF j \in Others(h) /\ (p \in Multi \/ j \in To[p]) THEN t.ready[j] - 1 ELSE t.ready[j])
                       = s.ready[j] - Owing(p, h, j, k)
      BY <1>1, <3>1 DEF Owing
    <3> QED
      BY <2>4, <3>2 DEF UpdateReceiveStatus, Lowered
  <2> QED
    BY <1>1, <2>1, <2>4, <2>5
<1>6. n \in S
  <2> HIDE DEF S
  <2> QED
    BY <1>1, <1>4, <1>5, Climb DEF Climbs
<1> QED
  BY <1>3, <1>6 DEF q

(* What a hub is about to send is for others that have room for it.            *)
RoomAt(ready, r, h) ==
  r.trav # << >> => LET p == r.outq[1][1]
                    IN  \A j \in Others(h) : p \in Multi \/ j \in To[p] => ready[j] >= PacketSize

(* What a traversal promises, and what is promised for what is in the air.      *)
DueOf(a, h, j) == IF a = << >> THEN 0 ELSE Owing(a[1][1], h, j, Size[a[1][1]])
Promises(s, t, h) == t.ready = [j \in H |-> s.ready[j] - DueOf(t.hub[h].air, h, j)]
(* A traversal promises a place for each flit it sends, and there is one.    *)
LEMMA TraversePromises ==
  ASSUME HubAssumption, NEW s, Shaped(s), NEW h \in H, SendTypes(s.hub[h]), s.ready \in [H -> Nat],
         NEW b, NEW u \in [Vcs -> SUBSET Packets], NEW sent, Orderly(s.hub[h], b, u, sent, h),
         s.hub[h].inq = << >>, s.hub[h].air = << >>, Sends(s.hub[h], h, s.hold),
         RoomAt(s.ready, s.hub[h], h)
  PROVE  LET t == HubTraverse(s, h)
         IN  /\ Promises(s, t, h) /\ t.ready \in [H -> Nat] /\ RoomAt(t.ready, t.hub[h], h)
<1> DEFINE r == s.hub[h]
           t == HubTraverse(s, h)
           o == r.outq
           p == o[1][1]
<1> SUFFICES /\ Promises(s, t, h) /\ t.ready \in [H -> Nat] /\ RoomAt(t.ready, t.hub[h], h)
  OBVIOUS
<1>1. CASE r.trav = << >>
  <2>1. t = s
    <3>1. TRUE \in BOOLEAN
      OBVIOUS
    <3> QED
      BY <1>1, <3>1, HubTraverseIs
  <2>2. \A j \in H : s.ready[j] - DueOf(s.hub[h].air, h, j) = s.ready[j]
    BY DEF DueOf
  <2> HIDE DEF t
  <2> QED
    BY <2>1, <2>2 DEF Promises
<1>2. ASSUME NEW v \in Vcs, r.trav = <<[v |-> v, new |-> TRUE]>>
      PROVE  Promises(s, t, h) /\ t.ready \in [H -> Nat] /\ RoomAt(t.ready, t.hub[h], h)
  <2> DEFINE z == <<[v |-> v, new |-> FALSE]>>
  <2>1. t = Put(s, h, "trav", z)
    <3>1. \A a \in BOOLEAN :
             r.trav = <<[v |-> v, new |-> a]>> =>
               t = IF a THEN Put(s, h, "trav", <<[v |-> v, new |-> FALSE]>>) ELSE SaidAll(Emptied(s, h, v), h, v, r.buf[v])
      BY HubTraverseIs
    <3> QED
      BY <1>2, <3>1
  <2> HIDE DEF t, z
  <2>2. /\ t.ready = s.ready /\ t.hub[h].air = << >> /\ t.hub[h].outq = r.outq
    BY <2>1, PutDoes, Names
  <2>3. \A j \in H : s.ready[j] - DueOf(t.hub[h].air, h, j) = s.ready[j]
    BY <2>2 DEF DueOf
  <2>4. RoomAt(t.ready, t.hub[h], h)
    BY <1>2, <2>2 DEF RoomAt
  <2> QED
    BY <2>2, <2>3, <2>4 DEF Promises
<1>3. ASSUME NEW v \in Vcs, r.trav = <<[v |-> v, new |-> FALSE]>>
      PROVE  Promises(s, t, h) /\ t.ready \in [H -> Nat] /\ RoomAt(t.ready, t.hub[h], h)
  <2> DEFINE e == Emptied(s, h, v)
  <2>1. r.trav # << >> /\ o # << >> /\ o[1][2] = v /\ o \in Seq(Packets \X Vcs)
    BY <1>3 DEF Sends, SendTypes
  <2>2. 1 \in DOMAIN o /\ p \in Packets
    BY <2>1
  <2>3. r.buf[v] = Entire(p)
    BY <2>1, <2>2 DEF Orderly, Ready
  <2>4. t = SaidAll(e, h, v, Entire(p))
    <3>1. t = SaidAll(e, h, v, r.buf[v])
      BY <1>3, TraverseEmpties
    <3> QED
      BY <2>3, <3>1
  <2>5. Shaped(e) /\ e.ready = s.ready /\ e.hub[h].air = << >> /\ e.hub[h].outq = o /\ e.hub[h].credits \in Seq(Vcs)
        /\ e.hub[h].trav = << >>
    <3>1. IsEmptied(s, e, h, v)
      BY EmptiedDoes
    <3>2. e.ready = s.ready
      <4> DEFINE y == Put(s, h, "trav", << >>)
      <4>1. Shaped(y) /\ y.ready = s.ready
        BY PutDoes, Names
      <4> HIDE DEF y
      <4>2. e = Put(y, h, "buf", [s.hub[h].buf EXCEPT ![v] = << >>])
        BY DEF Emptied, y
      <4> QED
        BY <4>1, <4>2, PutDoes, Names
    <3> HIDE DEF e
    <3> QED
      BY <2>1, <3>1, <3>2, Names DEF IsEmptied, Within, SendTypes
  <2>13. OwnTurn(e.hub[h], p, v)
    <3>1. Ready(r)
      BY DEF Orderly
    <3>2. OwnTurn(r, p, v)
      BY <2>1, <2>2, <3>1, ReadyPops
    <3> QED
      BY <2>5, <3>2 DEF OwnTurn
  <2> HIDE DEF e, t, p
  <2>6. t.ready = Lowered(s.ready, h, p, Size[p])
    <3>1. PICK y : y = e
      OBVIOUS
    <3>2. Shaped(y) /\ y.ready \in [H -> Int] /\ y.ready = s.ready
      BY <2>5, <3>1
    <3>3. SaidAll(y, h, v, Entire(p)).ready = Lowered(y.ready, h, p, Size[p])
      BY <2>2, <3>2, SaidReady
    <3> QED
      BY <2>4, <3>1, <3>2, <3>3
  <2>7. Gone(e, t, h, v, p)
    BY <2>2, <2>4, <2>5, <2>13, SaidEntire
  <2>8. t.hub[h].air = Entire(p) /\ t.hub[h].trav = << >>
    BY <2>5, <2>7, Names DEF Gone, Within, SaidFields
  <2>9. Entire(p) # << >> /\ Entire(p)[1][1] = p
    BY <2>2, EntireTells
  <2>10. \A j : DueOf(t.hub[h].air, h, j) = Owing(p, h, j, Size[p])
    BY <2>8, <2>9 DEF DueOf
  <2>11. Promises(s, t, h)
    BY <2>6, <2>10 DEF Promises, Lowered
  <2>12. ASSUME NEW j \in H PROVE s.ready[j] - Owing(p, h, j, Size[p]) \in Nat
    <3>1. Size[p] \in Nat /\ PacketSize \in Nat /\ Size[p] <= PacketSize /\ s.ready[j] \in Nat
      BY <2>2 DEF HubAssumption
    <3>2. j \in Others(h) /\ (p \in Multi \/ j \in To[p]) => s.ready[j] >= PacketSize
      BY <2>1 DEF RoomAt, p
    <3> QED
      BY <3>1, <3>2 DEF Owing
  <2> QED
    BY <2>6, <2>8, <2>11, <2>12 DEF Lowered, RoomAt
<1>4. r.trav = << >> \/ \E v \in Vcs, b1 \in BOOLEAN : r.trav = <<[v |-> v, new |-> b1]>>
  BY DEF SendTypes
<1> HIDE DEF t, r
<1> QED
  BY <1>1, <1>2, <1>3, <1>4

(* What a hub has heard and not passed on yet.                               *)
Ear(r, d, h) ==
  /\ Flows(r.recv, r.swq, r.next, Lanes(d, r.xbar)) /\ HasRoom(r.next) /\ DropsOthers(r, h)
  /\ r.cur \in Vcs \cup {Idle}

(* It depends on these fields only.                                          *)
LEMMA EarSame ==
  ASSUME NEW r, NEW q, NEW d, NEW h, Ear(r, d, h), q.recv = r.recv, q.swq = r.swq, q.next = r.next,
         q.xbar = r.xbar, q.drop = r.drop, q.cur = r.cur
  PROVE  Ear(q, d, h)
<1> HIDE DEF Flows, Lanes, HasRoom
<1> QED
  BY DEF Ear, DropsOthers

(* It is a sequence of flits.                                                *)
LEMMA EarTypes ==
  ASSUME NEW r, NEW d, NEW h, Ear(r, d, h)
  PROVE  r.recv \in Seq(FlitType) /\ Len(r.recv) \in Nat /\ LaneTypes(r.next)
<1>1. AtFront(r.recv, r.swq) /\ LaneTypes(r.next)
  BY DEF Ear, Flows
<1>2. r.recv \in Seq(FlitType)
  BY <1>1 DEF AtFront
<1> QED
  BY <1>1, <1>2

(* The places of hub h, free ones and taken ones, grow by n.                  *)
Gains(s, t, h, n) ==
  /\ Shaped(t) /\ t.ready \in [H -> Nat]
  /\ \A j \in H : t.ready[j] >= s.ready[j] /\ (j # h => t.ready[j] = s.ready[j])
  /\ t.ready[h] + Len(t.hub[h].recv) = s.ready[h] + Len(s.hub[h].recv) + n

(* What was promised for what hub h hears.                                   *)
HeardOf(payload, h) ==
  IF payload = << >> THEN 0
  ELSE LET p == payload[1][1] IN IF p \in Multi \/ h \in To[p] THEN Size[p] ELSE 0

(* It hears nothing.                                                         *)
LEMMA FromAirNone ==
  ASSUME NEW s, NEW h
  PROVE  FromAir(s, h, << >>) = s
<1>1. PICK q : q = << >>
  OBVIOUS
<1>2. PICK n : n = 0
  OBVIOUS
<1>3. n \in Nat /\ DOMAIN q = 1 .. n
  BY <1>1, <1>2
<1>4. PICK g : Hearing(g, s, h, q, n) /\ FromAir(s, h, q) = g[n]
  BY <1>3, HeardChain
<1> QED
  BY <1>1, <1>2, <1>4 DEF Hearing

(* A hub hears a packet, or nothing.                                         *)
LEMMA AirHears ==
  ASSUME HubAssumption, NEW s, Shaped(s), NEW h \in H, NEW d, s.ready \in [H -> Nat],
         Ear(s.hub[h], d, h), Waits(s.hub[h].recv, s.hub[h].swq),
         NEW payload, payload = << >> \/ \E p \in Packets : payload = Entire(p)
  PROVE  LET t == FromAir(s, h, payload)
         IN  /\ Ear(t.hub[h], d, h) /\ Waits(t.hub[h].recv, t.hub[h].swq)
             /\ Within(s, t, h, {"recv", "drop"}) /\ Gains(s, t, h, HeardOf(payload, h))
<1> DEFINE t == FromAir(s, h, payload)
           r == s.hub[h]
           x == t.hub[h]
<1> SUFFICES /\ Ear(x, d, h) /\ Waits(x.recv, x.swq)
             /\ Within(s, t, h, {"recv", "drop"}) /\ Gains(s, t, h, HeardOf(payload, h))
  OBVIOUS
<1>1. r.recv \in Seq(FlitType) /\ Len(r.recv) \in Nat
  BY EarTypes
<1>2. CASE payload = << >>
  <2>1. t = s
    BY <1>2, FromAirNone
  <2>2. HeardOf(payload, h) = 0
    BY <1>2 DEF HeardOf
  <2> HIDE DEF t
  <2>3. Gains(s, t, h, HeardOf(payload, h))
    BY <1>1, <2>1, <2>2 DEF Gains
  <2>4. Within(s, t, h, {"recv", "drop"})
    BY <2>1, WithinNone
  <2> QED
    BY <2>1, <2>3, <2>4
<1>3. ASSUME NEW p \in Packets, payload = Entire(p)
      PROVE  /\ Ear(x, d, h) /\ Waits(x.recv, x.swq)
             /\ Within(s, t, h, {"recv", "drop"}) /\ Gains(s, t, h, HeardOf(payload, h))
  <2>1. Heard(s, t, h, p, Size[p])
    <3>1. DropsOthers(r, h) /\ s.ready \in [H -> Int]
      BY DEF Ear
    <3> QED
      BY <1>1, <1>3, <3>1, FromAirEntire
  <2>2. HeardOf(payload, h) = IF p \in Multi \/ h \in To[p] THEN Size[p] ELSE 0
    <3>1. payload # << >> /\ payload[1][1] = p
      BY <1>3, EntireTells
    <3> QED
      BY <3>1 DEF HeardOf
  <2>3. Size[p] \in Nat
    BY DEF HubAssumption
  <2> HIDE DEF t
  <2>4. /\ Within(s, t, h, {"recv", "drop"}) /\ DropsOthers(x, h)
        /\ x.recv = IF h \in To[p] THEN r.recv \o Entire(p) ELSE r.recv
        /\ t.ready \in [H -> Int] /\ (\A j \in H \ {h} : t.ready[j] = s.ready[j])
        /\ t.ready[h] = IF h \notin To[p] /\ p \in Multi THEN s.ready[h] + Size[p] ELSE s.ready[h]
    BY <2>1 DEF Heard, Entire
  <2>5. x.swq = r.swq /\ x.next = r.next /\ x.xbar = r.xbar /\ x.cur = r.cur
    BY <2>4, Names DEF Within
  <2>6. /\ Flows(r.recv \o Entire(p), r.swq, r.next, Lanes(d, r.xbar))
        /\ Waits(r.recv \o Entire(p), r.swq) /\ Len(r.recv \o Entire(p)) = Len(r.recv) + Size[p]
    <3>1. Flows(r.recv, r.swq, r.next, Lanes(d, r.xbar))
      BY DEF Ear
    <3> HIDE DEF Flows, Waits
    <3> QED
      BY <3>1, HearFlows
  <2> HIDE DEF Flows, Waits, Lanes
  <2>7. Ear(x, d, h) /\ Waits(x.recv, x.swq)
    BY <2>4, <2>5, <2>6 DEF Ear
  <2>8. Gains(s, t, h, HeardOf(payload, h))
    <3>0. s.ready[h] \in Nat /\ Len(r.recv) \in Nat /\ \A j \in H : s.ready[j] \in Nat
      BY <1>1
    <3>1. t.ready[h] + Len(x.recv) = s.ready[h] + Len(r.recv) + HeardOf(payload, h)
      <4>1. CASE h \in To[p]
        <5>1. Len(x.recv) = Len(r.recv) + Size[p]
          BY <2>4, <2>6, <4>1
        <5>2. t.ready[h] = s.ready[h] /\ HeardOf(payload, h) = Size[p]
          BY <2>2, <2>4, <4>1
        <5> QED
          BY <2>3, <3>0, <5>1, <5>2
      <4>2. CASE h \notin To[p]
        <5>1. x.recv = r.recv
          BY <2>4, <4>2
        <5>2. t.ready[h] = s.ready[h] + HeardOf(payload, h)
          BY <2>2, <2>4, <3>0, <4>2
        <5> QED
          BY <2>2, <2>3, <3>0, <5>1, <5>2
      <4> QED
        BY <4>1, <4>2
    <3>2. t.ready[h] \in Nat /\ t.ready[h] >= s.ready[h]
      BY <2>3, <2>4, <3>0
    <3>3. ASSUME NEW j \in H PROVE t.ready[j] \in Nat /\ t.ready[j] >= s.ready[j] /\ (j # h => t.ready[j] = s.ready[j])
      <4>1. CASE j = h
        BY <3>2, <4>1
      <4>2. CASE j # h
        BY <2>4, <3>0, <4>2
      <4> QED
        BY <4>1, <4>2
    <3>4. Shaped(t)
      BY <2>4 DEF Within
    <3>5. t.ready \in [H -> Nat]
      BY <2>4, <3>3
    <3> QED
      BY <3>1, <3>3, <3>4, <3>5 DEF Gains
  <2> QED
    BY <2>4, <2>7, <2>8
<1> QED
  BY <1>2, <1>3

(* A packet that has just got a VC goes on at once, as there is room.           *)
Poised(r) == Waits(r.recv, r.swq) \/ (r.swq # << >> /\ ~IsFullFor(r.next, r.swq[1][2]))
(* What waits goes on waiting, or has a VC with room.                        *)
LEMMA VCAllocHears ==
  ASSUME RoomWhenTaken, NEW s, Shaped(s), NEW h \in H, NEW d,
         Ear(s.hub[h], d, h), Waits(s.hub[h].recv, s.hub[h].swq), NEW w \in Vcs
  PROVE  LET t == VCAlloc(s, h, w)
         IN  /\ Ear(t.hub[h], d, h) /\ Poised(t.hub[h])
             /\ Within(s, t, h, {"cur", "next", "swq"}) /\ t.ready = s.ready
<1> DEFINE t == VCAlloc(s, h, w)
           r == s.hub[h]
           x == t.hub[h]
<1> SUFFICES Ear(x, d, h) /\ Poised(x) /\ Within(s, t, h, {"cur", "next", "swq"}) /\ t.ready = s.ready
  OBVIOUS
<1>1. /\ Within(s, t, h, {"cur", "next", "swq"}) /\ t.ready = s.ready
      /\ ~WantsVc(s, h) => t = s
      /\ WantsVc(s, h) /\ ~Usable(r.next, w) => x.cur = Idle /\ x.next = r.next /\ x.swq = r.swq
      /\ WantsVc(s, h) /\ Usable(r.next, w) =>
           x.cur = w /\ x.next = TakeBuffer(r.next, w) /\ x.swq = Append(r.swq, <<r.recv[1], w>>)
  BY VCAllocDoes
<1> HIDE DEF t
<1>2. x.recv = r.recv /\ x.xbar = r.xbar /\ x.drop = r.drop
  BY <1>1, Names DEF Within
<1> SUFFICES Ear(x, d, h) /\ Poised(x)
  BY <1>1
<1>3. CASE ~WantsVc(s, h)
  BY <1>1, <1>3 DEF Poised
<1>4. CASE WantsVc(s, h) /\ ~Usable(r.next, w)
  <2>1. x.swq = r.swq /\ x.next = r.next /\ x.cur = Idle
    BY <1>1, <1>4
  <2> HIDE DEF Flows, Waits, HasRoom
  <2>2. Ear(x, d, h)
    BY <1>2, <2>1 DEF Ear, DropsOthers
  <2> QED
    BY <1>2, <2>1, <2>2 DEF Poised
<1>5. CASE WantsVc(s, h) /\ Usable(r.next, w)
  <2> DEFINE b == TakeBuffer(r.next, w)
             Q == Lanes(d, r.xbar)
             z == << <<r.recv[1], w>> >>
  <2>1. r.recv # << >> /\ IsHead(r.recv[1]) /\ r.swq = << >>
    BY <1>5 DEF WantsVc, Waits
  <2>2. x.cur = w /\ x.next = b /\ x.swq = z
    BY <1>1, <1>5, <2>1
  <2>3. Flows(r.recv, r.swq, r.next, Q) /\ HasRoom(r.next) /\ LaneTypes(r.next)
    BY EarTypes DEF Ear
  <2>4. ~r.next.in_use[w]
    BY <1>5 DEF Usable, IsAvailableFor
  <2> HIDE DEF Q
  <2>5. Flows(r.recv, z, b, Q) /\ b.vc_occupancy[w] = 0
    <3> HIDE DEF Flows, IsHead
    <3> QED
      BY <2>1, <2>3, <2>4, TakeFlows
  <2>6. ~IsFullFor(b, w)
    BY <1>5, <2>3, <2>5, TakenHasRoom
  <2>7. HasRoom(b)
    BY <2>3, FieldsStay
  <2> HIDE DEF b, z, Flows, HasRoom, Waits
  <2>8. Ear(x, d, h)
    BY <1>2, <2>2, <2>5, <2>7 DEF Ear, DropsOthers, Q
  <2>9. z # << >> /\ z[1][2] = w
    BY DEF z
  <2> QED
    BY <2>2, <2>6, <2>8, <2>9 DEF Poised
<1> QED
  BY <1>3, <1>4, <1>5

(* What is in the crossbar waits.                                            *)
LEMMA SwitchEvaluateHears ==
  ASSUME NEW s, Shaped(s), NEW h \in H, NEW d, Ear(s.hub[h], d, h), Poised(s.hub[h]), Fresh(s.hub[h].xbar)
  PROVE  LET t == SwitchEvaluate(s, h)
         IN  /\ Ear(t.hub[h], d, h) /\ Poised(t.hub[h]) /\ Stale(t.hub[h].xbar)
<1> DEFINE t == SwitchEvaluate(s, h)
           r == s.hub[h]
           x == t.hub[h]
<1> SUFFICES Ear(x, d, h) /\ Poised(x) /\ Stale(x.xbar)
  OBVIOUS
<1>1. Within(s, t, h, {"xbar"}) /\ x.xbar = Aged(r.xbar)
  BY SwitchEvaluateDoes DEF Aged
<1> HIDE DEF t
<1>2. x.recv = r.recv /\ x.swq = r.swq /\ x.next = r.next /\ x.drop = r.drop /\ x.cur = r.cur
  BY <1>1, Names DEF Within
<1>3. Stale(Aged(r.xbar)) /\ Lanes(d, Aged(r.xbar)) = Lanes(d, r.xbar)
  BY WayAged
<1> HIDE DEF Flows, Waits, HasRoom, Lanes, Aged
<1>4. Ear(x, d, h)
  BY <1>1, <1>2, <1>3 DEF Ear, DropsOthers
<1>5. Poised(x)
  BY <1>2 DEF Poised
<1> QED
  BY <1>1, <1>3, <1>4, <1>5

(* A flit goes on, or none.                                                  *)
LEMMA SwitchTraverseHears ==
  ASSUME WaitForTail, NEW s, Shaped(s), NEW h \in H, NEW d \in [Vcs -> Seq(FlitType)], s.ready \in [H -> Nat],
         Ear(s.hub[h], d, h), Poised(s.hub[h]), Stale(s.hub[h].xbar)
  PROVE  LET t == SwitchTraverse(s, h)
         IN  /\ Ear(t.hub[h], d, h) /\ Waits(t.hub[h].recv, t.hub[h].swq) /\ Filling(t.hub[h].xbar)
             /\ Gains(s, t, h, 0)
<1> DEFINE t == SwitchTraverse(s, h)
           r == s.hub[h]
           x == t.hub[h]
           w == r.swq[1][2]
           f == r.swq[1][1]
           stays == r.swq = << >> \/ IsFullFor(r.next, w)
<1> SUFFICES Ear(x, d, h) /\ Waits(x.recv, x.swq) /\ Filling(x.xbar) /\ Gains(s, t, h, 0)
  OBVIOUS
<1>1. /\ Within(s, t, h, {"next", "recv", "xbar", "swq"})
      /\ stays => t = s
      /\ ~stays => /\ x.next = SendingFlit(r.next, w, IsTail(f)) /\ x.recv = Tail(r.recv)
                   /\ x.xbar = Append(r.xbar, New(f, w))
                   /\ x.swq = IF Tail(r.recv) # << >> /\ ~IsHead(Tail(r.recv)[1])
                              THEN Append(Tail(r.swq), <<Tail(r.recv)[1], w>>) ELSE Tail(r.swq)
                   /\ t.ready = [s.ready EXCEPT ![h] = s.ready[h] + 1]
  BY SwitchTraverseIs DEF New
<1> HIDE DEF t, stays
<1>2. r.recv \in Seq(FlitType) /\ Len(r.recv) \in Nat
  BY EarTypes
<1>3. Shaped(t) /\ x.drop = r.drop /\ x.cur = r.cur
  BY <1>1, Names DEF Within
<1>4. CASE stays
  <2>1. Waits(r.recv, r.swq)
    BY <1>4 DEF stays, Poised
  <2>2. Gains(s, t, h, 0)
    BY <1>1, <1>2, <1>4 DEF Gains
  <2>3. Filling(r.xbar)
    BY DEF Filling
  <2> QED
    BY <1>1, <1>4, <2>1, <2>2, <2>3
<1>5. CASE ~stays
  <2> DEFINE Q == Lanes(d, r.xbar)
             rest == Tail(r.recv)
  <2>1. Flows(r.recv, r.swq, r.next, Q) /\ HasRoom(r.next)
    BY DEF Ear
  <2>2. r.swq # << >>
    BY <1>5 DEF stays
  <2>3. PICK v \in Vcs : r.swq = << <<r.recv[1], v>> >>
    BY <2>1, <2>2 DEF Flows, AtFront
  <2>4. w = v /\ f = r.recv[1] /\ Tail(r.swq) = << >>
    BY <2>3
  <2>5. Flows(r.recv, << <<f, w>> >>, r.next, Q) /\ w \in Vcs
    BY <2>1, <2>3, <2>4
  <2>6. x.swq = FollowUp(rest, w)
    <3>1. Append(Tail(r.swq), <<rest[1], w>>) = << <<rest[1], w>> >>
      <4>1. PICK z : z = <<rest[1], w>>
        OBVIOUS
      <4>2. Append(<< >>, z) = <<z>>
        OBVIOUS
      <4> HIDE DEF rest, w, f
      <4> QED
        BY <2>4, <4>1, <4>2
    <3>2. x.swq = IF rest # << >> /\ ~IsHead(rest[1]) THEN Append(Tail(r.swq), <<rest[1], w>>) ELSE Tail(r.swq)
      BY <1>1, <1>5
    <3> HIDE DEF rest, w, f
    <3> QED
      BY <2>4, <3>1, <3>2 DEF FollowUp
  <2> HIDE DEF Q, rest, w, f
  <2>7. /\ f \in FlitType /\ r.recv # << >>
        /\ Flows(rest, FollowUp(rest, w), SendingFlit(r.next, w, IsTail(f)), [Q EXCEPT ![w] = Append(Q[w], f)])
        /\ Waits(rest, FollowUp(rest, w)) /\ Len(rest) = Len(r.recv) - 1
    <3> HIDE DEF Flows, FollowUp, Waits
    <3> QED
      BY <2>5, SwitchFlows DEF rest
  <2> HIDE DEF Flows, Waits, FollowUp
  <2>8. /\ Filling(x.xbar) /\ Lanes(d, x.xbar) = [Q EXCEPT ![w] = Append(Q[w], f)]
    <3>1. x.xbar = Append(r.xbar, New(f, w))
      BY <1>1, <1>5
    <3>2. /\ Filling(Append(r.xbar, New(f, w)))
          /\ Lanes(d, Append(r.xbar, New(f, w))) = [Lanes(d, r.xbar) EXCEPT ![w] = Append(Lanes(d, r.xbar)[w], f)]
      BY <2>5, <2>7, WayMore
    <3> QED
      BY <3>1, <3>2 DEF Q
  <2>9. HasRoom(SendingFlit(r.next, w, IsTail(f)))
    BY <2>1, FieldsStay
  <2>10. x.next = SendingFlit(r.next, w, IsTail(f)) /\ x.recv = rest /\ t.ready = [s.ready EXCEPT ![h] = s.ready[h] + 1]
    BY <1>1, <1>5 DEF rest
  <2>11. DropsOthers(x, h) /\ x.cur \in Vcs \cup {Idle}
    BY <1>3 DEF Ear, DropsOthers
  <2> HIDE DEF HasRoom, Lanes
  <2>12. Ear(x, d, h)
    BY <2>6, <2>7, <2>8, <2>9, <2>10, <2>11 DEF Ear
  <2>13. Gains(s, t, h, 0)
    <3>1. t.ready[h] = s.ready[h] + 1 /\ (\A j \in H : j # h => t.ready[j] = s.ready[j]) /\ t.ready \in [H -> Nat]
      BY <2>10
    <3>0. s.ready[h] \in Nat /\ Len(x.recv) = Len(r.recv) - 1
      BY <2>7, <2>10
    <3>2. t.ready[h] + Len(x.recv) = s.ready[h] + Len(r.recv) + 0
      <4>1. PICK a : a = t.ready[h]
        OBVIOUS
      <4>2. PICK c : c = s.ready[h]
        OBVIOUS
      <4>3. a = c + 1 /\ c \in Nat
        BY <3>0, <3>1, <4>1, <4>2
      <4>4. PICK l : l = Len(r.recv)
        OBVIOUS
      <4>5. PICK m : m = Len(x.recv)
        OBVIOUS
      <4>6. l \in Nat /\ m = l - 1
        BY <1>2, <3>0, <4>4, <4>5
      <4>7. a + m = c + l + 0
        BY <4>3, <4>6
      <4> QED
        BY <4>1, <4>2, <4>4, <4>5, <4>7
    <3> QED
      BY <1>3, <3>1, <3>2 DEF Gains
  <2> QED
    BY <2>6, <2>7, <2>8, <2>10, <2>12, <2>13
<1> QED
  BY <1>4, <1>5

(* Two changes, and nothing of this in between.                              *)
LEMMA GainsTwice ==
  ASSUME NEW s, NEW a, NEW b, NEW e, NEW p, NEW h \in H, NEW n \in Nat, s.ready \in [H -> Nat],
         Len(s.hub[h].recv) \in Nat, Len(b.hub[h].recv) \in Nat, Len(p.hub[h].recv) \in Nat,
         a.ready = s.ready, a.hub[h].recv = s.hub[h].recv, Gains(a, b, h, n),
         e.ready = b.ready, e.hub[h].recv = b.hub[h].recv, Gains(e, p, h, 0)
  PROVE  Gains(s, p, h, n)
<1>1. /\ Shaped(p) /\ p.ready \in [H -> Nat] /\ b.ready \in [H -> Nat]
      /\ \A j \in H : p.ready[j] >= b.ready[j] /\ (j # h => p.ready[j] = b.ready[j])
      /\ \A j \in H : b.ready[j] >= s.ready[j] /\ (j # h => b.ready[j] = s.ready[j])
      /\ p.ready[h] + Len(p.hub[h].recv) = b.ready[h] + Len(b.hub[h].recv) + 0
      /\ b.ready[h] + Len(b.hub[h].recv) = s.ready[h] + Len(s.hub[h].recv) + n
  BY DEF Gains
<1>2. ASSUME NEW j \in H PROVE p.ready[j] >= s.ready[j] /\ (j # h => p.ready[j] = s.ready[j])
  <2>1. p.ready[j] \in Nat /\ b.ready[j] \in Nat /\ s.ready[j] \in Nat
    BY <1>1
  <2>2. p.ready[j] >= b.ready[j] /\ b.ready[j] >= s.ready[j]
    BY <1>1
  <2>3. j # h => p.ready[j] = b.ready[j] /\ b.ready[j] = s.ready[j]
    BY <1>1
  <2> QED
    BY <2>1, <2>2, <2>3
<1>3. p.ready[h] + Len(p.hub[h].recv) = s.ready[h] + Len(s.hub[h].recv) + n
  <2>1. PICK x : x = Len(p.hub[h].recv)
    OBVIOUS
  <2>2. PICK y : y = Len(b.hub[h].recv)
    OBVIOUS
  <2>3. PICK z : z = Len(s.hub[h].recv)
    OBVIOUS
  <2>4. x \in Nat /\ y \in Nat /\ z \in Nat /\ p.ready[h] \in Nat /\ b.ready[h] \in Nat /\ s.ready[h] \in Nat
    BY <1>1, <2>1, <2>2, <2>3
  <2>5. p.ready[h] + x = b.ready[h] + y + 0 /\ b.ready[h] + y = s.ready[h] + z + n
    BY <1>1, <2>1, <2>2, <2>3
  <2>6. p.ready[h] + x = s.ready[h] + z + n
    BY <2>4, <2>5
  <2> QED
    BY <2>1, <2>3, <2>6
<1> QED
  BY <1>1, <1>2, <1>3 DEF Gains

(* Room that grows is still enough.                                          *)
LEMMA RoomMore ==
  ASSUME HubAssumption, NEW x, NEW y, NEW r, NEW q, NEW h, RoomAt(x, r, h), x \in [H -> Nat], y \in [H -> Nat],
         \A j \in H : y[j] >= x[j], q.trav = r.trav, r.trav # << >> => q.outq[1] = r.outq[1]
  PROVE  RoomAt(y, q, h)
<1> SUFFICES ASSUME q.trav # << >>, NEW j \in Others(h), q.outq[1][1] \in Multi \/ j \in To[q.outq[1][1]]
             PROVE  y[j] >= PacketSize
  BY DEF RoomAt
<1>1. q.outq[1] = r.outq[1] /\ r.trav # << >>
  OBVIOUS
<1>2. j \in H /\ PacketSize \in Nat
  BY DEF Others, HubAssumption
<1>3. x[j] >= PacketSize
  BY <1>1 DEF RoomAt
<1>4. x[j] \in Nat /\ y[j] \in Nat /\ y[j] >= x[j]
  BY <1>2
<1> QED
  BY <1>2, <1>3, <1>4

(* A hub before its turn, and after it.                                      *)
Attends(r, d, h) == Ear(r, d, h) /\ Waits(r.recv, r.swq)
(* All before the traversal.                                                 *)
PreparedEar(s, p, h, d, n) ==
  /\ Attends(p.hub[h], d, h) /\ Filling(p.hub[h].xbar) /\ Gains(s, p, h, n)
  /\ RoomAt(p.ready, p.hub[h], h)
(* They keep what a hub attends to, and gain what it hears.                  *)
LEMMA PreparedHears ==
  ASSUME HubAssumption, WaitForTail, RoomWhenTaken, NEW s, Shaped(s), NEW h \in H,
         NEW d \in [Vcs -> Seq(FlitType)], s.ready \in [H -> Nat],
         s.hub[h].outq \in Seq(Packets \X Vcs), Attends(s.hub[h], d, h), Fresh(s.hub[h].xbar),
         RoomAt(s.ready, s.hub[h], h), s.hub[h].trav # << >> => s.hub[h].outq # << >>,
         NEW payload, payload = << >> \/ \E p \in Packets : payload = Entire(p), NEW w \in Vcs
  PROVE  PreparedEar(s, Prepared(s, h, payload, w), h, d, HeardOf(payload, h))
<1> DEFINE a == FromRouter(s, h)
           b == FromAir(a, h, payload)
           c == Start(b, h)
           u == VCAlloc(c, h, w)
           e == SwitchEvaluate(u, h)
           p == SwitchTraverse(e, h)
           n == HeardOf(payload, h)
           r == s.hub[h]
<1>0. p = Prepared(s, h, payload, w)
  BY DEF Prepared, InputQueuing
<1>1. Within(s, a, h, {"inq", "buf", "outq"}) /\ a.ready = s.ready /\ Queued(r, a.hub[h])
  <2>1. IsFrom(s, a, h)
    BY FromRouterDoes
  <2> QED
    BY <2>1 DEF IsFrom
<1> HIDE DEF a
<1>2. Shaped(a) /\ a.ready \in [H -> Nat]
  BY <1>1 DEF Within
<1>3. /\ a.hub[h].recv = r.recv /\ a.hub[h].swq = r.swq /\ a.hub[h].next = r.next /\ a.hub[h].xbar = r.xbar
      /\ a.hub[h].drop = r.drop /\ a.hub[h].cur = r.cur /\ a.hub[h].trav = r.trav
  BY <1>1, Names DEF Within
<1>4. Ear(a.hub[h], d, h) /\ Waits(a.hub[h].recv, a.hub[h].swq)
  <2>1. Ear(r, d, h) /\ Waits(r.recv, r.swq)
    BY DEF Attends
  <2> HIDE DEF r
  <2>2. Ear(a.hub[h], d, h)
    BY <1>3, <2>1, EarSame
  <2> HIDE DEF Waits
  <2> QED
    BY <1>3, <2>1, <2>2
<1>5. /\ Ear(b.hub[h], d, h) /\ Waits(b.hub[h].recv, b.hub[h].swq)
      /\ Within(a, b, h, {"recv", "drop"}) /\ Gains(a, b, h, n)
  <2> HIDE DEF Ear, Waits, Gains
  <2> QED
    BY <1>2, <1>4, AirHears
<1> HIDE DEF b, n
<1>6. Shaped(b) /\ b.ready \in [H -> Nat] /\ b.hub[h].trav = r.trav /\ b.hub[h].outq = a.hub[h].outq
      /\ b.hub[h].xbar = r.xbar
  BY <1>3, <1>5, Names DEF Within, Gains
<1>7. /\ Within(b, c, h, {"trav"})
      /\ ~MayStart(b, h) => c = b
      /\ c.ready = b.ready
  BY <1>6, StartDoes
<1> HIDE DEF c
<1>8. Shaped(c) /\ c.hub[h].outq = a.hub[h].outq /\ c.hub[h].xbar = r.xbar /\ c.hub[h].recv = b.hub[h].recv
      /\ c.hub[h].swq = b.hub[h].swq /\ c.hub[h].next = b.hub[h].next
      /\ c.hub[h].drop = b.hub[h].drop /\ c.hub[h].cur = b.hub[h].cur
  BY <1>6, <1>7, Names DEF Within
<1>9. Ear(c.hub[h], d, h) /\ Waits(c.hub[h].recv, c.hub[h].swq)
  <2>1. Ear(c.hub[h], d, h)
    BY <1>5, <1>6, <1>8, EarSame
  <2> HIDE DEF Waits
  <2> QED
    BY <1>5, <1>8, <2>1
<1>10. RoomAt(c.ready, c.hub[h], h)
  <2>1. CASE MayStart(b, h)
    <3>1. ReceiveStatus(b, h, b.hub[h].outq[1][1])
      BY <2>1 DEF MayStart
    <3>2. c.hub[h].outq = b.hub[h].outq /\ c.ready = b.ready
      BY <1>6, <1>7, <1>8
    <3>3. \A j \in H : b.ready[j] \in Nat
      BY <1>6
    <3>4. PICK o : o = b.hub[h].outq[1][1]
      OBVIOUS
    <3>5. ASSUME NEW j \in Others(h), o \in Multi \/ j \in To[o] PROVE b.ready[j] >= PacketSize
      <4>1. b.ready[j] - PacketSize >= 0
        BY <3>1, <3>4, <3>5 DEF ReceiveStatus, RoomFor
      <4>2. b.ready[j] \in Nat /\ PacketSize \in Nat
        BY <3>3 DEF Others, HubAssumption
      <4> QED
        BY <4>1, <4>2
    <3> QED
      BY <3>2, <3>4, <3>5 DEF RoomAt
  <2>2. CASE ~MayStart(b, h)
    <3>1. c = b
      BY <1>7, <2>2
    <3>2. \A j \in H : b.ready[j] >= s.ready[j]
      BY <1>1, <1>5 DEF Gains
    <3>3. r.trav # << >> => b.hub[h].outq[1] = r.outq[1]
      <4>1. SUFFICES ASSUME r.outq # << >> PROVE a.hub[h].outq[1] = r.outq[1]
        BY <1>6
      <4>2. a.hub[h].outq = r.outq \/ \E z : a.hub[h].outq = Append(r.outq, z)
        BY <1>1, Zenon DEF Queued
      <4>3. \A z : Append(r.outq, z)[1] = r.outq[1]
        BY <4>1
      <4> QED
        BY <4>2, <4>3
    <3>4. RoomAt(s.ready, r, h)
      OBVIOUS
    <3> HIDE DEF r
    <3>5. RoomAt(b.ready, b.hub[h], h)
      BY <1>6, <3>2, <3>3, <3>4, RoomMore
    <3> QED
      BY <3>1, <3>5
  <2> QED
    BY <2>1, <2>2
<1>12. /\ Ear(u.hub[h], d, h) /\ Poised(u.hub[h])
       /\ Within(c, u, h, {"cur", "next", "swq"}) /\ u.ready = c.ready
  <2> HIDE DEF Ear, Waits, Poised
  <2> QED
    BY <1>8, <1>9, VCAllocHears
<1> HIDE DEF u
<1>13. Shaped(u) /\ u.hub[h].xbar = r.xbar /\ u.hub[h].recv = b.hub[h].recv
       /\ u.hub[h].trav = c.hub[h].trav /\ u.hub[h].outq = c.hub[h].outq
  BY <1>8, <1>12, Names DEF Within
<1>14. Within(u, e, h, {"xbar"}) /\ e.ready = u.ready
  BY <1>13, SwitchEvaluateDoes
<1>15. Ear(e.hub[h], d, h) /\ Poised(e.hub[h]) /\ Stale(e.hub[h].xbar)
  <2>1. Fresh(u.hub[h].xbar)
    BY <1>13
  <2> HIDE DEF Ear, Poised, Fresh, Stale, e
  <2>2. LET t == SwitchEvaluate(u, h) IN Ear(t.hub[h], d, h) /\ Poised(t.hub[h]) /\ Stale(t.hub[h].xbar)
    BY <1>12, <1>13, <2>1, SwitchEvaluateHears
  <2> QED
    BY <2>2 DEF e
<1> HIDE DEF e
<1>16. Shaped(e) /\ e.hub[h].recv = b.hub[h].recv /\ e.hub[h].trav = c.hub[h].trav /\ e.hub[h].outq = c.hub[h].outq
       /\ e.ready = b.ready
  BY <1>7, <1>12, <1>13, <1>14, Names DEF Within
<1>17. /\ Ear(p.hub[h], d, h) /\ Waits(p.hub[h].recv, p.hub[h].swq) /\ Filling(p.hub[h].xbar)
       /\ Gains(e, p, h, 0)
  <2>1. e.ready \in [H -> Nat]
    BY <1>6, <1>16
  <2> HIDE DEF Ear, Waits, Poised, Stale, Filling, Gains, p
  <2>2. LET t == SwitchTraverse(e, h)
        IN  /\ Ear(t.hub[h], d, h) /\ Waits(t.hub[h].recv, t.hub[h].swq) /\ Filling(t.hub[h].xbar)
            /\ Gains(e, t, h, 0)
    BY <1>15, <1>16, <2>1, SwitchTraverseHears
  <2> QED
    BY <2>2 DEF p
<1>18. Within(e, p, h, {"next", "recv", "xbar", "swq"})
  BY <1>16, SwitchTraverseIs
<1> HIDE DEF p
<1>19. p.hub[h].trav = c.hub[h].trav /\ p.hub[h].outq = c.hub[h].outq
  BY <1>16, <1>18, Names DEF Within
<1>20. Gains(s, p, h, n)
  <2>1. Len(r.recv) \in Nat
    <3>1. Ear(r, d, h)
      BY DEF Attends
    <3> QED
      BY <3>1, EarTypes
  <2>2. Len(b.hub[h].recv) \in Nat /\ Len(p.hub[h].recv) \in Nat
    BY <1>5, <1>17, EarTypes
  <2>3. n \in Nat
    <3>1. CASE payload = << >>
      BY <3>1 DEF n, HeardOf
    <3>2. ASSUME NEW o \in Packets, payload = Entire(o) PROVE n \in Nat
      <4>1. payload[1][1] = o /\ Size[o] \in Nat
        BY <3>2, EntireTells DEF HubAssumption
      <4> QED
        BY <4>1 DEF n, HeardOf
    <3> QED
      BY <3>1, <3>2
  <2> HIDE DEF Gains
  <2> QED
    BY <1>1, <1>3, <1>5, <1>16, <1>17, <2>1, <2>2, <2>3, GainsTwice
<1>21. RoomAt(p.ready, p.hub[h], h)
  <2>1. \A j \in H : p.ready[j] >= c.ready[j]
    BY <1>7, <1>16, <1>17 DEF Gains
  <2>2. p.ready \in [H -> Nat] /\ c.ready \in [H -> Nat]
    BY <1>6, <1>7, <1>17 DEF Gains
  <2> HIDE DEF RoomAt
  <2> QED
    BY <1>10, <1>19, <2>1, <2>2, RoomMore
<1> QED
  BY <1>0, <1>17, <1>20, <1>21 DEF PreparedEar, Attends, n

(* After its turn a hub has what it heard, and has taken what it promises.      *)
Turned(s, t, h, d, n) ==
  /\ Shaped(t) /\ t.ready \in [H -> Nat] /\ RoomAt(t.ready, t.hub[h], h)
  /\ Attends(t.hub[h], d, h) /\ Filling(t.hub[h].xbar)
  /\ \A j \in H : t.ready[j] + Len(t.hub[j].recv) + DueOf(t.hub[h].air, h, j)
                  = s.ready[j] + Len(s.hub[j].recv) + (IF j = h THEN n ELSE 0)
  /\ t.hub[h].air = << >> => \A j \in H : t.ready[j] >= s.ready[j]

(* It is a number.                                                           *)
LEMMA DueType ==
  ASSUME HubAssumption, NEW a, a = << >> \/ \E p \in Packets : a = Entire(p), NEW h, NEW j
  PROVE  DueOf(a, h, j) \in Nat
<1>1. CASE a = << >>
  BY <1>1 DEF DueOf
<1>2. ASSUME NEW p \in Packets, a = Entire(p) PROVE DueOf(a, h, j) \in Nat
  <2>1. a # << >> /\ a[1][1] = p /\ Size[p] \in Nat
    BY <1>2, EntireTells DEF HubAssumption
  <2> QED
    BY <2>1 DEF DueOf, Owing
<1> QED
  BY <1>1, <1>2

(* The turn.                                                                 *)
LEMMA EvaluateHears ==
  ASSUME HubAssumption, WaitForTail, RoomWhenTaken, NEW s, Shaped(s), NEW h \in H,
         NEW d \in [Vcs -> Seq(FlitType)], s.ready \in [H -> Nat], SendTypes(s.hub[h]), s.hold \in BOOLEAN,
         sending[h] \in [Vcs -> SUBSET Packets], Before(s, h), s.hub[h].air = << >>,
         \A j \in H : Len(s.hub[j].recv) \in Nat,
         Attends(s.hub[h], d, h), Fresh(s.hub[h].xbar), RoomAt(s.ready, s.hub[h], h),
         NEW payload, payload = << >> \/ \E p \in Packets : payload = Entire(p), NEW w \in Vcs
  PROVE  Turned(s, Evaluate(s, h, payload, w), h, d, HeardOf(payload, h))
<1> DEFINE p == Prepared(s, h, payload, w)
           c == HubTraverse(p, h)
           n == HeardOf(payload, h)
           t == Put(c, h, "active", StaysActive(c.hub[h]))
           awake == s.hub[h].active \/ ReceiveFlits(s, h, payload)
<1>1. /\ awake => Evaluate(s, h, payload, w) = t
      /\ ~awake => Evaluate(s, h, payload, w) = s
  BY EvaluateIs DEF Woken
<1>2. CASE ~awake
  <2>1. n = 0
    BY <1>2 DEF ReceiveFlits, HeardOf
  <2>2. \A j : DueOf(s.hub[h].air, h, j) = 0
    BY DEF DueOf
  <2>3. \A j \in H : s.ready[j] \in Nat /\ Len(s.hub[j].recv) \in Nat
    OBVIOUS
  <2>4. Filling(s.hub[h].xbar)
    BY DEF Filling
  <2> HIDE DEF n
  <2>5. \A j \in H : s.ready[j] + Len(s.hub[j].recv) + DueOf(s.hub[h].air, h, j)
                     = s.ready[j] + Len(s.hub[j].recv) + (IF j = h THEN n ELSE 0)
    BY <2>1, <2>2, <2>3
  <2>6. Turned(s, s, h, d, n)
    <3> HIDE DEF Attends, Filling, RoomAt
    <3> QED
      BY <2>3, <2>4, <2>5 DEF Turned
  <2> QED
    BY <1>1, <1>2, <2>6 DEF n
<1>3. \E m \in Nat : DOMAIN payload = 1 .. m
  <2>1. CASE payload = << >>
    <3>1. DOMAIN payload = 1 .. 0 /\ 0 \in Nat
      BY <2>1
    <3> QED
      BY <3>1
  <2>2. ASSUME NEW o \in Packets, payload = Entire(o) PROVE \E m \in Nat : DOMAIN payload = 1 .. m
    <3>1. Size[o] \in Nat
      BY DEF HubAssumption
    <3> QED
      BY <2>2, <3>1, FlitsAre DEF Entire
  <2> QED
    BY <2>1, <2>2
<1>4. IsPrepared(s, p, h)
  <2>1. PICK m \in Nat : DOMAIN payload = 1 .. m
    BY <1>3
  <2> HIDE DEF p
  <2>2. IsPrepared(s, Prepared(s, h, payload, w), h)
    BY <2>1, PreparedDoes
  <2> QED
    BY <2>2 DEF p
<1>5. PreparedEar(s, p, h, d, n)
  <2>1. s.hub[h].outq \in Seq(Packets \X Vcs)
    BY DEF SendTypes
  <2>2. s.hub[h].trav # << >> => s.hub[h].outq # << >>
    BY DEF Before, Sends
  <2> HIDE DEF Before, Attends, Fresh, RoomAt, SendTypes, PreparedEar
  <2> QED
    BY <2>1, <2>2, PreparedHears
<1> HIDE DEF p, n
<1>6. Shaped(p) /\ \A j \in H : j # h => p.hub[j] = s.hub[j]
  BY <1>4 DEF IsPrepared, Within
<1>7. SendTypes(p.hub[h]) /\ p.hold \in BOOLEAN
  BY <1>4, PreparedTypes
<1>8. Before(p, h) /\ p.hub[h].air = << >> /\ p.hub[h].inq = << >>
  BY <1>4, PreparedTalks
<1>9. /\ Promises(p, c, h) /\ c.ready \in [H -> Nat] /\ RoomAt(c.ready, c.hub[h], h)
  <2>1. p.ready \in [H -> Nat] /\ RoomAt(p.ready, p.hub[h], h)
    BY <1>5 DEF PreparedEar, Gains
  <2>2. Orderly(p.hub[h], up[h], sending[h], put, h) /\ Sends(p.hub[h], h, p.hold)
    BY <1>8 DEF Before
  <2> HIDE DEF RoomAt, Promises, Sends, c
  <2>3. LET z == HubTraverse(p, h)
        IN  /\ Promises(p, z, h) /\ z.ready \in [H -> Nat] /\ RoomAt(z.ready, z.hub[h], h)
    BY <1>6, <1>7, <1>8, <2>1, <2>2, TraversePromises
  <2> QED
    BY <2>3 DEF c
<1>10. Within(p, c, h, TraverseFields)
  BY <1>6, <1>7, HubTraverseTypes
<1> HIDE DEF c
<1>11. Shaped(c) /\ \A j \in H : j # h => c.hub[j] = p.hub[j]
  BY <1>10 DEF Within
<1>12. /\ c.hub[h].recv = p.hub[h].recv /\ c.hub[h].swq = p.hub[h].swq /\ c.hub[h].next = p.hub[h].next
       /\ c.hub[h].xbar = p.hub[h].xbar /\ c.hub[h].drop = p.hub[h].drop /\ c.hub[h].cur = p.hub[h].cur
  BY <1>10, Names DEF Within, TraverseFields
<1>13. /\ Shaped(t) /\ t.ready = c.ready /\ \A j \in H : j # h => t.hub[j] = c.hub[j]
       /\ \A f \in HubFields : f # "active" => t.hub[h][f] = c.hub[h][f]
  BY <1>11, PutDoes, Names
<1> HIDE DEF t
<1>14. /\ t.hub[h].recv = p.hub[h].recv /\ t.hub[h].swq = p.hub[h].swq /\ t.hub[h].next = p.hub[h].next
       /\ t.hub[h].xbar = p.hub[h].xbar /\ t.hub[h].drop = p.hub[h].drop /\ t.hub[h].cur = p.hub[h].cur
       /\ t.hub[h].air = c.hub[h].air /\ t.hub[h].trav = c.hub[h].trav /\ t.hub[h].outq = c.hub[h].outq
  BY <1>12, <1>13, Names
<1>15. Attends(t.hub[h], d, h) /\ Filling(t.hub[h].xbar)
  <2>1. Ear(p.hub[h], d, h) /\ Waits(p.hub[h].recv, p.hub[h].swq) /\ Filling(p.hub[h].xbar)
    BY <1>5 DEF PreparedEar, Attends
  <2>2. Ear(t.hub[h], d, h)
    BY <1>14, <2>1, EarSame
  <2> HIDE DEF Waits, Filling
  <2> QED
    BY <1>14, <2>1, <2>2 DEF Attends
<1>16. RoomAt(t.ready, t.hub[h], h)
  BY <1>9, <1>13, <1>14 DEF RoomAt
<1>17. t.hub[h].air = << >> => \A j \in H : t.ready[j] >= s.ready[j]
  <2>1. SUFFICES ASSUME c.hub[h].air = << >>, NEW j \in H PROVE c.ready[j] >= s.ready[j]
    BY <1>13, <1>14
  <2>2. p.ready \in [H -> Nat] /\ p.ready[j] >= s.ready[j]
    BY <1>5 DEF PreparedEar, Gains
  <2>3. c.ready[j] = p.ready[j] - 0
    BY <1>9, <2>1 DEF Promises, DueOf
  <2>4. p.ready[j] \in Nat /\ s.ready[j] \in Nat
    BY <2>2
  <2> QED
    BY <2>2, <2>3, <2>4
<1>18. ASSUME NEW j \in H
       PROVE  t.ready[j] + Len(t.hub[j].recv) + DueOf(t.hub[h].air, h, j)
              = s.ready[j] + Len(s.hub[j].recv) + (IF j = h THEN n ELSE 0)
  <2>1. PICK x : x = DueOf(t.hub[h].air, h, j)
    OBVIOUS
  <2>2. PICK l : l = Len(t.hub[j].recv)
    OBVIOUS
  <2>3. PICK m : m = Len(s.hub[j].recv)
    OBVIOUS
  <2>4. x \in Nat
    <3>1. After(p, c, h)
      BY <1>6, <1>7, <1>8, TraverseTalks DEF c
    <3>2. t.hub[h].air = << >> \/ \E o \in Packets : t.hub[h].air = Entire(o)
      BY <1>14, <3>1 DEF After
    <3> QED
      BY <2>1, <3>2, DueType
  <2>5. m \in Nat /\ s.ready[j] \in Nat /\ p.ready[j] \in Nat
    BY <1>5, <2>3 DEF PreparedEar, Gains
  <2>6. l \in Nat /\ l = Len(p.hub[j].recv)
    <3>1. CASE j = h
      <4>1. Len(p.hub[h].recv) \in Nat
        BY <1>5, EarTypes DEF PreparedEar, Attends
      <4> QED
        BY <1>14, <2>2, <3>1, <4>1
    <3>2. CASE j # h
      <4>1. t.hub[j] = s.hub[j] /\ p.hub[j] = s.hub[j]
        BY <1>6, <1>11, <1>13, <3>2
      <4> QED
        BY <2>2, <4>1
    <3> QED
      BY <3>1, <3>2
  <2>7. t.ready[j] = p.ready[j] - x
    BY <1>9, <1>13, <1>14, <2>1 DEF Promises
  <2>8. p.ready[j] + l = s.ready[j] + m + (IF j = h THEN n ELSE 0)
    <3>1. CASE j = h
      BY <1>5, <2>3, <2>6, <3>1 DEF PreparedEar, Gains
    <3>2. CASE j # h
      <4>1. p.ready[j] = s.ready[j] /\ p.hub[j] = s.hub[j]
        BY <1>5, <1>6, <3>2 DEF PreparedEar, Gains
      <4> QED
        BY <2>3, <2>5, <2>6, <3>2, <4>1
    <3> QED
      BY <3>1, <3>2
  <2>9. t.ready[j] + l + x = s.ready[j] + m + (IF j = h THEN n ELSE 0)
    BY <2>4, <2>5, <2>6, <2>7, <2>8
  <2> QED
    BY <2>1, <2>2, <2>3, <2>9
<1>19. Turned(s, t, h, d, n)
  <2>1. t.ready \in [H -> Nat]
    BY <1>9, <1>13
  <2> HIDE DEF Attends, Filling, RoomAt
  <2> QED
    BY <1>13, <1>15, <1>16, <1>17, <1>18, <2>1 DEF Turned
<1> QED
  BY <1>1, <1>2, <1>19 DEF n

(* Round the ring.                                                           *)
LEMMA Round ==
  ASSUME NEW n \in Nat \ {0}, NEW x \in 0 .. n - 1
  PROVE  x % n = x /\ (x + n) % n = x
  OBVIOUS

(* The place of hub o among those that hub h hears.                          *)
Behind(h, o) == IF o < h THEN h - o ELSE h + Hubs - o
(* So many places before h on the ring is o, and nobody else.                *)
LEMMA RoundTheRing ==
  ASSUME HubAssumption, NEW h \in H, NEW o \in H, o # h
  PROVE  /\ Behind(h, o) \in 1 .. Hubs - 1 /\ (h + Hubs - Behind(h, o)) % Hubs = o
         /\ \A k \in 1 .. Hubs - 1 : (h + Hubs - k) % Hubs = o => k = Behind(h, o)
<1>1. Hubs \in Nat \ {0} /\ h \in 0 .. Hubs - 1 /\ o \in 0 .. Hubs - 1
  BY DEF HubAssumption, H
<1>2. Behind(h, o) \in 1 .. Hubs - 1
  BY <1>1 DEF Behind
<1>3. (h + Hubs - Behind(h, o)) % Hubs = o
  <2>1. h + Hubs - Behind(h, o) = o + Hubs \/ h + Hubs - Behind(h, o) = o
    BY <1>1 DEF Behind
  <2>2. o % Hubs = o /\ (o + Hubs) % Hubs = o
    BY <1>1, Round
  <2> QED
    BY <2>1, <2>2
<1>4. ASSUME NEW k \in 1 .. Hubs - 1, (h + Hubs - k) % Hubs = o PROVE k = Behind(h, o)
  <2>1. CASE k <= h
    <3>1. h - k \in 0 .. Hubs - 1 /\ h + Hubs - k = (h - k) + Hubs
      BY <1>1, <2>1
    <3>2. ((h - k) + Hubs) % Hubs = h - k
      BY <1>1, <3>1, Round
    <3> QED
      BY <1>1, <1>4, <3>1, <3>2 DEF Behind
  <2>2. CASE k > h
    <3>1. h + Hubs - k \in 0 .. Hubs - 1
      BY <1>1, <2>2
    <3>2. (h + Hubs - k) % Hubs = h + Hubs - k
      BY <1>1, <3>1, Round
    <3> QED
      BY <1>1, <1>4, <2>2, <3>1, <3>2 DEF Behind
  <2> QED
    BY <1>1, <2>1, <2>2
<1> QED
  BY <1>2, <1>3, <1>4

(* Nobody hears himself.                                                     *)
LEMMA NotItself ==
  ASSUME HubAssumption, NEW h \in H, NEW k \in 1 .. Hubs - 1
  PROVE  (h + Hubs - k) % Hubs \in H \ {h}
<1>1. Hubs \in Nat \ {0} /\ h \in 0 .. Hubs - 1 /\ k \in 1 .. Hubs - 1
  BY DEF HubAssumption, H
<1>2. CASE k <= h
  <2>1. h - k \in 0 .. Hubs - 1 /\ h + Hubs - k = (h - k) + Hubs
    BY <1>1, <1>2
  <2>2. ((h - k) + Hubs) % Hubs = h - k
    BY <1>1, <2>1, Round
  <2> QED
    BY <1>1, <2>1, <2>2 DEF H
<1>3. CASE k > h
  <2>1. h + Hubs - k \in 0 .. Hubs - 1
    BY <1>1, <1>3
  <2>2. (h + Hubs - k) % Hubs = h + Hubs - k
    BY <1>1, <2>1, Round
  <2> QED
    BY <1>1, <1>3, <2>1, <2>2 DEF H
<1> QED
  BY <1>1, <1>2, <1>3

(* Every other hub hears the one that talks.                                 *)
OnlyTalks(o) == \A k \in H \ {o} : hub[k].air = << >>
(* What it says is all they hear.                                            *)
LEMMA PayloadSays ==
  ASSUME HubAssumption, NEW o \in H, OnlyTalks(o), hub[o].air \in Seq(FlitType), NEW h \in H
  PROVE  Payload(h) = IF o = h THEN << >> ELSE hub[o].air
<1> DEFINE n == Hubs - 1
           q == [k \in 1 .. n |-> hub[(h + Hubs - k) % Hubs].air]
<1>1. Hubs \in Nat \ {0} /\ n \in Nat
  BY DEF HubAssumption
<1>2. \A k \in H : hub[k].air \in Seq(FlitType)
  <2>1. << >> \in Seq(FlitType)
    OBVIOUS
  <2> QED
    BY <2>1 DEF OnlyTalks
<1>3. q \in [1 .. n -> Seq(FlitType)]
  BY <1>2, NotItself
<1>4. Payload(h) = FlattenSeq(q)
  BY DEF Payload
<1>5. CASE o = h
  <2>1. \A k \in 1 .. n : q[k] = << >>
    BY <1>5, NotItself DEF OnlyTalks
  <2> HIDE DEF q, n
  <2> QED
    BY <1>1, <1>3, <1>4, <1>5, <2>1, FlattenNone
<1>6. CASE o # h
  <2> DEFINE m == Behind(h, o)
  <2>1. m \in 1 .. n /\ q[m] = hub[o].air
    BY <1>6, RoundTheRing
  <2>2. ASSUME NEW k \in 1 .. n, k # m PROVE q[k] = << >>
    <3>1. (h + Hubs - k) % Hubs \in H /\ (h + Hubs - k) % Hubs # o
      BY <1>6, <2>2, RoundTheRing, NotItself
    <3> QED
      BY <3>1 DEF OnlyTalks
  <2> HIDE DEF q, n, m
  <2>3. OnlyAt(q, n, m)
    BY <2>2 DEF OnlyAt
  <2>4. FlattenSeq(q) = q[m]
    <3>1. PICK T : T = FlitType
      OBVIOUS
    <3>2. PICK c : c = q
      OBVIOUS
    <3>3. PICK e : e = n
      OBVIOUS
    <3>4. PICK i : i = m
      OBVIOUS
    <3>5. c \in [1 .. e -> Seq(T)] /\ e \in Nat /\ i \in 1 .. e /\ OnlyAt(c, e, i)
      BY <1>1, <1>3, <2>1, <2>3, <3>1, <3>2, <3>3, <3>4
    <3>6. FlattenSeq(c) = c[i]
      BY <3>5, FlattenOne
    <3> QED
      BY <3>2, <3>4, <3>6
  <2> QED
    BY <1>4, <1>6, <2>1, <2>4
<1> QED
  BY <1>5, <1>6

(* What holds of all hubs between the cycles: what they have heard, what goes on *)
(* to their routers, and a place for each flit that is in the air.            *)
Owed(o) ==
  /\ OnlyTalks(o)
  /\ \A j \in H : ready_receive[j] + Len(hub[j].recv) + DueOf(hub[o].air, o, j) = RecSize
Ears == \A h \in H : Attends(hub[h], down[h], h) /\ Fresh(hub[h].xbar) /\ RoomAt(ready_receive, hub[h], h)
HearInv ==
  /\ TalkInv /\ down \in [H -> [Vcs -> Seq(FlitType)]] /\ ready_receive \in [H -> Nat]
  /\ Ears /\ \E o \in H : Owed(o)

(* After k turns: o is the hub that talked in the cycle before.                *)
Owes(s, k, o, j) ==
  s.ready[j] + Len(s.hub[j].recv) + (IF j >= k THEN DueOf(hub[o].air, o, j) ELSE 0)
    + DueOf(s.hub[token].air, token, j) = RecSize
Attended(s, k, o) ==
  /\ s.ready \in [H -> Nat]
  /\ \A h \in H : Attends(s.hub[h], down[h], h) /\ Filling(s.hub[h].xbar) /\ RoomAt(s.ready, s.hub[h], h)
  /\ \A j \in H : Owes(s, k, o, j)

(* The same hub with nothing in the air.                                     *)
LEMMA AttendsSame ==
  ASSUME NEW r, NEW q, NEW d, NEW h, NEW y, Attends(r, d, h), RoomAt(y, r, h), q.recv = r.recv, q.swq = r.swq,
         q.next = r.next, q.xbar = r.xbar, q.drop = r.drop, q.cur = r.cur, q.trav = r.trav, q.outq = r.outq
  PROVE  Attends(q, d, h) /\ RoomAt(y, q, h)
<1>1. Ear(r, d, h) /\ Waits(r.recv, r.swq)
  BY DEF Attends
<1>2. Ear(q, d, h)
  BY <1>1, EarSame
<1>3. Waits(q.recv, q.swq)
  <2> HIDE DEF Waits
  <2> QED
    BY <1>1
<1>4. RoomAt(y, q, h)
  BY DEF RoomAt
<1> QED
  BY <1>2, <1>3, <1>4 DEF Attends

(* Before the turns.                                                         *)
LEMMA BaseAttended ==
  ASSUME HubAssumption, HearInv, NEW o \in H, Owed(o)
  PROVE  Attended(Base, 0, o)
<1>1. /\ Shaped(Base)
      /\ \A h \in H : /\ Base.hub[h].air = << >>
                      /\ \A f \in HubFields : f # "air" => Base.hub[h][f] = hub[h][f]
  BY BaseIs DEF HearInv, TalkInv
<1>2. Base.ready = ready_receive /\ ready_receive \in [H -> Nat] /\ token \in H /\ Hubs \in Nat
  BY DEF Base, HearInv, TalkInv, HubAssumption
<1>3. ASSUME NEW h \in H
      PROVE  /\ Attends(Base.hub[h], down[h], h) /\ Filling(Base.hub[h].xbar)
             /\ RoomAt(Base.ready, Base.hub[h], h) /\ Base.hub[h].recv = hub[h].recv
  <2>1. PICK q : q = Base.hub[h]
    OBVIOUS
  <2>2. PICK r : r = hub[h]
    OBVIOUS
  <2>3. /\ q.recv = r.recv /\ q.swq = r.swq /\ q.next = r.next /\ q.xbar = r.xbar /\ q.drop = r.drop
        /\ q.cur = r.cur /\ q.trav = r.trav /\ q.outq = r.outq
    BY <1>1, <2>1, <2>2, Names
  <2>4. Attends(r, down[h], h) /\ Fresh(r.xbar) /\ RoomAt(ready_receive, r, h)
    BY <2>2 DEF HearInv, Ears
  <2>5. Attends(q, down[h], h) /\ RoomAt(ready_receive, q, h)
    <3> HIDE DEF Attends, RoomAt
    <3> QED
      BY <2>3, <2>4, AttendsSame
  <2>6. Filling(q.xbar)
    BY <2>3, <2>4 DEF Filling
  <2> QED
    BY <1>2, <2>1, <2>2, <2>3, <2>5, <2>6
<1>4. ASSUME NEW j \in H PROVE Owes(Base, 0, o, j)
  <2>1. j >= 0
    BY <1>2 DEF H
  <2>2. DueOf(Base.hub[token].air, token, j) = 0
    BY <1>1, <1>2 DEF DueOf
  <2>3. ready_receive[j] + Len(hub[j].recv) + DueOf(hub[o].air, o, j) = RecSize
    BY DEF Owed
  <2>4. RecSize \in Nat
    BY DEF HubAssumption
  <2>5. PICK x : x = ready_receive[j] + Len(hub[j].recv) + DueOf(hub[o].air, o, j)
    OBVIOUS
  <2>6. x + 0 = RecSize
    BY <2>3, <2>4, <2>5
  <2> QED
    BY <1>2, <1>3, <2>1, <2>2, <2>5, <2>6 DEF Owes
<1> QED
  BY <1>2, <1>3, <1>4 DEF Attended

(* What a hub hears of the hub that talks is what was promised for it.         *)
LEMMA HeardIsDue ==
  ASSUME HubAssumption, NEW o \in H, OnlyTalks(o), hub[o].air = << >> \/ \E p \in Packets : hub[o].air = Entire(p),
         NEW h \in H
  PROVE  /\ Payload(h) = << >> \/ \E p \in Packets : Payload(h) = Entire(p)
         /\ HeardOf(Payload(h), h) = DueOf(hub[o].air, o, h) /\ DueOf(hub[o].air, o, h) \in Nat
<1>1. hub[o].air \in Seq(FlitType)
  <2>1. << >> \in Seq(FlitType)
    OBVIOUS
  <2>2. \A p \in Packets : Entire(p) \in Seq(FlitType)
    <3>1. \A p \in Packets : Size[p] \in Nat
      BY DEF HubAssumption
    <3> QED
      BY <3>1, FlitsAre DEF Entire
  <2> QED
    BY <2>1, <2>2
<1>2. Payload(h) = IF o = h THEN << >> ELSE hub[o].air
  BY <1>1, PayloadSays
<1>3. PICK a : a = hub[o].air
  OBVIOUS
<1>4. HeardOf(Payload(h), h) = DueOf(a, o, h)
  <2>1. CASE o = h
    <3>1. h \notin Others(o)
      BY <2>1 DEF Others
    <3> QED
      BY <1>2, <2>1, <3>1 DEF HeardOf, DueOf, Owing
  <2>2. CASE o # h
    <3>1. h \in Others(o)
      BY <2>2 DEF Others
    <3> QED
      BY <1>2, <1>3, <2>2, <3>1 DEF HeardOf, DueOf, Owing
  <2> QED
    BY <2>1, <2>2
<1>5. DueOf(a, o, h) \in Nat
  BY <1>3, DueType
<1> QED
  BY <1>2, <1>3, <1>4, <1>5

(* A turn more.                                                              *)
LEMMA TurnAttended ==
  ASSUME HubAssumption, WaitForTail, RoomWhenTaken, HearInv, NEW o \in H, Owed(o),
         NEW s, Shaped(s), s.hold \in BOOLEAN, NEW h \in H, Talked(s), Attended(s, h, o),
         SendTypes(s.hub[h]), s.hub[h].air = << >>, Fresh(s.hub[h].xbar),
         NEW t, NEW w \in Vcs, t = Evaluate(s, h, Payload(h), w), After(s, t, h),
         \A l \in H : l # h => t.hub[l] = s.hub[l]
  PROVE  Attended(t, h + 1, o)
<1> DEFINE p == Payload(h)
           n == HeardOf(p, h)
<1>0. token \in H /\ h \in Int /\ \A j \in H : j \in Int
  BY DEF HearInv, TalkInv, HubAssumption, H
<1>1. /\ p = << >> \/ \E a \in Packets : p = Entire(a)
      /\ n = DueOf(hub[o].air, o, h) /\ n \in Nat
  <2>1. OnlyTalks(o) /\ (hub[o].air = << >> \/ \E a \in Packets : hub[o].air = Entire(a))
    BY DEF Owed, HearInv, TalkInv
  <2> QED
    BY <2>1, HeardIsDue
<1>2. \A j \in H : Len(s.hub[j].recv) \in Nat
  <2>1. ASSUME NEW j \in H PROVE Len(s.hub[j].recv) \in Nat
    <3>1. Ear(s.hub[j], down[j], j)
      BY DEF Attended, Attends
    <3> QED
      BY <3>1, EarTypes
  <2> QED
    BY <2>1
<1>3. Turned(s, t, h, down[h], n)
  <2>1. /\ down[h] \in [Vcs -> Seq(FlitType)] /\ sending[h] \in [Vcs -> SUBSET Packets]
    BY DEF HearInv, TalkInv
  <2>2. Before(s, h)
    BY DEF Talked, Before
  <2>3. s.ready \in [H -> Nat] /\ Attends(s.hub[h], down[h], h) /\ RoomAt(s.ready, s.hub[h], h)
    BY DEF Attended
  <2> HIDE DEF p, n, Turned
  <2>4. Turned(s, Evaluate(s, h, p, w), h, down[h], HeardOf(p, h))
    BY <1>1, <1>2, <2>1, <2>2, <2>3, EvaluateHears
  <2> QED
    BY <2>4 DEF p, n
<1> HIDE DEF p, n
<1>4. t.ready \in [H -> Nat]
  BY <1>3 DEF Turned
<1>5. ASSUME NEW l \in H
      PROVE  Attends(t.hub[l], down[l], l) /\ Filling(t.hub[l].xbar) /\ RoomAt(t.ready, t.hub[l], l)
  <2>1. CASE l = h
    BY <1>3, <2>1 DEF Turned
  <2>2. CASE l # h
    <3>1. t.hub[l] = s.hub[l]
      BY <2>2
    <3>2. Attends(s.hub[l], down[l], l) /\ Filling(s.hub[l].xbar) /\ RoomAt(s.ready, s.hub[l], l)
      BY DEF Attended
    <3>3. RoomAt(t.ready, s.hub[l], l)
      <4>1. CASE s.hub[l].trav = << >>
        BY <4>1 DEF RoomAt
      <4>2. CASE s.hub[l].trav # << >>
        <5>1. token = l
          BY <4>2 DEF Talked, Sends
        <5>2. t.hub[h].air = << >>
          BY <2>2, <5>1 DEF After
        <5>3. \A j \in H : t.ready[j] >= s.ready[j]
          BY <1>3, <5>2 DEF Turned
        <5>4. s.ready \in [H -> Nat]
          BY DEF Attended
        <5> HIDE DEF RoomAt
        <5> QED
          BY <1>4, <3>2, <5>3, <5>4, RoomMore
      <4> QED
        BY <4>1, <4>2
    <3> QED
      BY <3>1, <3>2, <3>3
  <2> QED
    BY <2>1, <2>2
<1>6. ASSUME NEW j \in H PROVE Owes(t, h + 1, o, j)
  <2> DEFINE D == DueOf(hub[o].air, o, j)
             a == t.ready[j] + Len(t.hub[j].recv)
             b == s.ready[j] + Len(s.hub[j].recv)
             x == DueOf(t.hub[token].air, token, j)
             y == DueOf(s.hub[token].air, token, j)
             z == DueOf(t.hub[h].air, h, j)
  <2>1. a + z = b + (IF j = h THEN n ELSE 0)
    BY <1>3 DEF Turned
  <2>2. b + (IF j >= h THEN D ELSE 0) + y = RecSize
    BY DEF Attended, Owes
  <2>3. x = y + z
    <3>1. CASE token = h
      <4>1. y = 0 /\ x = z
        BY <3>1 DEF DueOf
      <4>2. z \in Nat
        <5>1. t.hub[h].air = << >> \/ \E c \in Packets : t.hub[h].air = Entire(c)
          BY DEF After
        <5> QED
          BY <5>1, DueType
      <4> QED
        BY <4>1, <4>2
    <3>2. CASE token # h
      <4>1. t.hub[h].air = << >> /\ t.hub[token] = s.hub[token]
        BY <1>0, <3>2 DEF After
      <4>2. z = 0 /\ x = y
        BY <4>1 DEF DueOf
      <4>3. y \in Nat
        <5>1. s.hub[token].air = << >> \/ \E c \in Packets : s.hub[token].air = Entire(c)
          BY <1>0 DEF Talked
        <5> QED
          BY <5>1, DueType
      <4> QED
        BY <4>2, <4>3
    <3> QED
      BY <3>1, <3>2
  <2>4. a \in Nat /\ b \in Nat /\ y \in Nat /\ z \in Nat /\ D \in Nat
    <3>1. Len(t.hub[j].recv) \in Nat
      <4>1. Ear(t.hub[j], down[j], j)
        BY <1>5 DEF Attends
      <4> QED
        BY <4>1, EarTypes
    <3>2. t.ready[j] \in Nat /\ s.ready[j] \in Nat /\ Len(s.hub[j].recv) \in Nat
      BY <1>2, <1>4 DEF Attended
    <3>3. z \in Nat /\ y \in Nat /\ D \in Nat
      <4>1. t.hub[h].air = << >> \/ \E c \in Packets : t.hub[h].air = Entire(c)
        BY DEF After
      <4>2. s.hub[token].air = << >> \/ \E c \in Packets : s.hub[token].air = Entire(c)
        BY <1>0 DEF Talked
      <4>3. hub[o].air = << >> \/ \E c \in Packets : hub[o].air = Entire(c)
        BY DEF HearInv, TalkInv
      <4> QED
        BY <4>1, <4>2, <4>3, DueType
    <3>4. a \in Nat /\ b \in Nat
      <4>1. \A u, v \in Nat : u + v \in Nat
        OBVIOUS
      <4>2. a \in Nat
        BY <3>1, <3>2, <4>1
      <4>3. b \in Nat
        BY <3>2, <4>1
      <4> QED
        BY <4>2, <4>3
    <3> HIDE DEF a, b, x, y, z, D
    <3> QED
      BY <3>3, <3>4
  <2>5. j = h => n = D
    BY <1>1
  <2>6. /\ j >= h + 1 => j # h /\ j >= h
        /\ ~(j >= h + 1) => j = h \/ ~(j >= h)
        /\ j = h => j >= h /\ ~(j >= h + 1)
    <3>1. j \in Int /\ h \in Int
      BY <1>0
    <3> HIDE DEF a, b, x, y, z, D
    <3> QED
      BY <3>1
  <2> HIDE DEF a, b, x, y, z, D
  <2>7. a + (IF j >= h + 1 THEN D ELSE 0) + x = RecSize
    <3>1. CASE j = h
      BY <2>1, <2>2, <2>3, <2>4, <2>5, <2>6, <3>1
    <3>2. CASE j # h
      <4>1. a + z = b /\ (j >= h + 1 <=> j >= h)
        BY <2>1, <2>4, <2>6, <3>2
      <4>2. PICK e : e = IF j >= h THEN D ELSE 0
        OBVIOUS
      <4>3. e \in Nat /\ b + e + y = RecSize /\ e = IF j >= h + 1 THEN D ELSE 0
        BY <2>2, <2>4, <4>1, <4>2
      <4>4. a + e + (y + z) = b + e + y
        BY <2>4, <4>1, <4>3
      <4> QED
        BY <2>3, <4>3, <4>4
    <3> QED
      BY <3>1, <3>2
  <2> QED
    BY <2>7 DEF Owes, a, x, D
<1> QED
  BY <1>4, <1>5, <1>6 DEF Attended

(* After all turns.                                                          *)
LEMMA EvaluatedHears ==
  ASSUME HubAssumption, WaitForTail, RoomWhenTaken, HearInv, NEW o \in H, Owed(o), NEW w \in [H -> Vcs]
  PROVE  Attended(Evaluated(w), Hubs, o)
<1>1. PICK g : Turns(g, w) /\ Evaluated(w) = g[Hubs]
  BY CycleChain
<1>2. Hubs \in Nat \ {0} /\ TalkInv /\ AwakeInv /\ token \in H
  BY DEF HubAssumption, HearInv, TalkInv
<1> DEFINE S == {k \in 0 .. Hubs : Attended(g[k], k, o)}
<1>3. Attended(g[0], 0, o)
  BY <1>1, BaseAttended DEF Turns
<1>4. ASSUME NEW k \in 1 .. Hubs, Attended(g[k - 1], k - 1, o) PROVE Attended(g[k], k, o)
  <2>1. PICK s : s = g[k - 1]
    OBVIOUS
  <2>2. PICK h : h = k - 1
    OBVIOUS
  <2>3. PICK t : t = g[k]
    OBVIOUS
  <2>4. h \in H /\ h \in 0 .. Hubs /\ k = h + 1 /\ h >= h
    BY <1>2, <2>2 DEF H
  <2>5. t = Evaluate(s, h, Payload(h), w[h])
    BY <1>1, <2>1, <2>2, <2>3 DEF Turns
  <2>6. Half(s, h) /\ Talked(s)
    BY <1>1, <1>2, <2>1, <2>2, <2>4, HalfWay, TalkedHalfWay
  <2>7. s.hub[h] = Base.hub[h] /\ Shaped(s) /\ s.hold \in BOOLEAN
    BY <2>4, <2>6 DEF Half
  <2>8. SendTypes(s.hub[h]) /\ Rests(s.hub[h]) /\ s.hub[h].active \in BOOLEAN
    BY <1>2, <2>4, <2>7, BaseFits DEF Fit
  <2>9. s.hub[h].air = << >> /\ s.hub[h].xbar = hub[h].xbar
    BY <1>2, <2>4, <2>7, BaseIs, Names
  <2>10. Fresh(s.hub[h].xbar)
    BY <2>4, <2>9 DEF HearInv, Ears
  <2>11. w[h] \in Vcs
    BY <2>4
  <2>12. After(s, t, h) /\ \A l \in H : l # h => t.hub[l] = s.hub[l]
    <3>1. Payload(h) \in Seq(FlitType)
      <4>1. \A j \in H : hub[j].air \in Seq(FlitType)
        BY <1>2 DEF AwakeInv, SendTypes
      <4> QED
        BY <2>4, <4>1, PayloadIs
    <3>2. PICK p : p = Payload(h)
      OBVIOUS
    <3>3. PICK n : n = Len(p)
      OBVIOUS
    <3>4. n \in Nat /\ DOMAIN p = 1 .. n
      BY <3>1, <3>2, <3>3, LenProperties
    <3>5. PICK x : x = w[h]
      OBVIOUS
    <3>6. t = Evaluate(s, h, p, x)
      BY <2>5, <3>2, <3>5
    <3>7. Before(s, h)
      BY <2>4, <2>6 DEF Talked, Before
    <3>8. sending[h] \in [Vcs -> SUBSET Packets]
      BY <1>2, <2>4 DEF TalkInv
    <3>9. After(s, t, h)
      BY <2>4, <2>7, <2>8, <2>9, <3>4, <3>6, <3>7, <3>8, EvaluateTalks
    <3>10. Worked(s, t, h)
      BY <2>4, <2>7, <2>8, <3>4, <3>6, EvaluateDoes
    <3> QED
      BY <3>9, <3>10 DEF Worked, Within
  <2>13. Attended(s, h, o)
    BY <1>4, <2>1, <2>2
  <2>14. Attended(t, h + 1, o)
    <3> HIDE DEF Attended, HearInv, Owed, Fresh, Talked, After
    <3> QED
      BY <2>4, <2>5, <2>6, <2>7, <2>8, <2>9, <2>10, <2>11, <2>12, <2>13, TurnAttended
  <2> QED
    BY <2>3, <2>4, <2>14
<1>5. Hubs \in S
  <2>1. 0 \in S /\ \A k \in 1 .. Hubs : k - 1 \in S => k \in S
    BY <1>2, <1>3, <1>4
  <2> HIDE DEF S
  <2> QED
    BY <1>2, <2>1, Climb DEF Climbs
<1> QED
  BY <1>1, <1>5

(* A flit goes to the router, a credit comes back from it.                    *)
LEMMA LeavesHears ==
  ASSUME NEW x, NEW r, NEW d \in [Vcs -> Seq(FlitType)], NEW h, NEW y, Leaves(x, r),
         Attends(r, d, h), Filling(r.xbar), RoomAt(y, r, h)
  PROVE  /\ Attends(x, Reached(d, r.xbar), h) /\ Fresh(x.xbar) /\ RoomAt(y, x, h)
         /\ Reached(d, r.xbar) \in [Vcs -> Seq(FlitType)]
<1> DEFINE e == Reached(d, r.xbar)
<1>1. /\ x.recv = r.recv /\ x.swq = r.swq /\ x.next = r.next /\ x.drop = r.drop
      /\ x.cur = r.cur /\ x.trav = r.trav /\ x.outq = r.outq
  BY Names DEF Leaves
<1>2. x.xbar = After1(r.xbar)
  BY DEF Leaves, After1, Left
<1>3. /\ Fresh(After1(r.xbar)) /\ e \in [Vcs -> Seq(FlitType)]
      /\ Lanes(e, After1(r.xbar)) = Lanes(d, r.xbar)
  BY WayLeaves
<1> HIDE DEF e
<1>4. Attends(x, e, h)
  <2> HIDE DEF Flows, Lanes, Waits, HasRoom, After1
  <2> QED
    BY <1>1, <1>2, <1>3 DEF Attends, Ear, DropsOthers
<1>5. RoomAt(y, x, h)
  BY <1>1 DEF RoomAt
<1> QED
  BY <1>2, <1>3, <1>4, <1>5 DEF e

(* A cycle keeps it.                                                         *)
LEMMA CycleHears ==
  ASSUME HubAssumption, WaitForTail, RoomWhenTaken, HearInv, Cycle
  PROVE  HearInv'
<1>0. TalkInv /\ AwakeInv /\ token \in H /\ down \in [H -> [Vcs -> Seq(FlitType)]] /\ Hubs \in Nat
  BY DEF HearInv, TalkInv, HubAssumption
<1>1. PICK w \in Picks : \E c : /\ c = WriteOutputs(Evaluated(w))
                      /\ hub' = c.hub /\ down' = c.down /\ ready_receive' = c.ready
  BY DEF Cycle, Outcomes
<1>2. w \in [H -> Vcs]
  BY <1>1 DEF Picks
<1>3. PICK s : s = Evaluated(w)
  OBVIOUS
<1>4. PICK o \in H : Owed(o)
  BY DEF HearInv
<1>5. Attended(s, Hubs, o)
  BY <1>2, <1>3, <1>4, EvaluatedHears
<1>6. Done(s) /\ Talked(s)
  BY <1>0, <1>3, EvaluatedDoes, EvaluatedTalks
<1>7. Shaped(s)
  BY <1>6 DEF Done
<1> DEFINE c == WriteOutputs(s)
<1>8. c.ready = s.ready /\ \A h \in H : Leaves(c.hub[h], s.hub[h])
  BY <1>7, WriteOutputsDoes
<1>9. c.down = [h \in H |-> Reached(down[h], s.hub[h].xbar)]
  <2>1. \A h \in H : Reached(down[h], s.hub[h].xbar) =
          [v \in Vcs |-> IF Arrives(h, s) /\ s.hub[h].xbar[1].w = v THEN Append(down[h][v], s.hub[h].xbar[1].f)
                         ELSE down[h][v]]
    BY DEF Reached, Left, Arrives
  <2>2. c.down = [h \in H |-> [v \in Vcs |->
          IF Arrives(h, s) /\ s.hub[h].xbar[1].w = v THEN Append(down[h][v], s.hub[h].xbar[1].f)
          ELSE down[h][v]]]
    BY DEF WriteOutputs
  <2> HIDE DEF c
  <2> QED
    BY <2>1, <2>2
<1>10. hub' = c.hub /\ down' = c.down /\ ready_receive' = s.ready
  BY <1>1, <1>3, <1>8
<1> HIDE DEF c
<1>11. s.ready \in [H -> Nat]
  BY <1>5 DEF Attended
<1>12. ASSUME NEW h \in H
       PROVE  /\ Attends(hub'[h], down'[h], h) /\ Fresh(hub'[h].xbar) /\ RoomAt(ready_receive', hub'[h], h)
              /\ down'[h] \in [Vcs -> Seq(FlitType)]
              /\ hub'[h].recv = s.hub[h].recv /\ hub'[h].air = s.hub[h].air
  <2>1. PICK x : x = c.hub[h]
    OBVIOUS
  <2>2. PICK r : r = s.hub[h]
    OBVIOUS
  <2>3. PICK d : d = down[h]
    OBVIOUS
  <2>4. d \in [Vcs -> Seq(FlitType)] /\ Leaves(x, r)
    BY <1>0, <1>8, <2>1, <2>2, <2>3
  <2>5. Attends(r, d, h) /\ Filling(r.xbar) /\ RoomAt(s.ready, r, h)
    BY <1>5, <2>2, <2>3 DEF Attended
  <2>6. /\ Attends(x, Reached(d, r.xbar), h) /\ Fresh(x.xbar) /\ RoomAt(s.ready, x, h)
        /\ Reached(d, r.xbar) \in [Vcs -> Seq(FlitType)]
    <3> HIDE DEF Leaves, Attends, Filling, RoomAt, Reached, Fresh
    <3> QED
      BY <2>4, <2>5, LeavesHears
  <2>7. x.recv = r.recv /\ x.air = r.air
    BY <2>4, Names DEF Leaves
  <2>8. hub'[h] = x /\ down'[h] = Reached(d, r.xbar)
    BY <1>9, <1>10, <2>1, <2>2, <2>3
  <2> QED
    BY <1>10, <2>2, <2>6, <2>7, <2>8
<1>13. down' \in [H -> [Vcs -> Seq(FlitType)]]
  BY <1>9, <1>10, <1>12
<1>14. TalkInv'
  BY <1>0, CycleTalks
<1>15. PICK t \in H : t = token
  BY <1>0
<1>16. Owed(t)'
  <2>1. \A k \in H \ {t} : hub'[k].air = << >>
    BY <1>6, <1>12, <1>15 DEF Talked
  <2>2. ASSUME NEW j \in H
        PROVE  ready_receive'[j] + Len(hub'[j].recv) + DueOf(hub'[t].air, t, j) = RecSize
    <3>1. Owes(s, Hubs, o, j)
      BY <1>5 DEF Attended
    <3>2. ~(j >= Hubs)
      BY <1>0 DEF H
    <3>3. s.ready[j] + Len(s.hub[j].recv) + 0 + DueOf(s.hub[t].air, t, j) = RecSize
      BY <1>15, <3>1, <3>2 DEF Owes
    <3>4. s.ready[j] \in Nat /\ Len(s.hub[j].recv) \in Nat
      <4>1. Ear(s.hub[j], down[j], j)
        BY <1>5 DEF Attended, Attends
      <4> QED
        BY <1>11, <4>1, EarTypes
    <3>5. ready_receive'[j] = s.ready[j] /\ hub'[j].recv = s.hub[j].recv /\ hub'[t].air = s.hub[t].air
      BY <1>10, <1>12
    <3>6. \A a, b \in Nat : a + b + 0 = a + b
      OBVIOUS
    <3> QED
      BY <3>3, <3>4, <3>5, <3>6
  <2> QED
    BY <2>1, <2>2 DEF Owed, OnlyTalks
<1> QED
  BY <1>10, <1>11, <1>12, <1>13, <1>14, <1>16 DEF HearInv, Ears

(* A flit from the router is not heard.                                      *)
LEMMA SendHears ==
  ASSUME HubAssumption, WaitForTail, HearInv, NEW h \in H, NEW v \in Vcs, NEW p \in Packets, Send(h, v, p)
  PROVE  HearInv'
<1>0. TalkInv /\ DOMAIN hub = H /\ DOMAIN hub[h] = HubFields
  BY DEF HearInv, TalkInv, AwakeInv
<1>1. TalkInv'
  BY <1>0, SendTalks
<1>2. PICK i : hub' = [hub EXCEPT ![h].inq = i]
  BY DEF Send
<1>3. down' = down /\ ready_receive' = ready_receive
  BY DEF Send
<1>4. ASSUME NEW k \in H
      PROVE  /\ Attends(hub'[k], down[k], k) /\ Fresh(hub'[k].xbar) /\ RoomAt(ready_receive, hub'[k], k)
             /\ hub'[k].recv = hub[k].recv /\ hub'[k].air = hub[k].air
  <2>1. PICK q : q = hub'[k]
    OBVIOUS
  <2>2. PICK r : r = hub[k]
    OBVIOUS
  <2>3. /\ q.recv = r.recv /\ q.swq = r.swq /\ q.next = r.next /\ q.xbar = r.xbar /\ q.drop = r.drop
        /\ q.cur = r.cur /\ q.trav = r.trav /\ q.outq = r.outq /\ q.air = r.air
    <3>1. CASE k = h
      BY <1>0, <1>2, <2>1, <2>2, <3>1, Names
    <3>2. CASE k # h
      BY <1>0, <1>2, <2>1, <2>2, <3>2
    <3> QED
      BY <3>1, <3>2
  <2>4. Attends(r, down[k], k) /\ Fresh(r.xbar) /\ RoomAt(ready_receive, r, k)
    BY <2>2 DEF HearInv, Ears
  <2>5. Attends(q, down[k], k) /\ RoomAt(ready_receive, q, k)
    <3> HIDE DEF Attends, RoomAt
    <3> QED
      BY <2>3, <2>4, AttendsSame
  <2> QED
    BY <2>1, <2>2, <2>3, <2>4, <2>5
<1>5. PICK o \in H : Owed(o)
  BY DEF HearInv
<1>6. Owed(o)'
  BY <1>3, <1>4, <1>5 DEF Owed, OnlyTalks
<1> QED
  BY <1>1, <1>3, <1>4, <1>6 DEF HearInv, Ears

(* The router takes a flit on that the hub passed on.                         *)
LEMMA DrainHears ==
  ASSUME WaitForTail, HearInv, NEW h \in H, NEW w \in Vcs, Drain(h, w)
  PROVE  HearInv'
<1>0. TalkInv /\ DOMAIN hub = H /\ DOMAIN hub[h] = HubFields /\ down \in [H -> [Vcs -> Seq(FlitType)]]
  BY DEF HearInv, TalkInv, AwakeInv
<1>1. TalkInv'
  BY <1>0, DrainTalks
<1> DEFINE r == hub[h]
           n == ProcessCredit(r.next, w)
           x == [r EXCEPT !.next = n, !.active = TRUE]
           d == down[h]
           e == [d EXCEPT ![w] = Tail(d[w])]
<1>2. /\ hub' = [hub EXCEPT ![h] = x] /\ down' = [down EXCEPT ![h] = e] /\ ready_receive' = ready_receive
      /\ d[w] # << >>
  BY <1>0 DEF Drain, ReceiveCredit
<1>3. /\ x.recv = r.recv /\ x.swq = r.swq /\ x.next = n /\ x.xbar = r.xbar /\ x.drop = r.drop
      /\ x.cur = r.cur /\ x.trav = r.trav /\ x.outq = r.outq /\ x.air = r.air
  <2> HIDE DEF n
  <2> QED
    BY <1>0, Names
<1>4. Attends(r, d, h) /\ Fresh(r.xbar) /\ RoomAt(ready_receive, r, h) /\ d \in [Vcs -> Seq(FlitType)]
  BY <1>0 DEF HearInv, Ears
<1> HIDE DEF r, x, d
<1>5. /\ Lanes(e, r.xbar) = [Lanes(d, r.xbar) EXCEPT ![w] = Tail(Lanes(d, r.xbar)[w])]
      /\ Lanes(d, r.xbar)[w] # << >> /\ e \in [Vcs -> Seq(FlitType)]
  BY <1>2, <1>4, WayDrained
<1> DEFINE Q == Lanes(d, r.xbar)
<1> HIDE DEF e, Q
<1>6. Flows(r.recv, r.swq, n, [Q EXCEPT ![w] = Tail(Q[w])]) /\ HasRoom(n)
  <2>1. Flows(r.recv, r.swq, r.next, Q) /\ HasRoom(r.next) /\ Q[w] # << >>
    BY <1>4, <1>5 DEF Attends, Ear, Q
  <2>2. HasRoom(n)
    BY <2>1, FieldsStay
  <2> HIDE DEF Flows
  <2> QED
    BY <2>1, <2>2, DrainFlows
<1>7. Attends(x, e, h)
  <2>1. Lanes(e, x.xbar) = [Q EXCEPT ![w] = Tail(Q[w])]
    BY <1>3, <1>5 DEF Q
  <2> HIDE DEF Flows, Waits, HasRoom, Lanes, n
  <2> QED
    BY <1>3, <1>4, <1>6, <2>1 DEF Attends, Ear, DropsOthers
<1>8. RoomAt(ready_receive, x, h) /\ Fresh(x.xbar)
  BY <1>3, <1>4 DEF RoomAt
<1>9. hub'[h] = x /\ down'[h] = e /\ \A k \in H : k # h => hub'[k] = hub[k] /\ down'[k] = down[k]
  BY <1>0, <1>2
<1>10. ASSUME NEW k \in H
       PROVE  /\ Attends(hub'[k], down'[k], k) /\ Fresh(hub'[k].xbar) /\ RoomAt(ready_receive, hub'[k], k)
              /\ hub'[k].recv = hub[k].recv /\ hub'[k].air = hub[k].air /\ down'[k] \in [Vcs -> Seq(FlitType)]
  <2>1. CASE k = h
    <3>1. hub'[k].recv = hub[k].recv /\ hub'[k].air = hub[k].air
      BY <1>3, <1>9, <2>1 DEF r
    <3> QED
      BY <1>5, <1>7, <1>8, <1>9, <2>1, <3>1
  <2>2. CASE k # h
    <3>1. Attends(hub[k], down[k], k) /\ Fresh(hub[k].xbar) /\ RoomAt(ready_receive, hub[k], k)
      BY DEF HearInv, Ears
    <3> HIDE DEF Attends, Fresh, RoomAt
    <3> QED
      BY <1>0, <1>9, <2>2, <3>1
  <2> QED
    BY <2>1, <2>2
<1>11. PICK o \in H : Owed(o)
  BY DEF HearInv
<1>12. Owed(o)'
  BY <1>2, <1>10, <1>11 DEF Owed, OnlyTalks
<1>13. down' \in [H -> [Vcs -> Seq(FlitType)]]
  BY <1>0, <1>2, <1>10
<1>14. ready_receive' \in [H -> Nat]
  BY <1>2 DEF HearInv
<1> QED
  BY <1>1, <1>2, <1>10, <1>12, <1>13, <1>14 DEF HearInv, Ears

(* It holds at the start.                                                    *)
LEMMA HearFirst ==
  ASSUME HubAssumption, Init
  PROVE  HearInv
<1>1. TalkInv
  BY TalkFirst
<1> DEFINE d == [w \in Vcs |-> << >>]
           r == HubInit
           b == StateInit
           Q == Lanes(d, << >>)
<1>2. /\ \A h \in H : hub[h] = r /\ down[h] = d /\ ready_receive[h] = RecSize
      /\ ready_receive \in [H -> Nat] /\ down = [h \in H |-> d] /\ 0 \in H
  BY DEF Init, HubAssumption, H
<1>3. /\ r.recv = << >> /\ r.swq = << >> /\ r.next = b /\ r.xbar = << >> /\ r.drop = {} /\ r.cur = Idle
      /\ r.trav = << >> /\ r.air = << >>
  BY DEF HubInit
<1>4. d \in [Vcs -> Seq(FlitType)] /\ \A w \in Vcs : d[w] = << >>
  OBVIOUS
<1>5. /\ LaneTypes(b) /\ b.vc_occupancy = [v \in Vcs |-> 0] /\ b.in_use = [v \in Vcs |-> FALSE]
      /\ HasRoom(b)
  <2>1. /\ b.vc_occupancy = [v \in Vcs |-> 0] /\ b.in_use = [v \in Vcs |-> FALSE]
        /\ b.tail_sent = [v \in Vcs |-> FALSE] /\ LaneFields \cup RoomFields \subseteq DOMAIN b
    BY DEF StateInit, LaneFields, RoomFields
  <2> HIDE DEF b
  <2> QED
    BY <2>1 DEF LaneTypes, HasRoom
<1> HIDE DEF r, b, d, Q
<1>6. Q \in [Vcs -> Seq(FlitType)] /\ \A w \in Vcs : Q[w] = << >>
  <2>1. \A w : OnWay(<< >>, w) = << >>
    BY DEF OnWay
  <2>2. << >> \o << >> = << >> /\ << >> \in Seq(FlitType)
    OBVIOUS
  <2>3. \A w \in Vcs : d[w] \o OnWay(<< >>, w) = << >>
    BY <1>4, <2>1, <2>2
  <2> QED
    BY <2>2, <2>3 DEF Q, Lanes
<1>7. Flows(r.recv, r.swq, b, Q)
  <2>1. AtFront(<< >>, << >>)
    BY DEF AtFront, Strung
  <2>2. ASSUME NEW w \in Vcs PROVE Along(<< >>, << >>, b, << >>, w)
    BY <1>5 DEF Along, IsPart, Engaged, Aims
  <2> HIDE DEF Along, AtFront
  <2> QED
    BY <1>3, <1>5, <1>6, <2>1, <2>2 DEF Flows
<1>8. \A h \in H : Attends(r, d, h)
  <2>1. Waits(r.recv, r.swq)
    BY <1>3 DEF Waits
  <2>2. \A h \in H : DropsOthers(r, h)
    BY <1>3 DEF DropsOthers
  <2> HIDE DEF Flows, Waits, DropsOthers, HasRoom
  <2> QED
    BY <1>3, <1>5, <1>7, <2>1, <2>2 DEF Attends, Ear, Q
<1>9. \A h \in H : RoomAt(ready_receive, r, h)
  BY <1>3 DEF RoomAt
<1>10. Fresh(r.xbar)
  BY <1>3 DEF Fresh
<1>11. Owed(0)
  <2>1. RecSize \in Nat /\ RecSize + 0 + 0 = RecSize
    BY DEF HubAssumption
  <2>2. \A j \in H : DueOf(hub[0].air, 0, j) = 0
    BY <1>2, <1>3 DEF DueOf
  <2>3. \A j \in H : Len(hub[j].recv) = 0
    BY <1>2, <1>3
  <2> QED
    BY <1>2, <1>3, <2>1, <2>2, <2>3 DEF Owed, OnlyTalks
<1>12. down \in [H -> [Vcs -> Seq(FlitType)]]
  BY <1>2, <1>4
<1> QED
  BY <1>1, <1>2, <1>8, <1>9, <1>10, <1>11, <1>12 DEF HearInv, Ears

(* All of it together: what is inductive of the hearing.                      *)
LEMMA AlwaysHears ==
  ASSUME WaitForTail, RoomWhenTaken
  PROVE  (Init => HearInv) /\ (HearInv /\ [Next]_vars => HearInv')
<1>1. HubAssumption
  BY HubAssumption
<1>2. Init => HearInv
  BY <1>1, HearFirst
<1>3. ASSUME HearInv, [Next]_vars PROVE HearInv'
  <2>1. CASE Cycle
    BY <1>1, <1>3, <2>1, CycleHears
  <2>2. ASSUME NEW h \in H, NEW v \in Vcs, NEW p \in Packets, Send(h, v, p) PROVE HearInv'
    BY <1>1, <1>3, <2>2, SendHears
  <2>3. ASSUME NEW h \in H, NEW w \in Vcs, Drain(h, w) PROVE HearInv'
    BY <1>3, <2>3, DrainHears
  <2>4. CASE UNCHANGED vars
    <3>1. TalkInv'
      <4>1. TalkInv
        BY <1>3 DEF HearInv
      <4> QED
        BY <2>4, <4>1, AlwaysTalks
    <3> QED
      BY <1>3, <2>4, <3>1 DEF HearInv, Ears, Owed, OnlyTalks, vars
  <2> QED
    BY <1>3, <2>1, <2>2, <2>3, <2>4 DEF Next
<1> QED
  BY <1>2, <1>3

(* How many flits of p there are in packet q.                                *)
LEMMA HoldsEntire ==
  ASSUME HubAssumption, NEW p \in Packets, NEW q \in Packets
  PROVE  Holds(Entire(q), p) = IF p = q THEN Size[q] ELSE 0
<1>1. Size[q] \in Nat
  BY DEF HubAssumption
<1>2. PICK e : e = Entire(q)
  OBVIOUS
<1>3. DOMAIN e = 1 .. Size[q] /\ \A k \in 1 .. Size[q] : e[k] = <<q, k>>
  <2>1. PICK n \in Nat : n = Size[q]
    BY <1>1
  <2>2. e = Flits(q, n)
    BY <1>2, <2>1 DEF Entire
  <2>3. DOMAIN Flits(q, n) = 1 .. n /\ \A k \in 1 .. n : Flits(q, n)[k] = <<q, k>>
    BY FlitsAre
  <2> QED
    BY <2>1, <2>2, <2>3
<1>4. CASE p = q
  <2>1. {k \in DOMAIN e : e[k][1] = p} = 1 .. Size[q]
    BY <1>3, <1>4
  <2>2. Cardinality(1 .. Size[q]) = Size[q]
    BY <1>1, FS_Interval
  <2> QED
    BY <1>2, <1>4, <2>1, <2>2 DEF Holds
<1>5. CASE p # q
  <2>1. {k \in DOMAIN e : e[k][1] = p} = {}
    BY <1>3, <1>5
  <2> QED
    BY <1>2, <1>5, <2>1, FS_EmptySet DEF Holds
<1> QED
  BY <1>4, <1>5

(* A packet for one hub is for that one only.                                *)
LEMMA ToOne ==
  ASSUME HubAssumption, NEW p \in Packets, p \notin Multi, NEW h
  PROVE  To[p] = {h} <=> h \in To[p]
<1>1. To[p] \in SUBSET H /\ Cardinality(To[p]) = 1
  BY DEF HubAssumption, Others
<1>2. IsFiniteSet(H)
  BY FS_Interval DEF H, HubAssumption
<1>3. IsFiniteSet(To[p])
  BY <1>1, <1>2, FS_Subset
<1>4. PICK x : To[p] = {x}
  BY <1>1, <1>3, FS_Singleton
<1> QED
  BY <1>4

(* What the sender promised for hub h is what the packet in the air has.        *)
LEMMA DueIsPromised ==
  ASSUME HubAssumption, HearInv, NEW o \in H, Owed(o), NEW h \in H
  PROVE  Promised(h) = DueOf(hub[o].air, o, h)
<1>1. hub[o].air \in Seq(FlitType) /\ (hub[o].air = << >> \/ \E p \in Packets : hub[o].air = Entire(p))
  BY DEF HearInv, TalkInv, AwakeInv, SendTypes
<1>2. Payload(h) = IF o = h THEN << >> ELSE hub[o].air
  BY <1>1, PayloadSays DEF Owed
<1> DEFINE S == {p \in Packets : p \in Multi \/ To[p] = {h}}
           f == [p \in Packets |-> Holds(Payload(h), p)]
<1>3. IsFiniteSet(S)
  BY FS_Subset DEF HubAssumption
<1>4. Promised(h) = SumFunctionOnSet(f, S)
  BY DEF Promised
<1>5. CASE Payload(h) = << >>
  <2>1. \A p \in S : f[p] = 0
    <3>1. \A p : {k \in DOMAIN << >> : << >>[k][1] = p} = {}
      OBVIOUS
    <3> QED
      BY <1>5, <3>1, FS_EmptySet DEF Holds
  <2>2. SumFunctionOnSet(f, S) = 0
    <3> HIDE DEF f, S
    <3> QED
      BY <1>3, <2>1, SumZero
  <2>3. DueOf(hub[o].air, o, h) = 0
    <3>1. hub[o].air = << >> \/ h \notin Others(o)
      BY <1>2, <1>5 DEF Others
    <3> QED
      BY <3>1 DEF DueOf, Owing
  <2> QED
    BY <1>4, <2>2, <2>3
<1>6. CASE Payload(h) # << >>
  <2>1. o # h /\ h \in Others(o) /\ Payload(h) = hub[o].air
    BY <1>2, <1>6 DEF Others
  <2>2. PICK q \in Packets : hub[o].air = Entire(q)
    BY <1>1, <1>6, <2>1
  <2>3. DueOf(hub[o].air, o, h) = IF q \in Multi \/ h \in To[q] THEN Size[q] ELSE 0
    <3>1. Entire(q) # << >> /\ Entire(q)[1][1] = q
      BY EntireTells
    <3> QED
      BY <2>1, <2>2, <3>1 DEF DueOf, Owing
  <2>4. \A p \in Packets : f[p] = IF p = q THEN Size[q] ELSE 0
    BY <2>1, <2>2, HoldsEntire
  <2>5. q \in S <=> q \in Multi \/ h \in To[q]
    BY ToOne
  <2>6. Size[q] \in Int
    BY DEF HubAssumption
  <2>7. S \subseteq Packets
    OBVIOUS
  <2> HIDE DEF f, S
  <2>8. CASE q \in S
    <3>1. f[q] = Size[q] /\ \A p \in S \ {q} : f[p] = 0
      BY <2>4, <2>7
    <3>2. SumFunctionOnSet(f, S) = f[q]
      BY <1>3, <2>6, <2>8, <3>1, SumOnly
    <3> QED
      BY <1>4, <2>3, <2>5, <2>8, <3>1, <3>2
  <2>9. CASE q \notin S
    <3>1. \A p \in S : f[p] = 0
      BY <2>4, <2>7, <2>9
    <3>2. SumFunctionOnSet(f, S) = 0
      BY <1>3, <3>1, SumZero
    <3> QED
      BY <1>4, <2>3, <2>5, <2>9, <3>2
  <2> QED
    BY <2>8, <2>9
<1> QED
  BY <1>5, <1>6

(* The way of a VC to the router is what the hub and the crossbar have of it.    *)
LEMMA ThroughIs ==
  ASSUME HearInv, NEW h \in H, NEW w \in Vcs
  PROVE  Through(h, w) = Lanes(down[h], hub[h].xbar)[w]
<1>1. Fresh(hub[h].xbar)
  BY DEF HearInv, Ears
<1>2. PICK x : x = hub[h].xbar
  OBVIOUS
<1>3. OnWay(x, w) = IF x # << >> /\ x[1].w = w THEN <<x[1].f>> ELSE << >>
  <2>1. CASE x = << >>
    BY <2>1 DEF OnWay
  <2>2. ASSUME NEW f \in FlitType, NEW v \in Vcs, x = <<New(f, v)>>
        PROVE  OnWay(x, w) = IF x # << >> /\ x[1].w = w THEN <<x[1].f>> ELSE << >>
    <3>1. OnWay(x, w) = Out(New(f, v), w)
      BY <2>2, WayOne
    <3>2. x # << >> /\ x[1] = New(f, v)
      BY <2>2
    <3>3. New(f, v).w = v /\ New(f, v).f = f
      BY DEF New
    <3> QED
      BY <3>1, <3>2, <3>3 DEF Out
  <2> QED
    BY <1>1, <1>2, <2>1, <2>2 DEF Fresh
<1>4. InCrossbar(h, w) = OnWay(x, w)
  BY <1>2, <1>3 DEF InCrossbar
<1> QED
  BY <1>2, <1>4 DEF Through, Lanes

(* What a hub keeps is of its types.                                         *)
LEMMA HearTypes ==
  ASSUME HubAssumption, HearInv, NEW h \in H
  PROVE  HubTypes(hub[h])
<1>1. PICK r : r = hub[h]
  OBVIOUS
<1>2. SendTypes(r) /\ r.active \in BOOLEAN
  BY <1>1 DEF HearInv, TalkInv, AwakeInv
<1>3. Ear(r, down[h], h) /\ Fresh(r.xbar)
  BY <1>1 DEF HearInv, Ears, Attends
<1>4. r.cur \in Vcs \cup {Idle} /\ r.drop \subseteq Packets
  BY <1>3 DEF Ear, DropsOthers
<1>5. r.recv \in Seq(FlitType) /\ Len(r.swq) <= 1
  <2>1. AtFront(r.recv, r.swq)
    BY <1>3 DEF Ear, Flows
  <2>2. r.recv \in Seq(FlitType) /\ (r.swq = << >> \/ \E x : r.swq = <<x>>)
    BY <2>1 DEF AtFront
  <2>3. \A x : Len(<<x>>) <= 1
    OBVIOUS
  <2>4. Len(<< >>) <= 1
    OBVIOUS
  <2> QED
    BY <2>2, <2>3, <2>4
<1>6. Len(r.inq) <= 1 /\ \A k \in DOMAIN r.inq : r.inq[k].f \in FlitType
  <2>1. CASE r.inq = << >>
    BY <2>1
  <2>2. ASSUME NEW f \in FlitType, NEW v \in Vcs, r.inq = <<[f |-> f, v |-> v]>>
        PROVE  Len(r.inq) <= 1 /\ \A k \in DOMAIN r.inq : r.inq[k].f \in FlitType
    BY <2>2
  <2> QED
    BY <1>2, <2>1, <2>2 DEF SendTypes
<1>7. Len(r.trav) <= 1
  <2>1. r.trav = << >> \/ \E x : r.trav = <<x>>
    BY <1>2 DEF SendTypes
  <2>2. \A x : Len(<<x>>) <= 1
    OBVIOUS
  <2>3. Len(<< >>) <= 1
    OBVIOUS
  <2> QED
    BY <2>1, <2>2, <2>3
<1>8. Len(r.xbar) <= 1 /\ \A k \in DOMAIN r.xbar : r.xbar[k].f \in FlitType
  <2>1. CASE r.xbar = << >>
    BY <2>1
  <2>2. ASSUME NEW f \in FlitType, NEW v \in Vcs, r.xbar = <<New(f, v)>>
        PROVE  Len(r.xbar) <= 1 /\ \A k \in DOMAIN r.xbar : r.xbar[k].f \in FlitType
    BY <2>2 DEF New
  <2> QED
    BY <1>3, <2>1, <2>2 DEF Fresh
<1> QED
  BY <1>1, <1>2, <1>4, <1>5, <1>6, <1>7, <1>8 DEF HubTypes, SendTypes

(* So every promise is kept.                                                 *)
LEMMA HearKeeps ==
  ASSUME HubAssumption, HearInv
  PROVE  PromisesKept
<1>1. PICK o \in H : Owed(o)
  BY DEF HearInv
<1>2. SlotsPromised
  <2>1. \A h \in H : Promised(h) = DueOf(hub[o].air, o, h)
    BY <1>1, DueIsPromised
  <2> QED
    BY <1>1, <2>1 DEF SlotsPromised, Owed
<1>3. ready_receive \in [H -> 0 .. RecSize]
  <2>1. ASSUME NEW h \in H PROVE ready_receive[h] \in 0 .. RecSize
    <3>1. ready_receive[h] + Len(hub[h].recv) + DueOf(hub[o].air, o, h) = RecSize
      BY <1>1 DEF Owed
    <3>2. ready_receive[h] \in Nat /\ Len(hub[h].recv) \in Nat /\ RecSize \in Nat
      <4>1. Ear(hub[h], down[h], h)
        BY DEF HearInv, Ears, Attends
      <4> QED
        BY <4>1, EarTypes DEF HearInv, HubAssumption
    <3>3. DueOf(hub[o].air, o, h) \in Nat
      BY DueType DEF HearInv, TalkInv
    <3> QED
      BY <3>1, <3>2, <3>3
  <2> QED
    BY <2>1 DEF HearInv
<1>4. TypeOK
  BY <1>3, HearTypes DEF TypeOK, HearInv, TalkInv, AwakeInv
<1>5. CreditsConserved
  <2>1. ASSUME NEW h \in H, NEW v \in Vcs
        PROVE  up[h].vc_occupancy[v] =
                 Len(hub[h].buf[v]) + One(hub[h].inq # << >> /\ hub[h].inq[1].v = v)
                   + Cardinality({k \in DOMAIN hub[h].credits : hub[h].credits[k] = v})
    BY DEF HearInv, TalkInv, Orderly, Counted, Coming, Count
  <2>2. ASSUME NEW h \in H, NEW w \in Vcs PROVE hub[h].next.vc_occupancy[w] = Len(Through(h, w))
    <3>1. Flows(hub[h].recv, hub[h].swq, hub[h].next, Lanes(down[h], hub[h].xbar))
      BY DEF HearInv, Ears, Attends, Ear
    <3>2. hub[h].next.vc_occupancy[w] = Len(Lanes(down[h], hub[h].xbar)[w])
      BY <3>1 DEF Flows, Along
    <3> QED
      BY <3>2, ThroughIs
  <2> QED
    BY <2>1, <2>2 DEF CreditsConserved
<1> QED
  BY <1>2, <1>4, <1>5 DEF PromisesKept

(* And no packet is mixed with another.                                      *)
LEMMA HearParts ==
  ASSUME HubAssumption, HearInv
  PROVE  NoMixing
<1>1. SUFFICES ASSUME NEW h \in H
               PROVE  /\ \A w \in Vcs : IsPart(Through(h, w))
                      /\ IsPart(hub[h].recv)
                      /\ Cardinality({w \in Vcs : hub[h].next.in_use[w] /\ ~hub[h].next.tail_sent[w]})
                           = One(hub[h].recv # << >> /\ ~IsHead(hub[h].recv[1]))
  BY DEF NoMixing
<1>2. PICK r : r = hub[h]
  OBVIOUS
<1>3. Flows(r.recv, r.swq, r.next, Lanes(down[h], r.xbar)) /\ Waits(r.recv, r.swq)
  BY <1>2 DEF HearInv, Ears, Attends, Ear
<1>4. \A w \in Vcs : IsPart(Through(h, w)) /\ (Engaged(r.next, w) <=> Aims(r.swq, w))
  BY <1>2, <1>3, ThroughIs DEF Flows, Along
<1>5. AtFront(r.recv, r.swq)
  BY <1>3 DEF Flows
<1>6. IsPart(r.recv)
  <2>1. PICK q : q = r.recv
    OBVIOUS
  <2>2. q \in Seq(FlitType) /\ Strung(q)
    BY <1>5, <2>1 DEF AtFront
  <2>3. ASSUME NEW k \in 1 .. Len(q) - 1
        PROVE  q[k + 1] = IF IsTail(q[k]) THEN <<q[k + 1][1], 1>> ELSE <<q[k][1], q[k][2] + 1>>
    <3>1. Len(q) \in Nat /\ k \in 1 .. Len(q) /\ k < Len(q) /\ k + 1 \in 1 .. Len(q)
      BY <2>2, LenProperties
    <3>2. q[k + 1] \in FlitType
      BY <2>2, <3>1, ElementOfSeq
    <3>3. IF IsTail(q[k]) THEN IsHead(q[k + 1]) ELSE q[k + 1] = NextOf(q[k])
      BY <2>2, <3>1 DEF Strung
    <3>4. q[k + 1] = <<q[k + 1][1], q[k + 1][2]>>
      BY <3>2 DEF FlitType
    <3> QED
      BY <3>3, <3>4 DEF IsHead, NextOf
  <2> QED
    BY <2>1, <2>3 DEF IsPart
<1>7. Cardinality({w \in Vcs : r.next.in_use[w] /\ ~r.next.tail_sent[w]})
        = One(r.recv # << >> /\ ~IsHead(r.recv[1]))
  <2> DEFINE W == {w \in Vcs : r.next.in_use[w] /\ ~r.next.tail_sent[w]}
  <2>1. W = {w \in Vcs : Aims(r.swq, w)}
    BY <1>4 DEF Engaged
  <2>2. CASE r.swq = << >>
    <3>1. W = {}
      BY <2>1, <2>2 DEF Aims
    <3>2. r.recv = << >> \/ IsHead(r.recv[1])
      BY <1>3, <2>2 DEF Waits
    <3>3. Cardinality(W) = 0
      BY <3>1, FS_EmptySet
    <3> HIDE DEF W
    <3> QED
      BY <3>2, <3>3 DEF One, W
  <2>3. CASE r.swq # << >>
    <3>1. PICK v \in Vcs : r.swq = << <<r.recv[1], v>> >>
      BY <1>5, <2>3 DEF AtFront
    <3>2. W = {v}
      BY <2>1, <3>1 DEF Aims
    <3>3. r.recv # << >> /\ ~IsHead(r.recv[1])
      BY <1>3, <2>3 DEF Waits
    <3>4. Cardinality(W) = 1
      BY <3>2, FS_Singleton
    <3> HIDE DEF W
    <3> QED
      BY <3>3, <3>4 DEF One, W
  <2> QED
    BY <2>2, <2>3
<1> QED
  BY <1>2, <1>4, <1>6, <1>7

(* Every place that is promised is there, on either side of a hub: what hub.cpp *)
(* asserts before it takes a flit from the air and before it promises a place,  *)
(* and that the credits of the two buffers count what is in them.  It needs     *)
(* wait_for_tail_credit, and a hub that takes a VC only when it has room.       *)
THEOREM PromisesStayKept == WaitForTail /\ RoomWhenTaken => (Spec => []PromisesKept)
<1> SUFFICES ASSUME WaitForTail, RoomWhenTaken PROVE Spec => []PromisesKept
  OBVIOUS
<1>1. Init => HearInv
  BY AlwaysHears
<1>2. HearInv /\ [Next]_vars => HearInv'
  BY AlwaysHears
<1>3. HearInv => PromisesKept
  BY HearKeeps, HubAssumption
<1> QED
  BY <1>1, <1>2, <1>3, PTL DEF Spec

(* What a hub hears and passes on is in whole packets, one after the other, and *)
(* of the VCs to its router just the one of the packet under way is taken.      *)
THEOREM NothingMixes == WaitForTail /\ RoomWhenTaken => (Spec => []NoMixing)
<1> SUFFICES ASSUME WaitForTail, RoomWhenTaken PROVE Spec => []NoMixing
  OBVIOUS
<1>1. Init => HearInv
  BY AlwaysHears
<1>2. HearInv /\ [Next]_vars => HearInv'
  BY AlwaysHears
<1>3. HearInv => NoMixing
  BY HearParts, HubAssumption
<1> QED
  BY <1>1, <1>2, <1>3, PTL DEF Spec
=============================================================================
