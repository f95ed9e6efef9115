----------------------------- MODULE LinkProofs -----------------------------
(***************************************************************************)
(* What is proved of a link for any number of VCs, packets of any size, any  *)
(* buffer and every policy.  The operators of FlowControl get one lemma each  *)
(* that says what happens to the fields of the record; LinkInv is inductive:  *)
(* its parts Holding (who has a VC, and what a reserved slot means), Trains   *)
(* (the flits of a channel) and the properties need each other.             *)
(***************************************************************************)
EXTENDS Link, SumLemmas, SequenceTheorems

(* The fields of a BufferState.                                            *)
Fields == {"occupancy", "vc_occupancy", "in_use", "tail_sent", "group", "shared",
           "reserved", "active", "held", "timed", "ahead"}

(* A BufferState has exactly these fields.                                  *)
LEMMA StateFields == DOMAIN StateInit = Fields
  BY DEF StateInit, Fields

-----------------------------------------------------------------------------
(* The packet that has begun and not ended after the first i of the flits fs  *)
(* have arrived where e was expected, at most one.                          *)
Open(e, fs, i) == IF i = 0 THEN e ELSE IF IsTail(fs[i]) THEN {} ELSE {fs[i][1]}

(* A VC belongs to one packet that is not complete, whose tail is not sent;  *)
(* without wait_for_tail_credit it is free after the tail, with it once all   *)
(* credits are back.  A slot is reserved where nothing else is held.        *)
Holding ==
  /\ \A v \in Vcs : \A p \in packet[v] :
       /\ packet[v] = {p} /\ put[p] < Size[p]
       /\ up.in_use[v] /\ ~up.tail_sent[v]
       /\ \A w \in Vcs \ {v} : p \notin packet[w]
  /\ \A v \in Vcs : ~WaitForTail => (up.in_use[v] <=> packet[v] # {})
  /\ \A v \in Vcs : WaitForTail /\ ~up.in_use[v] => up.vc_occupancy[v] = 0
  /\ \A v \in Vcs : up.reserved[v] = 1 => up.in_use[v] /\ up.vc_occupancy[v] = 0 /\ Policy # "private"
  /\ \A v \in Vcs : \A p \in packet[v] :
       put[p] > 0 /\ up.vc_occupancy[v] = 0 /\ Policy # "private" => up.reserved[v] = 1

(* In a channel the flits of a packet stand together, after what has arrived *)
(* of it, and only the packet that holds the VC is incomplete.              *)
Trains ==
  \A v \in Vcs :
    /\ \A i \in 1 .. Len(flying[v]) :
         Open(expected[v], flying[v], i - 1) \in {{}, {flying[v][i][1]}}
    /\ Open(expected[v], flying[v], Len(flying[v])) = {p \in packet[v] : put[p] > 0}

(* The inductive invariant.                                                *)
LinkInv == TypeOK /\ Holding /\ CreditsConserved /\ Trains /\ PolicyHasRoom
           /\ TimedComesBack /\ ActiveCounted

-----------------------------------------------------------------------------
(* t differs from s at most in the fields F.                                *)
Same(s, t, F) == DOMAIN t = Fields /\ \A f \in Fields \ F : t[f] = s[f]

(* The part of x slots that a group takes from all.                         *)
Over(x, g) == Larger(x - GroupSize[g], 0)

(* The group of VC v has d slots more in s, and all lend it as many as it     *)
(* then has beyond its own.                                                *)
Moved(b, s, v, d) ==
  /\ s.group = [b.group EXCEPT ![GroupOf[v]] = @ + d]
  /\ s.shared = b.shared + Over(b.group[GroupOf[v]] + d, GroupOf[v])
                         - Over(b.group[GroupOf[v]], GroupOf[v])

(* Slots that go back are never more than were taken from the common part.   *)
LEMMA FreeSlotsFields ==
  ASSUME NEW b, StateTypes(b), NEW v \in Vcs, NEW n \in Nat
  PROVE  /\ Same(b, FreeSlots(b, v, n), {"group", "shared"})
         /\ FreeSlots(b, v, n).group \in [Groups -> Int]
         /\ FreeSlots(b, v, n).shared \in Int
         /\ FreeSlots(b, v, n).shared <= b.shared
         /\ Moved(b, FreeSlots(b, v, n), v, 0 - n)
<1> DEFINE g == GroupOf[v]
           x == b.group[g] - GroupSize[g]
           K == {k \in 1 .. n : b.group[g] - k >= GroupSize[g]}
           t == FreeSlots(b, v, n)
<1>1. DOMAIN b = Fields /\ g \in Groups /\ b.group \in [Groups -> Int] /\ b.shared \in Int
      /\ GroupSize[g] \in Nat /\ x \in Int
  BY StateFields, FlowAssumption DEF StateTypes
<1>2. Cardinality(K) \in Nat /\ Cardinality(K) = Over(b.group[g], g) - Over(b.group[g] - n, g)
  <2> DEFINE m == IF x < 0 THEN 0 ELSE IF x < n THEN x ELSE n
  <2>1. m \in Nat /\ m = Over(b.group[g], g) - Over(b.group[g] - n, g)
    BY <1>1 DEF Over, Larger
  <2>2. K = 1 .. m
    BY <1>1
  <2> HIDE DEF m, K
  <2>3. Cardinality(1 .. m) = m
    BY <2>1, FS_Interval
  <2> QED
    BY <2>1, <2>2, <2>3
<1>3. /\ Same(b, t, {"group", "shared"})
      /\ t.group = [b.group EXCEPT ![g] = @ - n]
      /\ t.shared = b.shared - Cardinality(K)
  BY <1>1 DEF FreeSlots, Same, Fields
<1> HIDE DEF t, K, g, x
<1>4. t.group \in [Groups -> Int] /\ t.shared \in Int /\ t.shared <= b.shared
  BY <1>1, <1>2, <1>3
<1>5. Moved(b, t, v, 0 - n)
  <2>1. b.group[g] \in Int /\ b.group[g] - n = b.group[g] + (0 - n)
    BY <1>1
  <2>2. t.group = [b.group EXCEPT ![g] = @ + (0 - n)]
    BY <1>1, <1>3, <2>1
  <2>3. Over(b.group[g], g) \in Int /\ Over(b.group[g] - n, g) \in Int
    BY <1>1, <2>1 DEF Over, Larger
  <2> QED
    BY <1>1, <1>2, <1>3, <2>1, <2>2, <2>3 DEF Moved, g
<1> QED
  BY <1>3, <1>4, <1>5 DEF t

(* A flit uses up what is reserved for its VC, and takes a shared slot only   *)
(* if there is one.                                                        *)
LEMMA ShareFields ==
  ASSUME NEW b, StateTypes(b), NEW v \in Vcs, NEW tail \in BOOLEAN,
         SharedSize \in Nat, b.shared <= SharedSize,
         ~(b.reserved[v] = 0 /\ GroupLeft(b, v) = 0 /\ b.shared >= SharedSize)
  PROVE  /\ Same(b, Share(b, v, tail), {"group", "shared", "reserved"})
         /\ Share(b, v, tail).group \in [Groups -> Int]
         /\ Share(b, v, tail).shared \in Int
         /\ Share(b, v, tail).shared <= SharedSize
         /\ Share(b, v, tail).reserved = [b.reserved EXCEPT ![v] = 0]
         /\ Moved(b, Share(b, v, tail), v, 1 - b.reserved[v])
<1> DEFINE g == GroupOf[v]
           t == IF b.reserved[v] > 0 THEN [b EXCEPT !.reserved[v] = @ - 1]
                ELSE [b EXCEPT !.group[g] = @ + 1,
                               !.shared = IF b.group[g] >= GroupSize[g] THEN @ + 1 ELSE @]
           u == FreeSlots(t, v, t.reserved[v])
           w == [u EXCEPT !.reserved[v] = 0]
<1>1. /\ DOMAIN b = Fields /\ g \in Groups /\ b.group \in [Groups -> Int] /\ b.shared \in Int
      /\ b.reserved \in [Vcs -> {0, 1}] /\ GroupSize[g] \in Nat
  BY StateFields, FlowAssumption DEF StateTypes
<1>2. /\ Same(b, t, {"group", "shared", "reserved"})
      /\ t.group \in [Groups -> Int]
      /\ t.shared \in Int /\ t.shared <= SharedSize
      /\ t.reserved = [b.reserved EXCEPT ![v] = 0]
      /\ Moved(b, t, v, 1 - b.reserved[v])
  <2>1. CASE b.reserved[v] > 0
    <3>1. Same(b, t, {"reserved"}) /\ t.reserved = [b.reserved EXCEPT ![v] = @ - 1]
      BY <1>1, <2>1 DEF Same, Fields
    <3> HIDE DEF t
    <3>2. b.reserved[v] = 1 /\ t.group = b.group /\ t.shared = b.shared
      BY <1>1, <2>1, <3>1 DEF Same, Fields
    <3>3. Moved(b, t, v, 1 - b.reserved[v])
      <4>1. b.group[g] + 0 = b.group[g] /\ [b.group EXCEPT ![g] = @ + 0] = b.group
            /\ Over(b.group[g], g) \in Int /\ 1 - b.reserved[v] = 0
        BY <1>1, <3>2 DEF Over, Larger
      <4> HIDE DEF g
      <4> QED
        BY <1>1, <3>2, <4>1 DEF Moved, g
    <3> QED
      BY <1>1, <2>1, <3>1, <3>3 DEF Same, Fields
  <2>2. CASE ~(b.reserved[v] > 0)
    <3>1. /\ Same(b, t, {"group", "shared"})
          /\ t.group = [b.group EXCEPT ![g] = @ + 1]
          /\ t.shared = IF b.group[g] >= GroupSize[g] THEN b.shared + 1 ELSE b.shared
      BY <1>1, <2>2 DEF Same, Fields
    <3>2. b.reserved[v] = 0
      BY <1>1, <2>2
    <3>3. b.group[g] >= GroupSize[g] => GroupLeft(b, v) = 0
      BY <1>1 DEF GroupLeft, Larger
    <3>4. t.reserved = b.reserved
      BY <3>1 DEF Same, Fields
    <3> HIDE DEF t, g
    <3>5. t.group \in [Groups -> Int] /\ t.shared \in Int /\ t.shared <= SharedSize
      BY <1>1, <3>1, <3>2, <3>3
    <3>6. t.reserved = [b.reserved EXCEPT ![v] = 0]
      BY <1>1, <3>2, <3>4
    <3>7. Moved(b, t, v, 1 - b.reserved[v])
      <4>1. Over(b.group[g] + 1, g) - Over(b.group[g], g)
              = (IF b.group[g] >= GroupSize[g] THEN 1 ELSE 0)
            /\ Over(b.group[g] + 1, g) \in Int /\ Over(b.group[g], g) \in Int
            /\ 1 - b.reserved[v] = 1
        BY <1>1, <3>2 DEF Over, Larger
      <4> QED
        BY <1>1, <3>1, <4>1 DEF Moved, g
    <3> QED
      BY <3>1, <3>5, <3>6, <3>7 DEF Same, Fields
  <2> QED
    BY <2>1, <2>2
<1>3. StateTypes(t) /\ t.reserved[v] = 0
  <2> HIDE DEF t
  <2> QED
    BY <1>1, <1>2, StateFields DEF StateTypes, Same, Fields
<1>4. ~tail => Share(b, v, tail) = t
  BY DEF Share
<1>5. tail => Share(b, v, tail) = w
  BY DEF Share
<1> HIDE DEF t
<1>6. /\ Same(t, u, {"group", "shared"})
      /\ u.group \in [Groups -> Int] /\ u.shared \in Int /\ u.shared <= t.shared
      /\ Moved(t, u, v, 0 - 0)
  BY <1>3, FreeSlotsFields
<1> HIDE DEF u
<1>7. /\ Same(u, w, {"reserved"})
      /\ w.reserved = [u.reserved EXCEPT ![v] = 0]
  BY <1>6 DEF Same, Fields
<1> HIDE DEF w
<1>8. w.reserved = [b.reserved EXCEPT ![v] = 0]
  BY <1>1, <1>2, <1>6, <1>7 DEF Same, Fields
<1>9. Same(b, w, {"group", "shared", "reserved"})
  BY <1>2, <1>6, <1>7 DEF Same, Fields
<1>10. w.group \in [Groups -> Int] /\ w.shared \in Int /\ w.shared <= SharedSize
  BY <1>2, <1>6, <1>7 DEF Same, Fields
<1>11. Moved(b, w, v, 1 - b.reserved[v])
  <2>1. w.group = u.group /\ w.shared = u.shared
    BY <1>7 DEF Same, Fields
  <2>2. u.group = t.group /\ u.shared = t.shared
    <3>1. 0 - 0 = 0 /\ t.group[g] \in Int /\ t.group[g] + 0 = t.group[g]
          /\ [t.group EXCEPT ![g] = @ + 0] = t.group /\ Over(t.group[g], g) \in Int
      BY <1>1, <1>2 DEF Over, Larger
    <3> HIDE DEF g
    <3> QED
      BY <1>1, <1>2, <1>6, <3>1 DEF Moved, g
  <2> QED
    BY <1>2, <2>1, <2>2 DEF Moved
<1> QED
  BY <1>2, <1>4, <1>5, <1>8, <1>9, <1>10, <1>11

(* The bound on what a VC may hold is kept, or set for the active VCs there   *)
(* then are.                                                               *)
Bounded(b, s) == s.held = b.held \/ (s.active > 0 /\ s.held = HeldBy(b, s.active))

(* The tail ends the activity of a VC.                                      *)
LEMMA LimitFields ==
  ASSUME NEW b, DOMAIN b = Fields, b.active \in Int, NEW tail \in BOOLEAN
  PROVE  /\ Same(b, Limit(b, tail), {"active", "held"})
         /\ Limit(b, tail).active = IF Policy \in Limiting /\ tail THEN b.active - 1 ELSE b.active
         /\ Bounded(b, Limit(b, tail))
<1> DEFINE l == Limit(b, tail)
<1>1. /\ Same(b, l, {"active", "held"})
      /\ l.active = IF Policy \in Limiting /\ tail THEN b.active - 1 ELSE b.active
  BY DEF Limit, Same, Fields
<1>2. CASE Policy \in Limiting /\ tail
  <2>1. l.held = IF b.active > 1 THEN HeldBy(b, b.active - 1) ELSE b.held
    BY <1>2 DEF Limit, Fields
  <2>2. l.active = b.active - 1
    BY <1>1, <1>2
  <2> HIDE DEF l
  <2>3. Bounded(b, l)
    BY <2>1, <2>2 DEF Bounded
  <2> QED
    BY <1>1, <2>3 DEF l
<1>3. CASE ~(Policy \in Limiting /\ tail)
  <2>1. l = b
    BY <1>3 DEF Limit
  <2>2. Bounded(b, l)
    BY <2>1 DEF Bounded
  <2> QED
    BY <1>1, <2>2
<1> QED
  BY <1>2, <1>3

(* Sending a flit: buffer_state.cpp:658.                                    *)
AfterSending(b, v, tail, s) ==
  /\ DOMAIN s = Fields /\ s.occupancy = b.occupancy + 1 /\ s.occupancy \in Int
  /\ s.vc_occupancy = [b.vc_occupancy EXCEPT ![v] = @ + 1]
  /\ s.in_use = IF tail /\ ~WaitForTail THEN [b.in_use EXCEPT ![v] = FALSE] ELSE b.in_use
  /\ s.tail_sent = IF tail THEN [b.tail_sent EXCEPT ![v] = TRUE] ELSE b.tail_sent
  /\ s.reserved = [b.reserved EXCEPT ![v] = 0]
  /\ s.group \in [Groups -> Int] /\ s.shared \in Int
  /\ Policy # "private" => s.shared <= SharedSize /\ Moved(b, s, v, 1 - b.reserved[v])
  /\ s.active = IF Policy \in Limiting /\ tail THEN b.active - 1 ELSE b.active
  /\ Bounded(b, s)
  /\ s.timed = IF Policy = "feedback" THEN [b.timed EXCEPT ![v] = @ + 1]
               ELSE IF Policy = "simplefeedback" /\ b.timed[v] = 0
                    THEN [b.timed EXCEPT ![v] = 1] ELSE b.timed
  /\ s.ahead = IF Policy = "simplefeedback" /\ b.timed[v] = 0
               THEN [b.ahead EXCEPT ![v] = b.vc_occupancy[v]] ELSE b.ahead

(* What sending leaves is as AfterSending says.                             *)
LEMMA SendingFields ==
  ASSUME NEW b, StateTypes(b), NEW v \in Vcs, NEW tail \in BOOLEAN,
         Policy # "private" => b.shared <= SharedSize,
         Policy = "private" => b.reserved[v] = 0,
         ~IsFullFor(b, v)
  PROVE  AfterSending(b, v, tail, SendingFlit(b, v, tail))
<1> DEFINE s == SendingFlit(b, v, tail)
           t == [b EXCEPT !.occupancy = @ + 1, !.vc_occupancy[v] = @ + 1]
           m == Time(t, v)
           h == Share(m, v, tail)
           l == Limit(h, tail)
           p == IF Policy = "private" THEN t ELSE l
           e == IF tail THEN [p EXCEPT !.tail_sent[v] = TRUE,
                                       !.in_use[v] = IF WaitForTail THEN @ ELSE FALSE]
                ELSE p
<1>0. DOMAIN b = Fields /\ b.reserved \in [Vcs -> {0, 1}] /\ b.group \in [Groups -> Int]
      /\ b.vc_occupancy \in [Vcs -> Nat] /\ b.occupancy \in Int /\ b.shared \in Int
      /\ b.timed \in [Vcs -> Nat] /\ b.in_use \in [Vcs -> BOOLEAN]
  BY StateFields DEF StateTypes
<1>1. /\ Same(b, t, {"occupancy", "vc_occupancy"}) /\ t.occupancy = b.occupancy + 1
      /\ t.vc_occupancy = [b.vc_occupancy EXCEPT ![v] = @ + 1]
  BY <1>0 DEF Same, Fields
<1>2. s = e
  BY DEF SendingFlit
<1> SUFFICES AfterSending(b, v, tail, s)
  OBVIOUS
<1> HIDE DEF s, t
<1>3. /\ Same(t, m, {"timed", "ahead"})
      /\ m.timed = IF Policy = "feedback" THEN [t.timed EXCEPT ![v] = @ + 1]
                   ELSE IF Policy = "simplefeedback" /\ t.timed[v] = 0
                        THEN [t.timed EXCEPT ![v] = 1] ELSE t.timed
      /\ m.ahead = IF Policy = "simplefeedback" /\ t.timed[v] = 0
                   THEN [t.ahead EXCEPT ![v] = t.vc_occupancy[v] - 1] ELSE t.ahead
  BY <1>1 DEF Time, Same, Fields
<1> HIDE DEF m
<1>4. /\ Same(b, m, {"occupancy", "vc_occupancy", "timed", "ahead"})
      /\ m.vc_occupancy = t.vc_occupancy /\ m.occupancy = t.occupancy
      /\ t.timed = b.timed /\ t.ahead = b.ahead
  BY <1>1, <1>3 DEF Same, Fields
<1>5. t.vc_occupancy[v] - 1 = b.vc_occupancy[v] /\ t.vc_occupancy \in [Vcs -> Nat] /\ t.occupancy \in Int
  BY <1>0, <1>1
<1>6. StateTypes(m)
  <2>1. m.timed \in [Vcs -> Nat] /\ m.ahead \in [Vcs -> Nat]
    BY <1>0, <1>3, <1>4, <1>5 DEF StateTypes
  <2> QED
    BY <1>4, <1>5, <2>1, StateFields DEF StateTypes, Same, Fields
<1>7. CASE Policy = "private"
  <2>1. p = t /\ Policy \notin Limiting
    BY <1>7 DEF Limiting
  <2>2. b.reserved = [b.reserved EXCEPT ![v] = 0]
    BY <1>0, <1>7
  <2> HIDE DEF p
  <2>3. Same(b, p, {"occupancy", "vc_occupancy"})
    BY <1>1, <2>1
  <2>4. /\ Same(p, e, {"in_use", "tail_sent"})
        /\ e.in_use = IF tail /\ ~WaitForTail THEN [p.in_use EXCEPT ![v] = FALSE] ELSE p.in_use
        /\ e.tail_sent = IF tail THEN [p.tail_sent EXCEPT ![v] = TRUE] ELSE p.tail_sent
    BY <1>0, <2>3 DEF Same, Fields
  <2> HIDE DEF e
  <2>5. Bounded(b, s)
    BY <1>2, <2>3, <2>4 DEF Bounded, Same, Fields
  <2> QED
    BY <1>0, <1>1, <1>2, <1>5, <1>7, <2>1, <2>2, <2>3, <2>4, <2>5 DEF AfterSending, Same, Fields
<1>8. CASE Policy # "private"
  <2>1. /\ SharedSize \in Nat /\ m.shared <= SharedSize
        /\ ~(m.reserved[v] = 0 /\ GroupLeft(m, v) = 0 /\ m.shared >= SharedSize)
    BY <1>4, <1>8, SharedAssumption DEF IsFullFor, GroupLeft, Same, Fields
  <2>2. /\ Same(m, h, {"group", "shared", "reserved"})
        /\ h.group \in [Groups -> Int] /\ h.shared \in Int /\ h.shared <= SharedSize
        /\ h.reserved = [m.reserved EXCEPT ![v] = 0]
        /\ Moved(m, h, v, 1 - m.reserved[v])
    BY <1>6, <2>1, ShareFields
  <2> HIDE DEF h
  <2>3. /\ Same(h, l, {"active", "held"})
        /\ l.active = IF Policy \in Limiting /\ tail THEN h.active - 1 ELSE h.active
        /\ Bounded(h, l)
    <3>1. h.active \in Int
      BY <1>6, <2>2 DEF StateTypes, Same, Fields
    <3> QED
      BY <2>2, <3>1, LimitFields DEF Same
  <2> HIDE DEF l
  <2>4. p = l
    BY <1>8
  <2> HIDE DEF p
  <2>5. Same(b, p, Fields \ {"in_use", "tail_sent"})
    BY <1>4, <2>2, <2>3, <2>4 DEF Same, Fields
  <2>6. /\ Same(p, e, {"in_use", "tail_sent"})
        /\ e.in_use = IF tail /\ ~WaitForTail THEN [p.in_use EXCEPT ![v] = FALSE] ELSE p.in_use
        /\ e.tail_sent = IF tail THEN [p.tail_sent EXCEPT ![v] = TRUE] ELSE p.tail_sent
    BY <1>0, <2>5 DEF Same, Fields
  <2> HIDE DEF e
  <2>7. /\ s.in_use = IF tail /\ ~WaitForTail THEN [b.in_use EXCEPT ![v] = FALSE] ELSE b.in_use
        /\ s.tail_sent = IF tail THEN [b.tail_sent EXCEPT ![v] = TRUE] ELSE b.tail_sent
    BY <1>2, <2>5, <2>6 DEF Same, Fields
  <2>8. /\ DOMAIN s = Fields /\ s.occupancy = t.occupancy /\ s.vc_occupancy = t.vc_occupancy
        /\ s.reserved = [b.reserved EXCEPT ![v] = 0]
        /\ s.group = h.group /\ s.shared = h.shared
        /\ s.active = l.active /\ h.active = b.active
        /\ s.timed = m.timed /\ s.ahead = m.ahead
    BY <1>2, <1>4, <2>2, <2>3, <2>4, <2>6 DEF Same, Fields
  <2>9. Moved(b, s, v, 1 - b.reserved[v])
    <3>1. m.group = b.group /\ m.shared = b.shared /\ m.reserved = b.reserved
      BY <1>4 DEF Same, Fields
    <3> QED
      BY <2>2, <2>8, <3>1 DEF Moved
  <2>10. Bounded(b, s)
    <3>1. h.held = b.held /\ s.held = l.held
      BY <1>2, <1>4, <2>2, <2>4, <2>6 DEF Same, Fields
    <3> QED
      BY <2>3, <2>8, <3>1 DEF Bounded, HeldBy
  <2> QED
    BY <1>1, <1>3, <1>4, <1>5, <1>8, <2>2, <2>3, <2>7, <2>8, <2>9, <2>10 DEF AfterSending
<1> QED
  BY <1>7, <1>8

(* Taking a VC: buffer_state.cpp:691.                                       *)
AfterTaking(b, v, s) ==
  /\ Same(b, s, {"in_use", "tail_sent", "active", "held"})
  /\ s.in_use = [b.in_use EXCEPT ![v] = TRUE]
  /\ s.tail_sent = [b.tail_sent EXCEPT ![v] = FALSE]
  /\ s.active = IF Policy \in Limiting THEN b.active + 1 ELSE b.active
  /\ s.held = b.held \/ (Policy \in Limiting /\ s.held = HeldBy(b, s.active))

(* What taking leaves is as AfterTaking says.                               *)
LEMMA TakeFields ==
  ASSUME NEW b, StateTypes(b), NEW v \in Vcs
  PROVE  AfterTaking(b, v, TakeBuffer(b, v))
<1> DEFINE s == TakeBuffer(b, v)
<1>1. DOMAIN b = Fields
  BY StateFields DEF StateTypes
<1> DEFINE t == [b EXCEPT !.in_use[v] = TRUE, !.tail_sent[v] = FALSE]
<1>2. /\ Same(b, t, {"in_use", "tail_sent"})
      /\ t.in_use = [b.in_use EXCEPT ![v] = TRUE]
      /\ t.tail_sent = [b.tail_sent EXCEPT ![v] = FALSE]
  BY <1>1 DEF Same, Fields
<1>3. s = IF Policy \notin Limiting THEN t
          ELSE [t EXCEPT !.active = @ + 1, !.held = HeldBy(b, b.active + 1)]
  BY DEF TakeBuffer
<1> HIDE DEF t, s
<1>4. /\ Same(t, s, {"active", "held"})
      /\ s.active = IF Policy \in Limiting THEN t.active + 1 ELSE t.active
      /\ s.held = IF Policy \in Limiting THEN HeldBy(b, b.active + 1) ELSE t.held
  BY <1>2, <1>3 DEF Same, Fields
<1>5. t.active = b.active /\ t.held = b.held
  BY <1>2 DEF Same, Fields
<1>6. AfterTaking(b, v, s)
  BY <1>2, <1>4, <1>5 DEF AfterTaking, Same, Fields
<1> QED
  BY <1>6 DEF s

(* A credit: buffer_state.cpp:608.  The slot stays reserved if the VC has     *)
(* nothing else and is not free.                                           *)
AfterCredit(b, v, s) ==
  /\ DOMAIN s = Fields /\ s.occupancy = b.occupancy - 1 /\ s.occupancy \in Int
  /\ s.vc_occupancy = [b.vc_occupancy EXCEPT ![v] = @ - 1]
  /\ s.in_use = IF WaitForTail /\ b.vc_occupancy[v] = 1 /\ b.tail_sent[v]
                THEN [b.in_use EXCEPT ![v] = FALSE] ELSE b.in_use
  /\ s.tail_sent = b.tail_sent /\ s.active = b.active /\ s.held = b.held
  /\ s.reserved = IF Policy # "private" /\ s.in_use[v] /\ b.vc_occupancy[v] = 1
                  THEN [b.reserved EXCEPT ![v] = @ + 1] ELSE b.reserved
  /\ s.group \in [Groups -> Int] /\ s.shared \in Int
  /\ Policy # "private" =>
       /\ s.shared <= SharedSize
       /\ Moved(b, s, v, s.reserved[v] - b.reserved[v] - 1)
  /\ s.timed = IF \/ Policy = "feedback"
                  \/ Policy = "simplefeedback" /\ b.ahead[v] = 0 /\ b.timed[v] > 0
               THEN [b.timed EXCEPT ![v] = @ - 1] ELSE b.timed
  /\ s.ahead = IF Policy = "simplefeedback" /\ b.ahead[v] > 0
               THEN [b.ahead EXCEPT ![v] = @ - 1] ELSE b.ahead

(* What a credit leaves is as AfterCredit says.                             *)
LEMMA ProcessFields ==
  ASSUME NEW b, StateTypes(b), NEW v \in Vcs, b.vc_occupancy[v] > 0,
         Policy # "private" => SharedSize \in Nat /\ b.shared <= SharedSize
  PROVE  AfterCredit(b, v, ProcessCredit(b, v))
<1> DEFINE s == ProcessCredit(b, v)
           n == b.vc_occupancy[v] - 1
           t == [b EXCEPT !.occupancy = @ - 1, !.vc_occupancy[v] = n,
                          !.in_use[v] = IF WaitForTail /\ n = 0 /\ b.tail_sent[v] THEN FALSE ELSE @]
           f == FreeSlotFor(t, v)
           m == Timed(f, v)
<1>0. DOMAIN b = Fields /\ b.reserved \in [Vcs -> {0, 1}] /\ b.group \in [Groups -> Int]
      /\ b.vc_occupancy \in [Vcs -> Nat] /\ b.occupancy \in Int /\ b.shared \in Int
      /\ b.timed \in [Vcs -> Nat] /\ b.in_use \in [Vcs -> BOOLEAN]
  BY StateFields DEF StateTypes
<1>1. /\ Same(b, t, {"occupancy", "vc_occupancy", "in_use"}) /\ t.occupancy = b.occupancy - 1
      /\ t.vc_occupancy = [b.vc_occupancy EXCEPT ![v] = n]
      /\ t.in_use = IF WaitForTail /\ n = 0 /\ b.tail_sent[v]
                    THEN [b.in_use EXCEPT ![v] = FALSE] ELSE b.in_use
  BY <1>0 DEF Same, Fields
<1>2. s = IF Policy = "private" THEN t ELSE m
  BY DEF ProcessCredit
<1> SUFFICES AfterCredit(b, v, s)
  OBVIOUS
<1> HIDE DEF s
<1>3. n \in Nat /\ (n = 0 <=> b.vc_occupancy[v] = 1) /\ t.vc_occupancy[v] = n
  BY <1>0, <1>1
<1>4. t.occupancy \in Int /\ t.vc_occupancy \in [Vcs -> Nat] /\ t.in_use \in [Vcs -> BOOLEAN]
  <2> HIDE DEF t
  <2>1. t.occupancy \in Int /\ t.vc_occupancy \in [Vcs -> Nat]
    <3> HIDE DEF n
    <3> QED
      BY <1>0, <1>1, <1>3
  <2>2. t.in_use \in [Vcs -> BOOLEAN]
    BY <1>0, <1>1
  <2> QED
    BY <2>1, <2>2
<1> HIDE DEF t
<1>5. StateTypes(t)
  BY <1>1, <1>4, StateFields DEF StateTypes, Same, Fields
<1>6. CASE Policy = "private"
  <2>1. s = t
    BY <1>2, <1>6
  <2> QED
    BY <1>0, <1>1, <1>3, <1>4, <1>6, <2>1 DEF AfterCredit, Same, Fields
<1>7. CASE Policy # "private"
  <2>1. /\ Same(t, f, {"group", "shared", "reserved"})
        /\ f.group \in [Groups -> Int] /\ f.shared \in Int /\ f.shared <= t.shared
        /\ f.reserved = IF t.in_use[v] /\ n = 0 THEN [t.reserved EXCEPT ![v] = @ + 1] ELSE t.reserved
        /\ Moved(t, f, v, f.reserved[v] - t.reserved[v] - 1)
    <3>1. CASE t.in_use[v] /\ n = 0
      <4>1. Same(t, f, {"reserved"}) /\ f.reserved = [t.reserved EXCEPT ![v] = @ + 1]
        BY <1>1, <1>3, <3>1 DEF FreeSlotFor, IsAvailableFor, Same, Fields
      <4> HIDE DEF f
      <4>2. /\ t.reserved \in [Vcs -> {0, 1}] /\ t.group \in [Groups -> Int] /\ t.shared \in Int
            /\ GroupOf[v] \in Groups /\ GroupSize[GroupOf[v]] \in Nat
            /\ f.group = t.group /\ f.shared = t.shared
        BY <1>5, <4>1, FlowAssumption DEF StateTypes, Same, Fields
      <4>3. f.reserved[v] - t.reserved[v] - 1 = 0
        BY <4>1, <4>2
      <4>4. Moved(t, f, v, 0)
        <5> DEFINE g == GroupOf[v]
        <5>1. t.group[g] + 0 = t.group[g] /\ [t.group EXCEPT ![g] = @ + 0] = t.group
              /\ Over(t.group[g], g) \in Int
          BY <4>2 DEF Over, Larger
        <5> HIDE DEF g
        <5> QED
          BY <4>2, <5>1 DEF Moved, g
      <4> QED
        BY <1>5, <3>1, <4>1, <4>3, <4>4 DEF StateTypes, Same, Fields
    <3>2. CASE ~(t.in_use[v] /\ n = 0)
      <4>1. f = FreeSlots(t, v, 1)
        BY <1>3, <3>2 DEF FreeSlotFor, IsAvailableFor
      <4>2. /\ Same(t, f, {"group", "shared"})
            /\ f.group \in [Groups -> Int] /\ f.shared \in Int /\ f.shared <= t.shared
            /\ Moved(t, f, v, 0 - 1)
        BY <1>5, <4>1, FreeSlotsFields
      <4> HIDE DEF f
      <4>3. f.reserved = t.reserved /\ t.reserved[v] \in {0, 1}
        BY <1>5, <4>2 DEF StateTypes, Same, Fields
      <4>4. f.reserved[v] - t.reserved[v] - 1 = 0 - 1
        BY <4>3
      <4> QED
        BY <3>2, <4>2, <4>4 DEF Same, Fields
    <3> QED
      BY <3>1, <3>2
  <2> HIDE DEF f
  <2>2. /\ Same(f, m, {"timed", "ahead"})
        /\ m.timed = IF \/ Policy = "feedback"
                        \/ Policy = "simplefeedback" /\ f.ahead[v] = 0 /\ f.timed[v] > 0
                     THEN [f.timed EXCEPT ![v] = @ - 1] ELSE f.timed
        /\ m.ahead = IF Policy = "simplefeedback" /\ f.ahead[v] > 0
                     THEN [f.ahead EXCEPT ![v] = @ - 1] ELSE f.ahead
    <3>1. f.ahead[v] \in Nat
      BY <1>5, <2>1 DEF StateTypes, Same, Fields
    <3>2. DOMAIN f = Fields
      BY <2>1 DEF Same
    <3> QED
      BY <3>1, <3>2 DEF Timed, Same, Fields
  <2> HIDE DEF m
  <2>3. s = m
    BY <1>2, <1>7
  <2>4. /\ DOMAIN s = Fields /\ s.occupancy = t.occupancy /\ s.vc_occupancy = t.vc_occupancy
        /\ s.in_use = t.in_use /\ s.tail_sent = b.tail_sent /\ s.active = b.active /\ s.held = b.held
        /\ s.reserved = f.reserved /\ t.reserved = b.reserved
        /\ s.group = f.group /\ s.shared = f.shared /\ t.shared = b.shared
        /\ f.timed = b.timed /\ f.ahead = b.ahead /\ s.timed = m.timed /\ s.ahead = m.ahead
    BY <1>1, <2>1, <2>2, <2>3 DEF Same, Fields
  <2>5. Policy # "private" => s.shared <= SharedSize
    BY <1>0, <2>1, <2>4
  <2>6. Moved(b, s, v, s.reserved[v] - b.reserved[v] - 1)
    <3>1. t.group = b.group /\ t.shared = b.shared /\ t.reserved = b.reserved
      BY <1>1 DEF Same, Fields
    <3> QED
      BY <2>1, <2>4, <3>1 DEF Moved
  <2> QED
    BY <1>1, <1>3, <1>4, <1>7, <2>1, <2>2, <2>4, <2>5, <2>6 DEF AfterCredit
<1> QED
  BY <1>6, <1>7

-----------------------------------------------------------------------------
(* The share of a VC under the private policy is at least one slot.         *)
LEMMA VcBufSizeType ==
  ASSUME NEW v \in Vcs
  PROVE  VcBufSize \in Nat \ {0}
<1>1. Cardinality(Vcs) \in Nat /\ Cardinality(Vcs) # 0
  BY FlowAssumption, FS_CardinalityType, FS_EmptySet
<1>2. CASE ConfBufSize >= Cardinality(Vcs)
  <2> DEFINE c == Cardinality(Vcs)
             q == ConfBufSize \div c
  <2>1. ConfBufSize \in Int /\ c \in Nat \ {0} /\ ConfBufSize >= c
    BY <1>1, <1>2, FlowAssumption
  <2> HIDE DEF c
  <2>2. q \in Int /\ ConfBufSize < c * (q + 1)
    BY <2>1
  <2>3. q <= 0 => c * (q + 1) <= c
    BY <2>1, <2>2
  <2>4. q \in Nat \ {0}
    BY <2>1, <2>2, <2>3
  <2> QED
    BY <2>4, <1>2 DEF VcBufSize, c
<1>3. CASE ~(ConfBufSize >= Cardinality(Vcs))
  BY <1>3, FlowAssumption DEF VcBufSize
<1> QED
  BY <1>2, <1>3

(* The invariant holds initially.                                          *)
LEMMA InitInv == Init => LinkInv
<1> SUFFICES ASSUME Init PROVE LinkInv
  OBVIOUS
<1> USE DEF Init
<1>1. /\ DOMAIN up = Fields /\ up.occupancy = 0 /\ up.vc_occupancy = [v \in Vcs |-> 0]
      /\ up.in_use = [v \in Vcs |-> FALSE] /\ up.tail_sent = [v \in Vcs |-> FALSE]
      /\ up.group = [g \in Groups |-> 0] /\ up.shared = 0 /\ up.reserved = [v \in Vcs |-> 0]
      /\ up.active = 0 /\ up.timed = [v \in Vcs |-> 0] /\ up.ahead = [v \in Vcs |-> 0]
  BY StateFields DEF StateInit
<1>2. TypeOK
  BY <1>1, StateFields DEF TypeOK, StateTypes
<1>3. Holding
  BY <1>1 DEF Holding
<1>4. CreditsConserved
  BY <1>1 DEF CreditsConserved, OnTheWay
<1>5. Trains
  BY DEF Trains, Open
<1>6. PolicyHasRoom
  BY <1>1, VcBufSizeType, SharedAssumption DEF PolicyHasRoom
<1>7. TimedComesBack
  BY <1>1 DEF TimedComesBack
<1>8. ActiveCounted
  <2>1. {v \in Vcs : packet[v] # {}} = {}
    OBVIOUS
  <2> QED
    BY <1>1, <2>1, FS_EmptySet DEF ActiveCounted
<1> QED
  BY <1>2, <1>3, <1>4, <1>5, <1>6, <1>7, <1>8 DEF LinkInv

(* Taking a VC keeps the invariant.                                         *)
LEMMA TakeInv ==
  ASSUME LinkInv, NEW v \in Vcs, NEW p \in Packets, Take(v, p)
  PROVE  LinkInv'
<1> USE DEF LinkInv
<1>1. /\ Same(up, up', {"in_use", "tail_sent", "active", "held"})
      /\ up'.in_use = [up.in_use EXCEPT ![v] = TRUE]
      /\ up'.tail_sent = [up.tail_sent EXCEPT ![v] = FALSE]
      /\ up'.active = IF Policy \in Limiting THEN up.active + 1 ELSE up.active
  BY TakeFields DEF Take, TypeOK, AfterTaking
<1>2. /\ put[p] = 0 /\ \A w \in Vcs : p \notin packet[w]
      /\ ~up.in_use[v] /\ packet[v] = {}
      /\ packet' = [packet EXCEPT ![v] = {p}]
      /\ UNCHANGED <<put, flying, buf, expected, back>>
  BY DEF Take, MayTake, IsAvailableFor, Holding, TypeOK
<1>3. /\ up'.occupancy = up.occupancy /\ up'.vc_occupancy = up.vc_occupancy
      /\ up'.group = up.group /\ up'.shared = up.shared /\ up'.reserved = up.reserved
      /\ up'.timed = up.timed /\ up'.ahead = up.ahead
  BY <1>1 DEF Same, Fields
<1>4. TypeOK'
  <2>1. up'.in_use \in [Vcs -> BOOLEAN] /\ up'.tail_sent \in [Vcs -> BOOLEAN]
    BY <1>1 DEF TypeOK, StateTypes
  <2>2. up'.active \in Int
    BY <1>1 DEF TypeOK, StateTypes
  <2>3. StateTypes(up')
    BY <1>1, <1>3, <2>1, <2>2, StateFields DEF TypeOK, StateTypes, Same
  <2>4. packet' \in [Vcs -> SUBSET Packets]
    BY <1>2 DEF TypeOK
  <2> QED
    BY <1>2, <2>3, <2>4 DEF TypeOK
<1>5. Holding'
  <2>1. /\ packet \in [Vcs -> SUBSET Packets] /\ put \in [Packets -> Nat] /\ Size[p] > 0
        /\ up.in_use \in [Vcs -> BOOLEAN] /\ up.tail_sent \in [Vcs -> BOOLEAN]
    BY PacketAssumption DEF TypeOK, StateTypes
  <2>2. \A w \in Vcs : w # v => /\ packet'[w] = packet[w]
                               /\ up'.in_use[w] = up.in_use[w] /\ up'.tail_sent[w] = up.tail_sent[w]
    BY <1>1, <1>2, <2>1
  <2>3. packet'[v] = {p} /\ up'.in_use[v] /\ ~up'.tail_sent[v]
    BY <1>1, <1>2, <2>1
  <2>4. \A w \in Vcs : \A q \in packet'[w] :
          /\ packet'[w] = {q} /\ put'[q] < Size[q]
          /\ up'.in_use[w] /\ ~up'.tail_sent[w]
          /\ \A x \in Vcs \ {w} : q \notin packet'[x]
    BY <1>2, <2>1, <2>2, <2>3 DEF Holding
  <2>5. \A w \in Vcs : ~WaitForTail => (up'.in_use[w] <=> packet'[w] # {})
    BY <2>2, <2>3 DEF Holding
  <2>6. \A w \in Vcs : \A q \in packet'[w] :
          put'[q] > 0 /\ up'.vc_occupancy[w] = 0 /\ Policy # "private" => up'.reserved[w] = 1
    BY <1>2, <1>3, <2>2, <2>3 DEF Holding
  <2>7. \A w \in Vcs : /\ WaitForTail /\ ~up'.in_use[w] => up'.vc_occupancy[w] = 0
                       /\ up'.reserved[w] = 1 => up'.in_use[w] /\ up'.vc_occupancy[w] = 0
                                                 /\ Policy # "private"
    BY <1>3, <2>2, <2>3 DEF Holding
  <2> QED
    BY <2>4, <2>5, <2>6, <2>7 DEF Holding
<1>6. CreditsConserved'
  BY <1>1, <1>2, <1>3 DEF CreditsConserved, OnTheWay, TypeOK, StateTypes
<1>7. Trains'
  <2>1. \A w \in Vcs : {q \in packet'[w] : put'[q] > 0} = {q \in packet[w] : put[q] > 0}
    BY <1>2 DEF TypeOK
  <2> QED
    BY <1>2, <2>1 DEF Trains
<1>8. PolicyHasRoom'
  BY <1>3 DEF PolicyHasRoom
<1>9. TimedComesBack'
  BY <1>3 DEF TimedComesBack
<1>10. ActiveCounted'
  <2> DEFINE A == {w \in Vcs : packet[w] # {}}
  <2>1. {w \in Vcs : packet'[w] # {}} = A \cup {v} /\ v \notin A
    BY <1>2 DEF TypeOK
  <2>2. IsFiniteSet(A)
    BY FlowAssumption, FS_Subset
  <2>3. Cardinality(A \cup {v}) = Cardinality(A) + 1
    BY <2>1, <2>2, FS_AddElement
  <2> QED
    BY <1>1, <2>1, <2>3 DEF ActiveCounted
<1> QED
  BY <1>4, <1>5, <1>6, <1>7, <1>8, <1>9, <1>10

(* The length of a queue of flits.                                          *)
LEMMA QueueLengths ==
  ASSUME TypeOK, NEW v \in Vcs
  PROVE  /\ flying[v] \in Seq(Packets \X Nat) /\ buf[v] \in Seq(Packets \X Nat)
         /\ Len(flying[v]) \in Nat /\ Len(buf[v]) \in Nat /\ OnTheWay(v) \in Nat
  BY LenProperties DEF TypeOK, OnTheWay

(* Forwarding a flit keeps the invariant.                                   *)
LEMMA ForwardInv ==
  ASSUME LinkInv, NEW v \in Vcs, Forward(v)
  PROVE  LinkInv'
<1> USE DEF LinkInv
<1>1. /\ buf[v] # << >> /\ buf' = [buf EXCEPT ![v] = Tail(@)]
      /\ back' = [back EXCEPT ![v] = @ + 1]
      /\ up' = up /\ packet' = packet /\ put' = put /\ flying' = flying /\ expected' = expected
  BY DEF Forward
<1>2. Tail(buf[v]) \in Seq(Packets \X Nat) /\ Len(Tail(buf[v])) = Len(buf[v]) - 1
  BY <1>1, QueueLengths, HeadTailProperties
<1>3. TypeOK'
  <2>1. buf' \in [Vcs -> Seq(Packets \X Nat)]
    BY <1>1, <1>2 DEF TypeOK
  <2>2. back' \in [Vcs -> Nat]
    BY <1>1 DEF TypeOK
  <2> QED
    BY <1>1, <2>1, <2>2 DEF TypeOK
<1>4. CreditsConserved'
  <2>1. SUFFICES ASSUME NEW w \in Vcs
                 PROVE  /\ up.vc_occupancy[w] = Len(flying[w]) + Len(buf'[w]) + back'[w]
                        /\ WaitForTail /\ ~up.in_use[w] => back'[w] = 0
    BY <1>1 DEF CreditsConserved, OnTheWay
  <2>2. \A x \in Vcs : /\ up.vc_occupancy[x] = Len(flying[x]) + Len(buf[x]) + back[x]
                       /\ Len(flying[x]) \in Nat /\ Len(buf[x]) \in Nat /\ back[x] \in Nat
    BY QueueLengths DEF CreditsConserved, OnTheWay, TypeOK
  <2>3. CASE w = v
    <3>1. buf'[v] = Tail(buf[v]) /\ back'[v] = back[v] + 1
      BY <1>1 DEF TypeOK
    <3>2. Len(buf[v]) > 0
      BY <1>1, QueueLengths, EmptySeq
    <3> DEFINE F == Len(flying[v])
               B == Len(buf[v])
               C == Len(buf'[v])
    <3>3. F \in Nat /\ B \in Nat /\ B > 0 /\ C = B - 1 /\ back[v] \in Nat
          /\ up.vc_occupancy[v] = F + B + back[v]
      BY <1>2, <2>2, <3>1, <3>2
    <3> HIDE DEF F, B, C
    <3>4. WaitForTail => up.in_use[v]
      <4>1. up.vc_occupancy[v] # 0
        BY <3>3
      <4> QED
        BY <4>1 DEF Holding
    <3>5. up.vc_occupancy[v] = F + C + back'[v]
      BY <3>1, <3>3
    <3>6. up.vc_occupancy[v] = Len(flying[v]) + Len(buf'[v]) + back'[v]
      BY <3>5 DEF F, C
    <3> QED
      BY <2>3, <3>4, <3>6
  <2>4. CASE w # v
    <3>1. buf'[w] = buf[w] /\ back'[w] = back[w]
      BY <1>1, <2>4 DEF TypeOK
    <3> QED
      BY <2>2, <3>1 DEF CreditsConserved
  <2> QED
    BY <2>3, <2>4
<1>5. PolicyHasRoom' /\ TimedComesBack' /\ ActiveCounted'
  BY <1>1 DEF PolicyHasRoom, TimedComesBack, ActiveCounted
<1>6. Holding'
  BY <1>1 DEF Holding
<1>7. Trains'
  BY <1>1 DEF Trains
<1> QED
  BY <1>3, <1>4, <1>5, <1>6, <1>7

(* The arrival of a flit keeps the invariant.                               *)
LEMMA ArriveInv ==
  ASSUME LinkInv, NEW v \in Vcs, Arrive(v)
  PROVE  LinkInv'
<1> USE DEF LinkInv
<1> DEFINE f == Head(flying[v])
<1>1. /\ flying[v] # << >>
      /\ expected' = [expected EXCEPT ![v] = IF IsTail(f) THEN {} ELSE {f[1]}]
      /\ buf' = [buf EXCEPT ![v] = Append(@, f)]
      /\ flying' = [flying EXCEPT ![v] = Tail(@)]
      /\ up' = up /\ packet' = packet /\ put' = put /\ back' = back
  BY DEF Arrive
<1>2. /\ f \in Packets \X Nat /\ f = flying[v][1]
      /\ Tail(flying[v]) \in Seq(Packets \X Nat) /\ Len(Tail(flying[v])) = Len(flying[v]) - 1
      /\ \A i \in 1 .. Len(flying[v]) - 1 : Tail(flying[v])[i] = flying[v][i + 1]
  BY <1>1, QueueLengths, HeadTailProperties
<1>3. Append(buf[v], f) \in Seq(Packets \X Nat) /\ Len(Append(buf[v], f)) = Len(buf[v]) + 1
  BY <1>2, QueueLengths, AppendProperties
<1> HIDE DEF f
<1>4. /\ flying'[v] = Tail(flying[v]) /\ buf'[v] = Append(buf[v], f)
      /\ expected'[v] = IF IsTail(f) THEN {} ELSE {f[1]}
      /\ \A w \in Vcs : w # v => /\ flying'[w] = flying[w] /\ buf'[w] = buf[w]
                                /\ expected'[w] = expected[w]
  BY <1>1 DEF TypeOK
<1>5. TypeOK'
  BY <1>1, <1>2, <1>3 DEF TypeOK
<1>6. \A w \in Vcs : Len(flying'[w]) + Len(buf'[w]) = Len(flying[w]) + Len(buf[w])
  <2>1. SUFFICES ASSUME NEW w \in Vcs
                 PROVE  Len(flying'[w]) + Len(buf'[w]) = Len(flying[w]) + Len(buf[w])
    OBVIOUS
  <2>2. Len(flying[v]) \in Nat /\ Len(buf[v]) \in Nat
    BY QueueLengths
  <2>3. CASE w = v
    <3>1. Len(flying'[v]) + Len(buf'[v]) = Len(flying[v]) + Len(buf[v])
      <4> DEFINE F == Len(flying[v])
                 B == Len(buf[v])
                 G == Len(flying'[v])
                 C == Len(buf'[v])
      <4>1. F \in Nat /\ B \in Nat /\ G = F - 1 /\ C = B + 1
        BY <1>2, <1>3, <1>4, <2>2
      <4> HIDE DEF F, B, G, C
      <4>2. G + C = F + B
        BY <4>1
      <4> QED
        BY <4>2 DEF F, B, G, C
    <3> QED
      BY <2>3, <3>1
  <2>4. CASE w # v
    BY <1>4, <2>4
  <2> QED
    BY <2>3, <2>4
<1>7. CreditsConserved'
  BY <1>1, <1>6 DEF CreditsConserved, OnTheWay
<1>8. Trains'
  <2>1. SUFFICES ASSUME NEW w \in Vcs
                 PROVE  /\ \A i \in 1 .. Len(flying'[w]) :
                             Open(expected'[w], flying'[w], i - 1) \in {{}, {flying'[w][i][1]}}
                        /\ Open(expected'[w], flying'[w], Len(flying'[w]))
                             = {p \in packet[w] : put[p] > 0}
    BY <1>1 DEF Trains
  <2>2. CASE w # v
    BY <1>4, <2>2 DEF Trains
  <2>3. CASE w = v
    <3> DEFINE n == Len(flying[v])
    <3>1. n \in Nat \ {0}
      BY <1>1, QueueLengths, EmptySeq
    <3>2. \A i \in 0 .. n - 1 : Open(expected'[v], flying'[v], i) = Open(expected[v], flying[v], i + 1)
      <4>1. SUFFICES ASSUME NEW i \in 0 .. n - 1
                     PROVE  Open(expected'[v], flying'[v], i) = Open(expected[v], flying[v], i + 1)
        OBVIOUS
      <4>2. CASE i = 0
        BY <1>2, <1>4, <4>2 DEF Open
      <4>3. CASE i # 0
        <5>1. i \in 1 .. n - 1 /\ i + 1 # 0
          BY <3>1, <4>3
        <5>2. flying'[v][i] = flying[v][i + 1]
          BY <1>2, <1>4, <5>1
        <5> QED
          BY <4>3, <5>1, <5>2 DEF Open
      <4> QED
        BY <4>2, <4>3
    <3>3. Len(flying'[v]) = n - 1
      BY <1>2, <1>4
    <3>4. \A i \in 1 .. n - 1 : flying'[v][i] = flying[v][i + 1]
      BY <1>2, <1>4
    <3>5. /\ \A i \in 1 .. n : Open(expected[v], flying[v], i - 1) \in {{}, {flying[v][i][1]}}
          /\ Open(expected[v], flying[v], n) = {p \in packet[v] : put[p] > 0}
      BY DEF Trains
    <3> HIDE DEF n
    <3>6. ASSUME NEW i \in 1 .. n - 1
          PROVE  Open(expected'[v], flying'[v], i - 1) \in {{}, {flying'[v][i][1]}}
      <4>1. Open(expected[v], flying[v], (i + 1) - 1) \in {{}, {flying[v][i + 1][1]}}
        BY <3>1, <3>5
      <4>2. i - 1 \in 0 .. n - 1 /\ (i - 1) + 1 = i /\ (i + 1) - 1 = i
        BY <3>1
      <4> QED
        BY <3>2, <3>4, <4>1, <4>2
    <3>7. n - 1 \in 0 .. n - 1 /\ (n - 1) + 1 = n
      BY <3>1
    <3> QED
      BY <2>3, <3>2, <3>3, <3>5, <3>6, <3>7
  <2> QED
    BY <2>2, <2>3
<1>9. Holding' /\ PolicyHasRoom' /\ TimedComesBack' /\ ActiveCounted'
  BY <1>1 DEF Holding, PolicyHasRoom, TimedComesBack, ActiveCounted
<1> QED
  BY <1>5, <1>7, <1>8, <1>9

(* A credit keeps the invariant.                                            *)
LEMMA ReceiveCreditInv ==
  ASSUME LinkInv, NEW v \in Vcs, ReceiveCredit(v)
  PROVE  LinkInv'
<1> USE DEF LinkInv
<1> DEFINE n == up.vc_occupancy[v]
<1>1. /\ back[v] > 0 /\ up' = ProcessCredit(up, v) /\ back' = [back EXCEPT ![v] = @ - 1]
      /\ packet' = packet /\ put' = put /\ flying' = flying /\ buf' = buf /\ expected' = expected
  BY DEF ReceiveCredit
<1>2. StateTypes(up) /\ back \in [Vcs -> Nat] /\ up.vc_occupancy \in [Vcs -> Nat] /\ n \in Nat
      /\ up.in_use \in [Vcs -> BOOLEAN] /\ up.tail_sent \in [Vcs -> BOOLEAN]
      /\ up.reserved \in [Vcs -> {0, 1}] /\ up.timed \in [Vcs -> Nat] /\ up.ahead \in [Vcs -> Nat]
  BY DEF TypeOK, StateTypes
<1>3. \A w \in Vcs : OnTheWay(w) \in Nat /\ up.vc_occupancy[w] = OnTheWay(w) + back[w]
  BY QueueLengths DEF CreditsConserved
<1>4. n > 0
  BY <1>1, <1>2, <1>3
<1>5. Policy # "private" => SharedSize \in Nat /\ up.shared <= SharedSize
  BY SharedAssumption DEF PolicyHasRoom
<1>6. /\ DOMAIN up' = Fields /\ up'.occupancy \in Int
      /\ up'.vc_occupancy = [up.vc_occupancy EXCEPT ![v] = @ - 1]
      /\ up'.in_use = IF WaitForTail /\ n = 1 /\ up.tail_sent[v]
                      THEN [up.in_use EXCEPT ![v] = FALSE] ELSE up.in_use
      /\ up'.tail_sent = up.tail_sent /\ up'.active = up.active
      /\ up'.reserved = IF Policy # "private" /\ up'.in_use[v] /\ n = 1
                        THEN [up.reserved EXCEPT ![v] = @ + 1] ELSE up.reserved
      /\ up'.group \in [Groups -> Int] /\ up'.shared \in Int
      /\ Policy # "private" => up'.shared <= SharedSize
      /\ up'.timed = IF \/ Policy = "feedback"
                        \/ Policy = "simplefeedback" /\ up.ahead[v] = 0 /\ up.timed[v] > 0
                     THEN [up.timed EXCEPT ![v] = @ - 1] ELSE up.timed
      /\ up'.ahead = IF Policy = "simplefeedback" /\ up.ahead[v] > 0
                     THEN [up.ahead EXCEPT ![v] = @ - 1] ELSE up.ahead
  <2>1. AfterCredit(up, v, up')
    BY <1>1, <1>2, <1>4, <1>5, ProcessFields
  <2> QED
    BY <2>1 DEF AfterCredit
<1> HIDE DEF n
<1>7. /\ up'.vc_occupancy \in [Vcs -> Nat] /\ up'.vc_occupancy[v] = n - 1
      /\ \A w \in Vcs : w # v => /\ up'.vc_occupancy[w] = up.vc_occupancy[w]
                                /\ up'.in_use[w] = up.in_use[w]
                                /\ up'.reserved[w] = up.reserved[w]
                                /\ up'.timed[w] = up.timed[w] /\ up'.ahead[w] = up.ahead[w]
                                /\ back'[w] = back[w]
  <2>1. up'.vc_occupancy \in [Vcs -> Nat] /\ up'.vc_occupancy[v] = n - 1
    BY <1>2, <1>4, <1>6 DEF n
  <2>2. \A w \in Vcs : w # v => /\ up'.vc_occupancy[w] = up.vc_occupancy[w]
                              /\ up'.in_use[w] = up.in_use[w]
                              /\ back'[w] = back[w]
    BY <1>1, <1>2, <1>6
  <2>3. \A w \in Vcs : w # v => up'.reserved[w] = up.reserved[w]
    BY <1>2, <1>6
  <2>4. \A w \in Vcs : w # v => up'.timed[w] = up.timed[w] /\ up'.ahead[w] = up.ahead[w]
    BY <1>2, <1>6
  <2> QED
    BY <2>1, <2>2, <2>3, <2>4
<1>8. /\ up'.in_use \in [Vcs -> BOOLEAN]
      /\ up'.in_use[v] <=> up.in_use[v] /\ ~(WaitForTail /\ n = 1 /\ up.tail_sent[v])
  BY <1>2, <1>6
<1>9. n = 1 \/ up.reserved[v] = 0
  BY <1>2, <1>4 DEF Holding, n
<1>10. up.reserved[v] = 0
  BY <1>2, <1>4 DEF Holding, n
<1>11. /\ up'.reserved \in [Vcs -> {0, 1}]
       /\ up'.reserved[v] = IF Policy # "private" /\ up'.in_use[v] /\ n = 1 THEN 1 ELSE 0
  BY <1>2, <1>6, <1>10
<1>12. TimedComesBack' /\ up'.timed \in [Vcs -> Nat] /\ up'.ahead \in [Vcs -> Nat]
  <2>1. CASE Policy = "feedback"
    <3>1. up.timed[v] = n
      BY <2>1 DEF TimedComesBack, n
    <3>2. up'.timed = [up.timed EXCEPT ![v] = @ - 1] /\ up'.ahead = up.ahead
      BY <1>6, <2>1
    <3>3. up'.timed \in [Vcs -> Nat] /\ up'.timed[v] = n - 1
      BY <1>2, <1>4, <3>1, <3>2
    <3> QED
      BY <1>2, <1>7, <2>1, <3>2, <3>3 DEF TimedComesBack
  <2>2. CASE Policy = "simplefeedback"
    <3>1. /\ up'.timed = IF up.ahead[v] = 0 /\ up.timed[v] > 0
                         THEN [up.timed EXCEPT ![v] = @ - 1] ELSE up.timed
          /\ up'.ahead = IF up.ahead[v] > 0 THEN [up.ahead EXCEPT ![v] = @ - 1] ELSE up.ahead
      BY <1>6, <2>2
    <3>2. IF up.timed[v] = 0 THEN up.ahead[v] = 0 ELSE up.timed[v] = 1 /\ up.ahead[v] < n
      BY <2>2 DEF TimedComesBack, n
    <3>3. up'.timed \in [Vcs -> Nat] /\ up'.ahead \in [Vcs -> Nat]
      BY <1>2, <3>1, <3>2
    <3>4. /\ up'.timed[v] = IF up.ahead[v] = 0 /\ up.timed[v] > 0 THEN up.timed[v] - 1 ELSE up.timed[v]
          /\ up'.ahead[v] = IF up.ahead[v] > 0 THEN up.ahead[v] - 1 ELSE up.ahead[v]
      BY <1>2, <3>1
    <3>5. IF up'.timed[v] = 0 THEN up'.ahead[v] = 0
          ELSE up'.timed[v] = 1 /\ up'.ahead[v] < up'.vc_occupancy[v]
      BY <1>2, <1>7, <3>2, <3>4
    <3> QED
      BY <1>7, <2>2, <3>3, <3>5 DEF TimedComesBack
  <2>3. CASE Policy \notin {"feedback", "simplefeedback"}
    BY <1>2, <1>6, <2>3 DEF TimedComesBack
  <2> QED
    BY <2>1, <2>2, <2>3
<1>13. TypeOK'
  <2>1. StateTypes(up')
    <3>1. up'.tail_sent \in [Vcs -> BOOLEAN] /\ up'.active \in Int
      BY <1>2, <1>6 DEF StateTypes
    <3> QED
      BY <1>6, <1>7, <1>8, <1>11, <1>12, <3>1, StateFields DEF StateTypes
  <2>2. back' \in [Vcs -> Nat]
    BY <1>1, <1>2
  <2> QED
    BY <1>1, <2>1, <2>2 DEF TypeOK
<1>14. Holding'
  <2>1. ASSUME NEW w \in Vcs, NEW p \in packet[w]
        PROVE  /\ packet[w] = {p} /\ put[p] < Size[p]
               /\ up'.in_use[w] /\ ~up'.tail_sent[w]
               /\ \A x \in Vcs \ {w} : p \notin packet[x]
               /\ put[p] > 0 /\ up'.vc_occupancy[w] = 0 /\ Policy # "private" => up'.reserved[w] = 1
    <3>1. /\ packet[w] = {p} /\ put[p] < Size[p]
          /\ up.in_use[w] /\ ~up.tail_sent[w]
          /\ \A x \in Vcs \ {w} : p \notin packet[x]
          /\ put[p] > 0 /\ up.vc_occupancy[w] = 0 /\ Policy # "private" => up.reserved[w] = 1
      BY DEF Holding
    <3>2. up'.in_use[w]
      BY <1>7, <1>8, <3>1
    <3>3. put[p] > 0 /\ up'.vc_occupancy[w] = 0 /\ Policy # "private" => up'.reserved[w] = 1
      <4>1. CASE w # v
        BY <1>7, <3>1, <4>1
      <4>2. CASE w = v
        <5>1. up'.vc_occupancy[v] = 0 => n = 1
          BY <1>4, <1>7, <1>2
        <5> QED
          BY <1>11, <3>2, <4>2, <5>1
      <4> QED
        BY <4>1, <4>2
    <3> QED
      BY <1>6, <3>1, <3>2, <3>3
  <2>2. ASSUME NEW w \in Vcs
        PROVE  /\ ~WaitForTail => (up'.in_use[w] <=> packet[w] # {})
               /\ WaitForTail /\ ~up'.in_use[w] => up'.vc_occupancy[w] = 0
               /\ up'.reserved[w] = 1 => /\ up'.in_use[w] /\ up'.vc_occupancy[w] = 0
                                        /\ Policy # "private"
    <3>1. /\ ~WaitForTail => (up.in_use[w] <=> packet[w] # {})
          /\ WaitForTail /\ ~up.in_use[w] => up.vc_occupancy[w] = 0
          /\ up.reserved[w] = 1 => up.in_use[w] /\ up.vc_occupancy[w] = 0 /\ Policy # "private"
      BY DEF Holding
    <3>2. CASE w # v
      BY <1>7, <3>1, <3>2
    <3>3. CASE w = v
      <4>1. ~WaitForTail => (up'.in_use[v] <=> packet[v] # {})
        BY <1>8, <3>1, <3>3
      <4>2. WaitForTail => up.in_use[v]
        BY <1>4, <3>1, <3>3 DEF n
      <4>3. n = 1 => up'.vc_occupancy[v] = 0
        BY <1>7
      <4>4. WaitForTail /\ ~up'.in_use[v] => up'.vc_occupancy[v] = 0
        BY <1>8, <4>2, <4>3
      <4>5. up'.reserved[v] = 1 => /\ up'.in_use[v] /\ up'.vc_occupancy[v] = 0
                                   /\ Policy # "private"
        BY <1>11, <4>3
      <4> QED
        BY <3>3, <4>1, <4>4, <4>5
    <3> QED
      BY <3>2, <3>3
  <2> QED
    BY <1>1, <2>1, <2>2 DEF Holding
<1>15. CreditsConserved'
  <2>1. \A w \in Vcs : OnTheWay(w)' = OnTheWay(w)
    BY <1>1 DEF OnTheWay
  <2>2. SUFFICES ASSUME NEW w \in Vcs
                 PROVE  /\ up'.vc_occupancy[w] = OnTheWay(w) + back'[w]
                        /\ WaitForTail /\ ~up'.in_use[w] => back'[w] = 0
    BY <2>1 DEF CreditsConserved
  <2>3. CASE w # v
    BY <1>3, <1>7, <2>3 DEF CreditsConserved
  <2>4. CASE w = v
    <3>1. back'[v] = back[v] - 1 /\ back'[v] \in Nat
      BY <1>1, <1>2
    <3>2. n = OnTheWay(v) + back[v] /\ OnTheWay(v) \in Nat
      BY <1>3 DEF n
    <3>3. up'.vc_occupancy[v] = OnTheWay(v) + back'[v]
      BY <1>2, <1>7, <3>1, <3>2
    <3>4. WaitForTail /\ ~up'.in_use[v] => up'.vc_occupancy[v] = 0
      BY <1>14 DEF Holding
    <3>5. up'.vc_occupancy[v] = 0 => back'[v] = 0
      <4> DEFINE d == OnTheWay(v)
                 k == back'[v]
      <4>1. k \in Nat /\ d \in Nat /\ up'.vc_occupancy[v] = d + k
        BY <3>1, <3>2, <3>3
      <4> HIDE DEF d, k
      <4>2. d + k = 0 => k = 0
        BY <4>1
      <4> QED
        BY <4>1, <4>2 DEF k
    <3>6. WaitForTail /\ ~up'.in_use[v] => back'[v] = 0
      BY <3>4, <3>5
    <3> QED
      BY <2>4, <3>3, <3>6
  <2> QED
    BY <2>3, <2>4
<1>16. PolicyHasRoom'
  <2>1. ASSUME Policy = "private", NEW w \in Vcs
        PROVE  up'.vc_occupancy[w] <= VcBufSize
    <3>1. up'.vc_occupancy[w] <= up.vc_occupancy[w] /\ up.vc_occupancy[w] <= VcBufSize
          /\ up'.vc_occupancy[w] \in Nat /\ up.vc_occupancy[w] \in Nat /\ VcBufSize \in Nat
      BY <1>2, <1>7, <2>1, VcBufSizeType DEF PolicyHasRoom, n
    <3> QED
      BY <3>1
  <2> QED
    BY <1>6, <2>1 DEF PolicyHasRoom
<1>17. Trains' /\ ActiveCounted'
  BY <1>1, <1>6 DEF Trains, ActiveCounted
<1> QED
  BY <1>12, <1>13, <1>14, <1>15, <1>16, <1>17

(* Sending a flit keeps the invariant.                                      *)
LEMMA SendInv ==
  ASSUME LinkInv, NEW v \in Vcs, NEW p \in Packets, Send(v, p)
  PROVE  LinkInv'
<1> USE DEF LinkInv
<1> DEFINE k == put[p] + 1
           n == up.vc_occupancy[v]
           tail == k = Size[p]
<1>1. /\ p \in packet[v] /\ ~IsFullFor(up, v) /\ up' = SendingFlit(up, v, tail)
      /\ put' = [put EXCEPT ![p] = k] /\ flying' = [flying EXCEPT ![v] = Append(@, <<p, k>>)]
      /\ packet' = [packet EXCEPT ![v] = IF tail THEN {} ELSE @]
      /\ buf' = buf /\ expected' = expected /\ back' = back
  BY DEF Send
<1>2. /\ StateTypes(up) /\ put \in [Packets -> Nat] /\ packet \in [Vcs -> SUBSET Packets]
      /\ up.vc_occupancy \in [Vcs -> Nat] /\ up.in_use \in [Vcs -> BOOLEAN]
      /\ up.tail_sent \in [Vcs -> BOOLEAN] /\ up.reserved \in [Vcs -> {0, 1}]
      /\ up.timed \in [Vcs -> Nat] /\ up.ahead \in [Vcs -> Nat] /\ up.active \in Int
  BY DEF TypeOK, StateTypes
<1>3. /\ packet[v] = {p} /\ put[p] < Size[p] /\ up.in_use[v] /\ ~up.tail_sent[v]
      /\ \A w \in Vcs \ {v} : p \notin packet[w]
  BY <1>1 DEF Holding
<1>4. k \in Nat \ {0} /\ tail \in BOOLEAN /\ k <= Size[p] /\ Size[p] \in Nat /\ n \in Nat
  BY <1>2, <1>3, PacketAssumption
<1>5. /\ Policy # "private" => up.shared <= SharedSize
      /\ Policy = "private" => up.reserved[v] = 0
  BY <1>2 DEF PolicyHasRoom, Holding
<1> HIDE DEF n, k, tail
<1>6. AfterSending(up, v, tail, up')
  BY <1>1, <1>2, <1>4, <1>5, SendingFields
<1>7. \A w \in Vcs : w # v => /\ packet'[w] = packet[w] /\ flying'[w] = flying[w]
                            /\ \A q \in packet[w] : put'[q] = put[q]
  BY <1>1, <1>2, <1>3 DEF TypeOK
<1>8. /\ packet'[v] = IF tail THEN {} ELSE {p}
      /\ put'[p] = k /\ flying'[v] = Append(flying[v], <<p, k>>)
  BY <1>1, <1>2, <1>3 DEF TypeOK
<1>9. /\ up'.vc_occupancy = [up.vc_occupancy EXCEPT ![v] = n + 1]
      /\ up'.reserved = [up.reserved EXCEPT ![v] = 0]
  BY <1>6 DEF AfterSending, n
<1>10. /\ up'.in_use = IF tail /\ ~WaitForTail THEN [up.in_use EXCEPT ![v] = FALSE] ELSE up.in_use
       /\ up'.tail_sent = IF tail THEN [up.tail_sent EXCEPT ![v] = TRUE] ELSE up.tail_sent
  BY <1>6 DEF AfterSending
<1>11. /\ \A w \in Vcs : w # v => /\ up'.vc_occupancy[w] = up.vc_occupancy[w]
                                 /\ up'.reserved[w] = up.reserved[w]
                                 /\ up'.in_use[w] = up.in_use[w]
                                 /\ up'.tail_sent[w] = up.tail_sent[w]
       /\ up'.vc_occupancy[v] = n + 1 /\ up'.reserved[v] = 0
       /\ up'.in_use[v] <=> ~(tail /\ ~WaitForTail)
       /\ up'.tail_sent[v] <=> tail
  <2>1. \A w \in Vcs : w # v => up'.vc_occupancy[w] = up.vc_occupancy[w]
                              /\ up'.reserved[w] = up.reserved[w]
    BY <1>2, <1>9
  <2>2. \A w \in Vcs : w # v => up'.in_use[w] = up.in_use[w] /\ up'.tail_sent[w] = up.tail_sent[w]
    BY <1>2, <1>10
  <2>3. up'.vc_occupancy[v] = n + 1 /\ up'.reserved[v] = 0
    BY <1>2, <1>9
  <2>4. (up'.in_use[v] <=> ~(tail /\ ~WaitForTail)) /\ (up'.tail_sent[v] <=> tail)
    BY <1>2, <1>3, <1>10
  <2> QED
    BY <2>1, <2>2, <2>3, <2>4
<1>12. /\ up'.vc_occupancy \in [Vcs -> Nat] /\ up'.reserved \in [Vcs -> {0, 1}]
       /\ up'.in_use \in [Vcs -> BOOLEAN] /\ up'.tail_sent \in [Vcs -> BOOLEAN]
  <2>1. up'.vc_occupancy \in [Vcs -> Nat] /\ up'.reserved \in [Vcs -> {0, 1}]
    BY <1>2, <1>4, <1>9
  <2>2. up'.in_use \in [Vcs -> BOOLEAN]
    BY <1>2, <1>10
  <2>3. up'.tail_sent \in [Vcs -> BOOLEAN]
    BY <1>2, <1>10
  <2> QED
    BY <2>1, <2>2, <2>3
<1>13. TimedComesBack' /\ up'.timed \in [Vcs -> Nat] /\ up'.ahead \in [Vcs -> Nat]
  <2>1. /\ up'.timed = IF Policy = "feedback" THEN [up.timed EXCEPT ![v] = @ + 1]
                       ELSE IF Policy = "simplefeedback" /\ up.timed[v] = 0
                            THEN [up.timed EXCEPT ![v] = 1] ELSE up.timed
        /\ up'.ahead = IF Policy = "simplefeedback" /\ up.timed[v] = 0
                       THEN [up.ahead EXCEPT ![v] = n] ELSE up.ahead
    BY <1>6 DEF AfterSending, n
  <2>2. CASE Policy = "feedback"
    <3>1. up.timed[v] = n
      BY <2>2 DEF TimedComesBack, n
    <3>2. up'.timed = [up.timed EXCEPT ![v] = n + 1] /\ up'.ahead = up.ahead
      BY <2>1, <2>2, <3>1
    <3> QED
      BY <1>2, <1>4, <1>11, <2>2, <3>2 DEF TimedComesBack
  <2>3. CASE Policy = "simplefeedback"
    <3>1. IF up.timed[v] = 0 THEN up.ahead[v] = 0 ELSE up.timed[v] = 1 /\ up.ahead[v] < n
      BY <2>3 DEF TimedComesBack, n
    <3>2. /\ up'.timed = IF up.timed[v] = 0 THEN [up.timed EXCEPT ![v] = 1] ELSE up.timed
          /\ up'.ahead = IF up.timed[v] = 0 THEN [up.ahead EXCEPT ![v] = n] ELSE up.ahead
      BY <2>1, <2>3
    <3>3. up'.timed \in [Vcs -> Nat] /\ up'.ahead \in [Vcs -> Nat]
      BY <1>2, <1>4, <3>2
    <3>4. \A w \in Vcs : w # v => up'.timed[w] = up.timed[w] /\ up'.ahead[w] = up.ahead[w]
      BY <1>2, <3>2
    <3>5. up'.timed[v] = 1 /\ up'.ahead[v] < n + 1
      BY <1>2, <1>4, <3>1, <3>2
    <3> QED
      BY <1>11, <2>3, <3>3, <3>4, <3>5 DEF TimedComesBack
  <2>4. CASE Policy \notin {"feedback", "simplefeedback"}
    BY <1>2, <2>1, <2>4 DEF TimedComesBack
  <2> QED
    BY <2>2, <2>3, <2>4
<1>14. TypeOK'
  <2>1. StateTypes(up')
    <3>1. /\ DOMAIN up' = Fields /\ up'.occupancy \in Int
          /\ up'.group \in [Groups -> Int] /\ up'.shared \in Int /\ up'.active \in Int
      BY <1>2, <1>6 DEF AfterSending
    <3> QED
      BY <1>12, <1>13, <3>1, StateFields DEF StateTypes
  <2>2. put' \in [Packets -> Nat] /\ packet' \in [Vcs -> SUBSET Packets]
    BY <1>1, <1>2, <1>4
  <2>3. flying' \in [Vcs -> Seq(Packets \X Nat)]
    <3>1. Append(flying[v], <<p, k>>) \in Seq(Packets \X Nat)
      BY <1>4, QueueLengths, AppendProperties
    <3> QED
      BY <1>1, <3>1 DEF TypeOK
  <2> QED
    BY <1>1, <2>1, <2>2, <2>3 DEF TypeOK
<1>15. Holding'
  <2>1. ASSUME NEW w \in Vcs, NEW q \in packet'[w]
        PROVE  /\ packet'[w] = {q} /\ put'[q] < Size[q]
               /\ up'.in_use[w] /\ ~up'.tail_sent[w]
               /\ \A x \in Vcs \ {w} : q \notin packet'[x]
               /\ put'[q] > 0 /\ up'.vc_occupancy[w] = 0 /\ Policy # "private" => up'.reserved[w] = 1
    <3>1. CASE w # v
      <4>1. /\ packet[w] = {q} /\ put[q] < Size[q] /\ up.in_use[w] /\ ~up.tail_sent[w]
            /\ \A x \in Vcs \ {w} : q \notin packet[x]
            /\ put[q] > 0 /\ up.vc_occupancy[w] = 0 /\ Policy # "private" => up.reserved[w] = 1
        BY <1>7, <2>1, <3>1 DEF Holding
      <4>2. put'[q] = put[q] /\ q # p
        BY <1>3, <1>7, <3>1, <4>1
      <4>3. \A x \in Vcs \ {w} : q \notin packet'[x]
        BY <1>7, <1>8, <4>1, <4>2
      <4> QED
        BY <1>7, <1>11, <3>1, <4>1, <4>2, <4>3
    <3>2. CASE w = v
      <4>1. ~tail /\ q = p /\ packet'[v] = {p}
        BY <1>8, <2>1, <3>2
      <4>2. k < Size[p]
        BY <1>4, <4>1 DEF tail
      <4>3. \A x \in Vcs \ {v} : p \notin packet'[x]
        BY <1>3, <1>7
      <4>4. n + 1 # 0
        BY <1>4
      <4> QED
        BY <1>8, <1>11, <3>2, <4>1, <4>2, <4>3, <4>4
    <3> QED
      BY <3>1, <3>2
  <2>2. ASSUME NEW w \in Vcs
        PROVE  /\ ~WaitForTail => (up'.in_use[w] <=> packet'[w] # {})
               /\ WaitForTail /\ ~up'.in_use[w] => up'.vc_occupancy[w] = 0
               /\ up'.reserved[w] = 1 => /\ up'.in_use[w] /\ up'.vc_occupancy[w] = 0
                                        /\ Policy # "private"
    <3>1. CASE w # v
      BY <1>7, <1>11, <3>1 DEF Holding
    <3>2. CASE w = v
      <4>1. packet'[v] # {} <=> ~tail
        BY <1>8
      <4>2. ~WaitForTail => (up'.in_use[v] <=> packet'[v] # {})
        BY <1>11, <4>1
      <4>3. WaitForTail => up'.in_use[v]
        BY <1>11
      <4>4. up'.reserved[v] # 1
        BY <1>11
      <4> QED
        BY <3>2, <4>2, <4>3, <4>4
    <3> QED
      BY <3>1, <3>2
  <2> QED
    BY <2>1, <2>2 DEF Holding
<1>16. CreditsConserved'
  <2>1. \A x \in Vcs : /\ up.vc_occupancy[x] = Len(flying[x]) + Len(buf[x]) + back[x]
                       /\ Len(flying[x]) \in Nat /\ Len(buf[x]) \in Nat /\ back[x] \in Nat
    BY QueueLengths DEF CreditsConserved, OnTheWay, TypeOK
  <2>2. SUFFICES ASSUME NEW w \in Vcs
                 PROVE  /\ up'.vc_occupancy[w] = Len(flying'[w]) + Len(buf[w]) + back[w]
                        /\ WaitForTail /\ ~up'.in_use[w] => back[w] = 0
    BY <1>1 DEF CreditsConserved, OnTheWay
  <2>3. CASE w # v
    BY <1>7, <1>11, <2>1, <2>3 DEF CreditsConserved
  <2>4. CASE w = v
    <3> DEFINE F == Len(flying[v])
               B == Len(buf[v])
               C == Len(flying'[v])
    <3>1. F \in Nat /\ B \in Nat /\ C = F + 1 /\ back[v] \in Nat /\ n = F + B + back[v]
      <4>1. C = F + 1
        BY <1>4, <1>8, QueueLengths, AppendProperties
      <4>2. F \in Nat /\ B \in Nat /\ back[v] \in Nat /\ n = F + B + back[v]
        BY <2>1 DEF n
      <4> QED
        BY <4>1, <4>2
    <3> HIDE DEF F, B, C
    <3>2. up'.vc_occupancy[v] = C + B + back[v]
      BY <1>11, <3>1
    <3> QED
      BY <1>11, <2>4, <3>2 DEF B, C
  <2> QED
    BY <2>3, <2>4
<1>17. Trains'
  <2>1. SUFFICES ASSUME NEW w \in Vcs
                 PROVE  /\ \A i \in 1 .. Len(flying'[w]) :
                             Open(expected[w], flying'[w], i - 1) \in {{}, {flying'[w][i][1]}}
                        /\ Open(expected[w], flying'[w], Len(flying'[w]))
                             = {q \in packet'[w] : put'[q] > 0}
    BY <1>1 DEF Trains
  <2>2. CASE w # v
    <3>1. {q \in packet'[w] : put'[q] > 0} = {q \in packet[w] : put[q] > 0}
      BY <1>7, <2>2
    <3> QED
      BY <1>7, <2>2, <3>1 DEF Trains
  <2>3. CASE w = v
    <3> DEFINE f == <<p, k>>
               m == Len(flying[v])
    <3>1. /\ m \in Nat /\ Len(flying'[v]) = m + 1 /\ flying'[v][m + 1] = f
          /\ \A i \in 1 .. m : flying'[v][i] = flying[v][i]
      BY <1>4, <1>8, QueueLengths, AppendProperties
    <3>2. /\ \A i \in 1 .. m : Open(expected[v], flying[v], i - 1) \in {{}, {flying[v][i][1]}}
          /\ Open(expected[v], flying[v], m) = {q \in packet[v] : put[q] > 0}
      BY DEF Trains
    <3>3. f[1] = p /\ (IsTail(f) <=> tail)
      BY DEF IsTail, tail
    <3> HIDE DEF f, m
    <3>4. ASSUME NEW i \in 0 .. m
          PROVE  Open(expected[v], flying'[v], i) = Open(expected[v], flying[v], i)
      <4>1. CASE i = 0
        BY <4>1 DEF Open
      <4>2. CASE i # 0
        <5>1. i \in 1 .. m
          BY <3>1, <4>2
        <5> QED
          BY <3>1, <4>2, <5>1 DEF Open
      <4> QED
        BY <4>1, <4>2
    <3>5. ASSUME NEW i \in 1 .. m + 1
          PROVE  Open(expected[v], flying'[v], i - 1) \in {{}, {flying'[v][i][1]}}
      <4>1. CASE i = m + 1
        <5>1. i - 1 = m /\ m \in 0 .. m
          BY <3>1, <4>1
        <5>2. Open(expected[v], flying'[v], m) = {q \in packet[v] : put[q] > 0}
          BY <3>2, <3>4, <5>1
        <5>3. {q \in packet[v] : put[q] > 0} \in {{}, {p}}
          BY <1>3
        <5> QED
          BY <3>1, <3>3, <4>1, <5>1, <5>2, <5>3
      <4>2. CASE i # m + 1
        <5>1. i \in 1 .. m /\ i - 1 \in 0 .. m
          BY <3>1, <4>2
        <5> QED
          BY <3>1, <3>2, <3>4, <5>1
      <4> QED
        BY <4>1, <4>2
    <3>6. Open(expected[v], flying'[v], m + 1) = IF tail THEN {} ELSE {p}
      <4>1. m + 1 # 0
        BY <3>1
      <4> QED
        BY <3>1, <3>3, <4>1 DEF Open
    <3>7. {q \in packet'[v] : put'[q] > 0} = IF tail THEN {} ELSE {p}
      BY <1>4, <1>8
    <3> QED
      BY <2>3, <3>1, <3>5, <3>6, <3>7
  <2> QED
    BY <2>2, <2>3
<1>18. PolicyHasRoom'
  <2>1. ASSUME Policy = "private", NEW w \in Vcs
        PROVE  up'.vc_occupancy[w] <= VcBufSize
    <3>1. VcBufSize \in Nat
      BY VcBufSizeType
    <3>2. n < VcBufSize
      BY <1>1, <1>4, <2>1, <3>1 DEF IsFullFor, n
    <3>3. CASE w = v
      BY <1>4, <1>11, <3>1, <3>2, <3>3
    <3>4. CASE w # v
      BY <1>11, <2>1, <3>4 DEF PolicyHasRoom
    <3> QED
      BY <3>3, <3>4
  <2>2. Policy # "private" => up'.shared <= SharedSize
    BY <1>6 DEF AfterSending
  <2> QED
    BY <2>1, <2>2 DEF PolicyHasRoom
<1>19. ActiveCounted'
  <2> DEFINE A == {w \in Vcs : packet[w] # {}}
             Z == {w \in Vcs : packet'[w] # {}}
  <2>1. up'.active = IF Policy \in Limiting /\ tail THEN up.active - 1 ELSE up.active
    BY <1>6 DEF AfterSending
  <2>2. CASE tail
    <3>1. Z = A \ {v} /\ v \in A
      BY <1>3, <1>7, <1>8, <2>2
    <3>2. IsFiniteSet(A)
      BY FlowAssumption, FS_Subset
    <3>3. Cardinality(A \ {v}) = Cardinality(A) - 1
      BY <3>1, <3>2, FS_RemoveElement
    <3> QED
      BY <2>1, <2>2, <3>1, <3>3 DEF ActiveCounted
  <2>3. CASE ~tail
    <3>1. Z = A
      BY <1>3, <1>7, <1>8, <2>3
    <3> QED
      BY <2>1, <2>3, <3>1 DEF ActiveCounted
  <2> QED
    BY <2>2, <2>3
<1> QED
  BY <1>13, <1>14, <1>15, <1>16, <1>17, <1>18, <1>19

-----------------------------------------------------------------------------
(* Every step keeps the invariant.                                          *)
LEMMA NextInv == LinkInv /\ [Next]_vars => LinkInv'
<1> SUFFICES ASSUME LinkInv, [Next]_vars
             PROVE  LinkInv'
  OBVIOUS
<1>1. CASE UNCHANGED vars
  <2>1. /\ up' = up /\ packet' = packet /\ put' = put /\ flying' = flying
        /\ buf' = buf /\ expected' = expected /\ back' = back
    BY <1>1 DEF vars
  <2>2. TypeOK' /\ Holding' /\ PolicyHasRoom'
    BY <2>1 DEF LinkInv, TypeOK, Holding, PolicyHasRoom
  <2>3. Trains'
    BY <2>1 DEF LinkInv, Trains
  <2>4. CreditsConserved'
    BY <2>1 DEF LinkInv, CreditsConserved, OnTheWay
  <2>5. TimedComesBack' /\ ActiveCounted'
    BY <2>1 DEF LinkInv, TimedComesBack, ActiveCounted
  <2> QED
    BY <2>2, <2>3, <2>4, <2>5 DEF LinkInv
<1>2. ASSUME NEW v \in Vcs, NEW p \in Packets, Take(v, p) \/ Send(v, p)
      PROVE  LinkInv'
  BY <1>2, TakeInv, SendInv
<1>3. ASSUME NEW v \in Vcs, Arrive(v) \/ Forward(v) \/ ReceiveCredit(v)
      PROVE  LinkInv'
  BY <1>3, ArriveInv, ForwardInv, ReceiveCreditInv
<1> QED
  BY <1>1, <1>2, <1>3 DEF Next

(* The inductive invariant holds in every reachable state.                  *)
THEOREM LinkInvariance == Spec => []LinkInv
<1>1. Init => LinkInv
  BY InitInv
<1>2. LinkInv /\ [Next]_vars => LinkInv'
  BY NextInv
<1> QED
  BY <1>1, <1>2, PTL DEF Spec

(* The BufferState, the channels and the input buffer stay well formed       *)
(* (buffer_state.cpp, vc.cpp).                                             *)
THEOREM LinkTypeCorrect == Spec => []TypeOK
<1>1. LinkInv => TypeOK
  BY DEF LinkInv
<1> QED
  BY <1>1, LinkInvariance, PTL

(* Credits are never lost, made up or sent to an idle VC (ProcessCredit,     *)
(* buffer_state.cpp:608).                                                  *)
THEOREM CreditsNeverLost == Spec => []CreditsConserved
<1>1. LinkInv => CreditsConserved
  BY DEF LinkInv
<1> QED
  BY <1>1, LinkInvariance, PTL

(* No policy lets out more than it has (the Errors of SendingFlit,           *)
(* buffer_state.cpp:116 and 227).                                          *)
THEOREM PolicyKeepsRoom == Spec => []PolicyHasRoom
<1>1. LinkInv => PolicyHasRoom
  BY DEF LinkInv
<1> QED
  BY <1>1, LinkInvariance, PTL

(* Together: every flit has its place and its credit (buffer_state.cpp:608,   *)
(* 116).                                                                   *)
THEOREM CreditsStaySafe == Spec => []CreditsSafe
<1>1. CreditsConserved /\ PolicyHasRoom => CreditsSafe
  BY DEF CreditsSafe
<1> QED
  BY <1>1, CreditsNeverLost, PolicyKeepsRoom, PTL

(* The probe of the feedback policies is always found (the assert of          *)
(* buffer_state.cpp:445).                                                  *)
THEOREM ProbeComesBack == Spec => []TimedComesBack
<1>1. LinkInv => TimedComesBack
  BY DEF LinkInv
<1> QED
  BY <1>1, LinkInvariance, PTL

(* _active_vcs is the number of VCs with a packet, so never above _vcs or     *)
(* below zero (the Errors of buffer_state.cpp:293 and 303).                 *)
THEOREM ActiveNeverDrifts == Spec => []ActiveCounted
<1>1. LinkInv => ActiveCounted
  BY DEF LinkInv
<1> QED
  BY <1>1, LinkInvariance, PTL

(* What arrives is of the packet its VC expects (VC::AddFlit, vc.cpp:104).    *)
THEOREM PacketsNeverMix == Spec => []NoMixing
<1>1. LinkInv => NoMixing
  <2> SUFFICES ASSUME LinkInv, NEW v \in Vcs, flying[v] # << >>, expected[v] # {}
               PROVE  Head(flying[v])[1] \in expected[v]
    BY DEF NoMixing
  <2>1. Len(flying[v]) \in Nat \ {0} /\ Head(flying[v]) = flying[v][1]
    BY QueueLengths, EmptySeq, HeadTailProperties DEF LinkInv
  <2>2. 1 \in 1 .. Len(flying[v]) /\ 1 - 1 = 0
    BY <2>1
  <2>3. Open(expected[v], flying[v], 0) \in {{}, {flying[v][1][1]}}
    BY <2>2 DEF LinkInv, Trains
  <2> QED
    BY <2>1, <2>3 DEF Open
<1> QED
  BY <1>1, LinkInvariance, PTL

(* While a VC may hold anything at all, a packet that has begun and has      *)
(* nothing on the way can go on, under every policy (SharedBufferPolicy::   *)
(* FreeSlotFor, buffer_state.cpp:250).                                     *)
THEOREM ReservedSlotServes == Spec => [](SomethingHeld => BegunGoesOn)
<1>1. LinkInv => (SomethingHeld => BegunGoesOn)
  <2> SUFFICES ASSUME LinkInv, SomethingHeld, NEW v \in Vcs, NEW p \in Packets,
                      p \in packet[v], put[p] > 0, up.vc_occupancy[v] = 0
               PROVE  ~IsFullFor(up, v)
    BY DEF BegunGoesOn
  <2>1. CASE Policy = "private"
    BY <2>1, VcBufSizeType DEF IsFullFor
  <2>2. CASE Policy # "private"
    <3>1. up.reserved[v] = 1
      BY <2>2 DEF LinkInv, Holding
    <3>2. ~(0 >= up.held)
      BY DEF SomethingHeld
    <3> QED
      BY <2>2, <3>1, <3>2 DEF IsFullFor
  <2> QED
    BY <2>1, <2>2
<1> QED
  BY <1>1, LinkInvariance, PTL

-----------------------------------------------------------------------------
(* What a state of the sender must add up to: the groups to what their VCs    *)
(* keep, the common part to what the groups have beyond their own.          *)
SlotsIn(b) ==
  /\ \A g \in Groups : b.group[g] = SumFunctionOnSet(Kept(b), Members(g))
  /\ b.shared = SumFunctionOnSet(Beyond(b), Groups)

(* The members of a group are finitely many.                                *)
LEMMA MembersFinite ==
  ASSUME NEW g
  PROVE  IsFiniteSet(Members(g)) /\ Members(g) \subseteq Vcs
<1>1. Members(g) \in SUBSET Vcs
  BY DEF Members
<1> QED
  BY <1>1, FlowAssumption, FS_Subset

(* What the VCs keep and what the groups have beyond their own are integers.  *)
LEMMA KeptTypes ==
  ASSUME NEW b, StateTypes(b)
  PROVE  /\ \A w \in Vcs : Kept(b)[w] = b.vc_occupancy[w] + b.reserved[w] /\ Kept(b)[w] \in Nat
         /\ \A g \in Groups : Beyond(b)[g] = Over(b.group[g], g) /\ Beyond(b)[g] \in Nat
<1>1. /\ b.vc_occupancy \in [Vcs -> Nat] /\ b.reserved \in [Vcs -> {0, 1}]
      /\ b.group \in [Groups -> Int] /\ GroupSize \in [Groups -> Nat]
  BY FlowAssumption DEF StateTypes
<1>2. \A w \in Vcs : Kept(b)[w] = b.vc_occupancy[w] + b.reserved[w] /\ Kept(b)[w] \in Nat
  BY <1>1 DEF Kept
<1>3. \A g \in Groups : Beyond(b)[g] = Over(b.group[g], g) /\ Beyond(b)[g] \in Nat
  BY <1>1 DEF Beyond, Over, Larger
<1> QED
  BY <1>2, <1>3

(* Slots that a VC takes or gives back keep the sums.                        *)
LEMMA SlotsMoved ==
  ASSUME NEW b, StateTypes(b), SlotsIn(b), NEW s, StateTypes(s), NEW v \in Vcs, NEW d \in Int,
         Moved(b, s, v, d), Kept(s)[v] = Kept(b)[v] + d,
         \A w \in Vcs \ {v} : Kept(s)[w] = Kept(b)[w]
  PROVE  SlotsIn(s)
<1> DEFINE h == GroupOf[v]
<1>1. h \in Groups /\ b.group \in [Groups -> Int] /\ IsFiniteSet(Groups) /\ b.shared \in Int
  BY FlowAssumption DEF StateTypes
<1>2. /\ s.group[h] = b.group[h] + d
      /\ \A g \in Groups \ {h} : s.group[g] = b.group[g]
  BY <1>1 DEF Moved
<1>3. ASSUME NEW g \in Groups
      PROVE  s.group[g] = SumFunctionOnSet(Kept(s), Members(g))
  <2>1. IsFiniteSet(Members(g)) /\ Members(g) \subseteq Vcs
    BY MembersFinite
  <2>2. CASE g = h
    <3>1. v \in Members(g)
      BY <2>2 DEF Members
    <3>2. \A x \in Members(g) : Kept(b)[x] \in Int
      BY <2>1, KeptTypes
    <3>3. Kept(s)[v] \in Int /\ Kept(b)[v] \in Int
      BY KeptTypes
    <3>4. \A x \in Members(g) \ {v} : Kept(s)[x] = Kept(b)[x]
      BY <2>1
    <3>5. SumFunctionOnSet(Kept(s), Members(g))
            = SumFunctionOnSet(Kept(b), Members(g)) + Kept(s)[v] - Kept(b)[v]
      <4> DEFINE after == Kept(s)
                 before == Kept(b)
                 S == Members(g)
      <4>1. /\ IsFiniteSet(S) /\ v \in S /\ \A x \in S : before[x] \in Int
            /\ after[v] \in Int /\ \A x \in S \ {v} : after[x] = before[x]
        BY <2>1, <3>1, <3>2, <3>3, <3>4
      <4> HIDE DEF after, before, S
      <4>2. SumFunctionOnSet(after, S) = SumFunctionOnSet(before, S) + after[v] - before[v]
        BY <4>1, SumChange
      <4> QED
        BY <4>2 DEF after, before, S
    <3>6. SumFunctionOnSet(Kept(b), Members(g)) = b.group[g] /\ b.group[g] \in Int
      BY <1>1 DEF SlotsIn
    <3> HIDE DEF h
    <3> QED
      BY <1>2, <2>2, <3>3, <3>5, <3>6
  <2>3. CASE g # h
    <3>1. \A x \in Members(g) : Kept(s)[x] = Kept(b)[x]
      BY <2>1, <2>3 DEF Members
    <3>2. SumFunctionOnSet(Kept(s), Members(g)) = SumFunctionOnSet(Kept(b), Members(g))
      BY <2>1, <3>1, SumSame
    <3> HIDE DEF h
    <3> QED
      BY <1>2, <2>3, <3>2 DEF SlotsIn
  <2> QED
    BY <2>2, <2>3
<1>4. s.shared = SumFunctionOnSet(Beyond(s), Groups)
  <2>1. \A g \in Groups : Beyond(b)[g] \in Int /\ Beyond(s)[g] \in Int
    BY KeptTypes
  <2>2. \A g \in Groups \ {h} : Beyond(s)[g] = Beyond(b)[g]
    BY <1>2, KeptTypes
  <2>3. SumFunctionOnSet(Beyond(s), Groups)
          = SumFunctionOnSet(Beyond(b), Groups) + Beyond(s)[h] - Beyond(b)[h]
    <3> HIDE DEF h
    <3> QED
      BY <1>1, <2>1, <2>2, SumChange
  <2>4. Beyond(s)[h] = Over(b.group[h] + d, h) /\ Beyond(b)[h] = Over(b.group[h], h)
    BY <1>1, <1>2, KeptTypes
  <2>5. s.shared = b.shared + Over(b.group[h] + d, h) - Over(b.group[h], h)
    BY DEF Moved
  <2>6. b.shared = SumFunctionOnSet(Beyond(b), Groups)
    BY DEF SlotsIn
  <2> QED
    BY <2>3, <2>4, <2>5, <2>6
<1> QED
  BY <1>3, <1>4 DEF SlotsIn

(* The same record of slots, held in another state, adds up as well.         *)
LEMMA SlotsKept ==
  ASSUME NEW b, SlotsIn(b), NEW s, s.vc_occupancy = b.vc_occupancy, s.reserved = b.reserved,
         s.group = b.group, s.shared = b.shared
  PROVE  SlotsIn(s)
<1>1. Kept(s) = Kept(b) /\ Beyond(s) = Beyond(b)
  BY DEF Kept, Beyond
<1> QED
  BY <1>1 DEF SlotsIn

(* However many VCs are active, each may hold a slot (_max_held_slots).      *)
LEMMA HeldByType ==
  ASSUME NEW b, b.held \in Nat \ {0}, NEW a \in 1 .. Cardinality(Vcs)
  PROVE  HeldBy(b, a) \in Nat \ {0}
<1>1. Cardinality(Vcs) \in Nat
  BY FlowAssumption, FS_CardinalityType
<1>2. BufSize \in Int
  BY <1>1, FlowAssumption DEF BufSize
<1>3. \A m, n \in Nat \ {0} : n <= m => m \div n \in Nat \ {0}
  <2> TAKE m, n \in Nat \ {0}
  <2> SUFFICES ASSUME n <= m PROVE m \div n \in Nat \ {0}
    OBVIOUS
  <2> DEFINE q == m \div n
  <2>1. q \in Int /\ m < n * (q + 1)
    OBVIOUS
  <2> HIDE DEF q
  <2>2. q <= 0 => n * (q + 1) <= n
    BY <2>1
  <2> QED
    BY <2>1, <2>2 DEF q
<1>4. CASE Policy = "dynamic"
  <2>1. a \in Nat \ {0} /\ BufSize \in Nat \ {0} /\ a <= BufSize
    BY <1>1, <1>2, <1>4, RoomAssumption
  <2> QED
    BY <1>3, <1>4, <2>1 DEF HeldBy
<1>5. CASE Policy = "shifting"
  <2> DEFINE n == 2^Bits(a - 1)
  <2>1. n \in 1 .. BufSize
    BY <1>5, RoomAssumption
  <2> HIDE DEF n
  <2>2. n \in Nat \ {0} /\ BufSize \in Nat \ {0} /\ n <= BufSize
    BY <1>2, <2>1
  <2>3. BufSize \div n \in Nat \ {0}
    BY <1>3, <2>2
  <2> QED
    BY <1>5, <2>3 DEF HeldBy, n
<1>6. CASE Policy # "dynamic" /\ Policy # "shifting"
  BY <1>6 DEF HeldBy
<1> QED
  BY <1>4, <1>5, <1>6

(* What the counters add up to, with what they need of LinkInv, is inductive. *)
Counted   == up.occupancy = SumFunctionOnSet(up.vc_occupancy, Vcs)
SharesInv == LinkInv /\ SlotsAddUp /\ Counted /\ SomethingHeld

(* Never more VCs are active than there are.                                *)
LEMMA ActiveBound ==
  ASSUME ActiveCounted, Policy \in Limiting
  PROVE  up.active \in 0 .. Cardinality(Vcs)
<1> DEFINE A == {v \in Vcs : packet[v] # {}}
<1>1. A \in SUBSET Vcs /\ up.active = Cardinality(A)
  BY DEF ActiveCounted
<1> HIDE DEF A
<1>2. Cardinality(A) \in Nat /\ Cardinality(A) <= Cardinality(Vcs) /\ Cardinality(Vcs) \in Nat
  BY <1>1, FlowAssumption, FS_Subset, FS_CardinalityType
<1> QED
  BY <1>1, <1>2

(* The counters add up to nothing initially.                                *)
LEMMA SharesInit == Init => SharesInv
<1> SUFFICES ASSUME Init PROVE SharesInv
  OBVIOUS
<1>1. LinkInv
  BY InitInv
<1>2. /\ up.occupancy = 0 /\ up.vc_occupancy = [v \in Vcs |-> 0]
      /\ up.group = [g \in Groups |-> 0] /\ up.shared = 0 /\ up.reserved = [v \in Vcs |-> 0]
      /\ up.held = IF Policy = "limited" THEN MaxHeld ELSE BufSize
  BY DEF Init, StateInit
<1>3. StateTypes(up) /\ IsFiniteSet(Vcs) /\ IsFiniteSet(Groups) /\ Cardinality(Groups) \in Nat
  BY <1>1, FlowAssumption, FS_CardinalityType DEF LinkInv, TypeOK
<1>4. Counted
  <2>1. \A v \in Vcs : up.vc_occupancy[v] = 0
    BY <1>2
  <2>2. SumFunctionOnSet(up.vc_occupancy, Vcs) = Cardinality(Vcs) * 0 /\ Cardinality(Vcs) \in Nat
    BY <1>3, <2>1, SumConstant, FS_CardinalityType
  <2> QED
    BY <1>2, <2>2 DEF Counted
<1>5. SlotsAddUp
  <2>1. ASSUME NEW g \in Groups
        PROVE  up.group[g] = SumFunctionOnSet(Kept(up), Members(g))
    <3>1. IsFiniteSet(Members(g)) /\ Members(g) \subseteq Vcs
      BY MembersFinite
    <3>2. \A w \in Members(g) : Kept(up)[w] = 0
      BY <1>2, <1>3, <3>1, KeptTypes
    <3>3. SumFunctionOnSet(Kept(up), Members(g)) = Cardinality(Members(g)) * 0
          /\ Cardinality(Members(g)) \in Nat
      BY <3>1, <3>2, SumConstant, FS_CardinalityType
    <3> QED
      BY <1>2, <3>3
  <2>2. up.shared = SumFunctionOnSet(Beyond(up), Groups)
    <3>1. \A g \in Groups : Beyond(up)[g] = 0
      BY <1>2, <1>3, FlowAssumption, KeptTypes DEF Over, Larger
    <3>2. SumFunctionOnSet(Beyond(up), Groups) = Cardinality(Groups) * 0
      BY <1>3, <3>1, SumConstant
    <3> QED
      BY <1>2, <1>3, <3>2
  <2> QED
    BY <2>1, <2>2 DEF SlotsAddUp
<1>6. SomethingHeld
  <2>1. Cardinality(Vcs) \in Nat \ {0}
    BY FlowAssumption, FS_CardinalityType, FS_EmptySet
  <2>2. BufSize \in Nat \ {0}
    <3>1. CASE ConfBufSize < 0
      <4>1. ConfVcBufSize \in Nat \ {0}
        BY FlowAssumption
      <4>2. \A m, n \in Nat \ {0} : m * n \in Nat \ {0}
        OBVIOUS
      <4> QED
        BY <2>1, <3>1, <4>1, <4>2 DEF BufSize
    <3>2. CASE ~(ConfBufSize < 0)
      BY <3>2, FlowAssumption DEF BufSize
    <3> QED
      BY <3>1, <3>2
  <2> QED
    BY <1>2, <2>2, FlowAssumption DEF SomethingHeld
<1> QED
  BY <1>1, <1>4, <1>5, <1>6 DEF SharesInv

(* One flit more or one credit back changes the count of all by one.         *)
LEMMA CountedMoves ==
  ASSUME NEW f \in [Vcs -> Int], NEW v \in Vcs, NEW d \in Int
  PROVE  SumFunctionOnSet([f EXCEPT ![v] = @ + d], Vcs) = SumFunctionOnSet(f, Vcs) + d
<1> DEFINE e == [f EXCEPT ![v] = @ + d]
<1>1. e[v] = f[v] + d /\ e[v] \in Int /\ (\A x \in Vcs \ {v} : e[x] = f[x])
      /\ \A x \in Vcs : f[x] \in Int
  OBVIOUS
<1> HIDE DEF e
<1>2. IsFiniteSet(Vcs)
  BY FlowAssumption
<1>3. SumFunctionOnSet(e, Vcs) = SumFunctionOnSet(f, Vcs) + e[v] - f[v]
  <2> DEFINE before == f
             S == Vcs
  <2>1. /\ IsFiniteSet(S) /\ v \in S /\ \A x \in S : before[x] \in Int
        /\ e[v] \in Int /\ \A x \in S \ {v} : e[x] = before[x]
    BY <1>1, <1>2
  <2> HIDE DEF before, S
  <2>2. SumFunctionOnSet(e, S) = SumFunctionOnSet(before, S) + e[v] - before[v]
    BY <2>1, SumChange
  <2> QED
    BY <2>2 DEF before, S
<1>4. SumFunctionOnSet(f, Vcs) \in Int
  BY <1>1, <1>2, SumInt
<1>5. SumFunctionOnSet(e, Vcs) = SumFunctionOnSet(f, Vcs) + d
  BY <1>1, <1>3, <1>4
<1> QED
  BY <1>5 DEF e

(* Taking a VC moves no slot.                                               *)
LEMMA SharesTake ==
  ASSUME SharesInv, NEW v \in Vcs, NEW p \in Packets, Take(v, p)
  PROVE  SharesInv'
<1>1. LinkInv' /\ LinkInv
  BY TakeInv DEF SharesInv
<1>2. up' = TakeBuffer(up, v) /\ StateTypes(up)
  BY <1>1 DEF Take, LinkInv, TypeOK
<1>3. AfterTaking(up, v, up')
  BY <1>2, TakeFields
<1>4. /\ up'.occupancy = up.occupancy /\ up'.vc_occupancy = up.vc_occupancy
      /\ up'.group = up.group /\ up'.shared = up.shared /\ up'.reserved = up.reserved
  BY <1>3 DEF AfterTaking, Same, Fields
<1>5. Counted'
  BY <1>4 DEF SharesInv, Counted
<1>6. SlotsAddUp'
  <2>1. Policy # "private" => SlotsIn(up)
    BY DEF SharesInv, SlotsAddUp, SlotsIn
  <2>2. Policy # "private" => SlotsIn(up')
    BY <1>4, <2>1, SlotsKept
  <2> QED
    BY <2>2 DEF SlotsAddUp, SlotsIn
<1>7. SomethingHeld'
  <2>1. CASE up'.held = up.held
    BY <2>1 DEF SharesInv, SomethingHeld
  <2>2. CASE Policy \in Limiting /\ up'.held = HeldBy(up, up'.active)
    <3>1. up'.active \in 0 .. Cardinality(Vcs)
      <4>1. ActiveCounted'
        BY <1>1 DEF LinkInv
      <4> DEFINE A == {w \in Vcs : packet'[w] # {}}
      <4>2. A \in SUBSET Vcs /\ up'.active = Cardinality(A)
        BY <2>2, <4>1 DEF ActiveCounted
      <4> HIDE DEF A
      <4>3. Cardinality(A) \in Nat /\ Cardinality(A) <= Cardinality(Vcs) /\ Cardinality(Vcs) \in Nat
        BY <4>2, FlowAssumption, FS_Subset, FS_CardinalityType
      <4> QED
        BY <4>2, <4>3
    <3>2. up.active \in 0 .. Cardinality(Vcs) /\ Cardinality(Vcs) \in Nat
      BY <1>1, <2>2, ActiveBound, FlowAssumption, FS_CardinalityType DEF LinkInv
    <3>3. up'.active \in 1 .. Cardinality(Vcs)
      BY <1>3, <2>2, <3>1, <3>2 DEF AfterTaking
    <3> QED
      BY <2>2, <3>3, HeldByType DEF SharesInv, SomethingHeld
  <2> QED
    BY <1>3, <2>1, <2>2 DEF AfterTaking
<1> QED
  BY <1>1, <1>5, <1>6, <1>7 DEF SharesInv

(* A flit sent takes the slot kept for its VC, or one of the group.          *)
LEMMA SharesSend ==
  ASSUME SharesInv, NEW v \in Vcs, NEW p \in Packets, Send(v, p)
  PROVE  SharesInv'
<1> DEFINE tail == put[p] + 1 = Size[p]
<1>1. LinkInv' /\ LinkInv
  BY SendInv DEF SharesInv
<1>2. StateTypes(up) /\ StateTypes(up') /\ up' = SendingFlit(up, v, tail) /\ ~IsFullFor(up, v)
  BY <1>1 DEF Send, LinkInv, TypeOK
<1>3. /\ Policy # "private" => up.shared <= SharedSize
      /\ Policy = "private" => up.reserved[v] = 0
      /\ up.reserved \in [Vcs -> {0, 1}] /\ up.vc_occupancy \in [Vcs -> Nat]
  <2>1. up.reserved \in [Vcs -> {0, 1}] /\ up.vc_occupancy \in [Vcs -> Nat]
    BY <1>2 DEF StateTypes
  <2>2. Policy # "private" => up.shared <= SharedSize
    BY <1>1 DEF LinkInv, PolicyHasRoom
  <2>3. Policy = "private" => up.reserved[v] = 0
    BY <1>1, <2>1 DEF LinkInv, Holding
  <2> QED
    BY <2>1, <2>2, <2>3
<1> HIDE DEF tail
<1>4. AfterSending(up, v, tail, up')
  BY <1>2, <1>3, SendingFields DEF tail
<1>5. Counted'
  <2>1. up'.occupancy = up.occupancy + 1 /\ up'.vc_occupancy = [up.vc_occupancy EXCEPT ![v] = @ + 1]
    BY <1>4 DEF AfterSending
  <2>2. up.vc_occupancy \in [Vcs -> Int]
    BY <1>3
  <2>3. SumFunctionOnSet(up'.vc_occupancy, Vcs) = SumFunctionOnSet(up.vc_occupancy, Vcs) + 1
    BY <2>1, <2>2, CountedMoves
  <2> QED
    BY <2>1, <2>3 DEF SharesInv, Counted
<1>6. SlotsAddUp'
  <2> SUFFICES ASSUME Policy # "private" PROVE SlotsIn(up')
    BY DEF SlotsAddUp, SlotsIn
  <2>1. SlotsIn(up)
    BY DEF SharesInv, SlotsAddUp, SlotsIn
  <2>2. /\ Moved(up, up', v, 1 - up.reserved[v])
        /\ up'.vc_occupancy = [up.vc_occupancy EXCEPT ![v] = @ + 1]
        /\ up'.reserved = [up.reserved EXCEPT ![v] = 0]
    BY <1>4 DEF AfterSending
  <2>3. up'.vc_occupancy[v] = up.vc_occupancy[v] + 1 /\ up'.reserved[v] = 0
        /\ \A w \in Vcs \ {v} : /\ up'.vc_occupancy[w] = up.vc_occupancy[w]
                                /\ up'.reserved[w] = up.reserved[w]
    BY <1>3, <2>2
  <2>4. 1 - up.reserved[v] \in Int /\ Kept(up')[v] = Kept(up)[v] + (1 - up.reserved[v])
    BY <1>2, <1>3, <2>3, KeptTypes
  <2>5. \A w \in Vcs \ {v} : Kept(up')[w] = Kept(up)[w]
    BY <1>2, <2>3, KeptTypes
  <2> QED
    BY <1>2, <2>1, <2>2, <2>4, <2>5, SlotsMoved
<1>7. SomethingHeld'
  <2>1. Bounded(up, up') /\ up'.active = IF Policy \in Limiting /\ tail THEN up.active - 1 ELSE up.active
    BY <1>4 DEF AfterSending
  <2>2. CASE up'.held = up.held
    BY <2>2 DEF SharesInv, SomethingHeld
  <2>3. CASE up'.active > 0 /\ up'.held = HeldBy(up, up'.active) /\ Policy \in Limiting
    <3>1. up.active \in 0 .. Cardinality(Vcs) /\ Cardinality(Vcs) \in Nat
      BY <1>1, <2>3, ActiveBound, FlowAssumption, FS_CardinalityType DEF LinkInv
    <3>2. up'.active \in 1 .. Cardinality(Vcs)
      BY <2>1, <2>3, <3>1
    <3> QED
      BY <2>3, <3>2, HeldByType DEF SharesInv, SomethingHeld
  <2>4. CASE up'.held = HeldBy(up, up'.active) /\ Policy \notin Limiting
    BY <2>4 DEF SharesInv, SomethingHeld, HeldBy, Limiting
  <2> QED
    BY <2>1, <2>2, <2>3, <2>4 DEF Bounded
<1> QED
  BY <1>1, <1>5, <1>6, <1>7 DEF SharesInv

(* A credit gives the slot back, or keeps it for the VC.                     *)
LEMMA SharesCredit ==
  ASSUME SharesInv, NEW v \in Vcs, ReceiveCredit(v)
  PROVE  SharesInv'
<1>1. LinkInv' /\ LinkInv
  BY ReceiveCreditInv DEF SharesInv
<1>2. StateTypes(up) /\ StateTypes(up') /\ up' = ProcessCredit(up, v)
  BY <1>1 DEF ReceiveCredit, LinkInv, TypeOK
<1>3. up.reserved \in [Vcs -> {0, 1}] /\ up.vc_occupancy \in [Vcs -> Nat] /\ up'.reserved \in [Vcs -> {0, 1}]
  BY <1>2 DEF StateTypes
<1>4. up.vc_occupancy[v] > 0
  <2>1. OnTheWay(v) \in Nat /\ up.vc_occupancy[v] = OnTheWay(v) + back[v] /\ back[v] \in Nat
    BY <1>1, QueueLengths DEF LinkInv, TypeOK, CreditsConserved
  <2> QED
    BY <2>1 DEF ReceiveCredit
<1>5. AfterCredit(up, v, up')
  <2>1. Policy # "private" => SharedSize \in Nat /\ up.shared <= SharedSize
    BY <1>1, SharedAssumption DEF LinkInv, PolicyHasRoom
  <2> QED
    BY <1>2, <1>4, <2>1, ProcessFields
<1>6. /\ up'.occupancy = up.occupancy - 1 /\ up'.vc_occupancy = [up.vc_occupancy EXCEPT ![v] = @ - 1]
      /\ up'.held = up.held
  BY <1>5 DEF AfterCredit
<1>7. Counted'
  <2>1. up.vc_occupancy \in [Vcs -> Int] /\ up.vc_occupancy[v] - 1 = up.vc_occupancy[v] + (0 - 1)
    BY <1>3
  <2>2. up'.vc_occupancy = [up.vc_occupancy EXCEPT ![v] = @ + (0 - 1)]
    BY <1>6, <2>1
  <2>3. SumFunctionOnSet(up'.vc_occupancy, Vcs) = SumFunctionOnSet(up.vc_occupancy, Vcs) + (0 - 1)
    BY <2>1, <2>2, CountedMoves
  <2>4. SumFunctionOnSet(up.vc_occupancy, Vcs) = up.occupancy /\ up.occupancy \in Int
    BY <1>2 DEF SharesInv, Counted, StateTypes
  <2> QED
    BY <1>6, <2>3, <2>4 DEF Counted
<1>8. SlotsAddUp'
  <2> SUFFICES ASSUME Policy # "private" PROVE SlotsIn(up')
    BY DEF SlotsAddUp, SlotsIn
  <2> DEFINE d == up'.reserved[v] - up.reserved[v] - 1
  <2>1. SlotsIn(up)
    BY DEF SharesInv, SlotsAddUp, SlotsIn
  <2>2. /\ Moved(up, up', v, d)
        /\ up'.reserved = IF Policy # "private" /\ up'.in_use[v] /\ up.vc_occupancy[v] = 1
                          THEN [up.reserved EXCEPT ![v] = @ + 1] ELSE up.reserved
    BY <1>5 DEF AfterCredit
  <2>3. \A w \in Vcs \ {v} : up'.reserved[w] = up.reserved[w]
    BY <1>3, <2>2
  <2>4. up'.vc_occupancy[v] = up.vc_occupancy[v] - 1
        /\ \A w \in Vcs \ {v} : up'.vc_occupancy[w] = up.vc_occupancy[w]
    BY <1>3, <1>6
  <2>5. d \in Int /\ Kept(up')[v] = Kept(up)[v] + d
    BY <1>2, <1>3, <2>4, KeptTypes
  <2>6. \A w \in Vcs \ {v} : Kept(up')[w] = Kept(up)[w]
    BY <1>2, <2>3, <2>4, KeptTypes
  <2> HIDE DEF d
  <2> QED
    BY <1>2, <2>1, <2>2, <2>5, <2>6, SlotsMoved
<1>9. SomethingHeld'
  BY <1>6 DEF SharesInv, SomethingHeld
<1> QED
  BY <1>1, <1>7, <1>8, <1>9 DEF SharesInv

(* Every step keeps the sums.                                               *)
LEMMA SharesNext == SharesInv /\ [Next]_vars => SharesInv'
<1> SUFFICES ASSUME SharesInv, [Next]_vars PROVE SharesInv'
  OBVIOUS
<1>1. LinkInv'
  BY NextInv DEF SharesInv
<1>2. ASSUME up' = up PROVE SharesInv'
  <2>1. SlotsAddUp'
    <3>1. Policy # "private" => SlotsIn(up)
      BY DEF SharesInv, SlotsAddUp, SlotsIn
    <3>2. Policy # "private" => SlotsIn(up')
      BY <1>2, <3>1, SlotsKept
    <3> QED
      BY <3>2 DEF SlotsAddUp, SlotsIn
  <2>2. Counted' /\ SomethingHeld'
    BY <1>2 DEF SharesInv, Counted, SomethingHeld
  <2> QED
    BY <1>1, <2>1, <2>2 DEF SharesInv
<1>3. CASE UNCHANGED vars
  BY <1>2, <1>3 DEF vars
<1>4. ASSUME NEW v \in Vcs, Arrive(v) \/ Forward(v) PROVE SharesInv'
  BY <1>2, <1>4 DEF Arrive, Forward
<1>5. ASSUME NEW v \in Vcs, ReceiveCredit(v) PROVE SharesInv'
  BY <1>5, SharesCredit
<1>6. ASSUME NEW v \in Vcs, NEW p \in Packets, Take(v, p) \/ Send(v, p) PROVE SharesInv'
  BY <1>6, SharesTake, SharesSend
<1> QED
  BY <1>3, <1>4, <1>5, <1>6 DEF Next

(* The counters of the shared policies stay sums of each other.              *)
THEOREM SharesInvariance == Spec => []SharesInv
  BY SharesInit, SharesNext, PTL DEF Spec

(* The buffer at the other end has room for all that may arrive: what the     *)
(* policy lets out in VCs or groups is never more than buf_size altogether.  *)
LEMMA RoomForAll == SharesInv => NeverOverflows
<1> SUFFICES ASSUME SharesInv PROVE NeverOverflows
  OBVIOUS
<1>1. StateTypes(up) /\ IsFiniteSet(Vcs) /\ IsFiniteSet(Groups) /\ LinkInv
  BY FlowAssumption DEF SharesInv, LinkInv, TypeOK
<1>2. /\ up.vc_occupancy \in [Vcs -> Nat] /\ up.reserved \in [Vcs -> {0, 1}]
      /\ up.group \in [Groups -> Int] /\ GroupSize \in [Groups -> Nat] /\ up.occupancy \in Int
  BY <1>1, FlowAssumption DEF StateTypes
<1>3. up.occupancy = SumFunctionOnSet(up.vc_occupancy, Vcs)
  BY DEF SharesInv, Counted
<1>4. up.occupancy <= BufSize
  <2>1. CASE Policy = "private"
    <3> DEFINE all == [v \in Vcs |-> VcBufSize]
               c == Cardinality(Vcs)
    <3>1. VcBufSize \in Nat /\ c \in Nat \ {0} /\ Cardinality(Vcs) \in Nat
      BY <1>1, VcBufSizeType, FlowAssumption, FS_CardinalityType, FS_EmptySet
    <3>2. \A v \in Vcs : /\ up.vc_occupancy[v] \in Int /\ all[v] \in Int /\ all[v] = VcBufSize
                         /\ up.vc_occupancy[v] <= all[v]
      BY <1>1, <1>2, <2>1, <3>1 DEF LinkInv, PolicyHasRoom
    <3> HIDE DEF all
    <3>3. SumFunctionOnSet(up.vc_occupancy, Vcs) <= SumFunctionOnSet(all, Vcs)
      BY <1>1, <3>2, SumMonotone
    <3>4. SumFunctionOnSet(all, Vcs) = c * VcBufSize
      BY <1>1, <3>1, <3>2, SumConstant
    <3>5. c * VcBufSize <= BufSize
      <4>1. CASE ConfBufSize < 0
        <5>1. ~(ConfBufSize >= Cardinality(Vcs)) /\ ConfVcBufSize \in Int
          BY <3>1, <4>1, FlowAssumption
        <5>2. VcBufSize = ConfVcBufSize /\ BufSize = c * ConfVcBufSize
          BY <4>1, <5>1 DEF BufSize, VcBufSize
        <5>3. c * ConfVcBufSize \in Int
          BY <3>1, <5>1
        <5> HIDE DEF c
        <5> QED
          BY <5>2, <5>3
      <4>2. CASE ConfBufSize >= c
        <5> HIDE DEF c
        <5>1. ConfBufSize \in Int /\ c * (ConfBufSize \div c) <= ConfBufSize
          BY <3>1, FlowAssumption
        <5> QED
          BY <3>1, <4>2, <5>1 DEF BufSize, VcBufSize, c
      <4> QED
        BY <2>1, <4>1, <4>2, RoomAssumption
    <3>6. BufSize \in Int /\ c * VcBufSize \in Int
      BY <3>1, FlowAssumption DEF BufSize
    <3> HIDE DEF c
    <3> QED
      BY <1>2, <1>3, <3>3, <3>4, <3>5, <3>6
  <2>2. CASE Policy # "private"
    <3> DEFINE part == [g \in Groups |-> SumFunctionOnSet(Kept(up), {v \in Vcs : GroupOf[v] = g})]
               both == [g \in Groups |-> GroupSize[g] + Beyond(up)[g]]
    <3>1. \A v \in Vcs : Kept(up)[v] \in Int /\ up.vc_occupancy[v] \in Int
                         /\ up.vc_occupancy[v] <= Kept(up)[v]
      BY <1>1, <1>2, KeptTypes
    <3>2. SumFunctionOnSet(up.vc_occupancy, Vcs) <= SumFunctionOnSet(Kept(up), Vcs)
      BY <1>1, <3>1, SumMonotone
    <3>3. SumFunctionOnSet(part, Groups) = SumFunctionOnSet(Kept(up), Vcs)
      BY <1>1, <3>1, SumGroups, FlowAssumption
    <3>4. \A g \in Groups : part[g] = up.group[g]
      BY <2>2 DEF SharesInv, SlotsAddUp, Members
    <3>5. \A g \in Groups : /\ part[g] \in Int /\ both[g] \in Int /\ part[g] <= both[g]
                            /\ GroupSize[g] \in Int /\ Beyond(up)[g] \in Int
                            /\ both[g] = GroupSize[g] + Beyond(up)[g]
      <4> TAKE g \in Groups
      <4>1. Beyond(up)[g] = Over(up.group[g], g) /\ Beyond(up)[g] \in Nat
        BY <1>1, KeptTypes
      <4>2. part[g] = up.group[g] /\ up.group[g] \in Int /\ GroupSize[g] \in Nat
        BY <1>2, <3>4
      <4> HIDE DEF part
      <4> QED
        BY <4>1, <4>2 DEF Over, Larger
    <3> HIDE DEF part, both
    <3>6. SumFunctionOnSet(part, Groups) <= SumFunctionOnSet(both, Groups)
      BY <1>1, <3>5, SumMonotone
    <3>7. SumFunctionOnSet(both, Groups)
            = SumFunctionOnSet(GroupSize, Groups) + SumFunctionOnSet(Beyond(up), Groups)
      BY <1>1, <3>5, SumPlus
    <3>8. SumFunctionOnSet(Beyond(up), Groups) = up.shared /\ up.shared <= SharedSize
          /\ SharedSize \in Nat /\ up.shared \in Int
      BY <1>1, <2>2, SharedAssumption DEF SharesInv, SlotsAddUp, LinkInv, PolicyHasRoom, StateTypes
    <3>9. SumFunctionOnSet(GroupSize, Groups) \in Int /\ SumFunctionOnSet(Kept(up), Vcs) \in Int
      BY <1>1, <3>1, <3>5, SumInt
    <3>10. BufSize \in Int
      <4>1. Cardinality(Vcs) \in Nat
        BY <1>1, FS_CardinalityType
      <4> QED
        BY <4>1, FlowAssumption DEF BufSize
    <3>11. SharedSize = BufSize - SumFunctionOnSet(GroupSize, Groups)
      BY DEF SharedSize
    <3> QED
      BY <1>2, <1>3, <3>2, <3>3, <3>6, <3>7, <3>8, <3>9, <3>10, <3>11
  <2> QED
    BY <2>1, <2>2
<1>5. SumFunctionOnSet([v \in Vcs |-> OnTheWay(v)], Vcs) <= up.occupancy
  <2> DEFINE way == [v \in Vcs |-> OnTheWay(v)]
  <2>1. \A v \in Vcs : way[v] \in Int /\ up.vc_occupancy[v] \in Int /\ way[v] <= up.vc_occupancy[v]
    <3> TAKE v \in Vcs
    <3>1. OnTheWay(v) \in Nat /\ up.vc_occupancy[v] = OnTheWay(v) + back[v] /\ back[v] \in Nat
      BY <1>1, QueueLengths DEF LinkInv, TypeOK, CreditsConserved
    <3> QED
      BY <3>1
  <2> HIDE DEF way
  <2>2. SumFunctionOnSet(way, Vcs) <= SumFunctionOnSet(up.vc_occupancy, Vcs)
    BY <1>1, <2>1, SumMonotone
  <2> QED
    BY <1>3, <2>2 DEF way
<1> QED
  BY <1>4, <1>5 DEF NeverOverflows

(* Slots, reservations, groups and active VCs stay sums of each other, no VC  *)
(* is left without a share, and the input buffer never overflows, for every  *)
(* policy and buffer the code accepts (buffer_state.cpp:116, 217, 338;       *)
(* buffer.cpp:69).                                                         *)
THEOREM SharesStayTrue == Spec => []SharesAddUp
<1>1. SharesInv => SharesAddUp
  BY RoomForAll DEF SharesInv, LinkInv, SharesAddUp
<1> QED
  BY <1>1, SharesInvariance, PTL

(* A packet that has begun and has nothing on the way can go on at once,      *)
(* under every policy (FreeSlotFor, buffer_state.cpp:250).                  *)
THEOREM BegunAlwaysGoesOn == Spec => []BegunGoesOn
<1>1. SharesInv => SomethingHeld
  BY DEF SharesInv
<1> QED
  BY <1>1, SharesInvariance, ReservedSlotServes, PTL

(* A queue in two parts grows at the end of the second.                     *)
LEMMA QueueAppend ==
  ASSUME NEW S, NEW a \in Seq(S), NEW b \in Seq(S), NEW x \in S
  PROVE  a \o Append(b, x) = Append(a \o b, x)
  BY ConcatProperties, AppendProperties

(* The same of the flits of a VC in the buffer and in the channel.           *)
LEMMA QueueGrows ==
  ASSUME TypeOK, NEW v \in Vcs, NEW f \in Packets \X Nat
  PROVE  buf[v] \o Append(flying[v], f) = Append(buf[v] \o flying[v], f)
<1> DEFINE S == Packets \X Nat
           a == buf[v]
           b == flying[v]
<1>1. a \in Seq(S) /\ b \in Seq(S) /\ f \in S
  BY QueueLengths
<1> HIDE DEF S, a, b
<1>2. a \o Append(b, f) = Append(a \o b, f)
  BY <1>1, QueueAppend
<1> QED
  BY <1>2 DEF a, b

(* Moving a flit from the second part to the first keeps the whole.         *)
LEMMA QueueMove ==
  ASSUME NEW S, NEW a \in Seq(S), NEW b \in Seq(S), b # << >>
  PROVE  Append(a, Head(b)) \o Tail(b) = a \o b
  BY ConcatProperties, AppendProperties, HeadTailProperties

(* It shrinks at the head of the first part, when that is not empty.        *)
LEMMA QueueTail ==
  ASSUME NEW S, NEW a \in Seq(S), NEW b \in Seq(S), a # << >>
  PROVE  a \o b # << >> /\ Tail(a \o b) = Tail(a) \o b
  BY ConcatProperties, HeadTailProperties

(* With private buffers the link is a bounded queue per VC that one packet   *)
(* writes at a time: Lanes.                                                *)
THEOREM PrivateLinkIsLanes ==
  ASSUME Policy = "private"
  PROVE  Spec => Implements
<1> DEFINE lane == [w \in Vcs |-> buf[w] \o flying[w]]
<1>1. Init => LanesOf!Init
  <2>1. Init => \A w \in Vcs : buf[w] \o flying[w] = << >>
    BY DEF Init
  <2> QED
    BY <2>1 DEF Init, LanesOf!Init
<1>2. LinkInv /\ [Next]_vars => [LanesOf!Next]_LanesOf!vars
  <2> SUFFICES ASSUME LinkInv, [Next]_vars
               PROVE  LanesOf!Next \/ UNCHANGED LanesOf!vars
    BY DEF LanesOf!vars
  <2> USE DEF LinkInv
  <2>1. CASE UNCHANGED vars
    BY <2>1 DEF vars, LanesOf!vars
  <2>2. ASSUME NEW v \in Vcs, NEW p \in Packets, Take(v, p)
        PROVE  LanesOf!Open(v, p)
    BY <2>2 DEF Take, MayTake, IsAvailableFor, Holding, TypeOK, LanesOf!Open
  <2>3. ASSUME NEW v \in Vcs, NEW p \in Packets, Send(v, p)
        PROVE  LanesOf!Put(v, p)
    <3> DEFINE f == <<p, put[p] + 1>>
    <3>1. /\ p \in packet[v] /\ ~IsFullFor(up, v)
          /\ put' = [put EXCEPT ![p] = put[p] + 1]
          /\ packet' = [packet EXCEPT ![v] = IF put[p] + 1 = Size[p] THEN {} ELSE @]
          /\ flying' = [flying EXCEPT ![v] = Append(@, f)] /\ buf' = buf
      BY <2>3 DEF Send
    <3>2. f \in Packets \X Nat
      BY DEF TypeOK
    <3> HIDE DEF f
    <3>3. buf[v] \o Append(flying[v], f) = Append(buf[v] \o flying[v], f)
      BY <3>2, QueueGrows
    <3>4. [w \in Vcs |-> buf'[w] \o flying'[w]] = [lane EXCEPT ![v] = Append(@, f)]
      BY <3>1, <3>3 DEF TypeOK
    <3>5. Len(buf[v] \o flying[v]) < VcBufSize
      <4> DEFINE F == Len(flying[v])
                 B == Len(buf[v])
                 n == up.vc_occupancy[v]
      <4>1. /\ F \in Nat /\ B \in Nat /\ back[v] \in Nat /\ n = F + B + back[v]
            /\ Len(buf[v] \o flying[v]) = B + F
        BY QueueLengths, ConcatProperties DEF CreditsConserved, OnTheWay, TypeOK
      <4>2. n < VcBufSize /\ VcBufSize \in Nat
        BY <3>1, VcBufSizeType DEF IsFullFor, TypeOK, StateTypes
      <4> HIDE DEF F, B, n
      <4>3. B + F < VcBufSize
        BY <4>1, <4>2
      <4> QED
        BY <4>1, <4>3
    <3>6. lane[v] = buf[v] \o flying[v]
      OBVIOUS
    <3> HIDE DEF lane
    <3> QED
      BY <3>1, <3>4, <3>5, <3>6 DEF LanesOf!Put, f, lane
  <2>4. ASSUME NEW v \in Vcs, Arrive(v)
        PROVE  UNCHANGED LanesOf!vars
    <3> DEFINE f == Head(flying[v])
    <3>1. /\ flying[v] # << >> /\ flying' = [flying EXCEPT ![v] = Tail(@)]
          /\ buf' = [buf EXCEPT ![v] = Append(@, f)] /\ packet' = packet /\ put' = put
      BY <2>4 DEF Arrive
    <3>2. Append(buf[v], f) \o Tail(flying[v]) = buf[v] \o flying[v]
      BY <3>1, QueueLengths, QueueMove
    <3>3. \A w \in Vcs : buf'[w] \o flying'[w] = buf[w] \o flying[w]
      BY <3>1, <3>2 DEF TypeOK
    <3> QED
      BY <3>1, <3>3 DEF LanesOf!vars
  <2>5. ASSUME NEW v \in Vcs, Forward(v)
        PROVE  LanesOf!Get(v)
    <3>1. /\ buf[v] # << >> /\ buf' = [buf EXCEPT ![v] = Tail(@)]
          /\ flying' = flying /\ packet' = packet /\ put' = put
      BY <2>5 DEF Forward
    <3>2. /\ buf[v] \o flying[v] # << >>
          /\ Tail(buf[v] \o flying[v]) = Tail(buf[v]) \o flying[v]
      BY <3>1, QueueLengths, QueueTail
    <3>3. [w \in Vcs |-> buf'[w] \o flying'[w]] = [lane EXCEPT ![v] = Tail(@)]
      BY <3>1, <3>2 DEF TypeOK
    <3> QED
      BY <3>1, <3>2, <3>3 DEF LanesOf!Get
  <2>6. ASSUME NEW v \in Vcs, ReceiveCredit(v)
        PROVE  UNCHANGED LanesOf!vars
    BY <2>6 DEF ReceiveCredit, LanesOf!vars
  <2> QED
    BY <2>1, <2>2, <2>3, <2>4, <2>5, <2>6 DEF Next, LanesOf!Next
<1> QED
  BY <1>1, <1>2, LinkInvariance, PTL DEF Spec, Implements, LanesOf!Spec
=============================================================================
