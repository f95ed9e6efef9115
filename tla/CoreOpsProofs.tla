--------------------------- MODULE CoreOpsProofs ---------------------------
(***************************************************************************)
(* What is proved of the record of a core and of every operator on it, for  *)
(* any core, JSON input, number of buffers, granularity and packet size.    *)
(* Safe says how the flags of Core::run and the two buffer pointers belong  *)
(* together, Fed that a workload that runs has all its inputs, Stock that   *)
(* what is still to be sent of an output is what the core holds of it.      *)
(* Each phase of run, and each message, has one lemma that it preserves     *)
(* them; CoreProofs uses them for one core, ManyCoreProofs for all.         *)
(***************************************************************************)
EXTENDS CoreOps, SumLemmas, SequenceTheorems

(* The fields of a Core, spelled out.                                      *)
Fields == {"cur", "wl_end", "overall_end", "gran", "wl_fn", "next_start", "dataready",
           "running", "cnt1", "pending", "due", "tiles", "rc", "sd", "mini", "obuf",
           "obuf_wl", "cur_rq", "r_rq", "s_rq", "to_request", "buffer", "left_data",
           "send_list", "ddr_rel"}

(* A Core has exactly these fields.                                         *)
LEMMA CoreFields == DOMAIN CoreInit = Fields
  BY DEF CoreInit, Fields

(* A set of output buffers has a lowest one.                                *)
LEMMA LeastObuf ==
  ASSUME NEW T \in SUBSET Obufs, T # {}
  PROVE  \E x \in T : \A y \in T : x <= y
<1> DEFINE Below(x) == {y \in Obufs : y < x}
           B == {Below(x) : x \in T}
           R == StrictSubsetOrdering(Obufs)
<1>1. NumObuf \in Nat /\ Obufs = 1 .. NumObuf
  BY CoreAssumption DEF Obufs
<1>2. IsWellFoundedOn(R, SUBSET Obufs)
  <2>1. IsFiniteSet(Obufs)
    BY <1>1, FS_Interval
  <2>2. FiniteSubsetsOf(Obufs) = SUBSET Obufs
    BY <2>1, FS_FiniteSubsetsOfFinite
  <2>3. IsWellFoundedOn(R, FiniteSubsetsOf(Obufs))
    BY FS_StrictSubsetOrderingWellFounded
  <2> QED
    BY <2>2, <2>3
<1>3. B \subseteq SUBSET Obufs /\ B # {}
  OBVIOUS
<1>4. PICK b \in B : \A c \in B : <<c, b>> \notin R
  <2> HIDE DEF R, B
  <2> QED
    BY <1>2, <1>3, WFMin
<1>5. PICK x \in T : b = Below(x)
  OBVIOUS
<1>6. ASSUME NEW y \in T, y < x
      PROVE  FALSE
  <2>1. Below(y) \subseteq Below(x) /\ y \in Below(x) /\ y \notin Below(y)
    BY <1>1, <1>6
  <2>2. <<Below(y), b>> \in R
    BY <2>1, <1>5, <1>3 DEF StrictSubsetOrdering
  <2> QED
    BY <2>2, <1>4
<1> QED
  BY <1>1, <1>6

(* The loop of _generate_next_rc_obuf_id gives -1 or a member of the set.   *)
LEMMA LowestOfType ==
  ASSUME NEW S \in SUBSET Obufs
  PROVE  /\ LowestOf(S) \in S \cup {NoBuf}
         /\ LowestOf(S) = NoBuf <=> S = {}
<1>1. CASE S = {}
  BY <1>1 DEF LowestOf
<1>2. CASE S # {}
  <2>1. NoBuf \notin S
    BY CoreAssumption DEF Obufs, NoBuf
  <2>2. \E i \in S : \A j \in S : i <= j
    BY <1>2, LeastObuf
  <2> QED
    BY <2>1, <2>2, <1>2 DEF LowestOf
<1> QED
  BY <1>1, <1>2

(* Removing a mini tile leaves a sequence of mini tiles, one shorter.       *)
LEMMA RemoveAtType ==
  ASSUME NEW S, NEW q \in Seq(S), NEW k \in DOMAIN q
  PROVE  RemoveAt(q, k) \in Seq(S) /\ Len(RemoveAt(q, k)) = Len(q) - 1
<1>1. k \in 1 .. Len(q) /\ q \in [1 .. Len(q) -> S] /\ Len(q) \in Nat
  BY LenProperties
<1>2. SubSeq(q, 1, k - 1) \in Seq(S) /\ Len(SubSeq(q, 1, k - 1)) = k - 1
  <2>1. \A i \in 1 .. k - 1 : q[i] \in S
    BY <1>1
  <2> QED
    BY <1>1, <2>1, SubSeqProperties
<1>3. SubSeq(q, k + 1, Len(q)) \in Seq(S) /\ Len(SubSeq(q, k + 1, Len(q))) = Len(q) - k
  <2>1. \A i \in k + 1 .. Len(q) : q[i] \in S
    BY <1>1
  <2> QED
    BY <1>1, <2>1, SubSeqProperties
<1> QED
  BY <1>1, <1>2, <1>3, ConcatProperties DEF RemoveAt

(* Tile times are natural numbers.                                          *)
LEMMA TileTimeType ==
  ASSUME NEW w \in Workload, NEW g \in Nat \ {0}, NEW k \in Int
  PROVE  TileTime(w, g, k) \in Nat
<1>1. w.time \in Nat \ {0}
  BY DEF Workload
<1> DEFINE q == (w.time - 1) \div g
<1>2. q \in Nat /\ g * q <= w.time - 1
  BY <1>1
<1>3. (g - 1) * q = g * q - q
  BY <1>2
<1>4. g * q \in Nat
  BY <1>2
<1> QED
  BY <1>1, <1>2, <1>3, <1>4 DEF TileTime

(* What a core loads is a workload of the input.                            *)
LEMMA JobType ==
  ASSUME NEW c \in Cores, NEW n \in 1 .. Len(Workloads[c])
  PROVE  Workloads[c][n] \in Workload /\ IsFiniteSet(Workloads[c][n].fetch)
<1>1. Workloads[c] \in Seq(Workload)
  BY WorkloadAssumption
<1>2. n \in DOMAIN Workloads[c] /\ Workloads[c][n] \in Workload
  BY <1>1, LenProperties, ElementOfSeq
<1> QED
  BY <1>2, WorkloadAssumption

(* The outputs of a workload are outputs.                                   *)
LEMMA OutsType ==
  ASSUME NEW w \in Workload
  PROVE  /\ DOMAIN w.outs = 1 .. Len(w.outs) /\ Len(w.outs) \in Nat
         /\ IsFiniteSet(DOMAIN w.outs)
         /\ \A i \in DOMAIN w.outs : w.outs[i] \in Outputs
<1>1. w.outs \in Seq(Outputs)
  BY DEF Workload
<1>2. DOMAIN w.outs = 1 .. Len(w.outs) /\ Len(w.outs) \in Nat
  BY <1>1, LenProperties
<1>3. IsFiniteSet(1 .. Len(w.outs))
  BY <1>2, FS_Interval
<1> QED
  BY <1>1, <1>2, <1>3, ElementOfSeq

(* The requests a workload waits for are counted by a natural number.       *)
LEMMA WantedType ==
  ASSUME NEW c \in Cores, NEW w \in Workload, NEW t \in Tids, NEW d \in Cores
  PROVE  Wanted(c, w, t, d) \in Nat
<1> DEFINE D(i) == {i} \X DOMAIN w.outs[i].dst
           F == [i \in DOMAIN w.outs |-> D(i)]
           U == {D(i) : i \in DOMAIN w.outs}
           P == {p \in UNION U : w.outs[p[1]].tid = t /\ w.outs[p[1]].dst[p[2]] = d}
<1>1. \A i \in DOMAIN w.outs : IsFiniteSet(D(i))
  <2> SUFFICES ASSUME NEW i \in DOMAIN w.outs
               PROVE  IsFiniteSet(D(i))
    OBVIOUS
  <2>1. w.outs[i].dst \in Seq(Cores \cup {DRAM})
    BY OutsType DEF Outputs
  <2>2. IsFiniteSet(DOMAIN w.outs[i].dst)
    BY <2>1, LenProperties, FS_Interval
  <2>3. IsFiniteSet({i})
    BY FS_Singleton
  <2> QED
    BY <2>2, <2>3, FS_Product
<1>2. IsFiniteSet(U)
  <2>1. F \in Surjection(DOMAIN w.outs, U)
    BY DEF Surjection
  <2>2. IsFiniteSet(DOMAIN w.outs)
    BY OutsType
  <2> HIDE DEF F, U
  <2> QED
    BY <2>1, <2>2, FS_Surjection
<1>3. IsFiniteSet(UNION U)
  <2>1. \A T \in U : IsFiniteSet(T)
    BY <1>1
  <2> HIDE DEF U
  <2> QED
    BY <1>2, <2>1, FS_UNION
<1>4. IsFiniteSet(P) /\ P \in SUBSET UNION U
  <2>1. P \in SUBSET UNION U
    OBVIOUS
  <2> HIDE DEF P
  <2> QED
    BY <1>3, <2>1, FS_Subset
<1>5. Cardinality(P) \in Nat
  <2> HIDE DEF P
  <2> QED
    BY <1>4, FS_CardinalityType
<1> QED
  BY <1>5 DEF Wanted

(* The outputs that are tiled are outputs of the workload.                  *)
LEMMA RemoteOutsType ==
  ASSUME NEW c \in Cores, NEW w \in Workload
  PROVE  IsFiniteSet(RemoteOuts(c, w)) /\ RemoteOuts(c, w) \subseteq Outputs
<1> DEFINE I == {i \in DOMAIN w.outs : Remote(c, w.outs[i]) # {}}
           F == [i \in I |-> w.outs[i]]
<1>1. IsFiniteSet(I)
  <2>1. I \in SUBSET DOMAIN w.outs
    OBVIOUS
  <2> HIDE DEF I
  <2> QED
    BY <2>1, OutsType, FS_Subset
<1>2. F \in Surjection(I, RemoteOuts(c, w))
  BY DEF Surjection, RemoteOuts
<1>3. IsFiniteSet(RemoteOuts(c, w))
  <2> HIDE DEF I, F
  <2> QED
    BY <1>1, <1>2, FS_Surjection
<1> QED
  BY <1>3, OutsType DEF RemoteOuts

(* SetToSeq lists members of its set.                                       *)
LEMMA SetToSeqType ==
  ASSUME NEW S, IsFiniteSet(S)
  PROVE  SetToSeq(S) \in [1 .. Cardinality(S) -> S] /\ Cardinality(S) \in Nat
<1>1. Cardinality(S) \in Nat /\ ExistsBijection(1 .. Cardinality(S), S)
  BY FS_CardinalityType
<1>2. PICK f \in Bijection(1 .. Cardinality(S), S) : TRUE
  BY <1>1 DEF ExistsBijection
<1>3. f \in [1 .. Cardinality(S) -> S] /\ IsInjective(f)
  BY <1>2 DEF Bijection, Injection, Surjection, IsInjective
<1> QED
  BY <1>1, <1>3 DEF SetToSeq

(* What _write_obuf puts into a buffer are mini tiles.                      *)
LEMMA MiniTilesType ==
  ASSUME NEW c \in Cores, NEW s, CurWl(c, s) \in Workload,
         s.gran \in Nat \ {0}, s.tiles \in Int
  PROVE  MiniTiles(c, s) \in Seq(MiniTileType)
<1> DEFINE outs == SetToSeq(RemoteOuts(c, CurWl(c, s)))
           n == Cardinality(RemoteOuts(c, CurWl(c, s)))
           M(i) == [tid  |-> outs[i].tid,
                    size |-> TileSize(outs[i], s.gran, s.gran - s.tiles + 1),
                    dst  |-> Remote(c, outs[i])]
<1>1. n \in Nat /\ DOMAIN outs = 1 .. n /\ \A i \in 1 .. n : outs[i] \in Outputs
  BY RemoteOutsType, SetToSeqType
<1>2. \A i \in 1 .. n : M(i) \in MiniTileType
  <2> SUFFICES ASSUME NEW i \in 1 .. n
               PROVE  M(i) \in MiniTileType
    OBVIOUS
  <2> DEFINE o == outs[i]
  <2>1. o.tid \in Tids /\ o.size \in Nat /\ o.dst \in Seq(Cores \cup {DRAM})
    BY <1>1 DEF Outputs
  <2> HIDE DEF o
  <2>2. TileSize(o, s.gran, s.gran - s.tiles + 1) \in Int
    <3> DEFINE q == o.size \div s.gran
    <3>1. q \in Int /\ (s.gran - 1) * q \in Int
      BY <2>1
    <3> HIDE DEF q
    <3>2. o.size - (s.gran - 1) * q \in Int
      BY <3>1, <2>1
    <3> QED
      BY <3>1, <3>2 DEF TileSize, q
  <2>3. Remote(c, o) \in SUBSET (Cores \cup {DRAM})
    BY <2>1, LenProperties, ElementOfSeq DEF Remote
  <2> QED
    BY <2>1, <2>2, <2>3 DEF MiniTileType, o
<1>3. [i \in 1 .. n |-> M(i)] \in Seq(MiniTileType)
  <2> HIDE DEF M, n
  <2> QED
    BY <1>1, <1>2, IsASeq
<1> QED
  BY <1>1, <1>3 DEF MiniTiles

-----------------------------------------------------------------------------
(* The inductive invariant on the state of a Core.                         *)

(* A Core computes only while it has a workload and a tile left of it.      *)
Orderly(c, s) ==
  /\ ~s.wl_end => s.cur <= Len(Workloads[c])
  /\ s.wl_end => s.cur = Len(Workloads[c]) + 1
  /\ s.running => s.cur >= 1
  /\ ~s.wl_fn => s.running /\ ~s.wl_end /\ s.tiles >= 1
  /\ s.pending => ~s.wl_fn
  /\ s.next_start => ~s.running
  /\ s.next_start /\ s.cur >= 1 /\ ~s.wl_end => s.tiles = s.gran
  /\ s.dataready => s.cur >= 1
  /\ s.cur = 0 => s.next_start /\ s.to_request = << >> /\ \A i \in Obufs : s.obuf[i] = << >>

Safe(c, s) == /\ CoreTypes(c, s)
              /\ BuffersApart(s)
              /\ HasRoom(s)
              /\ DrainJustified(s)
              /\ Orderly(c, s)

(* Time runs only while a tile is computed: between two calls of run, and   *)
(* within one after _time was set, when the tile may be due now.            *)
Counting(s) == s.due > 0 => ~s.wl_fn /\ ~s.pending
Ticked(s)   == s.due >= 0 => ~s.wl_fn /\ ~s.pending

Same(s, t, F) == \A f \in Fields \ F : t[f] = s[f]

(* Time passes (core.cpp:244).                                              *)
LEMMA TickSafe ==
  ASSUME NEW c \in Cores, NEW s, Safe(c, s), Counting(s)
  PROVE  Safe(c, Tick(s)) /\ Ticked(Tick(s))
<1> DEFINE t == Tick(s)
<1>0. DOMAIN s = Fields
  BY CoreFields DEF Safe, CoreTypes
<1>1. DOMAIN t = DOMAIN s /\ Same(s, t, {"due"})
      /\ t.due = IF s.due < 0 THEN -1 ELSE s.due - 1
  BY <1>0 DEF Tick, Same, Fields
<1>2. s.due \in Nat \cup {-1}
  BY DEF Safe, CoreTypes
<1>3. t.due \in Nat \cup {-1} /\ (t.due >= 0 => s.due > 0)
  BY <1>1, <1>2
<1> HIDE DEF t
<1>4. CoreTypes(c, t)
  BY <1>1, <1>3 DEF Safe, CoreTypes, Same, Fields
<1>5. BuffersApart(t) /\ HasRoom(t) /\ DrainJustified(t)
  BY <1>1 DEF Safe, Same, Fields, BuffersApart, HasRoom, DrainJustified, AllRequested
<1>6. Orderly(c, t)
  BY <1>1 DEF Safe, Same, Fields, Orderly
<1>7. Ticked(t)
  BY <1>1, <1>3 DEF Counting, Ticked, Same, Fields
<1> QED
  BY <1>4, <1>5, <1>6, <1>7 DEF Safe, t

(* Start keeps the invariant (core.cpp:250).                                *)
LEMMA StartSafe ==
  ASSUME NEW c \in Cores, NEW s, Safe(c, s), Ticked(s)
  PROVE  Safe(c, Start(c, s)) /\ Ticked(Start(c, s))
<1> DEFINE t == Start(c, s)
           Go == s.wl_fn /\ s.next_start /\ s.dataready /\ s.rc # NoBuf /\ ~s.wl_end
<1>0. DOMAIN s = Fields
  BY CoreFields DEF Safe, CoreTypes
<1>1. CASE ~Go
  BY <1>1 DEF Start
<1>2. CASE Go
  <2>1. /\ DOMAIN t = DOMAIN s
        /\ Same(s, t, {"next_start", "running", "wl_fn", "dataready", "due"})
        /\ t.next_start = FALSE /\ t.running = TRUE /\ t.wl_fn = FALSE
        /\ t.dataready = FALSE /\ t.due = TileTime(CurWl(c, s), s.gran, 1)
    BY <1>0, <1>2 DEF Start, Same, Fields
  <2>2. s.cur \in 1 .. Len(Workloads[c]) /\ s.gran \in Nat \ {0}
    BY <1>2 DEF Safe, CoreTypes, Orderly
  <2>3. CurWl(c, s) \in Workload
    BY <2>2, JobType DEF CurWl
  <2>4. TileTime(CurWl(c, s), s.gran, 1) \in Nat
    <3>1. \A k \in Int : TileTime(CurWl(c, s), s.gran, k) \in Nat
      BY <2>2, <2>3, TileTimeType
    <3> QED
      BY <3>1
  <2> HIDE DEF t
  <2>5. CoreTypes(c, t)
    BY <2>1, <2>4 DEF Safe, CoreTypes, Same, Fields
  <2>6. BuffersApart(t) /\ DrainJustified(t) /\ HasRoom(t)
    BY <1>2, <2>1 DEF Safe, Same, Fields, BuffersApart, DrainJustified, AllRequested, HasRoom
  <2>7. Orderly(c, t) /\ Ticked(t)
    BY <1>2, <2>1, <2>2 DEF Safe, Same, Fields, Orderly, Ticked
  <2> QED
    BY <2>5, <2>6, <2>7 DEF Safe, t
<1> QED
  BY <1>1, <1>2

(* The next buffer to compute into is empty, or there is none.              *)
LEMMA NextRcType ==
  ASSUME NEW s
  PROVE  /\ NextRc(s) \in Obufs \cup {NoBuf}
         /\ NextRc(s) # NoBuf => s.obuf[NextRc(s)] = << >>
<1> DEFINE S == {i \in Obufs : s.obuf[i] = << >>}
<1>1. S \in SUBSET Obufs
  OBVIOUS
<1>2. LowestOf(S) \in S \cup {NoBuf}
  <2> HIDE DEF S
  <2> QED
    BY <1>1, LowestOfType
<1> QED
  BY <1>2 DEF NextRc

(* Choosing a buffer to compute into (core.cpp:265).                        *)
LEMMA PickRcSafe ==
  ASSUME NEW c \in Cores, NEW s, Safe(c, s), Ticked(s)
  PROVE  Safe(c, PickRc(s)) /\ Ticked(PickRc(s))
<1> DEFINE t == PickRc(s)
<1>0. DOMAIN s = Fields
  BY CoreFields DEF Safe, CoreTypes
<1>1. CASE ~(s.pending \/ s.rc = NoBuf)
  BY <1>1 DEF PickRc
<1>2. CASE s.pending \/ s.rc = NoBuf
  <2>1. DOMAIN t = DOMAIN s /\ Same(s, t, {"rc"}) /\ t.rc = NextRc(s)
    BY <1>0, <1>2 DEF PickRc, Same, Fields
  <2>2. t.rc \in Obufs \cup {NoBuf} /\ (t.rc # NoBuf => s.obuf[t.rc] = << >>)
    BY <2>1, NextRcType
  <2> HIDE DEF t
  <2>3. s.sd # NoBuf => s.obuf[s.sd] # << >>
    BY DEF Safe, BuffersApart
  <2>4. CoreTypes(c, t)
    BY <2>1, <2>2 DEF Safe, CoreTypes, Same, Fields
  <2>5. BuffersApart(t)
    BY <2>1, <2>2, <2>3 DEF Safe, BuffersApart, Same, Fields
  <2>6. HasRoom(t)
    BY <1>2, <2>1 DEF Safe, HasRoom, Same, Fields
  <2>7. DrainJustified(t) /\ Orderly(c, t) /\ Ticked(t)
    BY <2>1 DEF Safe, DrainJustified, AllRequested, Orderly, Ticked, Same, Fields
  <2> QED
    BY <2>4, <2>5, <2>6, <2>7 DEF Safe, t
<1> QED
  BY <1>1, <1>2

(* The next buffer to drain may be drained, or there is none.               *)
LEMMA NextSdType ==
  ASSUME NEW s, s.sd \in Obufs \cup {NoBuf}
  PROVE  \/ NextSd(s) = s.sd /\ s.sd # NoBuf /\ s.obuf[s.sd] # << >>
         \/ NextSd(s) = NoBuf
         \/ /\ NextSd(s) \in Obufs /\ NextSd(s) # s.rc /\ s.obuf[NextSd(s)] # << >>
            /\ s.obuf_wl[NextSd(s)] < s.cur \/ AllRequested(s)
<1>1. Sendable(s) \in SUBSET Obufs
  BY DEF Sendable
<1>2. LowestOf(Sendable(s)) \in Sendable(s) \cup {NoBuf}
  BY <1>1, LowestOfType
<1> QED
  BY <1>2 DEF NextSd, Sendable

(* Choosing a buffer to drain (core.cpp:268).                               *)
LEMMA PickSdSafe ==
  ASSUME NEW c \in Cores, NEW s, Safe(c, s), Ticked(s)
  PROVE  Safe(c, PickSd(s)) /\ Ticked(PickSd(s))
<1> DEFINE t == PickSd(s)
<1>0. DOMAIN s = Fields
  BY CoreFields DEF Safe, CoreTypes
<1>1. CASE s.sd # NoBuf
  BY <1>1 DEF PickSd
<1>2. CASE s.sd = NoBuf
  <2>1. DOMAIN t = DOMAIN s /\ Same(s, t, {"sd"}) /\ t.sd = NextSd(s)
    BY <1>0, <1>2 DEF PickSd, Same, Fields
  <2>2. \/ t.sd = NoBuf
        \/ /\ t.sd \in Obufs /\ t.sd # s.rc /\ s.obuf[t.sd] # << >>
           /\ s.obuf_wl[t.sd] < s.cur \/ AllRequested(s)
    BY <1>2, <2>1, NextSdType
  <2> HIDE DEF t
  <2>3. t.sd # NoBuf => s.mini \in DOMAIN s.obuf[t.sd]
    <3> SUFFICES ASSUME t.sd # NoBuf
                 PROVE  1 \in DOMAIN s.obuf[t.sd]
      BY <1>2 DEF Safe, BuffersApart
    <3>1. s.obuf[t.sd] \in Seq(MiniTileType) /\ s.obuf[t.sd] # << >>
      BY <2>2 DEF Safe, CoreTypes
    <3> QED
      BY <3>1, LenProperties, EmptySeq
  <2>4. CoreTypes(c, t)
    BY <2>1, <2>2 DEF Safe, CoreTypes, Same, Fields
  <2>5. BuffersApart(t)
    BY <1>2, <2>1, <2>2, <2>3 DEF Safe, BuffersApart, Same, Fields
  <2>6. DrainJustified(t)
    BY <2>1, <2>2 DEF DrainJustified, AllRequested, Same, Fields
  <2>7. HasRoom(t) /\ Orderly(c, t) /\ Ticked(t)
    BY <2>1 DEF Safe, HasRoom, Orderly, Ticked, Same, Fields
  <2> QED
    BY <2>4, <2>5, <2>6, <2>7 DEF Safe, t
<1> QED
  BY <1>1, <1>2

(* _write_obuf and the choice after it (core.cpp:281).                      *)
LEMMA WriteObufSafe ==
  ASSUME NEW c \in Cores, NEW s, Safe(c, s), s.rc # NoBuf, CurWl(c, s) \in Workload
  PROVE  LET w == WriteObuf(c, s)
         IN  /\ CoreTypes(c, w) /\ BuffersApart(w) /\ DrainJustified(w)
             /\ Same(s, w, {"rc", "obuf", "obuf_wl"})
<1> DEFINE w == WriteObuf(c, s)
           m == MiniTiles(c, s)
           u == [s EXCEPT !.obuf[s.rc] = m, !.obuf_wl[s.rc] = s.cur]
<1>0. DOMAIN s = Fields
  BY CoreFields DEF Safe, CoreTypes
<1>1. m \in Seq(MiniTileType)
  BY MiniTilesType DEF Safe, CoreTypes
<1>2. CASE m = << >>
  BY <1>2 DEF WriteObuf, Safe, Same
<1>3. CASE m # << >>
  <2> HIDE DEF m
  <2>1. /\ DOMAIN u = Fields /\ Same(s, u, {"obuf", "obuf_wl"})
        /\ u.obuf = [s.obuf EXCEPT ![s.rc] = m] /\ u.obuf_wl = [s.obuf_wl EXCEPT ![s.rc] = s.cur]
    BY <1>0 DEF Same, Fields
  <2>2. /\ DOMAIN w = Fields /\ Same(s, w, {"rc", "obuf", "obuf_wl"})
        /\ w.obuf = u.obuf /\ w.obuf_wl = u.obuf_wl /\ w.rc = NextRc(u)
    <3>1. w = [u EXCEPT !.rc = NextRc(u)]
      BY <1>3 DEF WriteObuf, m
    <3> HIDE DEF u, w
    <3> QED
      BY <3>1, <2>1 DEF Same, Fields
  <2>3. w.rc \in Obufs \cup {NoBuf} /\ (w.rc # NoBuf => w.obuf[w.rc] = << >>)
    BY <2>2, NextRcType
  <2> HIDE DEF u, w
  <2>4. s.rc \in Obufs /\ s.cur \in Nat /\ s.sd # s.rc
    <3>1. s.cur \in 0 .. Len(Workloads[c]) + 1
      BY DEF Safe, CoreTypes
    <3> QED
      BY <3>1 DEF Safe, CoreTypes, BuffersApart
  <2>5. w.obuf \in [Obufs -> Seq(MiniTileType)] /\ w.obuf_wl \in [Obufs -> 0 .. s.cur]
    BY <2>1, <2>2, <2>4, <1>1 DEF Safe, CoreTypes
  <2>6. CoreTypes(c, w)
    BY <2>2, <2>3, <2>5, CoreFields DEF Safe, CoreTypes, Same, Fields
  <2>7. s.sd # NoBuf => w.obuf[s.sd] = s.obuf[s.sd] /\ w.obuf_wl[s.sd] = s.obuf_wl[s.sd]
    BY <2>1, <2>2, <2>4 DEF Safe, CoreTypes
  <2>8. BuffersApart(w)
    <3>1. s.sd # NoBuf => s.obuf[s.sd] # << >>
      BY DEF Safe, BuffersApart
    <3> QED
      BY <2>2, <2>3, <2>7, <3>1 DEF Safe, BuffersApart, Same, Fields
  <2>9. DrainJustified(w)
    BY <2>2, <2>7 DEF Safe, DrainJustified, AllRequested, Same, Fields
  <2> QED
    BY <2>2, <2>6, <2>8, <2>9 DEF w
<1> QED
  BY <1>2, <1>3

(* The choice of the buffer to drain when a tile is done (core.cpp:285).    *)
LEMMA NextSdSafe ==
  ASSUME NEW c \in Cores, NEW s, NEW t, CoreTypes(c, s), BuffersApart(s), DrainJustified(s),
         Same(s, t, {"sd"}), t.sd = NextSd(s),
         s.sd # NoBuf => s.obuf[s.sd] # << >>
  PROVE  t.sd \in Obufs \cup {NoBuf} /\ BuffersApart(t) /\ DrainJustified(t)
<1>1. CASE t.sd = s.sd
  BY <1>1 DEF BuffersApart, DrainJustified, AllRequested, CoreTypes, Same, Fields
<1>2. CASE t.sd # s.sd /\ t.sd = NoBuf
  <2>1. s.sd = NoBuf
    BY <1>2 DEF NextSd
  <2> QED
    BY <1>2, <2>1
<1>3. CASE t.sd # s.sd /\ t.sd # NoBuf
  <2>1. /\ t.sd \in Obufs /\ t.sd # s.rc /\ s.obuf[t.sd] # << >>
        /\ s.obuf_wl[t.sd] < s.cur \/ AllRequested(s)
    BY <1>3, NextSdType DEF CoreTypes
  <2>2. s.sd = NoBuf
    BY <1>3 DEF NextSd
  <2>3. 1 \in DOMAIN s.obuf[t.sd]
    <3>1. s.obuf[t.sd] \in Seq(MiniTileType)
      BY <2>1 DEF CoreTypes
    <3> QED
      BY <2>1, <3>1, LenProperties, EmptySeq
  <2> QED
    BY <2>1, <2>2, <2>3 DEF BuffersApart, DrainJustified, AllRequested, Same, Fields
<1> QED
  BY <1>1, <1>2, <1>3

(* The time of the next tile is a natural number.                           *)
LEMMA NextTileTimeType ==
  ASSUME NEW c \in Cores, NEW s, CurWl(c, s) \in Workload,
         s.gran \in Nat \ {0}, s.tiles \in Int
  PROVE  NextTileTime(c, s) \in Nat
<1>1. s.gran - s.tiles + 1 \in Int
  OBVIOUS
<1> QED
  BY <1>1, TileTimeType DEF NextTileTime

(* A tile is done (core.cpp:273).                                           *)
LEMMA TileDoneSafe ==
  ASSUME NEW c \in Cores, NEW s, Safe(c, s), Ticked(s), s.running, ~s.wl_end, s.due = 0
  PROVE  Safe(c, TileDone(c, s)) /\ Counting(TileDone(c, s))
<1> DEFINE w == WriteObuf(c, s)
           n == [w EXCEPT !.sd = NextSd(w), !.tiles = @ - 1]
           t == TileDone(c, s)
<1>1. ~s.wl_fn /\ ~s.pending /\ s.tiles >= 1 /\ s.cur >= 1 /\ s.rc # NoBuf
  BY DEF Ticked, Safe, Orderly, HasRoom
<1>2. CurWl(c, s) \in Workload
  <2>1. s.cur \in 1 .. Len(Workloads[c])
    BY <1>1 DEF Safe, Orderly, CoreTypes
  <2> QED
    BY <2>1, JobType DEF CurWl
<1>3. /\ CoreTypes(c, w) /\ BuffersApart(w) /\ DrainJustified(w)
      /\ Same(s, w, {"rc", "obuf", "obuf_wl"})
  BY <1>1, <1>2, WriteObufSafe
<1>4. DOMAIN w = Fields
  BY <1>3, CoreFields DEF CoreTypes
<1> HIDE DEF w
<1>5. /\ DOMAIN n = Fields /\ Same(w, n, {"sd", "tiles"})
      /\ n.sd = NextSd(w) /\ n.tiles = w.tiles - 1
  BY <1>4 DEF Same, Fields
<1>6. t = IF n.tiles = 0 THEN [n EXCEPT !.wl_fn = TRUE, !.cnt1 = 0]
          ELSE IF n.rc = NoBuf THEN [n EXCEPT !.pending = TRUE]
          ELSE [n EXCEPT !.due = NextTileTime(c, n)]
  BY DEF TileDone, w
<1> HIDE DEF n, t
<1>7. n.tiles = s.tiles - 1 /\ n.tiles \in 0 .. n.gran /\ n.gran \in Nat \ {0}
  BY <1>1, <1>3, <1>5 DEF CoreTypes, Same, Fields
<1>8. /\ n.sd \in Obufs \cup {NoBuf} /\ BuffersApart(n) /\ DrainJustified(n)
  <2> DEFINE v == [w EXCEPT !.sd = NextSd(w)]
  <2>1. DOMAIN v = Fields /\ Same(w, v, {"sd"}) /\ v.sd = NextSd(w)
    BY <1>4 DEF Same, Fields
  <2> HIDE DEF v
  <2>2. w.sd # NoBuf => w.obuf[w.sd] # << >>
    BY <1>3 DEF BuffersApart
  <2>3. v.sd \in Obufs \cup {NoBuf} /\ BuffersApart(v) /\ DrainJustified(v)
    BY <2>1, <2>2, <1>3, NextSdSafe
  <2> QED
    BY <2>1, <2>3, <1>5 DEF BuffersApart, DrainJustified, AllRequested, Same, Fields
<1>9. CoreTypes(c, n)
  BY <1>3, <1>5, <1>7, <1>8, CoreFields DEF CoreTypes, Same, Fields
<1>10. /\ n.running /\ ~n.wl_fn /\ ~n.pending /\ n.due = 0 /\ ~n.wl_end /\ n.cur = s.cur
       /\ ~n.next_start /\ n.cur >= 1 /\ n.cur <= Len(Workloads[c])
       /\ (n.tiles # 0 => n.tiles >= 1)
  <2>1. Same(s, n, {"rc", "obuf", "obuf_wl", "sd", "tiles"})
    BY <1>3, <1>5 DEF Same, Fields
  <2>2. ~s.next_start /\ s.cur <= Len(Workloads[c])
    BY DEF Safe, Orderly
  <2>3. n.tiles # 0 => n.tiles >= 1
    <3>1. n.tiles \in Nat
      BY <1>7
    <3> QED
      BY <3>1
  <2>4. n.cur = s.cur /\ n.running = s.running /\ n.wl_fn = s.wl_fn /\ n.pending = s.pending
    BY <2>1 DEF Same, Fields
  <2>5. n.due = s.due /\ n.wl_end = s.wl_end /\ n.next_start = s.next_start
    BY <2>1 DEF Same, Fields
  <2> QED
    BY <2>2, <2>3, <2>4, <2>5, <1>1
<1>11. CASE n.tiles = 0
  <2>1. /\ DOMAIN t = Fields /\ Same(n, t, {"wl_fn", "cnt1"}) /\ t.wl_fn = TRUE /\ t.cnt1 = 0
    BY <1>5, <1>6, <1>11 DEF Same, Fields
  <2>2. CoreTypes(c, t)
    BY <2>1, <1>9, CoreFields DEF CoreTypes, Same, Fields
  <2>3. BuffersApart(t) /\ DrainJustified(t) /\ HasRoom(t) /\ Orderly(c, t) /\ Counting(t)
    BY <2>1, <1>8, <1>10
    DEF BuffersApart, DrainJustified, AllRequested, HasRoom, Orderly, Counting, Same, Fields
  <2> QED
    BY <2>2, <2>3 DEF Safe, t
<1>12. CASE n.tiles # 0 /\ n.rc = NoBuf
  <2>1. DOMAIN t = Fields /\ Same(n, t, {"pending"}) /\ t.pending = TRUE
    BY <1>5, <1>6, <1>12 DEF Same, Fields
  <2>2. CoreTypes(c, t)
    BY <2>1, <1>9, CoreFields DEF CoreTypes, Same, Fields
  <2>3. BuffersApart(t) /\ DrainJustified(t)
    BY <2>1, <1>8 DEF BuffersApart, DrainJustified, AllRequested, Same, Fields
  <2>4. HasRoom(t) /\ Orderly(c, t) /\ Counting(t)
    BY <2>1, <1>10, <1>12 DEF HasRoom, Orderly, Counting, Same, Fields
  <2> QED
    BY <2>2, <2>3, <2>4 DEF Safe, t
<1>13. CASE n.tiles # 0 /\ n.rc # NoBuf
  <2>1. DOMAIN t = Fields /\ Same(n, t, {"due"}) /\ t.due = NextTileTime(c, n)
    BY <1>5, <1>6, <1>13 DEF Same, Fields
  <2>2. CurWl(c, n) = CurWl(c, s)
    BY <1>10 DEF CurWl
  <2>3. t.due \in Nat
    BY <2>1, <2>2, <1>2, <1>7, NextTileTimeType
  <2>4. CoreTypes(c, t)
    BY <2>1, <2>3, <1>9, CoreFields DEF CoreTypes, Same, Fields
  <2>5. BuffersApart(t) /\ DrainJustified(t)
    BY <2>1, <1>8 DEF BuffersApart, DrainJustified, AllRequested, Same, Fields
  <2>6. HasRoom(t) /\ Orderly(c, t) /\ Counting(t)
    BY <2>1, <1>10, <1>13 DEF HasRoom, Orderly, Counting, Same, Fields
  <2> QED
    BY <2>4, <2>5, <2>6 DEF Safe, t
<1> QED
  BY <1>11, <1>12, <1>13

(* The computing phase (core.cpp:271).                                      *)
LEMMA ComputeSafe ==
  ASSUME NEW c \in Cores, NEW s, Safe(c, s), Ticked(s)
  PROVE  Safe(c, Compute(c, s)) /\ Counting(Compute(c, s))
<1> DEFINE t == Compute(c, s)
<1>0. DOMAIN s = Fields
  BY CoreFields DEF Safe, CoreTypes
<1>1. Counting(s)
  BY DEF Ticked, Counting, Safe, CoreTypes
<1>2. CASE s.running /\ ~s.wl_end /\ s.due = 0
  BY <1>2, TileDoneSafe DEF Compute
<1>3. CASE s.running /\ ~s.wl_end /\ s.due # 0 /\ s.pending /\ s.rc # NoBuf
  <2>1. /\ DOMAIN t = Fields /\ Same(s, t, {"pending", "due"})
        /\ t.pending = FALSE /\ t.due = NextTileTime(c, s)
    BY <1>0, <1>3 DEF Compute, Same, Fields
  <2> HIDE DEF t
  <2>2. ~s.wl_fn /\ s.cur \in 1 .. Len(Workloads[c])
    BY <1>3 DEF Safe, Orderly, CoreTypes
  <2>3. CurWl(c, s) \in Workload
    BY <2>2, JobType DEF CurWl
  <2>4. t.due \in Nat
    BY <2>1, <2>3, NextTileTimeType DEF Safe, CoreTypes
  <2>5. CoreTypes(c, t)
    BY <2>1, <2>4, CoreFields DEF Safe, CoreTypes, Same, Fields
  <2>6. BuffersApart(t) /\ DrainJustified(t) /\ HasRoom(t) /\ Orderly(c, t) /\ Counting(t)
    BY <2>1, <2>2, <1>3
    DEF Safe, BuffersApart, DrainJustified, AllRequested, HasRoom, Orderly, Counting, Same, Fields
  <2> QED
    BY <2>5, <2>6 DEF Safe, t
<1>4. CASE \/ ~s.running \/ s.wl_end
           \/ s.due # 0 /\ ~(s.pending /\ s.rc # NoBuf)
  <2>1. t = s
    BY <1>4 DEF Compute
  <2> QED
    BY <2>1, <1>1
<1> QED
  BY <1>2, <1>3, <1>4

(* _sd_gran stays positive.                                                 *)
LEMMA GranularityType ==
  ASSUME NEW g \in Nat \ {0}, NEW of \in Nat \ {0}
  PROVE  Granularity(g, of) \in Nat \ {0}
<1>1. (of - 1) \div PacketBytes \in Nat
  BY PlatformAssumption
<1> QED
  BY <1>1, CoreAssumption DEF Granularity

(* _buffer_update makes entries of _s_rq_list.                              *)
LEMMA RequestedType ==
  ASSUME NEW F \in SUBSET Fetches, NEW t \in Tids, NEW e \in EntryType
  PROVE  Requested(F, t, e) \in EntryType
<1> DEFINE G == {f \in F : f.tid = t}
           f == CHOOSE g \in G : TRUE
           new == IF e # NoEntry THEN e
                  ELSE [layers |-> {}, left |-> f.size, from |-> f.from,
                        ends |-> IF f.from = DRAM THEN DdrNum ELSE 1]
<1>1. CASE G = {}
  BY <1>1 DEF Requested
<1>2. CASE G # {}
  <2>1. f \in Fetches
    BY <1>2
  <2>2. {g.layer : g \in G} \subseteq Layers
    BY DEF Fetches
  <2>3. new \in EntryType
    BY <2>1, PlatformAssumption DEF EntryType, Fetches
  <2>4. [new EXCEPT !.layers = @ \cup {g.layer : g \in G}] \in EntryType
    <3> HIDE DEF new, G
    <3> QED
      BY <2>2, <2>3 DEF EntryType
  <2> QED
    BY <2>4, <1>2 DEF Requested
<1> QED
  BY <1>1, <1>2

(* _buffer_update makes requests.                                           *)
LEMMA BatchType ==
  ASSUME NEW F \in SUBSET Fetches, IsFiniteSet(F)
  PROVE  Batch(F) \in SUBSET RequestType
<1> DEFINE R(t) == [tid |-> t, num |-> Cardinality({f \in F : f.tid = t}),
                    from |-> (CHOOSE f \in F : f.tid = t).from]
<1>1. ASSUME NEW t \in {f.tid : f \in F}
      PROVE  R(t) \in RequestType
  <2>1. PICK g \in F : g.tid = t
    OBVIOUS
  <2>2. Cardinality({f \in F : f.tid = t}) \in Nat
    <3>1. {f \in F : f.tid = t} \in SUBSET F
      OBVIOUS
    <3>2. IsFiniteSet({f \in F : f.tid = t})
      BY <3>1, FS_Subset
    <3> QED
      BY <3>2, FS_CardinalityType
  <2>3. (CHOOSE f \in F : f.tid = t) \in Fetches /\ g \in Fetches
    BY <2>1
  <2> QED
    BY <2>1, <2>2, <2>3 DEF RequestType, Fetches
<1>2. Batch(F) = {R(t) : t \in {f.tid : f \in F}}
  BY DEF Batch
<1> HIDE DEF R
<1> QED
  BY <1>1, <1>2

(* What loading a workload leaves behind, field by field.                   *)
Loaded(c, s, w, u) ==
  LET early(t, d) == Smaller(Wanted(c, w, t, d), s.r_rq[t][d])
      outs == RemoteOuts(c, w)
      F == Missing(c, w, s.buffer)
  IN  /\ u.cur_rq = [t \in Tids |-> [d \in Cores |-> Wanted(c, w, t, d) - early(t, d)]]
      /\ u.r_rq = [t \in Tids |-> [d \in Cores |-> s.r_rq[t][d] - early(t, d)]]
      /\ u.send_list = [t \in Tids |-> IF \E o \in outs : o.tid = t
                                       THEN (CHOOSE o \in outs : o.tid = t).size
                                       ELSE s.send_list[t]]
      /\ u.gran = Granularity(s.gran, w.ofsize)
      /\ u.buffer = s.buffer \cup LocalData(c, w)
      /\ u.s_rq = [t \in Tids |-> Requested(F, t, s.s_rq[t])]
      /\ u.to_request = IF F = {} THEN s.to_request ELSE Append(s.to_request, Batch(F))
      /\ u.left_data = {t \in w.need : <<w.layer, t>> \notin u.buffer}
      /\ u.dataready = (u.left_data = {})

(* _update leaves a well-formed core (core.cpp:123).                        *)
LEMMA LoadWorkloadTypes ==
  ASSUME NEW c \in Cores, NEW s, NEW w \in Workload, IsFiniteSet(w.fetch), CoreTypes(c, s)
  PROVE  LET u == LoadWorkload(c, s, w)
         IN  /\ CoreTypes(c, u)
             /\ u.tiles = u.gran
             /\ Same(s, u, {"cur_rq", "r_rq", "send_list", "gran", "tiles", "buffer", "s_rq",
                            "to_request", "left_data", "dataready"})
             /\ Loaded(c, s, w, u)
<1> DEFINE u == LoadWorkload(c, s, w)
           wanted(t, d) == Wanted(c, w, t, d)
           early(t, d)  == Smaller(wanted(t, d), s.r_rq[t][d])
           F  == Missing(c, w, s.buffer)
           b  == s.buffer \cup LocalData(c, w)
           lost == {t \in w.need : <<w.layer, t>> \notin b}
           g  == Granularity(s.gran, w.ofsize)
           outs == RemoteOuts(c, w)
           cur_rq == [t \in Tids |-> [d \in Cores |-> wanted(t, d) - early(t, d)]]
           r_rq == [t \in Tids |-> [d \in Cores |-> s.r_rq[t][d] - early(t, d)]]
           send == [t \in Tids |-> IF \E o \in outs : o.tid = t
                                   THEN (CHOOSE o \in outs : o.tid = t).size ELSE s.send_list[t]]
           s_rq == [t \in Tids |-> Requested(F, t, s.s_rq[t])]
           rqs == IF F = {} THEN s.to_request ELSE Append(s.to_request, Batch(F))
<1>0. DOMAIN s = Fields
  BY CoreFields DEF CoreTypes
<1>1. /\ w.ofsize \in Nat \ {0} /\ w.layer \in Layers /\ w.need \in SUBSET Tids
      /\ w.fetch \in SUBSET Fetches
  BY DEF Workload
<1>2. u = [s EXCEPT !.cur_rq = cur_rq, !.r_rq = r_rq, !.send_list = send, !.gran = g, !.tiles = g,
                    !.buffer = b, !.s_rq = s_rq, !.to_request = rqs, !.left_data = lost,
                    !.dataready = (lost = {})]
  BY <1>0 DEF LoadWorkload, Fields
<1>3. cur_rq \in [Tids -> [Cores -> Int]] /\ r_rq \in [Tids -> [Cores -> Int]]
  <2>1. \A t \in Tids, d \in Cores : wanted(t, d) \in Int /\ s.r_rq[t][d] \in Int
    BY WantedType DEF CoreTypes
  <2> HIDE DEF wanted
  <2>2. \A t \in Tids, d \in Cores : early(t, d) \in Int
    BY <2>1 DEF Smaller
  <2> HIDE DEF early
  <2> QED
    BY <2>1, <2>2
<1>4. send \in [Tids -> Int]
  <2>1. outs \subseteq Outputs
    BY RemoteOutsType
  <2>2. s.send_list \in [Tids -> Int]
    BY DEF CoreTypes
  <2> HIDE DEF outs
  <2> QED
    BY <2>1, <2>2 DEF Outputs
<1>5. g \in Nat \ {0} /\ g \in 0 .. g
  <2>1. g \in Nat \ {0}
    BY <1>1, GranularityType DEF CoreTypes
  <2> HIDE DEF g
  <2> QED
    BY <2>1
<1>6. b \subseteq Layers \X Tids /\ lost \subseteq Tids
  <2>1. LocalData(c, w) \subseteq Layers \X Tids
    BY <1>1 DEF LocalData, Fetches
  <2> QED
    BY <2>1, <1>1 DEF CoreTypes
<1>7. F \in SUBSET Fetches /\ IsFiniteSet(F)
  <2>1. F \in SUBSET w.fetch
    BY DEF Missing
  <2> HIDE DEF F
  <2> QED
    BY <2>1, <1>1, FS_Subset
<1>8. s_rq \in [Tids -> EntryType]
  <2> HIDE DEF F
  <2> QED
    BY <1>7, RequestedType DEF CoreTypes
<1>9. rqs \in Seq(SUBSET RequestType)
  <2> HIDE DEF F
  <2>1. Batch(F) \in SUBSET RequestType
    BY <1>7, BatchType
  <2>2. s.to_request \in Seq(SUBSET RequestType)
    BY DEF CoreTypes
  <2> QED
    BY <2>1, <2>2, AppendProperties
<1> HIDE DEF cur_rq, r_rq, send, g, b, s_rq, rqs, lost, u
<1>10. /\ DOMAIN u = Fields
       /\ Same(s, u, {"cur_rq", "r_rq", "send_list", "gran", "tiles", "buffer", "s_rq",
                      "to_request", "left_data", "dataready"})
       /\ u.cur_rq = cur_rq /\ u.r_rq = r_rq /\ u.send_list = send /\ u.gran = g /\ u.tiles = g
       /\ u.buffer = b /\ u.s_rq = s_rq /\ u.to_request = rqs /\ u.left_data = lost
       /\ u.dataready = (lost = {})
  BY <1>0, <1>2 DEF Same, Fields
<1>11. u.dataready \in BOOLEAN
  BY <1>10
<1>12. CoreTypes(c, u)
  BY <1>3, <1>4, <1>5, <1>6, <1>8, <1>9, <1>10, <1>11, CoreFields DEF CoreTypes, Same, Fields
<1>13. Loaded(c, s, w, u)
  BY <1>10 DEF Loaded, cur_rq, r_rq, send, g, b, s_rq, rqs, lost
<1> QED
  BY <1>10, <1>12, <1>13 DEF u

(* What Advance may do: nothing, end the work, or load the next workload.    *)
Advanced(c, s, t) ==
  \/ t = s
  \/ /\ s.wl_fn /\ AllRequested(s) /\ ~s.wl_end /\ s.cnt1 = 0
     /\ t.cur = s.cur + 1 /\ t.next_start /\ ~t.running /\ t.cnt1 = 1
     /\ \/ /\ t.cur = Len(Workloads[c]) + 1 /\ t.wl_end
           /\ Same(s, t, {"cur", "next_start", "running", "cnt1", "wl_end"})
        \/ /\ t.cur \in 1 .. Len(Workloads[c]) /\ t.tiles = t.gran
           /\ Same(s, t, {"cur", "next_start", "running", "cnt1", "cur_rq", "r_rq", "send_list",
                          "gran", "tiles", "buffer", "s_rq", "to_request", "left_data",
                          "dataready"})
           /\ Loaded(c, s, Workloads[c][t.cur], t)

(* Going to the next workload (core.cpp:310).                               *)
LEMMA AdvanceSafe ==
  ASSUME NEW c \in Cores, NEW s, Safe(c, s), Counting(s)
  PROVE  /\ Safe(c, Advance(c, s)) /\ Counting(Advance(c, s)) /\ Advance(c, s).cur >= s.cur
         /\ Advanced(c, s, Advance(c, s))
<1> DEFINE n == [s EXCEPT !.cur = @ + 1, !.next_start = TRUE, !.running = FALSE, !.cnt1 = 1]
           t == Update(c, s)
<1>0. DOMAIN s = Fields
  BY CoreFields DEF Safe, CoreTypes
<1>1. CASE ~(s.wl_fn /\ AllRequested(s) /\ ~s.wl_end /\ s.cnt1 = 0)
  <2>1. s.cur \in Int
    BY DEF Safe, CoreTypes
  <2> QED
    BY <1>1, <2>1 DEF Advance, Advanced
<1>2. CASE s.wl_fn /\ AllRequested(s) /\ ~s.wl_end /\ s.cnt1 = 0
  <2>1. /\ DOMAIN n = Fields /\ Same(s, n, {"cur", "next_start", "running", "cnt1"})
        /\ n.cur = s.cur + 1 /\ n.next_start = TRUE /\ n.running = FALSE /\ n.cnt1 = 1
    BY <1>0 DEF Same, Fields
  <2>2. t = IF n.cur = Len(Workloads[c]) + 1 THEN [n EXCEPT !.wl_end = TRUE]
            ELSE LoadWorkload(c, n, Workloads[c][n.cur])
    BY DEF Update
  <2> HIDE DEF n, t
  <2>3. /\ s.cur \in Nat /\ Len(Workloads[c]) \in Nat /\ s.cur <= Len(Workloads[c])
        /\ n.cur \in 1 .. Len(Workloads[c]) + 1
    <3>1. Len(Workloads[c]) \in Nat
      BY WorkloadAssumption, LenProperties
    <3>2. s.cur \in Nat /\ s.cur <= Len(Workloads[c])
      BY <1>2, <3>1 DEF Safe, CoreTypes, Orderly
    <3> QED
      BY <3>1, <3>2, <2>1
  <2>4. CoreTypes(c, n)
    <3>1. s.obuf_wl \in [Obufs -> 0 .. n.cur]
      BY <2>1, <2>3 DEF Safe, CoreTypes
    <3>2. n.obuf_wl \in [Obufs -> 0 .. n.cur] /\ n.cur \in 0 .. Len(Workloads[c]) + 1
      BY <3>1, <2>1, <2>3 DEF Same, Fields
    <3> QED
      BY <3>2, <2>1, CoreFields DEF Safe, CoreTypes, Same, Fields
  <2>5. s.sd # NoBuf => s.obuf_wl[s.sd] < n.cur
    BY <2>1, <2>3 DEF Safe, CoreTypes
  <2>6. CASE n.cur = Len(Workloads[c]) + 1
    <3>1. DOMAIN t = Fields /\ Same(n, t, {"wl_end"}) /\ t.wl_end = TRUE
      BY <2>1, <2>2, <2>6 DEF Same, Fields
    <3>2. CoreTypes(c, t)
      BY <2>4, <3>1, CoreFields DEF CoreTypes, Same, Fields
    <3>3. BuffersApart(t) /\ DrainJustified(t)
      BY <2>1, <2>5, <3>1 DEF Safe, BuffersApart, DrainJustified, Same, Fields
    <3>4. HasRoom(t) /\ Orderly(c, t) /\ Counting(t)
      BY <1>2, <2>1, <2>3, <2>6, <3>1 DEF Safe, HasRoom, Orderly, Counting, Same, Fields
    <3>5. t = Advance(c, s)
      BY <1>2 DEF Advance, t
    <3>6. t.cur >= s.cur
      BY <2>1, <2>3, <3>1 DEF Same, Fields
    <3>7. Advanced(c, s, t)
      BY <1>2, <2>1, <2>6, <3>1 DEF Advanced, Same, Fields
    <3> QED
      BY <3>2, <3>3, <3>4, <3>5, <3>6, <3>7 DEF Safe
  <2>7. CASE n.cur # Len(Workloads[c]) + 1
    <3> DEFINE w == Workloads[c][n.cur]
    <3>1. n.cur \in 1 .. Len(Workloads[c])
      BY <2>3, <2>7
    <3>2. w \in Workload /\ IsFiniteSet(w.fetch)
      BY <3>1, JobType
    <3>3. t = LoadWorkload(c, n, w)
      BY <2>2, <2>7
    <3> HIDE DEF w
    <3>4. /\ CoreTypes(c, t)
          /\ t.tiles = t.gran
          /\ Same(n, t, {"cur_rq", "r_rq", "send_list", "gran", "tiles", "buffer", "s_rq",
                         "to_request", "left_data", "dataready"})
          /\ Loaded(c, n, w, t)
      BY <2>4, <3>2, <3>3, LoadWorkloadTypes
    <3>5. BuffersApart(t) /\ DrainJustified(t)
      BY <2>1, <2>5, <3>4 DEF Safe, BuffersApart, DrainJustified, Same, Fields
    <3>6. t.tiles >= 1
      BY <3>4 DEF CoreTypes
    <3>7. HasRoom(t) /\ Orderly(c, t) /\ Counting(t)
      BY <1>2, <2>1, <2>3, <3>1, <3>4, <3>6 DEF Safe, HasRoom, Orderly, Counting, Same, Fields
    <3>8. t = Advance(c, s)
      BY <1>2 DEF Advance, t
    <3>9. t.cur >= s.cur
      BY <2>1, <2>3, <3>4 DEF Same, Fields
    <3>10. Loaded(c, s, w, t)
      BY <2>1, <3>4 DEF Loaded, Same, Fields
    <3>11. t.cur = n.cur /\ t.next_start /\ ~t.running /\ t.cnt1 = 1
      BY <2>1, <3>4 DEF Same, Fields
    <3>12. Same(s, t, {"cur", "next_start", "running", "cnt1", "cur_rq", "r_rq", "send_list",
                       "gran", "tiles", "buffer", "s_rq", "to_request", "left_data",
                       "dataready"})
      BY <2>1, <3>4 DEF Same
    <3>13. Advanced(c, s, t)
      BY <1>2, <2>1, <3>1, <3>4, <3>10, <3>11, <3>12 DEF Advanced, w
    <3> QED
      BY <3>4, <3>5, <3>7, <3>8, <3>9, <3>13 DEF Safe
  <2> QED
    BY <2>6, <2>7
<1> QED
  BY <1>1, <1>2

(* Only Advance moves to another workload.                                 *)
LEMMA CurKept ==
  ASSUME NEW c, NEW s, DOMAIN s = Fields
  PROVE  /\ DOMAIN Tick(s) = Fields /\ Tick(s).cur = s.cur
         /\ DOMAIN Start(c, s) = Fields /\ Start(c, s).cur = s.cur
         /\ DOMAIN PickRc(s) = Fields /\ PickRc(s).cur = s.cur
         /\ DOMAIN PickSd(s) = Fields /\ PickSd(s).cur = s.cur
         /\ DOMAIN Compute(c, s) = Fields /\ Compute(c, s).cur = s.cur
<1>1. DOMAIN Tick(s) = Fields /\ Tick(s).cur = s.cur
  BY DEF Tick, Fields
<1>2. DOMAIN Start(c, s) = Fields /\ Start(c, s).cur = s.cur
  BY DEF Start, Fields
<1>3. DOMAIN PickRc(s) = Fields /\ PickRc(s).cur = s.cur
  BY DEF PickRc, Fields
<1>4. DOMAIN PickSd(s) = Fields /\ PickSd(s).cur = s.cur
  BY DEF PickSd, Fields
<1>5. DOMAIN TileDone(c, s) = Fields /\ TileDone(c, s).cur = s.cur
  <2> DEFINE w == WriteObuf(c, s)
             n == [w EXCEPT !.sd = NextSd(w), !.tiles = @ - 1]
  <2>1. DOMAIN w = Fields /\ w.cur = s.cur
    BY DEF WriteObuf, Fields
  <2>2. TileDone(c, s) = IF n.tiles = 0 THEN [n EXCEPT !.wl_fn = TRUE, !.cnt1 = 0]
                         ELSE IF n.rc = NoBuf THEN [n EXCEPT !.pending = TRUE]
                         ELSE [n EXCEPT !.due = NextTileTime(c, n)]
    BY DEF TileDone
  <2> HIDE DEF w
  <2>3. DOMAIN n = Fields /\ n.cur = s.cur
    BY <2>1 DEF Fields
  <2> HIDE DEF n
  <2> QED
    BY <2>2, <2>3 DEF Fields
<1>6. DOMAIN Compute(c, s) = Fields /\ Compute(c, s).cur = s.cur
  BY <1>5 DEF Compute, Fields
<1> QED
  BY <1>1, <1>2, <1>3, <1>4, <1>6

(* Everything before the network is looked at keeps the invariant.          *)
LEMMA WorkSafe ==
  ASSUME NEW c \in Cores, NEW s, Safe(c, s), Counting(s)
  PROVE  Safe(c, Work(c, s)) /\ Counting(Work(c, s)) /\ Work(c, s).cur >= s.cur
<1> DEFINE s1 == Tick(s)
           s2 == Start(c, s1)
           s3 == PickRc(s2)
           s4 == PickSd(s3)
           s5 == Compute(c, s4)
<1>0. DOMAIN s = Fields
  BY CoreFields DEF Safe, CoreTypes
<1>1. Safe(c, s1) /\ Ticked(s1) /\ DOMAIN s1 = Fields /\ s1.cur = s.cur
  BY <1>0, TickSafe, CurKept
<1> HIDE DEF s1
<1>2. Safe(c, s2) /\ Ticked(s2) /\ DOMAIN s2 = Fields /\ s2.cur = s.cur
  BY <1>1, StartSafe, CurKept
<1> HIDE DEF s2
<1>3. Safe(c, s3) /\ Ticked(s3) /\ DOMAIN s3 = Fields /\ s3.cur = s.cur
  BY <1>2, PickRcSafe, CurKept
<1> HIDE DEF s3
<1>4. Safe(c, s4) /\ Ticked(s4) /\ DOMAIN s4 = Fields /\ s4.cur = s.cur
  BY <1>3, PickSdSafe, CurKept
<1> HIDE DEF s4
<1>5. Safe(c, s5) /\ Counting(s5) /\ s5.cur = s.cur
  BY <1>4, ComputeSafe, CurKept
<1> HIDE DEF s5
<1>6. Safe(c, Advance(c, s5)) /\ Counting(Advance(c, s5)) /\ Advance(c, s5).cur >= s.cur
  BY <1>5, AdvanceSafe
<1> QED
  BY <1>6 DEF Work, s1, s2, s3, s4, s5

-----------------------------------------------------------------------------
(* Sending and receiving.                                                  *)

(* Sending a request (core.cpp:352).                                        *)
LEMMA RequestSentSafe ==
  ASSUME NEW c \in Cores, NEW s, Safe(c, s), Counting(s), s.to_request # << >>,
         NEW r \in Head(s.to_request)
  PROVE  /\ Safe(c, RequestSent(s, r)) /\ Counting(RequestSent(s, r))
         /\ RequestSent(s, r).cur = s.cur
<1> DEFINE q == s.to_request
           rest == Head(q) \ {r}
           rqs == IF rest = {} THEN Tail(q) ELSE <<rest>> \o Tail(q)
           t == RequestSent(s, r)
<1>0. DOMAIN s = Fields
  BY CoreFields DEF Safe, CoreTypes
<1>1. q \in Seq(SUBSET RequestType) /\ q # << >>
  BY DEF Safe, CoreTypes
<1>2. Head(q) \in SUBSET RequestType /\ Tail(q) \in Seq(SUBSET RequestType)
  <2> HIDE DEF q
  <2> QED
    BY <1>1, HeadTailProperties
<1>3. rqs \in Seq(SUBSET RequestType)
  <2>1. <<rest>> \in Seq(SUBSET RequestType)
    BY <1>2
  <2> HIDE DEF rest
  <2> QED
    BY <2>1, <1>2, ConcatProperties
<1>4. t = [s EXCEPT !.to_request = rqs]
  BY <1>0 DEF RequestSent, Fields
<1> HIDE DEF rqs, t
<1>5. DOMAIN t = Fields /\ Same(s, t, {"to_request"}) /\ t.to_request = rqs
  BY <1>0, <1>4 DEF Same, Fields
<1>6. CoreTypes(c, t)
  BY <1>3, <1>5, CoreFields DEF Safe, CoreTypes, Same, Fields
<1>7. BuffersApart(t) /\ DrainJustified(t) /\ HasRoom(t)
  BY <1>5 DEF Safe, BuffersApart, DrainJustified, AllRequested, HasRoom, Same, Fields
<1>8. Orderly(c, t) /\ Counting(t) /\ t.cur = s.cur
  BY <1>5 DEF Safe, Orderly, Counting, Same, Fields
<1> QED
  BY <1>6, <1>7, <1>8 DEF Safe, t

(* What Drain may assume of the buffer being drained.                      *)
LEMMA MiniTileInBuffer ==
  ASSUME NEW c \in Cores, NEW s, Safe(c, s), s.sd # NoBuf
  PROVE  /\ s.sd \in Obufs /\ s.obuf[s.sd] \in Seq(MiniTileType) /\ s.sd # s.rc
         /\ s.mini \in 1 .. Len(s.obuf[s.sd]) /\ Len(s.obuf[s.sd]) \in Nat \ {0}
         /\ MiniTile(s) \in MiniTileType /\ PacketSize(s) \in Int
<1>1. s.sd \in Obufs /\ s.obuf[s.sd] \in Seq(MiniTileType)
  BY DEF Safe, CoreTypes
<1>2. s.sd # s.rc /\ s.mini \in DOMAIN s.obuf[s.sd]
  BY DEF Safe, BuffersApart
<1>3. s.mini \in 1 .. Len(s.obuf[s.sd]) /\ Len(s.obuf[s.sd]) \in Nat
  BY <1>1, <1>2, LenProperties
<1>4. MiniTile(s) \in MiniTileType
  BY <1>1, <1>3, ElementOfSeq DEF MiniTile
<1>5. MiniTile(s).size \in Int
  BY <1>4 DEF MiniTileType
<1> QED
  BY <1>1, <1>2, <1>3, <1>4, <1>5, PlatformAssumption DEF PacketSize, Smaller

(* A packet leaves the mini tile in turn (core.cpp:671).                    *)
LEMMA DrainSafe ==
  ASSUME NEW c \in Cores, NEW s, Safe(c, s), s.sd # NoBuf
  PROVE  /\ Safe(c, Drain(s)) /\ Same(s, Drain(s), {"obuf", "mini", "rc", "sd"})
<1> DEFINE b == s.obuf[s.sd]
           left == MiniTile(s).size - PacketSize(s)
           tiles == RemoveAt(b, s.mini)
           t == Drain(s)
<1>0. DOMAIN s = Fields
  BY CoreFields DEF Safe, CoreTypes
<1>1. /\ s.sd \in Obufs /\ b \in Seq(MiniTileType) /\ s.sd # s.rc
      /\ s.mini \in 1 .. Len(b) /\ Len(b) \in Nat \ {0}
      /\ MiniTile(s) \in MiniTileType /\ PacketSize(s) \in Int
  BY MiniTileInBuffer
<1>2. left \in Int
  BY <1>1 DEF MiniTileType
<1>3. s.obuf \in [Obufs -> Seq(MiniTileType)] /\ s.rc \in Obufs \cup {NoBuf}
      /\ (s.rc # NoBuf => s.obuf[s.rc] = << >>)
  BY DEF Safe, CoreTypes, BuffersApart
<1>4. CASE left > 0
  <2> DEFINE e == [b[s.mini] EXCEPT !.size = left]
             bb == [b EXCEPT ![s.mini] = e]
  <2>1. e \in MiniTileType
    BY <1>1, <1>2 DEF MiniTile, MiniTileType
  <2>2. bb \in Seq(MiniTileType) /\ Len(bb) = Len(b)
    <3> HIDE DEF e, b
    <3> QED
      BY <2>1, <1>1, ExceptSeq
  <2>3. t = [s EXCEPT !.obuf = [s.obuf EXCEPT ![s.sd] = bb],
                      !.mini = IF s.mini < Len(b) THEN s.mini + 1 ELSE 1]
    BY <1>4, <1>0, <1>1, <1>3 DEF Drain, Fields
  <2> HIDE DEF t, bb, e, b
  <2>4. /\ DOMAIN t = Fields /\ Same(s, t, {"obuf", "mini"})
        /\ t.obuf = [s.obuf EXCEPT ![s.sd] = bb]
        /\ t.mini = IF s.mini < Len(b) THEN s.mini + 1 ELSE 1
    BY <2>3, <1>0 DEF Same, Fields
  <2>5. t.mini \in 1 .. Len(bb) /\ t.mini \in Nat \ {0}
    BY <2>2, <2>4, <1>1
  <2>6. t.obuf \in [Obufs -> Seq(MiniTileType)]
    BY <2>2, <2>4, <1>1, <1>3
  <2>7. CoreTypes(c, t)
    BY <2>4, <2>5, <2>6, CoreFields DEF Safe, CoreTypes, Same, Fields
  <2>8. t.obuf[s.sd] = bb /\ (s.rc # NoBuf => t.obuf[s.rc] = << >>)
    BY <2>4, <1>1, <1>3
  <2>9. DOMAIN bb = 1 .. Len(bb)
    BY <2>2, LenProperties
  <2>10. BuffersApart(t)
    BY <2>4, <2>5, <2>8, <2>9, <1>1 DEF Safe, BuffersApart, Same, Fields
  <2>11. s.cur # 0
    BY <1>1, <1>3, EmptySeq DEF Safe, Orderly, b
  <2>12. DrainJustified(t) /\ HasRoom(t) /\ Orderly(c, t)
    BY <2>4, <2>11 DEF Safe, DrainJustified, AllRequested, HasRoom, Orderly, Same, Fields
  <2>13. Same(s, t, {"obuf", "mini", "rc", "sd"})
    BY <2>4 DEF Same
  <2> QED
    BY <2>7, <2>10, <2>12, <2>13 DEF Safe, t
<1>5. CASE ~(left > 0)
  <2> DEFINE v == [s EXCEPT !.obuf[s.sd] = tiles,
                            !.mini = IF @ = Len(s.obuf[s.sd]) THEN 1 ELSE @,
                            !.rc = IF tiles = << >> /\ @ = NoBuf THEN s.sd ELSE @]
  <2>1. tiles \in Seq(MiniTileType) /\ Len(tiles) = Len(b) - 1
    <3>1. s.mini \in DOMAIN b
      BY <1>1, LenProperties
    <3> HIDE DEF b
    <3> QED
      BY <3>1, <1>1, RemoveAtType
  <2>2. t = IF tiles = << >> THEN [v EXCEPT !.sd = NextSd(v)] ELSE v
    BY <1>5 DEF Drain
  <2> HIDE DEF tiles, t
  <2>3. /\ DOMAIN v = Fields /\ Same(s, v, {"obuf", "mini", "rc"})
        /\ v.obuf = [s.obuf EXCEPT ![s.sd] = tiles]
        /\ v.mini = IF s.mini = Len(b) THEN 1 ELSE s.mini
        /\ v.rc = IF tiles = << >> /\ s.rc = NoBuf THEN s.sd ELSE s.rc
    BY <1>0 DEF Same, Fields
  <2> HIDE DEF v
  <2>4. v.obuf \in [Obufs -> Seq(MiniTileType)] /\ v.obuf[s.sd] = tiles
        /\ v.rc \in Obufs \cup {NoBuf} /\ (v.rc # NoBuf => v.obuf[v.rc] = << >>)
    BY <2>1, <2>3, <1>1, <1>3
  <2>5. v.mini \in Nat \ {0}
    BY <2>3, <1>1
  <2>6. CoreTypes(c, v)
    BY <2>3, <2>4, <2>5, CoreFields DEF Safe, CoreTypes, Same, Fields
  <2>7. s.cur # 0
    BY <1>1, <1>3, EmptySeq DEF Safe, Orderly
  <2>8. HasRoom(v) /\ Orderly(c, v)
    <3>1. s.rc # NoBuf => v.rc # NoBuf
      BY <2>3
    <3> QED
      BY <3>1, <2>3, <2>7 DEF Safe, HasRoom, Orderly, Same, Fields
  <2>9. CASE tiles # << >>
    <3>1. t = v /\ v.rc = s.rc
      BY <2>2, <2>3, <2>9
    <3>2. v.mini \in DOMAIN tiles
      BY <2>1, <2>3, <2>9, <1>1, LenProperties, EmptySeq
    <3>3. BuffersApart(v)
      BY <3>1, <3>2, <2>3, <2>4, <1>1 DEF Safe, BuffersApart, Same, Fields
    <3>4. DrainJustified(v)
      BY <2>3 DEF Safe, DrainJustified, AllRequested, Same, Fields
    <3>5. Same(s, v, {"obuf", "mini", "rc", "sd"})
      BY <2>3 DEF Same
    <3> QED
      BY <3>1, <3>3, <3>4, <3>5, <2>6, <2>8 DEF Safe, t
  <2>10. CASE tiles = << >>
    <3>1. /\ DOMAIN t = Fields /\ Same(v, t, {"sd"}) /\ t.sd = NextSd(v)
      BY <2>2, <2>3, <2>10 DEF Same, Fields
    <3>2. v.sd = s.sd /\ v.obuf[v.sd] = << >>
      BY <2>3, <2>4, <2>10 DEF Same, Fields
    <3>3. v.mini = 1
      <4>1. Len(tiles) = 0
        BY <2>10, EmptySeq
      <4> HIDE DEF b
      <4>2. Len(b) = 1
        BY <4>1, <2>1, <1>1
      <4>3. s.mini = 1
        BY <4>2, <1>1
      <4> QED
        BY <4>2, <4>3, <2>3
    <3>4. \/ t.sd = NoBuf
          \/ /\ t.sd \in Obufs /\ t.sd # v.rc /\ v.obuf[t.sd] # << >>
             /\ v.obuf_wl[t.sd] < v.cur \/ AllRequested(v)
      BY <3>1, <3>2, <2>6, NextSdType DEF CoreTypes
    <3>5. t.sd # NoBuf => 1 \in DOMAIN v.obuf[t.sd]
      BY <3>4, <2>4, LenProperties, EmptySeq
    <3>6. CoreTypes(c, t)
      BY <3>1, <3>4, <2>6, CoreFields DEF CoreTypes, Same, Fields
    <3>7. BuffersApart(t)
      BY <3>1, <3>3, <3>4, <3>5, <2>4 DEF BuffersApart, Same, Fields
    <3>8. DrainJustified(t)
      BY <3>1, <3>4 DEF DrainJustified, AllRequested, Same, Fields
    <3>9. HasRoom(t) /\ Orderly(c, t)
      BY <3>1, <2>8 DEF HasRoom, Orderly, Same, Fields
    <3>10. Same(s, t, {"obuf", "mini", "rc", "sd"})
      BY <3>1, <2>3 DEF Same
    <3> QED
      BY <3>6, <3>7, <3>8, <3>9, <3>10 DEF Safe, t
  <2> QED
    BY <2>9, <2>10
<1> QED
  BY <1>4, <1>5, <1>2

(* Sending a data packet (core.cpp:369).                                    *)
LEMMA DataSentSafe ==
  ASSUME NEW c \in Cores, NEW s, Safe(c, s), Counting(s), s.sd # NoBuf,
         NEW d \in DdrChoices(s, MiniTile(s).tid)
  PROVE  /\ Safe(c, DataSent(s, d)) /\ Counting(DataSent(s, d))
         /\ DataSent(s, d).cur = s.cur /\ d \in Ddrs
<1> DEFINE x == MiniTile(s).tid
           v == Drain(s)
           rel == IF IsEnd(s) THEN NoDdr ELSE IF ToDram(s) THEN d ELSE v.ddr_rel[x]
           n == [v EXCEPT !.send_list[x] = @ - PacketSize(s),
                          !.ddr_rel[x] = rel]
           t == DataSent(s, d)
<1>1. Safe(c, v) /\ Same(s, v, {"obuf", "mini", "rc", "sd"})
  BY DrainSafe
<1>2. x \in Tids /\ PacketSize(s) \in Int
  BY MiniTileInBuffer DEF MiniTileType
<1>3. d \in Ddrs
  <2>1. s.ddr_rel[x] \in Ddrs \cup {NoDdr}
    BY <1>2 DEF Safe, CoreTypes
  <2>2. \A e \in Ddrs : (e + 1) % DdrNum \in Ddrs
    BY PlatformAssumption DEF Ddrs
  <2> QED
    BY <2>1, <2>2 DEF DdrChoices
<1>4. DOMAIN v = Fields
  BY <1>1, CoreFields DEF Safe, CoreTypes
<1>5. t = IF n.wl_end /\ \A i \in Obufs : n.obuf[i] = << >>
          THEN [n EXCEPT !.overall_end = TRUE] ELSE n
  BY DEF DataSent
<1> HIDE DEF v, t, x
<1>6. v.send_list \in [Tids -> Int] /\ v.ddr_rel \in [Tids -> Ddrs \cup {NoDdr}]
  BY <1>1 DEF Safe, CoreTypes
<1>7. rel \in Ddrs \cup {NoDdr}
  BY <1>2, <1>3, <1>6
<1> HIDE DEF rel
<1>8. /\ DOMAIN n = Fields /\ Same(v, n, {"send_list", "ddr_rel"})
      /\ n.send_list = [v.send_list EXCEPT ![x] = @ - PacketSize(s)]
      /\ n.ddr_rel = [v.ddr_rel EXCEPT ![x] = rel]
  BY <1>4 DEF Same, Fields
<1> HIDE DEF n
<1>9. n.send_list \in [Tids -> Int] /\ n.ddr_rel \in [Tids -> Ddrs \cup {NoDdr}]
  BY <1>2, <1>6, <1>7, <1>8
<1>10. CoreTypes(c, n)
  BY <1>1, <1>8, <1>9, CoreFields DEF Safe, CoreTypes, Same, Fields
<1>11. /\ DOMAIN t = Fields /\ Same(n, t, {"overall_end"})
       /\ t.overall_end \in BOOLEAN
  BY <1>5, <1>8, <1>10 DEF Same, Fields, CoreTypes
<1>12. CoreTypes(c, t)
  BY <1>10, <1>11, CoreFields DEF CoreTypes, Same, Fields
<1>13. Same(v, t, {"send_list", "ddr_rel", "overall_end"})
  BY <1>8, <1>11 DEF Same
<1>14. BuffersApart(t) /\ DrainJustified(t)
  BY <1>1, <1>13 DEF Safe, BuffersApart, DrainJustified, AllRequested, Same, Fields
<1>15. HasRoom(t) /\ Orderly(c, t)
  BY <1>1, <1>13 DEF Safe, HasRoom, Orderly, Same, Fields
<1>16. Counting(t) /\ t.cur = s.cur
  BY <1>1, <1>13 DEF Counting, Same, Fields
<1> QED
  BY <1>3, <1>12, <1>14, <1>15, <1>16 DEF Safe, t

(* A request arrives (core.cpp:392).                                        *)
LEMMA RequestReceivedSafe ==
  ASSUME NEW c \in Cores, NEW s, Safe(c, s), Counting(s),
         NEW t \in Tids, NEW d \in Cores, NEW k \in Nat
  PROVE  /\ Safe(c, RequestReceived(s, t, d, k)) /\ Counting(RequestReceived(s, t, d, k))
         /\ RequestReceived(s, t, d, k).cur = s.cur
<1> DEFINE u == RequestReceived(s, t, d, k)
           none == \A e \in Cores : s.cur_rq[t][e] = 0
<1>0. DOMAIN s = Fields
  BY CoreFields DEF Safe, CoreTypes
<1>1. s.r_rq \in [Tids -> [Cores -> Int]] /\ s.cur_rq \in [Tids -> [Cores -> Int]]
  BY DEF Safe, CoreTypes
<1>2. CASE none
  <2> DEFINE R == [s.r_rq[t] EXCEPT ![d] = @ + k]
  <2>0. u = [s EXCEPT !.r_rq = [s.r_rq EXCEPT ![t] = R]]
    BY <1>0, <1>1, <1>2 DEF RequestReceived, Fields
  <2> HIDE DEF u
  <2>1. /\ DOMAIN u = Fields /\ Same(s, u, {"r_rq"})
        /\ u.r_rq = [s.r_rq EXCEPT ![t] = R]
    BY <1>0, <2>0 DEF Same, Fields
  <2>2. u.r_rq \in [Tids -> [Cores -> Int]]
    <3>1. s.r_rq[t] \in [Cores -> Int]
      BY <1>1
    <3>2. R \in [Cores -> Int]
      BY <3>1
    <3> HIDE DEF R
    <3> QED
      BY <1>1, <2>1, <3>2
  <2>3. CoreTypes(c, u)
    BY <2>1, <2>2, CoreFields DEF Safe, CoreTypes, Same, Fields
  <2>4. BuffersApart(u) /\ DrainJustified(u) /\ HasRoom(u)
    BY <2>1 DEF Safe, BuffersApart, DrainJustified, AllRequested, HasRoom, Same, Fields
  <2>5. Orderly(c, u) /\ Counting(u) /\ u.cur = s.cur
    BY <2>1 DEF Safe, Orderly, Counting, Same, Fields
  <2> QED
    BY <2>3, <2>4, <2>5 DEF Safe, u
<1>3. CASE ~none
  <2> DEFINE R == [s.cur_rq[t] EXCEPT ![d] = @ - k]
  <2>0. u = [s EXCEPT !.cur_rq = [s.cur_rq EXCEPT ![t] = R]]
    BY <1>0, <1>1, <1>3 DEF RequestReceived, Fields
  <2> HIDE DEF u
  <2>1. /\ DOMAIN u = Fields /\ Same(s, u, {"cur_rq"})
        /\ u.cur_rq = [s.cur_rq EXCEPT ![t] = R]
    BY <1>0, <2>0 DEF Same, Fields
  <2>2. u.cur_rq \in [Tids -> [Cores -> Int]]
    <3>1. s.cur_rq[t] \in [Cores -> Int]
      BY <1>1
    <3>2. R \in [Cores -> Int]
      BY <3>1
    <3> HIDE DEF R
    <3> QED
      BY <1>1, <2>1, <3>2
  <2>3. CoreTypes(c, u)
    BY <2>1, <2>2, CoreFields DEF Safe, CoreTypes, Same, Fields
  <2>4. ~AllRequested(s)
    BY <1>3 DEF AllRequested, NoRequests
  <2>5. BuffersApart(u) /\ DrainJustified(u) /\ HasRoom(u)
    BY <2>1, <2>4 DEF Safe, BuffersApart, DrainJustified, HasRoom, Same, Fields
  <2>6. Orderly(c, u) /\ Counting(u) /\ u.cur = s.cur
    BY <2>1 DEF Safe, Orderly, Counting, Same, Fields
  <2> QED
    BY <2>3, <2>5, <2>6 DEF Safe, u
<1> QED
  BY <1>2, <1>3

(* Data arrives (core.cpp:412).                                             *)
LEMMA DataReceivedSafe ==
  ASSUME NEW c \in Cores, NEW s, Safe(c, s), Counting(s),
         NEW t \in Tids, NEW size \in Int, NEW end \in BOOLEAN,
         s.cur = 0 => s.s_rq[t].left # size
  PROVE  /\ Safe(c, DataReceived(s, t, size, end)) /\ Counting(DataReceived(s, t, size, end))
         /\ DataReceived(s, t, size, end).cur = s.cur
<1> DEFINE e == [s.s_rq[t] EXCEPT !.left = @ - size, !.ends = IF end THEN @ - 1 ELSE @]
           lost == s.left_data \ {t}
           u == DataReceived(s, t, size, end)
           whole == [s EXCEPT !.s_rq[t] = NoEntry,
                              !.buffer = @ \cup {<<l, t>> : l \in e.layers},
                              !.left_data = lost, !.dataready = (lost = {})]
           part == [s EXCEPT !.s_rq[t] = e]
<1>0. DOMAIN s = Fields
  BY CoreFields DEF Safe, CoreTypes
<1>1. /\ s.s_rq \in [Tids -> EntryType] /\ s.buffer \subseteq Layers \X Tids
      /\ s.left_data \subseteq Tids
  BY DEF Safe, CoreTypes
<1>2. e \in EntryType
  <2> DEFINE x == s.s_rq[t]
             ends == IF end THEN x.ends - 1 ELSE x.ends
             left == x.left - size
  <2>1. x \in EntryType
    BY <1>1
  <2>2. ends \in Int /\ left \in Int
    BY <2>1 DEF EntryType
  <2>3. e = [x EXCEPT !.left = left, !.ends = ends]
    BY <2>1 DEF EntryType
  <2> HIDE DEF x, e, left, ends
  <2> QED
    BY <2>1, <2>2, <2>3 DEF EntryType
<1>3. NoEntry \in EntryType
  BY DEF NoEntry, EntryType
<1>4. u = IF e.left = 0 THEN whole ELSE part
  BY DEF DataReceived
<1>7. e.left = 0 => s.cur >= 1
  BY <1>1 DEF EntryType, Safe, CoreTypes
<1> HIDE DEF u
<1>5. CASE e.left = 0
  <2> DEFINE b == s.buffer \cup {<<l, t>> : l \in e.layers}
  <2>1. b \subseteq Layers \X Tids
    BY <1>1, <1>2 DEF EntryType
  <2> HIDE DEF e
  <2>2. /\ DOMAIN u = Fields /\ Same(s, u, {"s_rq", "buffer", "left_data", "dataready"})
        /\ u.s_rq = [s.s_rq EXCEPT ![t] = NoEntry] /\ u.buffer = b
        /\ u.left_data = lost /\ u.dataready = (lost = {})
    BY <1>0, <1>4, <1>5 DEF Same, Fields
  <2> HIDE DEF b
  <2>3. u.s_rq \in [Tids -> EntryType] /\ u.dataready \in BOOLEAN
    BY <1>1, <1>3, <2>2
  <2>4. CoreTypes(c, u)
    BY <1>1, <2>1, <2>2, <2>3, CoreFields DEF Safe, CoreTypes, Same, Fields
  <2>5. BuffersApart(u) /\ DrainJustified(u) /\ HasRoom(u)
    BY <2>2 DEF Safe, BuffersApart, DrainJustified, AllRequested, HasRoom, Same, Fields
  <2>6. Orderly(c, u) /\ Counting(u) /\ u.cur = s.cur
    BY <1>5, <1>7, <2>2 DEF Safe, Orderly, Counting, Same, Fields
  <2> QED
    BY <2>4, <2>5, <2>6 DEF Safe, u
<1>6. CASE e.left # 0
  <2> HIDE DEF e
  <2>1. /\ DOMAIN u = Fields /\ Same(s, u, {"s_rq"})
        /\ u.s_rq = [s.s_rq EXCEPT ![t] = e]
    BY <1>0, <1>4, <1>6 DEF Same, Fields
  <2>2. u.s_rq \in [Tids -> EntryType]
    BY <1>1, <1>2, <2>1
  <2>3. CoreTypes(c, u)
    BY <2>1, <2>2, CoreFields DEF Safe, CoreTypes, Same, Fields
  <2>4. BuffersApart(u) /\ DrainJustified(u) /\ HasRoom(u)
    BY <2>1 DEF Safe, BuffersApart, DrainJustified, AllRequested, HasRoom, Same, Fields
  <2>5. Orderly(c, u) /\ Counting(u) /\ u.cur = s.cur
    BY <2>1 DEF Safe, Orderly, Counting, Same, Fields
  <2> QED
    BY <2>3, <2>4, <2>5 DEF Safe, u
<1> QED
  BY <1>5, <1>6

-----------------------------------------------------------------------------
(* The data of a core: a workload that runs has all its inputs.              *)

(* Whatever a transfer was announced for is in the buffer or on its way,     *)
(* recorded in the entry of the transfer.                                  *)
Comes(s, f) == <<f.layer, f.tid>> \in s.buffer \/ f.layer \in s.s_rq[f.tid].layers
Has(s, w, t) == <<w.layer, t>> \in s.buffer

(* _left_data holds every missing input, so that a core without left data    *)
(* has them all.                                                           *)
Fed(c, s) ==
  /\ \A n \in 1 .. Len(Workloads[c]) : n <= s.cur =>
       \A f \in Workloads[c][n].fetch : Comes(s, f)
  /\ s.dataready => s.left_data = {}
  /\ s.cur \in 1 .. Len(Workloads[c]) =>
       \A t \in CurWl(c, s).need : Has(s, CurWl(c, s), t) \/ t \in s.left_data
  /\ ~s.wl_fn => ~s.wl_end /\ \A t \in CurWl(c, s).need : Has(s, CurWl(c, s), t)

(* What Fed depends on; every phase but Start and Advance leaves it alone,    *)
(* or marks the workload as finished.                                      *)
FedFields == {"cur", "wl_end", "dataready", "left_data", "buffer", "s_rq"}

(* A phase that leaves these fields alone keeps a core fed.                  *)
LEMMA FedKept ==
  ASSUME NEW c, NEW s, Fed(c, s), NEW t,
         Same(s, t, Fields \ FedFields), ~t.wl_fn => ~s.wl_fn
  PROVE  Fed(c, t)
<1>1. /\ t.cur = s.cur /\ t.wl_end = s.wl_end /\ t.dataready = s.dataready
      /\ t.left_data = s.left_data /\ t.buffer = s.buffer /\ t.s_rq = s.s_rq
  BY DEF Same, Fields, FedFields
<1>2. CurWl(c, t) = CurWl(c, s)
  BY <1>1 DEF CurWl
<1> QED
  BY <1>1, <1>2 DEF Fed, Comes, Has

(* Time and the choice of buffers do not matter to it.                      *)
LEMMA FedPicks ==
  ASSUME NEW c, NEW s, DOMAIN s = Fields, Fed(c, s)
  PROVE  Fed(c, Tick(s)) /\ Fed(c, PickRc(s)) /\ Fed(c, PickSd(s))
<1>1. Same(s, Tick(s), Fields \ FedFields) /\ Tick(s).wl_fn = s.wl_fn
  BY DEF Tick, Same, Fields, FedFields
<1>2. Same(s, PickRc(s), Fields \ FedFields) /\ PickRc(s).wl_fn = s.wl_fn
  BY DEF PickRc, Same, Fields, FedFields
<1>3. Same(s, PickSd(s), Fields \ FedFields) /\ PickSd(s).wl_fn = s.wl_fn
  BY DEF PickSd, Same, Fields, FedFields
<1> QED
  BY <1>1, <1>2, <1>3, FedKept

(* A core starts when nothing is missing (core.cpp:250).                     *)
LEMMA FedStart ==
  ASSUME NEW c \in Cores, NEW s, Safe(c, s), Fed(c, s)
  PROVE  Fed(c, Start(c, s))
<1> DEFINE Go == s.wl_fn /\ s.next_start /\ s.dataready /\ s.rc # NoBuf /\ ~s.wl_end
           t == Start(c, s)
<1>1. CASE ~Go
  BY <1>1 DEF Start
<1>2. CASE Go
  <2>0. DOMAIN s = Fields
    BY CoreFields DEF Safe, CoreTypes
  <2>1. /\ t.cur = s.cur /\ t.wl_end = s.wl_end /\ t.dataready = FALSE
        /\ t.left_data = s.left_data /\ t.buffer = s.buffer /\ t.s_rq = s.s_rq
    BY <1>2, <2>0 DEF Start, Fields
  <2>2. s.cur \in 1 .. Len(Workloads[c])
    BY <1>2 DEF Safe, CoreTypes, Orderly
  <2> HIDE DEF t
  <2>3. CurWl(c, t) = CurWl(c, s)
    BY <2>1 DEF CurWl
  <2>4. \A u \in CurWl(c, s).need : Has(s, CurWl(c, s), u)
    BY <1>2, <2>2 DEF Fed
  <2> QED
    BY <1>2, <2>1, <2>3, <2>4 DEF Fed, Comes, Has, t
<1> QED
  BY <1>1, <1>2

(* Computing does not start a workload.                                     *)
LEMMA FedCompute ==
  ASSUME NEW c, NEW s, DOMAIN s = Fields, Fed(c, s)
  PROVE  Fed(c, Compute(c, s))
<1>1. /\ Same(s, TileDone(c, s), Fields \ FedFields)
      /\ TileDone(c, s).wl_fn = s.wl_fn \/ TileDone(c, s).wl_fn
  <2> DEFINE w == WriteObuf(c, s)
             n == [w EXCEPT !.sd = NextSd(w), !.tiles = @ - 1]
  <2>1. DOMAIN w = Fields /\ Same(s, w, Fields \ FedFields) /\ w.wl_fn = s.wl_fn
    BY DEF WriteObuf, Same, Fields, FedFields
  <2>2. TileDone(c, s) = IF n.tiles = 0 THEN [n EXCEPT !.wl_fn = TRUE, !.cnt1 = 0]
                         ELSE IF n.rc = NoBuf THEN [n EXCEPT !.pending = TRUE]
                         ELSE [n EXCEPT !.due = NextTileTime(c, n)]
    BY DEF TileDone
  <2> HIDE DEF w
  <2>3. DOMAIN n = Fields /\ Same(s, n, Fields \ FedFields) /\ n.wl_fn = s.wl_fn
    BY <2>1 DEF Same, Fields, FedFields
  <2> HIDE DEF n
  <2> QED
    BY <2>2, <2>3 DEF Same, Fields, FedFields
<1>2. /\ Same(s, Compute(c, s), Fields \ FedFields)
      /\ Compute(c, s).wl_fn = s.wl_fn \/ Compute(c, s).wl_fn
  BY <1>1 DEF Compute, Same, Fields, FedFields
<1> QED
  BY <1>2, FedKept

(* An entry of _s_rq_list only gains layers, those of the new fetches among   *)
(* them.                                                                   *)
LEMMA RequestedLayers ==
  ASSUME NEW F \in SUBSET Fetches, NEW t, NEW e \in EntryType
  PROVE  /\ e.layers \subseteq Requested(F, t, e).layers
         /\ \A f \in F : f.tid = t => f.layer \in Requested(F, t, e).layers
<1> DEFINE G == {f \in F : f.tid = t}
           f == CHOOSE f \in G : TRUE
           new == IF e # NoEntry THEN e
                  ELSE [layers |-> {}, left |-> f.size, from |-> f.from,
                        ends |-> IF f.from = DRAM THEN DdrNum ELSE 1]
           r == [new EXCEPT !.layers = @ \cup {g.layer : g \in G}]
<1>1. Requested(F, t, e) = IF G = {} THEN e ELSE r
  BY DEF Requested
<1>2. "layers" \in DOMAIN new /\ e.layers \subseteq new.layers
  BY DEF EntryType, NoEntry
<1>3. r.layers = new.layers \cup {g.layer : g \in G}
  <2> HIDE DEF new, G
  <2> QED
    BY <1>2
<1> HIDE DEF r, new
<1>4. \A g \in F : g.tid = t => g \in G
  OBVIOUS
<1> QED
  BY <1>1, <1>2, <1>3, <1>4

(* Loading a workload asks for what it lacks (core.cpp:467, 517).             *)
LEMMA FedAdvance ==
  ASSUME NEW c \in Cores, NEW s, Safe(c, s), Fed(c, s), NEW t, Safe(c, t), Advanced(c, s, t)
  PROVE  Fed(c, t)
<1>1. CASE t = s
  BY <1>1
<1>2. CASE /\ s.wl_fn /\ t.cur = s.cur + 1 /\ t.cur = Len(Workloads[c]) + 1 /\ t.wl_end
           /\ Same(s, t, {"cur", "next_start", "running", "cnt1", "wl_end"})
  <2>1. /\ t.wl_fn = s.wl_fn /\ t.dataready = s.dataready
        /\ t.left_data = s.left_data /\ t.buffer = s.buffer /\ t.s_rq = s.s_rq
    BY <1>2 DEF Same, Fields
  <2>2. Len(Workloads[c]) \in Nat /\ s.cur \in Int
    BY WorkloadAssumption, LenProperties DEF Safe, CoreTypes
  <2>3. t.cur \notin 1 .. Len(Workloads[c]) /\ s.cur = Len(Workloads[c])
    BY <1>2, <2>2
  <2>4. \A n \in 1 .. Len(Workloads[c]) : \A f \in Workloads[c][n].fetch : Comes(t, f)
    <3>1. \A n \in 1 .. Len(Workloads[c]) : n <= s.cur
      BY <2>2, <2>3
    <3>2. \A n \in 1 .. Len(Workloads[c]) : \A f \in Workloads[c][n].fetch : Comes(s, f)
      BY <3>1 DEF Fed
    <3> QED
      BY <2>1, <3>2 DEF Comes
  <2> QED
    BY <1>2, <2>1, <2>3, <2>4 DEF Fed
<1>3. CASE /\ s.wl_fn /\ t.cur = s.cur + 1 /\ t.cur \in 1 .. Len(Workloads[c])
           /\ Same(s, t, {"cur", "next_start", "running", "cnt1", "cur_rq", "r_rq", "send_list",
                          "gran", "tiles", "buffer", "s_rq", "to_request", "left_data",
                          "dataready"})
           /\ Loaded(c, s, Workloads[c][t.cur], t)
  <2> DEFINE w == Workloads[c][t.cur]
             F == Missing(c, w, s.buffer)
  <2>1. t.wl_fn = s.wl_fn
    BY <1>3 DEF Same, Fields
  <2>2. /\ t.buffer = s.buffer \cup LocalData(c, w)
        /\ t.s_rq = [u \in Tids |-> Requested(F, u, s.s_rq[u])]
        /\ t.left_data = {u \in w.need : <<w.layer, u>> \notin t.buffer}
        /\ t.dataready = (t.left_data = {})
    BY <1>3 DEF Loaded
  <2>3. w \in Workload /\ w.fetch \subseteq Fetches
    BY <1>3, JobType DEF Workload
  <2>4. F \subseteq Fetches /\ \A f \in w.fetch : <<f.layer, f.tid>> \in t.buffer \/ f \in F
    BY <2>2, <2>3 DEF Missing
  <2>5. \A u \in Tids : s.s_rq[u] \in EntryType
    BY DEF Safe, CoreTypes
  <2> HIDE DEF w, F
  <2>6. \A f \in w.fetch : Comes(t, f)
    <3> TAKE f \in w.fetch
    <3>1. f.tid \in Tids
      BY <2>3 DEF Fetches
    <3>2. f \in F => f.layer \in Requested(F, f.tid, s.s_rq[f.tid]).layers
      BY <2>4, <2>5, <3>1, RequestedLayers
    <3> QED
      BY <2>2, <2>4, <3>1, <3>2 DEF Comes
  <2>7. ASSUME NEW n \in 1 .. Len(Workloads[c]), n <= t.cur, NEW f \in Workloads[c][n].fetch
        PROVE  Comes(t, f)
    <3>1. CASE n = t.cur
      BY <2>6, <2>7, <3>1 DEF w
    <3>2. CASE n # t.cur
      <4>1. n <= s.cur
        BY <1>3, <2>7, <3>2 DEF Safe, CoreTypes
      <4>2. Comes(s, f)
        BY <2>7, <4>1 DEF Fed
      <4>3. f.tid \in Tids
        BY <2>7, JobType DEF Workload, Fetches
      <4>4. s.s_rq[f.tid].layers \subseteq t.s_rq[f.tid].layers
        <5>1. s.s_rq[f.tid].layers \subseteq Requested(F, f.tid, s.s_rq[f.tid]).layers
          BY <2>4, <2>5, <4>3, RequestedLayers
        <5> QED
          BY <2>2, <4>3, <5>1
      <4> QED
        BY <2>2, <4>2, <4>4 DEF Comes
    <3> QED
      BY <3>1, <3>2
  <2>8. CurWl(c, t) = w
    BY DEF CurWl, w
  <2>9. \A u \in w.need : Has(t, w, u) \/ u \in t.left_data
    BY <2>2 DEF Has
  <2> QED
    BY <1>3, <2>1, <2>2, <2>7, <2>8, <2>9 DEF Fed
<1> QED
  BY <1>1, <1>2, <1>3 DEF Advanced

(* The part of run before the network is looked at.                         *)
LEMMA FedWork ==
  ASSUME NEW c \in Cores, NEW s, Safe(c, s), Counting(s), Fed(c, s)
  PROVE  Fed(c, Work(c, s))
<1> DEFINE s1 == Tick(s)
           s2 == Start(c, s1)
           s3 == PickRc(s2)
           s4 == PickSd(s3)
           s5 == Compute(c, s4)
<1>0. DOMAIN s = Fields
  BY CoreFields DEF Safe, CoreTypes
<1>1. Safe(c, s1) /\ Ticked(s1) /\ DOMAIN s1 = Fields /\ Fed(c, s1)
  BY <1>0, TickSafe, CurKept, FedPicks
<1> HIDE DEF s1
<1>2. Safe(c, s2) /\ Ticked(s2) /\ DOMAIN s2 = Fields /\ Fed(c, s2)
  BY <1>1, StartSafe, CurKept, FedStart
<1> HIDE DEF s2
<1>3. Safe(c, s3) /\ Ticked(s3) /\ DOMAIN s3 = Fields /\ Fed(c, s3)
  BY <1>2, PickRcSafe, CurKept, FedPicks
<1> HIDE DEF s3
<1>4. Safe(c, s4) /\ Ticked(s4) /\ DOMAIN s4 = Fields /\ Fed(c, s4)
  BY <1>3, PickSdSafe, CurKept, FedPicks
<1> HIDE DEF s4
<1>5. Safe(c, s5) /\ Counting(s5) /\ Fed(c, s5)
  BY <1>4, ComputeSafe, FedCompute
<1> HIDE DEF s5
<1>6. Fed(c, Advance(c, s5))
  BY <1>5, AdvanceSafe, FedAdvance
<1> QED
  BY <1>6 DEF Work, s1, s2, s3, s4, s5

(* Sending takes nothing out of the buffer (core.cpp:352, 369).              *)
LEMMA FedSending ==
  ASSUME NEW c \in Cores, NEW s, Safe(c, s), Fed(c, s)
  PROVE  /\ \A r : Fed(c, RequestSent(s, r))
         /\ s.sd # NoBuf => \A d : Fed(c, DataSent(s, d))
<1>0. DOMAIN s = Fields
  BY CoreFields DEF Safe, CoreTypes
<1>1. ASSUME NEW r
      PROVE  Fed(c, RequestSent(s, r))
  <2>1. /\ Same(s, RequestSent(s, r), Fields \ FedFields) /\ RequestSent(s, r).wl_fn = s.wl_fn
    BY <1>0 DEF RequestSent, Same, Fields, FedFields
  <2> QED
    BY <2>1, FedKept
<1>2. ASSUME s.sd # NoBuf, NEW d
      PROVE  Fed(c, DataSent(s, d))
  <2> DEFINE x == MiniTile(s).tid
             v == Drain(s)
             n == [v EXCEPT !.send_list[x] = @ - PacketSize(s),
                            !.ddr_rel[x] = IF IsEnd(s) THEN NoDdr ELSE IF ToDram(s) THEN d ELSE @]
             t == DataSent(s, d)
  <2>1. Safe(c, v) /\ Same(s, v, {"obuf", "mini", "rc", "sd"})
    BY <1>2, DrainSafe
  <2>2. DOMAIN v = Fields
    BY <2>1, CoreFields DEF Safe, CoreTypes
  <2>3. t = IF n.wl_end /\ \A i \in Obufs : n.obuf[i] = << >>
            THEN [n EXCEPT !.overall_end = TRUE] ELSE n
    BY DEF DataSent
  <2> HIDE DEF v, t, x
  <2>4. DOMAIN n = Fields /\ Same(v, n, {"send_list", "ddr_rel"})
    BY <2>2 DEF Same, Fields
  <2> HIDE DEF n
  <2>5. Same(n, t, {"overall_end"})
    BY <2>3, <2>4 DEF Same, Fields
  <2>6. Same(s, t, Fields \ FedFields) /\ t.wl_fn = s.wl_fn
    BY <2>1, <2>4, <2>5 DEF Same, Fields, FedFields
  <2> QED
    BY <2>6, FedKept DEF t
<1> QED
  BY <1>1, <1>2

(* Requests have nothing to do with the inputs (core.cpp:392).                *)
LEMMA FedRequest ==
  ASSUME NEW c \in Cores, NEW s, Safe(c, s), Fed(c, s), NEW t, NEW d, NEW k
  PROVE  Fed(c, RequestReceived(s, t, d, k))
<1>0. DOMAIN s = Fields
  BY CoreFields DEF Safe, CoreTypes
<1>1. /\ Same(s, RequestReceived(s, t, d, k), Fields \ FedFields)
      /\ RequestReceived(s, t, d, k).wl_fn = s.wl_fn
  BY <1>0 DEF RequestReceived, Same, Fields, FedFields
<1> QED
  BY <1>1, FedKept

(* A transfer that is complete is there for every layer that was recorded    *)
(* for it, so it may be struck off _left_data by its id (core.cpp:412).      *)
LEMMA FedData ==
  ASSUME NEW c \in Cores, NEW s, Safe(c, s), Fed(c, s),
         NEW t \in Tids, NEW size \in Int, NEW end \in BOOLEAN
  PROVE  Fed(c, DataReceived(s, t, size, end))
<1> DEFINE e == [s.s_rq[t] EXCEPT !.left = @ - size, !.ends = IF end THEN @ - 1 ELSE @]
           lost == s.left_data \ {t}
           u == DataReceived(s, t, size, end)
<1>0. DOMAIN s = Fields
  BY CoreFields DEF Safe, CoreTypes
<1>1. e.layers = s.s_rq[t].layers /\ s.s_rq \in [Tids -> EntryType]
  BY DEF Safe, CoreTypes, EntryType
<1> HIDE DEF e
<1>2. CASE e.left = 0
  <2>1. /\ u.cur = s.cur /\ u.wl_end = s.wl_end /\ u.wl_fn = s.wl_fn
        /\ u.s_rq = [s.s_rq EXCEPT ![t] = NoEntry]
        /\ u.buffer = s.buffer \cup {<<l, t>> : l \in e.layers}
        /\ u.left_data = lost /\ u.dataready = (lost = {})
    BY <1>0, <1>2 DEF DataReceived, Fields, e
  <2> HIDE DEF u
  <2>2. ASSUME NEW n \in 1 .. Len(Workloads[c]), n <= s.cur, NEW f \in Workloads[c][n].fetch
        PROVE  Comes(u, f) /\ (f.tid = t => <<f.layer, f.tid>> \in u.buffer)
    <3>1. Comes(s, f)
      BY <2>2 DEF Fed
    <3>2. CASE f.tid = t
      BY <1>1, <2>1, <3>1, <3>2 DEF Comes
    <3>3. CASE f.tid # t
      BY <1>1, <2>1, <3>1, <3>3 DEF Comes
    <3> QED
      BY <3>2, <3>3
  <2>3. CurWl(c, u) = CurWl(c, s)
    BY <2>1 DEF CurWl
  <2>4. ASSUME s.cur \in 1 .. Len(Workloads[c]), NEW x \in CurWl(c, s).need
        PROVE  Has(u, CurWl(c, s), x) \/ x \in u.left_data
    <3>1. CASE x = t
      <4>1. s.cur \in DOMAIN Workloads[c]
        BY <2>4, WorkloadAssumption, LenProperties
      <4>2. PICK m \in 1 .. s.cur : \E f \in Workloads[c][m].fetch :
                f.tid = x /\ f.layer = CurWl(c, s).layer
        BY <2>4, <4>1, FetchAssumption DEF CurWl
      <4>3. PICK f \in Workloads[c][m].fetch : f.tid = x /\ f.layer = CurWl(c, s).layer
        BY <4>2
      <4>4. m \in 1 .. Len(Workloads[c]) /\ m <= s.cur
        BY <2>4
      <4> QED
        BY <2>2, <3>1, <4>3, <4>4 DEF Has
    <3>2. CASE x # t
      BY <2>1, <2>4, <3>2 DEF Fed, Has
    <3> QED
      BY <3>1, <3>2
  <2>5. ~u.wl_fn => ~u.wl_end /\ \A x \in CurWl(c, u).need : Has(u, CurWl(c, u), x)
    BY <2>1, <2>3 DEF Fed, Has
  <2>6. /\ \A n \in 1 .. Len(Workloads[c]) : n <= u.cur =>
             \A f \in Workloads[c][n].fetch : Comes(u, f)
        /\ u.dataready => u.left_data = {}
    BY <2>1, <2>2
  <2> QED
    BY <2>1, <2>3, <2>4, <2>5, <2>6 DEF Fed, u
<1>3. CASE e.left # 0
  <2>1. /\ u.cur = s.cur /\ u.wl_end = s.wl_end /\ u.wl_fn = s.wl_fn
        /\ u.s_rq = [s.s_rq EXCEPT ![t] = e] /\ u.buffer = s.buffer
        /\ u.left_data = s.left_data /\ u.dataready = s.dataready
    BY <1>0, <1>3 DEF DataReceived, Fields, e
  <2> HIDE DEF u
  <2>2. \A x \in Tids : u.s_rq[x].layers = s.s_rq[x].layers
    BY <1>1, <2>1
  <2>3. CurWl(c, u) = CurWl(c, s)
    BY <2>1 DEF CurWl
  <2>4. ASSUME NEW n \in 1 .. Len(Workloads[c]), n <= s.cur, NEW f \in Workloads[c][n].fetch
        PROVE  Comes(u, f)
    <3>1. f.tid \in Tids
      BY <2>4, JobType DEF Workload, Fetches
    <3> QED
      BY <2>1, <2>2, <2>4, <3>1 DEF Fed, Comes
  <2>5. /\ u.dataready => u.left_data = {}
        /\ u.cur \in 1 .. Len(Workloads[c]) =>
             \A x \in CurWl(c, u).need : Has(u, CurWl(c, u), x) \/ x \in u.left_data
        /\ ~u.wl_fn => ~u.wl_end /\ \A x \in CurWl(c, u).need : Has(u, CurWl(c, u), x)
    BY <2>1, <2>3 DEF Fed, Has
  <2> QED
    BY <2>1, <2>4, <2>5 DEF Fed, u
<1> QED
  BY <1>2, <1>3

-----------------------------------------------------------------------------
(* What a core holds of its outputs: nothing of them is lost.                *)

IsOut(c, n, t) == \E i \in DOMAIN Workloads[c][n].outs : Workloads[c][n].outs[i].tid = t
IsRemote(c, n, t) == \E o \in RemoteOuts(c, Workloads[c][n]) : o.tid = t

(* The mini tiles in the buffers are pieces of outputs of their workload.    *)
Pieces(c, s) ==
  \A i \in Obufs : \A k \in DOMAIN s.obuf[i] :
     /\ s.obuf[i][k].size >= 1
     /\ s.obuf_wl[i] \in DOMAIN Workloads[c]
     /\ IsRemote(c, s.obuf_wl[i], s.obuf[i][k].tid)
Progress(c, s) ==
  /\ s.cnt1 = 0 => s.tiles = 0
  /\ s.tiles # 0 => s.cur \in DOMAIN Workloads[c]
  /\ s.gran <= Gran0 \/ s.gran <= GranLB
Held(c, s) == \A t \in Tids : s.send_list[t] = Buffered(s, t) + Uncomputed(c, s, t)
Stock(c, s) == Pieces(c, s) /\ Progress(c, s) /\ Held(c, s)

(* The workloads of a core.                                                *)
LEMMA WorkloadsType ==
  ASSUME NEW c \in Cores
  PROVE  /\ Workloads[c] \in Seq(Workload) /\ Len(Workloads[c]) \in Nat
         /\ DOMAIN Workloads[c] = 1 .. Len(Workloads[c]) /\ IsFiniteSet(DOMAIN Workloads[c])
         /\ \A n \in DOMAIN Workloads[c] : Workloads[c][n] \in Workload
<1>1. Workloads[c] \in Seq(Workload)
  BY WorkloadAssumption
<1>2. Len(Workloads[c]) \in Nat /\ DOMAIN Workloads[c] = 1 .. Len(Workloads[c])
  BY <1>1, LenProperties
<1>3. IsFiniteSet(1 .. Len(Workloads[c]))
  BY <1>2, FS_Interval
<1>4. \A n \in DOMAIN Workloads[c] : Workloads[c][n] \in Workload
  BY <1>1, <1>2, ElementOfSeq
<1> QED
  BY <1>1, <1>2, <1>3, <1>4

(* Two workloads with the same output are the same.                         *)
LEMMA OneJob ==
  ASSUME NEW c \in Cores, OutputsOwn(c),
         NEW m \in DOMAIN Workloads[c], NEW n \in DOMAIN Workloads[c], NEW t, IsOut(c, m, t), IsOut(c, n, t)
  PROVE  m = n
<1>1. PICK i \in DOMAIN Workloads[c][m].outs : Workloads[c][m].outs[i].tid = t
  BY DEF IsOut
<1>2. PICK j \in DOMAIN Workloads[c][n].outs : Workloads[c][n].outs[j].tid = t
  BY DEF IsOut
<1> QED
  BY <1>1, <1>2 DEF OutputsOwn

(* An output that is sent is an output.                                     *)
LEMMA RemoteIsOut ==
  ASSUME NEW c \in Cores,
         NEW n, NEW t, IsRemote(c, n, t)
  PROVE  IsOut(c, n, t)
  BY DEF IsRemote, IsOut, RemoteOuts

(* The outputs that are sent are told apart by their ids, and no smaller than *)
(* the number of tiles.                                                    *)
LEMMA RemoteOut ==
  ASSUME NEW c \in Cores, OutputsOwn(c),
         NEW n \in DOMAIN Workloads[c], NEW o \in RemoteOuts(c, Workloads[c][n])
  PROVE  /\ o \in Outputs /\ o.size >= Gran0 /\ o.size >= GranLB /\ IsRemote(c, n, o.tid)
         /\ \A p \in RemoteOuts(c, Workloads[c][n]) : p.tid = o.tid => p = o
<1>1. PICK i \in DOMAIN Workloads[c][n].outs : o = Workloads[c][n].outs[i]
  BY DEF RemoteOuts
<1>2. o.size >= Gran0 /\ o.size >= GranLB
  BY <1>1 DEF OutputsOwn
<1>3. o \in Outputs
  BY WorkloadsType, RemoteOutsType
<1>4. ASSUME NEW p \in RemoteOuts(c, Workloads[c][n]), p.tid = o.tid
      PROVE  p = o
  <2>1. PICK j \in DOMAIN Workloads[c][n].outs : p = Workloads[c][n].outs[j]
    BY DEF RemoteOuts
  <2>2. j = i
    BY <1>1, <1>4, <2>1 DEF OutputsOwn
  <2> QED
    BY <1>1, <2>1, <2>2
<1>5. IsRemote(c, n, o.tid)
  BY DEF IsRemote
<1> QED
  BY <1>2, <1>3, <1>4, <1>5

-----------------------------------------------------------------------------
(* Tiles and buffers.                                                       *)

(* The tiles of an output with a byte for each have a byte each and make the  *)
(* whole output (core.cpp:596).                                              *)
LEMMA TilesWhole ==
  ASSUME NEW o, o.size \in Nat, NEW g \in Nat \ {0}, o.size >= g
  PROVE  /\ \A k \in 1 .. g : TileSize(o, g, k) \in Nat /\ TileSize(o, g, k) >= 1
         /\ \A k \in Nat \ {0} : TilesFrom(o, g, k) \in Nat
         /\ \A k \in 1 .. g : TilesFrom(o, g, k) = TileSize(o, g, k) + TilesFrom(o, g, k + 1)
         /\ TilesFrom(o, g, 1) = o.size
         /\ TilesFrom(o, g, g + 1) = 0
<1> DEFINE q == o.size \div g
           p == (g - 1) * q
           size == o.size
           f(k) == [i \in k .. g |-> TileSize(o, g, i)]
<1>1. q \in Nat /\ q >= 1 /\ g * q <= size /\ size \in Nat
  OBVIOUS
<1>2. p = g * q - q /\ p \in Nat
  <2> HIDE DEF q, size
  <2> QED
    BY <1>1
<1>3. size - p \in Nat /\ size - p >= 1
  <2> DEFINE gq == g * q
  <2>1. gq \in Nat /\ gq <= size /\ p = gq - q
    BY <1>1, <1>2
  <2> HIDE DEF p, q, gq, size
  <2> QED
    BY <1>1, <1>2, <2>1
<1>4. /\ \A k : TileSize(o, g, k) = IF k < g THEN q ELSE size - p
      /\ \A k : TilesFrom(o, g, k) = SumFunctionOnSet(f(k), k .. g)
  BY DEF TileSize, TilesFrom
<1>5. \A k : f(k) = [i \in k .. g |-> TileSize(o, g, i)]
  OBVIOUS
<1> HIDE DEF p, q, size, f
<1>6. \A k \in Int : TileSize(o, g, k) \in Nat /\ TileSize(o, g, k) >= 1
  BY <1>1, <1>3, <1>4
<1>7. ASSUME NEW k \in Int
      PROVE  IsFiniteSet(k .. g) /\ \A i \in k .. g : f(k)[i] = TileSize(o, g, i)
  <2>1. f(k) = [i \in k .. g |-> TileSize(o, g, i)]
    BY <1>5
  <2> QED
    BY <2>1, FS_Interval
<1>8. \A k \in Nat : TilesFrom(o, g, k) \in Nat
  <2> TAKE k \in Nat
  <2> DEFINE e == f(k)
             S == k .. g
  <2>1. IsFiniteSet(S) /\ \A i \in S : e[i] \in Nat
    BY <1>6, <1>7
  <2> HIDE DEF e, S
  <2>2. SumFunctionOnSet(e, S) \in Nat
    BY <2>1, SumNat
  <2> QED
    BY <1>4, <2>2 DEF e, S
<1>9. ASSUME NEW k \in 1 .. g
      PROVE  TilesFrom(o, g, k) = TileSize(o, g, k) + TilesFrom(o, g, k + 1)
  <2> DEFINE e == f(k)
             h == f(k + 1)
             S == k .. g
             R == S \ {k}
  <2>0. \A i \in S : e[i] = TileSize(o, g, i) /\ i \in Int
    BY <1>7
  <2>1. IsFiniteSet(S) /\ k \in S /\ \A i \in S : e[i] \in Int
    <3>1. IsFiniteSet(S) /\ k \in S
      BY <1>7
    <3> HIDE DEF e, S
    <3> QED
      BY <1>6, <2>0, <3>1
  <2>2. R = k + 1 .. g /\ IsFiniteSet(R) /\ \A i \in R : h[i] = e[i]
    <3>1. R = k + 1 .. g /\ k + 1 \in Int
      OBVIOUS
    <3>2. IsFiniteSet(k + 1 .. g) /\ \A i \in k + 1 .. g : h[i] = TileSize(o, g, i)
      BY <1>7, <3>1
    <3> HIDE DEF h, e
    <3> QED
      BY <2>0, <3>1, <3>2
  <2>3. e[k] = TileSize(o, g, k)
    BY <2>0
  <2> HIDE DEF e, h, S
  <2>4. SumFunctionOnSet(e, S) = e[k] + SumFunctionOnSet(e, R)
    BY <2>1, SumSplit
  <2> HIDE DEF R
  <2>5. SumFunctionOnSet(h, R) = SumFunctionOnSet(e, R)
    BY <2>2, SumSame
  <2> QED
    BY <1>4, <2>2, <2>3, <2>4, <2>5 DEF e, h, S
<1>10. TilesFrom(o, g, g + 1) = 0
  <2>1. g + 1 .. g = {}
    OBVIOUS
  <2> QED
    BY <1>4, <2>1, SumEmpty
<1>11. TilesFrom(o, g, 1) = size
  <2> DEFINE e == f(1)
             S == 1 .. g
             R == S \ {g}
  <2>0. \A i \in S : e[i] = TileSize(o, g, i) /\ i \in Int
    BY <1>7
  <2>1. IsFiniteSet(S) /\ g \in S /\ \A i \in S : e[i] \in Int
    BY <1>6, <1>7, <2>0
  <2>2. IsFiniteSet(R) /\ Cardinality(R) = g - 1
    <3>1. Cardinality(1 .. g) = g
      BY FS_Interval
    <3> HIDE DEF e
    <3> QED
      BY <2>1, <3>1, FS_RemoveElement
  <2>3. (\A i \in R : e[i] = q) /\ e[g] = size - p
    BY <1>4, <2>0
  <2> HIDE DEF e, S
  <2>4. SumFunctionOnSet(e, S) = e[g] + SumFunctionOnSet(e, R)
    BY <2>1, SumSplit
  <2> HIDE DEF R
  <2>5. SumFunctionOnSet(e, R) = (g - 1) * q
    BY <1>1, <2>2, <2>3, SumConstant
  <2> QED
    BY <1>1, <1>2, <1>4, <2>3, <2>4, <2>5 DEF e, S, p
<1>12. o.size = size
  BY DEF size
<1> QED
  BY <1>6, <1>8, <1>9, <1>10, <1>11, <1>12

(* The bytes of a transfer in a buffer.                                     *)
LEMMA BytesType ==
  ASSUME NEW q \in Seq(MiniTileType), \A k \in DOMAIN q : q[k].size >= 1, NEW t
  PROVE  /\ BytesIn(q, t) \in Nat
         /\ \A k \in DOMAIN q : q[k].tid = t => BytesIn(q, t) >= q[k].size
         /\ (\A k \in DOMAIN q : q[k].tid # t) => BytesIn(q, t) = 0
<1> DEFINE S == DOMAIN q
           f == [k \in S |-> IF q[k].tid = t THEN q[k].size ELSE 0]
<1>1. IsFiniteSet(S)
  BY LenProperties, FS_Interval
<1>2. \A k \in S : q[k].size \in Nat
  <2> TAKE k \in S
  <2>1. q[k] \in MiniTileType
    BY LenProperties, ElementOfSeq
  <2> QED
    BY <2>1 DEF MiniTileType
<1>3. \A k \in S : f[k] \in Nat /\ (q[k].tid = t => f[k] = q[k].size)
                     /\ (q[k].tid # t => f[k] = 0)
  BY <1>2
<1>4. BytesIn(q, t) = SumFunctionOnSet(f, S)
  BY DEF BytesIn
<1> HIDE DEF f, S
<1>5. SumFunctionOnSet(f, S) \in Nat /\ \A k \in S : f[k] <= SumFunctionOnSet(f, S)
  BY <1>1, <1>3, SumNat
<1>6. (\A k \in S : q[k].tid # t) => SumFunctionOnSet(f, S) = 0
  BY <1>1, <1>3, SumZero
<1> QED
  BY <1>2, <1>3, <1>4, <1>5, <1>6 DEF S

(* An empty buffer has none.                                                *)
LEMMA BytesNone ==
  ASSUME NEW t
  PROVE  BytesIn(<< >>, t) = 0
<1> DEFINE q == << >>
           f == [k \in DOMAIN q |-> IF q[k].tid = t THEN q[k].size ELSE 0]
<1>1. DOMAIN q = {}
  OBVIOUS
<1>2. BytesIn(q, t) = SumFunctionOnSet(f, DOMAIN q)
  BY DEF BytesIn
<1> HIDE DEF q, f
<1> QED
  BY <1>1, <1>2, SumEmpty DEF q

(* A packet of n bytes cut from mini tile k of a buffer.                     *)
Cut(q, k, n, r) ==
  /\ q \in Seq(MiniTileType) /\ k \in DOMAIN q /\ n \in Int /\ DOMAIN r = DOMAIN q
  /\ r[k].tid = q[k].tid /\ r[k].size = q[k].size - n
  /\ \A j \in DOMAIN q \ {k} : r[j] = q[j]

(* It takes its bytes off those of its transfer.                             *)
LEMMA BytesCut ==
  ASSUME NEW q, NEW k, NEW n, NEW r, Cut(q, k, n, r), NEW t
  PROVE  BytesIn(r, t) = BytesIn(q, t) - (IF q[k].tid = t THEN n ELSE 0)
<1> DEFINE S == DOMAIN q
           before == [j \in S |-> IF q[j].tid = t THEN q[j].size ELSE 0]
           after == [j \in S |-> IF r[j].tid = t THEN r[j].size ELSE 0]
           x == IF q[k].tid = t THEN n ELSE 0
<1>0. /\ q \in Seq(MiniTileType) /\ k \in DOMAIN q /\ n \in Int /\ DOMAIN r = DOMAIN q
      /\ r[k].tid = q[k].tid /\ r[k].size = q[k].size - n
      /\ \A j \in DOMAIN q \ {k} : r[j] = q[j]
  BY DEF Cut
<1>1. IsFiniteSet(S) /\ k \in S
  BY <1>0, LenProperties, FS_Interval
<1>2. \A j \in S : q[j].size \in Int
  <2> TAKE j \in S
  <2>1. q[j] \in MiniTileType
    BY <1>0, LenProperties, ElementOfSeq
  <2> QED
    BY <2>1 DEF MiniTileType
<1>3. (\A j \in S : before[j] \in Int) /\ (\A j \in S \ {k} : after[j] = before[j]) /\ after[k] = before[k] - x /\ x \in Int
  BY <1>0, <1>1, <1>2
<1>4. BytesIn(q, t) = SumFunctionOnSet(before, S) /\ BytesIn(r, t) = SumFunctionOnSet(after, S)
  BY <1>0 DEF BytesIn
<1> HIDE DEF before, after, S, x
<1>5. after[k] \in Int /\ before[k] \in Int
  BY <1>1, <1>3
<1>6. SumFunctionOnSet(after, S) = SumFunctionOnSet(before, S) + after[k] - before[k]
  <2> DEFINE R == S \ {k}
  <2>1. /\ SumFunctionOnSet(before, S) = before[k] + SumFunctionOnSet(before, R)
        /\ SumFunctionOnSet(after, S) = after[k] + SumFunctionOnSet(after, R)
    <3>1. \A j \in S : after[j] \in Int
      BY <1>3, <1>5
    <3> QED
      BY <1>1, <1>3, <3>1, SumSplit
  <2>2. IsFiniteSet(R) /\ \A j \in R : before[j] \in Int /\ after[j] = before[j]
    BY <1>1, <1>3, FS_Subset
  <2> HIDE DEF R
  <2>3. /\ SumFunctionOnSet(after, R) = SumFunctionOnSet(before, R)
        /\ SumFunctionOnSet(before, R) \in Int
    BY <2>2, SumSame, SumInt
  <2> QED
    BY <1>5, <2>1, <2>3
<1>7. SumFunctionOnSet(before, S) \in Int
  BY <1>1, <1>3, SumInt
<1>8. BytesIn(r, t) = BytesIn(q, t) - x
  BY <1>3, <1>4, <1>5, <1>6, <1>7
<1> QED
  BY <1>8 DEF x

(* What RemoveAt leaves.                                                    *)
LEMMA RemoveAtElements ==
  ASSUME NEW S, NEW q \in Seq(S), NEW k \in DOMAIN q
  PROVE  /\ DOMAIN RemoveAt(q, k) = 1 .. Len(q) - 1
         /\ \A j \in 1 .. Len(q) - 1 : RemoveAt(q, k)[j] = IF j < k THEN q[j] ELSE q[j + 1]
<1>1. k \in 1 .. Len(q) /\ q \in [1 .. Len(q) -> S] /\ Len(q) \in Nat
  BY LenProperties
<1> DEFINE a == SubSeq(q, 1, k - 1)
           b == SubSeq(q, k + 1, Len(q))
<1>2. a \in Seq(S) /\ Len(a) = k - 1 /\ \A i \in 1 .. k - 1 : a[i] = q[i]
  <2>1. \A i \in 1 .. k - 1 : q[i] \in S
    BY <1>1
  <2> QED
    BY <1>1, <2>1, SubSeqProperties
<1>3. b \in Seq(S) /\ Len(b) = Len(q) - k /\ \A i \in 1 .. Len(q) - k : b[i] = q[k + i]
  <2>1. \A i \in k + 1 .. Len(q) : q[i] \in S
    BY <1>1
  <2>2. /\ b \in Seq(S) /\ Len(b) = IF k + 1 <= Len(q) THEN Len(q) - (k + 1) + 1 ELSE 0
        /\ \A i \in 1 .. Len(b) : b[i] = q[k + 1 + i - 1]
    BY <1>1, <2>1, SubSeqProperties
  <2> HIDE DEF b
  <2>3. Len(b) = Len(q) - k
    BY <1>1, <2>2
  <2>4. \A i \in 1 .. Len(q) - k : k + 1 + i - 1 = k + i
    BY <1>1
  <2> QED
    BY <2>2, <2>3, <2>4
<1>4. RemoveAt(q, k) = a \o b
  BY DEF RemoveAt
<1> HIDE DEF a, b
<1>5. /\ Len(a \o b) = Len(a) + Len(b)
      /\ DOMAIN (a \o b) = 1 .. Len(a \o b)
      /\ \A i \in 1 .. Len(a) + Len(b) : (a \o b)[i] = IF i <= Len(a) THEN a[i] ELSE b[i - Len(a)]
  BY <1>2, <1>3, ConcatProperties, LenProperties
<1>6. Len(a) + Len(b) = Len(q) - 1
  BY <1>1, <1>2, <1>3
<1>7. ASSUME NEW j \in 1 .. Len(q) - 1
      PROVE  (a \o b)[j] = IF j < k THEN q[j] ELSE q[j + 1]
  <2>1. CASE j < k
    <3>1. j \in 1 .. k - 1 /\ j <= Len(a)
      BY <1>1, <1>2, <2>1
    <3> QED
      BY <1>2, <1>5, <1>6, <2>1, <3>1
  <2>2. CASE ~(j < k)
    <3> DEFINE i == j - Len(a)
    <3>1. i \in 1 .. Len(q) - k /\ k + i = j + 1 /\ ~(j <= Len(a))
      BY <1>1, <1>2, <2>2
    <3>2. (a \o b)[j] = b[i]
      BY <1>5, <1>6, <3>1
    <3> HIDE DEF i
    <3>3. b[i] = q[j + 1]
      BY <1>3, <3>1
    <3> QED
      BY <2>2, <3>2, <3>3
  <2> QED
    BY <2>1, <2>2
<1>8. DOMAIN (a \o b) = 1 .. Len(q) - 1
  <2>1. Len(a \o b) = Len(q) - 1
    BY <1>5, <1>6
  <2> QED
    BY <1>5, <2>1
<1> QED
  BY <1>4, <1>7, <1>8

(* A mini tile taken out of the buffer takes its bytes with it.              *)
LEMMA BytesRemoved ==
  ASSUME NEW q \in Seq(MiniTileType), NEW k \in DOMAIN q, NEW t
  PROVE  BytesIn(RemoveAt(q, k), t) = BytesIn(q, t) - (IF q[k].tid = t THEN q[k].size ELSE 0)
<1> DEFINE D == DOMAIN q
           f == [j \in D |-> IF q[j].tid = t THEN q[j].size ELSE 0]
           v == RemoveAt(q, k)
           N == Len(q)
           S == 1 .. N - 1
           h == [j \in S |-> IF v[j].tid = t THEN v[j].size ELSE 0]
           T == D \ {k}
           r == [j \in S |-> IF j < k THEN j ELSE j + 1]
           x == IF q[k].tid = t THEN q[k].size ELSE 0
<1>1. N \in Nat /\ D = 1 .. N /\ k \in D /\ IsFiniteSet(D)
  BY LenProperties, FS_Interval
<1>2. DOMAIN v = S /\ \A j \in S : v[j] = IF j < k THEN q[j] ELSE q[j + 1]
  BY RemoveAtElements
<1>3. \A j \in D : q[j].size \in Int
  <2> TAKE j \in D
  <2>1. q[j] \in MiniTileType
    BY LenProperties, ElementOfSeq
  <2> QED
    BY <2>1 DEF MiniTileType
<1>4. IsFiniteSet(S)
  <2>1. N - 1 \in Int
    BY <1>1
  <2> QED
    BY <2>1, FS_Interval
<1>5. BytesIn(v, t) = SumFunctionOnSet(h, S)
  BY <1>2 DEF BytesIn
<1>6. BytesIn(q, t) = SumFunctionOnSet(f, D)
  BY DEF BytesIn
<1>7. (\A j \in D : f[j] \in Int) /\ f[k] = x
  BY <1>1, <1>3
<1> HIDE DEF v, D, N
<1>8. /\ r \in [S -> T] /\ \A a, b \in S : r[a] = r[b] => a = b
      /\ \A y \in T : \E a \in S : r[a] = y
  <2>1. \A j \in S : r[j] \in T
    BY <1>1
  <2>2. \A a, b \in S : r[a] = r[b] => a = b
    BY <1>1
  <2>3. ASSUME NEW y \in T
        PROVE  \E a \in S : r[a] = y
    <3>1. CASE y < k
      <4>1. y \in S /\ r[y] = y
        BY <1>1, <3>1
      <4> QED
        BY <4>1
    <3>2. CASE y > k
      <4>1. y - 1 \in S /\ r[y - 1] = y
        BY <1>1, <3>2
      <4> QED
        BY <4>1
    <3> QED
      BY <1>1, <3>1, <3>2
  <2> QED
    BY <2>1, <2>2, <2>3
<1>9. \A j \in S : h[j] = f[r[j]] /\ r[j] \in D
  BY <1>1, <1>2, <1>8
<1>10. \A j \in S : h[j] \in Int
  BY <1>7, <1>9
<1> HIDE DEF S, f, h, r, T, x
<1>11. SumFunctionOnSet(f, T) = SumFunctionOnSet(h, S)
  BY <1>4, <1>8, <1>9, <1>10, SumRenamed
<1>12. SumFunctionOnSet(f, D) = f[k] + SumFunctionOnSet(f, T)
  BY <1>1, <1>7, SumSplit DEF T
<1>13. SumFunctionOnSet(h, S) \in Int
  BY <1>4, <1>10, SumInt
<1>14. BytesIn(v, t) = BytesIn(q, t) - x
  BY <1>1, <1>5, <1>6, <1>7, <1>11, <1>12, <1>13
<1> QED
  BY <1>14 DEF v, x

(* SetToSeq lists every member of its set, and each once.                    *)
LEMMA SetToSeqOnto ==
  ASSUME NEW S, IsFiniteSet(S)
  PROVE  /\ DOMAIN SetToSeq(S) = 1 .. Cardinality(S) /\ IsFiniteSet(DOMAIN SetToSeq(S))
         /\ \A i \in DOMAIN SetToSeq(S) : SetToSeq(S)[i] \in S
         /\ \A x \in S : \E i \in DOMAIN SetToSeq(S) : SetToSeq(S)[i] = x
         /\ \A i, j \in DOMAIN SetToSeq(S) : SetToSeq(S)[i] = SetToSeq(S)[j] => i = j
<1>1. Cardinality(S) \in Nat /\ ExistsBijection(1 .. Cardinality(S), S)
  BY FS_CardinalityType
<1>2. IsFiniteSet(1 .. Cardinality(S))
  BY <1>1, FS_Interval
<1> DEFINE N == 1 .. Cardinality(S)
           Lists(f) == f \in [N -> S] /\ IsInjective(f)
           g == CHOOSE f \in [N -> S] : IsInjective(f)
<1>3. PICK f \in Bijection(N, S) : TRUE
  BY <1>1 DEF ExistsBijection
<1>4. f \in [N -> S] /\ IsInjective(f)
  BY <1>3 DEF Bijection, Injection, Surjection, IsInjective
<1>5. g \in [N -> S] /\ IsInjective(g)
  BY <1>4
<1>6. SetToSeq(S) = g
  BY DEF SetToSeq
<1> HIDE DEF g
<1>7. g \in Injection(N, S)
  BY <1>5 DEF Injection, IsInjective
<1>8. g \in Surjection(N, S)
  <2>1. Cardinality(N) = Cardinality(S)
    BY <1>1, FS_Interval
  <2> HIDE DEF N
  <2>2. IsFiniteSet(N)
    BY <1>2 DEF N
  <2> QED
    BY <1>7, <2>1, <2>2, FS_Injection
<1>9. \A x \in S : \E i \in N : g[i] = x
  BY <1>8 DEF Surjection
<1>10. \A i, j \in N : g[i] = g[j] => i = j
  BY <1>5 DEF IsInjective
<1> QED
  BY <1>2, <1>5, <1>6, <1>9, <1>10

(* What is known of a core that computes.                                   *)
Computing(c, s) ==
  /\ s.cur \in DOMAIN Workloads[c] /\ s.tiles \in 1 .. s.gran /\ s.gran \in Nat \ {0}
  /\ s.gran <= Gran0 \/ s.gran <= GranLB

(* Every output that is sent has its bytes in tiles.                         *)
LEMMA OutTiles ==
  ASSUME NEW c \in Cores, OutputsOwn(c),
         NEW s, Computing(c, s), NEW o \in RemoteOuts(c, Workloads[c][s.cur])
  PROVE  o \in Outputs /\ o.size \in Nat /\ o.size >= s.gran
<1>1. o \in Outputs /\ o.size >= Gran0 /\ o.size >= GranLB
  BY RemoteOut DEF Computing
<1> QED
  BY <1>1, CoreAssumption DEF Computing, Outputs

(* The bytes of a transfer not computed yet are those of its output.         *)
LEMMA UncomputedIs ==
  ASSUME NEW c \in Cores, OutputsOwn(c),
         NEW s, Computing(c, s), NEW t
  PROVE  /\ \A o \in RemoteOuts(c, Workloads[c][s.cur]) : o.tid = t =>
              Uncomputed(c, s, t) = TilesFrom(o, s.gran, s.gran - s.tiles + 1)
         /\ ~IsRemote(c, s.cur, t) => Uncomputed(c, s, t) = 0
<1> DEFINE outs == Workloads[c][s.cur].outs
           I == {i \in DOMAIN outs : outs[i].tid = t /\ Remote(c, outs[i]) # {}}
           k == s.gran - s.tiles + 1
           f == [i \in I |-> TilesFrom(outs[i], s.gran, k)]
<1>1. Uncomputed(c, s, t) = SumFunctionOnSet(f, I)
  BY DEF Uncomputed, Computing
<1>2. ASSUME NEW o \in RemoteOuts(c, Workloads[c][s.cur]), o.tid = t
      PROVE  SumFunctionOnSet(f, I) = TilesFrom(o, s.gran, k)
  <2>1. PICK i \in I : outs[i] = o
    BY <1>2 DEF RemoteOuts
  <2>2. s.cur \in DOMAIN Workloads[c] /\ \A j \in I : Workloads[c][s.cur].outs[j].tid = Workloads[c][s.cur].outs[i].tid
    BY <1>2, <2>1 DEF Computing
  <2>3. \A j \in I : j = i
    BY <2>1, <2>2 DEF OutputsOwn
  <2>4. I = {i}
    BY <2>1, <2>3
  <2>5. TilesFrom(o, s.gran, k) \in Nat
    <3>1. s.gran \in Nat \ {0} /\ k \in Nat \ {0}
      BY DEF Computing
    <3> HIDE DEF k
    <3> QED
      BY <1>2, <3>1, OutTiles, TilesWhole
  <2>6. f[i] = TilesFrom(o, s.gran, k) /\ IsFiniteSet(I)
    BY <2>1, <2>4, FS_Singleton
  <2> HIDE DEF f, I, k
  <2>7. f[i] \in Int /\ \A j \in I \ {i} : f[j] = 0
    BY <2>4, <2>5, <2>6
  <2>8. SumFunctionOnSet(f, I) = f[i]
    BY <2>1, <2>6, <2>7, SumOnly
  <2> QED
    BY <2>6, <2>8
<1>3. ASSUME ~IsRemote(c, s.cur, t)
      PROVE  SumFunctionOnSet(f, I) = 0
  <2>1. I = {}
    BY <1>3 DEF IsRemote, RemoteOuts
  <2> HIDE DEF f, I
  <2> QED
    BY <2>1, SumEmpty
<1> HIDE DEF f, I
<1> QED
  BY <1>1, <1>2, <1>3

(* The mini tiles of one tile: one piece for each output that is sent.       *)
LEMMA MiniTilesPieces ==
  ASSUME NEW c \in Cores, OutputsOwn(c),
         NEW s, Computing(c, s)
  PROVE  /\ MiniTiles(c, s) \in Seq(MiniTileType)
         /\ \A k \in DOMAIN MiniTiles(c, s) :
              MiniTiles(c, s)[k].size >= 1 /\ IsRemote(c, s.cur, MiniTiles(c, s)[k].tid)
         /\ \A t : /\ \A o \in RemoteOuts(c, Workloads[c][s.cur]) : o.tid = t =>
                        BytesIn(MiniTiles(c, s), t)
                          = TileSize(o, s.gran, s.gran - s.tiles + 1)
                   /\ ~IsRemote(c, s.cur, t) => BytesIn(MiniTiles(c, s), t) = 0
<1> DEFINE R == RemoteOuts(c, Workloads[c][s.cur])
           outs == SetToSeq(R)
           k == s.gran - s.tiles + 1
           m == MiniTiles(c, s)
<1>1. /\ s.cur \in DOMAIN Workloads[c] /\ Workloads[c][s.cur] \in Workload /\ CurWl(c, s) = Workloads[c][s.cur]
      /\ s.gran \in Nat \ {0} /\ s.tiles \in Int /\ k \in 1 .. s.gran
  BY WorkloadsType DEF Computing, CurWl
<1>2. m \in Seq(MiniTileType)
  BY <1>1, WorkloadsType, MiniTilesType
<1>3. m = [i \in DOMAIN outs |-> [tid |-> outs[i].tid, size |-> TileSize(outs[i], s.gran, k),
                                  dst |-> Remote(c, outs[i])]]
  BY <1>1 DEF MiniTiles
<1>4. /\ IsFiniteSet(DOMAIN outs) /\ \A i \in DOMAIN outs : outs[i] \in R
      /\ \A x \in R : \E i \in DOMAIN outs : outs[i] = x
      /\ \A i, j \in DOMAIN outs : outs[i] = outs[j] => i = j
  <2>1. IsFiniteSet(R)
    BY <1>1, WorkloadsType, RemoteOutsType
  <2> HIDE DEF R
  <2> QED
    BY <2>1, SetToSeqOnto
<1>5. \A o \in R : o \in Outputs /\ o.size \in Nat /\ o.size >= s.gran
  BY OutTiles
<1>6. \A o \in R : TileSize(o, s.gran, k) \in Nat /\ TileSize(o, s.gran, k) >= 1
  <2> TAKE o \in R
  <2>1. o.size \in Nat /\ o.size >= s.gran
    BY <1>5
  <2> HIDE DEF k, R
  <2> QED
    BY <1>1, <2>1, TilesWhole
<1>7. /\ \A o \in R : IsRemote(c, s.cur, o.tid)
      /\ \A o, p \in R : p.tid = o.tid => p = o
  BY <1>1, RemoteOut
<1> HIDE DEF outs, k, m
<1>8. \A i \in DOMAIN m : i \in DOMAIN outs /\ m[i].tid = outs[i].tid
                          /\ m[i].size = TileSize(outs[i], s.gran, k)
  BY <1>3
<1>9. DOMAIN m = DOMAIN outs
  BY <1>3
<1>10. \A i \in DOMAIN m : m[i].size >= 1 /\ IsRemote(c, s.cur, m[i].tid)
  BY <1>4, <1>6, <1>7, <1>8
<1>11. ASSUME NEW t
       PROVE  /\ \A o \in R : o.tid = t => BytesIn(m, t) = TileSize(o, s.gran, k)
              /\ ~IsRemote(c, s.cur, t) => BytesIn(m, t) = 0
  <2> DEFINE D == DOMAIN m
             f == [i \in D |-> IF m[i].tid = t THEN m[i].size ELSE 0]
  <2>1. BytesIn(m, t) = SumFunctionOnSet(f, D)
    BY DEF BytesIn
  <2>2. ASSUME NEW o \in R, o.tid = t
        PROVE  BytesIn(m, t) = TileSize(o, s.gran, k)
    <3>1. PICK i \in D : outs[i] = o
      BY <1>4, <1>9
    <3>2. \A j \in D \ {i} : m[j].tid # t
      <4>1. \A j \in D \ {i} : outs[j] \in R /\ outs[j] # o
        BY <1>4, <1>9, <3>1
      <4> QED
        BY <1>7, <1>8, <2>2, <4>1
    <3>3. f[i] = TileSize(o, s.gran, k) /\ \A j \in D \ {i} : f[j] = 0
      BY <1>8, <2>2, <3>1, <3>2
    <3>4. f[i] \in Int /\ IsFiniteSet(D)
      BY <1>4, <1>6, <1>9, <3>3
    <3> HIDE DEF f, D
    <3>5. SumFunctionOnSet(f, D) = f[i]
      BY <3>1, <3>3, <3>4, SumOnly
    <3> QED
      BY <2>1, <3>3, <3>5
  <2>3. ASSUME ~IsRemote(c, s.cur, t)
        PROVE  BytesIn(m, t) = 0
    BY <1>2, <1>10, <2>3, BytesType
  <2> QED
    BY <2>2, <2>3
<1> QED
  BY <1>2, <1>10, <1>11 DEF m, k

(* The bytes of a transfer in all buffers.                                  *)
LEMMA BufferedType ==
  ASSUME NEW c \in Cores,
         NEW s, s.obuf \in [Obufs -> Seq(MiniTileType)], Pieces(c, s), NEW t
  PROVE  /\ Buffered(s, t) \in Nat
         /\ \A i \in Obufs : BytesIn(s.obuf[i], t) <= Buffered(s, t)
         /\ (\A i \in Obufs : \A k \in DOMAIN s.obuf[i] : s.obuf[i][k].tid # t) =>
               Buffered(s, t) = 0
<1> DEFINE f == [i \in Obufs |-> BytesIn(s.obuf[i], t)]
<1>1. IsFiniteSet(Obufs)
  BY CoreAssumption, FS_Interval DEF Obufs
<1>2. \A i \in Obufs : /\ f[i] \in Nat /\ f[i] = BytesIn(s.obuf[i], t)
                       /\ (\A k \in DOMAIN s.obuf[i] : s.obuf[i][k].tid # t) => f[i] = 0
  <2> TAKE i \in Obufs
  <2>1. s.obuf[i] \in Seq(MiniTileType) /\ \A k \in DOMAIN s.obuf[i] : s.obuf[i][k].size >= 1
    BY DEF Pieces
  <2> QED
    BY <2>1, BytesType
<1>3. Buffered(s, t) = SumFunctionOnSet(f, Obufs)
  BY DEF Buffered
<1> HIDE DEF f
<1>4. SumFunctionOnSet(f, Obufs) \in Nat /\ \A i \in Obufs : f[i] <= SumFunctionOnSet(f, Obufs)
  BY <1>1, <1>2, SumNat
<1>5. ASSUME \A i \in Obufs : f[i] = 0
      PROVE  SumFunctionOnSet(f, Obufs) = 0
  BY <1>1, <1>5, SumZero
<1> QED
  BY <1>2, <1>3, <1>4, <1>5

(* One buffer changes.                                                      *)
OneBuffer(c, s, u, i) ==
  /\ s.obuf \in [Obufs -> Seq(MiniTileType)] /\ i \in Obufs
  /\ u.obuf[i] \in Seq(MiniTileType) /\ \A j \in Obufs \ {i} : u.obuf[j] = s.obuf[j]
  /\ Pieces(c, s) /\ Pieces(c, u)

(* The bytes in all buffers change as those in that one.                     *)
LEMMA BufferedChange ==
  ASSUME NEW c \in Cores, NEW s, NEW u, NEW i, OneBuffer(c, s, u, i), NEW t
  PROVE  Buffered(u, t) = Buffered(s, t) + BytesIn(u.obuf[i], t) - BytesIn(s.obuf[i], t)
<1> DEFINE S == Obufs
           before == [j \in S |-> BytesIn(s.obuf[j], t)]
           after  == [j \in S |-> BytesIn(u.obuf[j], t)]
<1>1. IsFiniteSet(S) /\ i \in S
  <2>1. NumObuf \in Int /\ 1 \in Int
    BY CoreAssumption
  <2>2. IsFiniteSet(1 .. NumObuf)
    BY <2>1, FS_Interval
  <2> QED
    BY <2>2 DEF Obufs, OneBuffer
<1>2. \A j \in S : before[j] \in Int
  <2> TAKE j \in S
  <2>1. s.obuf[j] \in Seq(MiniTileType) /\ \A k \in DOMAIN s.obuf[j] : s.obuf[j][k].size >= 1
    BY DEF Pieces, OneBuffer
  <2> QED
    BY <2>1, BytesType
<1>3. after[i] \in Int
  <2>0. i \in Obufs /\ u.obuf[i] \in Seq(MiniTileType)
    BY DEF OneBuffer
  <2>1. \A k \in DOMAIN u.obuf[i] : u.obuf[i][k].size >= 1
    BY <2>0 DEF Pieces, OneBuffer
  <2> QED
    BY <2>0, <2>1, BytesType
<1>4. \A j \in S \ {i} : after[j] = before[j]
  BY DEF OneBuffer
<1>5. /\ Buffered(u, t) = SumFunctionOnSet(after, S) /\ Buffered(s, t) = SumFunctionOnSet(before, S)
      /\ after[i] = BytesIn(u.obuf[i], t) /\ before[i] = BytesIn(s.obuf[i], t)
  BY DEF Buffered, OneBuffer
<1> HIDE DEF before, after, S
<1>6. SumFunctionOnSet(after, S) = SumFunctionOnSet(before, S) + after[i] - before[i]
  BY <1>1, <1>2, <1>3, <1>4, SumChange
<1> QED
  BY <1>5, <1>6

-----------------------------------------------------------------------------
(* What the core holds of its outputs.                                      *)

StockFields == {"cur", "obuf", "obuf_wl", "cnt1", "tiles", "gran", "send_list"}

(* The bookkeeping depends on these fields only.                             *)
LEMMA StockKept ==
  ASSUME NEW c \in Cores,
         NEW s, Stock(c, s), NEW u, Same(s, u, Fields \ StockFields)
  PROVE  Stock(c, u)
<1>1. /\ u.cur = s.cur /\ u.obuf = s.obuf /\ u.obuf_wl = s.obuf_wl /\ u.cnt1 = s.cnt1
      /\ u.tiles = s.tiles /\ u.gran = s.gran /\ u.send_list = s.send_list
  BY DEF Same, Fields, StockFields
<1>2. Pieces(c, u) /\ Progress(c, u)
  BY <1>1 DEF Stock, Pieces, Progress
<1>3. \A t : Buffered(u, t) = Buffered(s, t) /\ Uncomputed(c, u, t) = Uncomputed(c, s, t)
  BY <1>1 DEF Buffered, Uncomputed
<1> QED
  BY <1>1, <1>2, <1>3 DEF Stock, Held

(* A core that holds nothing of a transfer to compute.                       *)
LEMMA NothingLeft == ASSUME NEW c, NEW s, s.tiles = 0, NEW t PROVE Uncomputed(c, s, t) = 0
  BY DEF Uncomputed

(* It is a number of bytes.                                                 *)
LEMMA UncomputedNat ==
  ASSUME NEW c \in Cores, OutputsOwn(c),
         NEW s, CoreTypes(c, s), Progress(c, s), NEW t
  PROVE  Uncomputed(c, s, t) \in Nat
<1>1. CASE s.tiles = 0
  BY <1>1, NothingLeft
<1>2. CASE s.tiles # 0
  <2>1. Computing(c, s)
    <3>1. s.tiles \in 1 .. s.gran /\ s.gran \in Nat \ {0}
      BY <1>2 DEF CoreTypes
    <3> QED
      BY <1>2, <3>1 DEF Progress, Computing
  <2>2. CASE IsRemote(c, s.cur, t)
    <3>1. PICK o \in RemoteOuts(c, Workloads[c][s.cur]) : o.tid = t
      BY <2>2 DEF IsRemote
    <3>2. o.size \in Nat /\ o.size >= s.gran
      BY <2>1, OutTiles
    <3> DEFINE h == s.gran - s.tiles + 1
    <3>3. h \in Nat \ {0} /\ s.gran \in Nat \ {0}
      BY <2>1 DEF Computing
    <3>4. Uncomputed(c, s, t) = TilesFrom(o, s.gran, h)
      BY <2>1, <3>1, UncomputedIs
    <3> HIDE DEF h
    <3>5. TilesFrom(o, s.gran, h) \in Nat
      BY <3>2, <3>3, TilesWhole
    <3> QED
      BY <3>4, <3>5
  <2>3. CASE ~IsRemote(c, s.cur, t)
    BY <2>1, <2>3, UncomputedIs
  <2> QED
    BY <2>2, <2>3
<1> QED
  BY <1>1, <1>2

(* What the end of a tile changes.                                          *)
TileWritten(c, s, u) ==
  LET m == MiniTiles(c, s)
  IN  /\ u.cur = s.cur /\ u.gran = s.gran /\ u.send_list = s.send_list
      /\ u.tiles = s.tiles - 1 /\ (u.tiles # 0 => u.cnt1 = s.cnt1)
      /\ u.cur_rq = s.cur_rq /\ u.r_rq = s.r_rq /\ u.s_rq = s.s_rq
      /\ m = << >> => u.obuf = s.obuf /\ u.obuf_wl = s.obuf_wl
      /\ m # << >> => /\ u.obuf = [s.obuf EXCEPT ![s.rc] = m]
                      /\ u.obuf_wl = [s.obuf_wl EXCEPT ![s.rc] = s.cur]

(* TileDone field by field (core.cpp:273).                                   *)
LEMMA TileDoneFields ==
  ASSUME NEW c \in Cores,
         NEW s, DOMAIN s = Fields
  PROVE  TileWritten(c, s, TileDone(c, s))
<1> DEFINE m == MiniTiles(c, s)
           v == [s EXCEPT !.obuf[s.rc] = m, !.obuf_wl[s.rc] = s.cur]
           w == WriteObuf(c, s)
           n == [w EXCEPT !.sd = NextSd(w), !.tiles = @ - 1]
           u == TileDone(c, s)
<1>1. /\ DOMAIN w = Fields /\ Same(s, w, {"rc", "obuf", "obuf_wl"})
      /\ m = << >> => w.obuf = s.obuf /\ w.obuf_wl = s.obuf_wl
      /\ m # << >> => /\ w.obuf = [s.obuf EXCEPT ![s.rc] = m]
                      /\ w.obuf_wl = [s.obuf_wl EXCEPT ![s.rc] = s.cur]
  <2>1. CASE m = << >>
    BY <2>1 DEF WriteObuf, Same
  <2>2. CASE m # << >>
    <3> HIDE DEF m
    <3>1. /\ DOMAIN v = Fields /\ Same(s, v, {"obuf", "obuf_wl"})
          /\ v.obuf = [s.obuf EXCEPT ![s.rc] = m]
          /\ v.obuf_wl = [s.obuf_wl EXCEPT ![s.rc] = s.cur]
      BY DEF Same, Fields
    <3>2. w = [v EXCEPT !.rc = NextRc(v)]
      BY <2>2 DEF WriteObuf, m
    <3> HIDE DEF v, w
    <3> QED
      BY <2>2, <3>1, <3>2 DEF Same, Fields
  <2> QED
    BY <2>1, <2>2
<1>2. u = IF n.tiles = 0 THEN [n EXCEPT !.wl_fn = TRUE, !.cnt1 = 0]
          ELSE IF n.rc = NoBuf THEN [n EXCEPT !.pending = TRUE]
          ELSE [n EXCEPT !.due = NextTileTime(c, n)]
  BY DEF TileDone
<1> HIDE DEF w, m, u
<1>3. DOMAIN n = Fields /\ Same(w, n, {"sd", "tiles"}) /\ n.tiles = w.tiles - 1
  BY <1>1 DEF Same, Fields
<1> HIDE DEF n
<1>4. Same(n, u, {"wl_fn", "cnt1", "pending", "due"}) /\ (n.tiles # 0 => u.cnt1 = n.cnt1)
  BY <1>2, <1>3 DEF Same, Fields
<1> QED
  BY <1>1, <1>3, <1>4 DEF TileWritten, Same, Fields, m, u

(* A finished tile is in the buffer and no longer to be computed             *)
(* (core.cpp:596, 620).                                                     *)
LEMMA StockTile ==
  ASSUME NEW c \in Cores, OutputsOwn(c),
         NEW s, CoreTypes(c, s), BuffersApart(s), s.rc # NoBuf, Computing(c, s), Stock(c, s),
         NEW u, u.obuf \in [Obufs -> Seq(MiniTileType)], TileWritten(c, s, u)
  PROVE  Stock(c, u)
<1> DEFINE m == MiniTiles(c, s)
           k == s.gran - s.tiles + 1
<1>1. /\ s.rc \in Obufs /\ s.obuf[s.rc] = << >> /\ s.obuf \in [Obufs -> Seq(MiniTileType)]
      /\ DOMAIN s.obuf_wl = Obufs /\ s.tiles \in 1 .. s.gran /\ s.cur \in DOMAIN Workloads[c]
      /\ s.gran \in Nat \ {0} /\ k \in 1 .. s.gran
  <2>1. /\ s.rc \in Obufs /\ s.obuf[s.rc] = << >> /\ s.obuf \in [Obufs -> Seq(MiniTileType)]
        /\ DOMAIN s.obuf_wl = Obufs
    BY DEF CoreTypes, BuffersApart
  <2>2. s.tiles \in 1 .. s.gran /\ s.cur \in DOMAIN Workloads[c] /\ s.gran \in Nat \ {0}
    BY DEF Computing
  <2>3. k \in 1 .. s.gran
    BY <2>2
  <2> QED
    BY <2>1, <2>2, <2>3
<1>2. /\ m \in Seq(MiniTileType)
      /\ \A i \in DOMAIN m : m[i].size >= 1 /\ IsRemote(c, s.cur, m[i].tid)
      /\ \A t : /\ \A o \in RemoteOuts(c, Workloads[c][s.cur]) : o.tid = t =>
                     BytesIn(m, t) = TileSize(o, s.gran, k)
                /\ ~IsRemote(c, s.cur, t) => BytesIn(m, t) = 0
  BY MiniTilesPieces
<1>3. /\ u.cur = s.cur /\ u.gran = s.gran /\ u.send_list = s.send_list
      /\ u.tiles = s.tiles - 1 /\ (u.tiles # 0 => u.cnt1 = s.cnt1)
      /\ m = << >> => u.obuf = s.obuf /\ u.obuf_wl = s.obuf_wl
      /\ m # << >> => /\ u.obuf = [s.obuf EXCEPT ![s.rc] = m]
                      /\ u.obuf_wl = [s.obuf_wl EXCEPT ![s.rc] = s.cur]
  BY DEF TileWritten
<1> HIDE DEF m
<1>4. Pieces(c, u)
  <2>1. CASE m = << >>
    BY <1>3, <2>1 DEF Stock, Pieces
  <2>2. CASE m # << >>
    <3>1. /\ u.obuf[s.rc] = m /\ u.obuf_wl[s.rc] = s.cur
          /\ \A i \in Obufs : i # s.rc => u.obuf[i] = s.obuf[i] /\ u.obuf_wl[i] = s.obuf_wl[i]
      BY <1>1, <1>3, <2>2
    <3> QED
      BY <1>1, <1>2, <3>1 DEF Stock, Pieces
  <2> QED
    BY <2>1, <2>2
<1>5. Progress(c, u)
  <2>1. s.cnt1 \in {0, 1} /\ (u.tiles = 0 \/ u.tiles # 0)
    BY DEF CoreTypes
  <2>2. s.tiles # 0
    BY <1>1
  <2> QED
    BY <1>1, <1>3, <2>2 DEF Stock, Progress
<1>6. ASSUME NEW t
      PROVE  Buffered(u, t) = Buffered(s, t) + BytesIn(m, t) /\ Buffered(s, t) \in Nat
  <2>1. Buffered(s, t) \in Nat
    BY <1>1, BufferedType DEF Stock
  <2>2. CASE m = << >>
    <3>1. Buffered(u, t) = Buffered(s, t)
      BY <1>3, <2>2 DEF Buffered
    <3> QED
      BY <2>1, <2>2, <3>1, BytesNone
  <2>3. CASE m # << >>
    <3>1. u.obuf[s.rc] = m /\ \A j \in Obufs \ {s.rc} : u.obuf[j] = s.obuf[j]
      BY <1>1, <1>3, <2>3
    <3>2. Buffered(u, t) = Buffered(s, t) + BytesIn(u.obuf[s.rc], t) - BytesIn(s.obuf[s.rc], t)
      <4>1. OneBuffer(c, s, u, s.rc)
        BY <1>1, <1>2, <1>4, <3>1 DEF Stock, OneBuffer
      <4> QED
        BY <4>1, BufferedChange
    <3>3. BytesIn(s.obuf[s.rc], t) = 0
      BY <1>1, BytesNone
    <3>4. BytesIn(m, t) \in Nat
      BY <1>2, BytesType
    <3> QED
      BY <2>1, <3>1, <3>2, <3>3, <3>4
  <2> QED
    BY <2>1, <2>2, <2>3
<1>7. ASSUME u.tiles # 0
      PROVE  Computing(c, u)
  BY <1>1, <1>3, <1>7 DEF Computing
<1>8. ASSUME NEW t
      PROVE  Uncomputed(c, s, t) = BytesIn(m, t) + Uncomputed(c, u, t)
             /\ BytesIn(m, t) \in Nat /\ Uncomputed(c, u, t) \in Nat
  <2>1. CASE ~IsRemote(c, s.cur, t)
    <3>1. Uncomputed(c, s, t) = 0 /\ BytesIn(m, t) = 0
      BY <1>2, <2>1, UncomputedIs
    <3>2. Uncomputed(c, u, t) = 0
      BY <1>3, <1>7, <2>1, UncomputedIs, NothingLeft
    <3> QED
      BY <3>1, <3>2
  <2>2. CASE IsRemote(c, s.cur, t)
    <3>1. PICK o \in RemoteOuts(c, Workloads[c][s.cur]) : o.tid = t
      BY <2>2 DEF IsRemote
    <3>2. o.size \in Nat /\ o.size >= s.gran
      BY OutTiles
    <3>3. Uncomputed(c, s, t) = TilesFrom(o, s.gran, k) /\ BytesIn(m, t) = TileSize(o, s.gran, k)
      BY <1>2, <3>1, UncomputedIs
    <3>4. Uncomputed(c, u, t) = TilesFrom(o, s.gran, k + 1)
      <4>1. CASE u.tiles = 0
        <5>1. k = s.gran
          BY <1>1, <1>3, <4>1
        <5> HIDE DEF k
        <5>2. TilesFrom(o, s.gran, s.gran + 1) = 0
          BY <1>1, <3>2, TilesWhole
        <5> QED
          BY <4>1, <5>1, <5>2, NothingLeft
      <4>2. CASE u.tiles # 0
        <5>1. Uncomputed(c, u, t) = TilesFrom(o, u.gran, u.gran - u.tiles + 1)
          BY <1>3, <1>7, <3>1, <4>2, UncomputedIs
        <5>2. u.gran - u.tiles + 1 = k + 1 /\ u.gran = s.gran
          BY <1>1, <1>3
        <5> QED
          BY <5>1, <5>2
      <4> QED
        BY <4>1, <4>2
    <3>5. /\ TilesFrom(o, s.gran, k) = TileSize(o, s.gran, k) + TilesFrom(o, s.gran, k + 1)
          /\ TileSize(o, s.gran, k) \in Nat /\ TilesFrom(o, s.gran, k + 1) \in Nat
      <4>1. k + 1 \in Nat \ {0}
        BY <1>1
      <4> HIDE DEF k
      <4> QED
        BY <1>1, <3>2, <4>1, TilesWhole
    <3> QED
      BY <3>3, <3>4, <3>5
  <2> QED
    BY <2>1, <2>2
<1>9. ASSUME NEW t \in Tids
      PROVE  u.send_list[t] = Buffered(u, t) + Uncomputed(c, u, t)
  <2>1. u.send_list[t] = Buffered(s, t) + Uncomputed(c, s, t)
    BY <1>3 DEF Stock, Held
  <2> QED
    BY <1>6, <1>8, <2>1
<1> QED
  BY <1>4, <1>5, <1>9 DEF Stock, Held

(* Computing keeps the bookkeeping.                                         *)
LEMMA StockCompute ==
  ASSUME NEW c \in Cores, OutputsOwn(c),
         NEW s, Safe(c, s), Ticked(s), Stock(c, s)
  PROVE  Stock(c, Compute(c, s))
<1>0. DOMAIN s = Fields /\ c \in Cores
  BY CoreFields, WorkloadsType DEF Safe, CoreTypes
<1>1. CASE s.running /\ ~s.wl_end /\ s.due = 0
  <2>1. Compute(c, s) = TileDone(c, s)
    BY <1>1 DEF Compute
  <2>2. ~s.wl_fn /\ ~s.pending /\ s.tiles >= 1 /\ s.rc # NoBuf
    BY <1>1 DEF Ticked, Safe, Orderly, HasRoom
  <2>3. CoreTypes(c, s) /\ BuffersApart(s)
    BY DEF Safe
  <2>4. Computing(c, s)
    <3>1. s.tiles \in 0 .. s.gran /\ s.gran \in Nat \ {0}
      BY <2>3 DEF CoreTypes
    <3> QED
      BY <2>2, <3>1 DEF Stock, Progress, Computing
  <2>5. TileWritten(c, s, TileDone(c, s))
    BY <1>0, TileDoneFields
  <2>6. TileDone(c, s).obuf \in [Obufs -> Seq(MiniTileType)]
    BY <1>0, <1>1, TileDoneSafe DEF Safe, CoreTypes
  <2> QED
    BY <2>1, <2>2, <2>3, <2>4, <2>5, <2>6, StockTile
<1>2. CASE ~(s.running /\ ~s.wl_end /\ s.due = 0)
  <2>1. Same(s, Compute(c, s), Fields \ StockFields)
    BY <1>0, <1>2 DEF Compute, Same, Fields, StockFields
  <2> QED
    BY <2>1, StockKept
<1> QED
  BY <1>1, <1>2

(* The granularity never grows beyond the two configured ones                *)
(* (core.cpp:210).                                                          *)
LEMMA GranularityBound ==
  ASSUME NEW g \in Nat \ {0}, NEW of \in Nat \ {0}, g <= Gran0 \/ g <= GranLB
  PROVE  Granularity(g, of) <= Gran0 \/ Granularity(g, of) <= GranLB
<1> DEFINE B == PacketBytes
           fit == (of - 1) \div B + 1
           q == of \div g
<1>1. B \in Nat \ {0} /\ Gran0 \in Nat /\ GranLB \in Nat
  BY PlatformAssumption, CoreAssumption
<1>2. ASSUME q < B
      PROVE  fit <= g
  <2>1. q \in Nat /\ of < g * q + g
    OBVIOUS
  <2>2. g * q <= g * (B - 1) /\ g * (B - 1) = g * B - g
    <3> HIDE DEF q, B
    <3>1. q <= B - 1 /\ B - 1 \in Nat
      BY <1>1, <1>2, <2>1
    <3>2. g * q <= g * (B - 1)
      BY <2>1, <3>1
    <3>3. g * (B - 1) = g * B - g
      BY <1>1
    <3> QED
      BY <3>2, <3>3
  <2>3. of < g * B
    <3> DEFINE x == g * q
               y == g * B
               z == g * (B - 1)
    <3>1. x \in Nat /\ y \in Nat /\ z \in Int
      BY <1>1, <2>1
    <3>2. of < x + g /\ x <= z /\ z = y - g
      BY <2>1, <2>2
    <3> HIDE DEF x, y, z, q, B
    <3>3. of < y
      BY <3>1, <3>2
    <3> QED
      BY <3>3 DEF y
  <2> DEFINE p == (of - 1) \div B
  <2>4. p \in Nat /\ B * p <= of - 1
    BY <1>1
  <2> HIDE DEF p, B, q
  <2>5. p < g
    <3>1. SUFFICES ASSUME p >= g
                   PROVE  FALSE
      BY <2>4
    <3>2. B * g <= B * p /\ B * g = g * B
      BY <1>1, <2>4, <3>1
    <3> DEFINE x == B * g
               y == B * p
    <3>3. x \in Nat /\ y \in Nat /\ x <= y /\ y <= of - 1 /\ of < x
      BY <1>1, <2>3, <2>4, <3>2
    <3> HIDE DEF x, y
    <3> QED
      BY <3>3
  <2> QED
    BY <2>4, <2>5 DEF p
<1>3. Granularity(g, of) = IF q < B THEN (IF fit > GranLB THEN fit ELSE GranLB) ELSE g
  BY DEF Granularity
<1>4. fit \in Nat
  BY <1>1
<1> HIDE DEF fit, q, B
<1> QED
  BY <1>1, <1>2, <1>3, <1>4

(* Nothing is held of a transfer before its workload.                        *)
LEMMA NotHeldYet ==
  ASSUME NEW c \in Cores, OutputsOwn(c),
         NEW s, CoreTypes(c, s), Pieces(c, s), NEW n \in DOMAIN Workloads[c], n > s.cur,
         NEW t, IsRemote(c, n, t)
  PROVE  \A i \in Obufs : \A k \in DOMAIN s.obuf[i] : s.obuf[i][k].tid # t
<1> SUFFICES ASSUME NEW i \in Obufs, NEW k \in DOMAIN s.obuf[i], s.obuf[i][k].tid = t
             PROVE  FALSE
  OBVIOUS
<1>1. s.obuf_wl[i] \in DOMAIN Workloads[c] /\ IsRemote(c, s.obuf_wl[i], t)
  BY DEF Pieces
<1>2. s.obuf_wl[i] = n
  BY <1>1, OneJob, RemoteIsOut
<1>3. s.obuf_wl[i] \in 0 .. s.cur /\ s.cur \in Int
  BY WorkloadsType DEF CoreTypes
<1> QED
  BY <1>2, <1>3

(* The next workload is to be computed whole (core.cpp:205).                 *)
LEMMA StockAdvance ==
  ASSUME NEW c \in Cores, OutputsOwn(c),
         NEW s, Safe(c, s), Stock(c, s), NEW u, Safe(c, u), Advanced(c, s, u)
  PROVE  Stock(c, u)
<1>0. CoreTypes(c, s) /\ CoreTypes(c, u)
  BY DEF Safe
<1>1. CASE u = s
  BY <1>1
<1>2. CASE u # s
  <2>1. u.cur = s.cur + 1 /\ u.cnt1 = 1 /\ s.tiles = 0 /\ s.cur \in Nat
    <3>1. u.cur = s.cur + 1 /\ u.cnt1 = 1 /\ s.cnt1 = 0
      BY <1>2 DEF Advanced
    <3>2. s.cur \in Nat
      BY <1>0, WorkloadsType DEF CoreTypes
    <3> QED
      BY <3>1, <3>2 DEF Stock, Progress
  <2>2. u.obuf = s.obuf /\ u.obuf_wl = s.obuf_wl
    BY <1>2 DEF Advanced, Same, Fields
  <2>3. Pieces(c, u)
    BY <2>2 DEF Stock, Pieces
  <2>4. \A t : Uncomputed(c, s, t) = 0 /\ Buffered(u, t) = Buffered(s, t)
    BY <2>1, <2>2, NothingLeft DEF Buffered
  <2>5. CASE u.cur = Len(Workloads[c]) + 1
    <3>1. u.tiles = 0 /\ u.gran = s.gran /\ u.send_list = s.send_list
      BY <1>2, <2>1, <2>5, WorkloadsType DEF Advanced, Same, Fields
    <3>2. \A t : Uncomputed(c, u, t) = 0
      BY <3>1, NothingLeft
    <3> QED
      BY <2>1, <2>3, <2>4, <3>1, <3>2 DEF Stock, Progress, Held
  <2>6. CASE u.cur # Len(Workloads[c]) + 1
    <3> DEFINE n == u.cur
               w == Workloads[c][n]
               outs == RemoteOuts(c, w)
    <3>1. n \in DOMAIN Workloads[c] /\ Loaded(c, s, w, u) /\ u.tiles = u.gran
      BY <1>2, <2>6, WorkloadsType DEF Advanced
    <3>2. /\ u.send_list = [t \in Tids |-> IF \E o \in outs : o.tid = t
                                           THEN (CHOOSE o \in outs : o.tid = t).size
                                           ELSE s.send_list[t]]
          /\ u.gran = Granularity(s.gran, w.ofsize)
      BY <3>1 DEF Loaded
    <3>3. u.gran <= Gran0 \/ u.gran <= GranLB
      <4>1. s.gran \in Nat \ {0} /\ w.ofsize \in Nat \ {0}
        BY <1>0, <3>1, WorkloadsType DEF CoreTypes, Workload
      <4>2. s.gran <= Gran0 \/ s.gran <= GranLB
        BY DEF Stock, Progress
      <4> HIDE DEF w
      <4> QED
        BY <3>2, <4>1, <4>2, GranularityBound
    <3>4. Progress(c, u)
      BY <2>1, <3>1, <3>3 DEF Progress
    <3>5. Computing(c, u) /\ u.gran - u.tiles + 1 = 1
      <4>1. u.gran \in Nat \ {0}
        BY <1>0 DEF CoreTypes
      <4>2. u.tiles \in 1 .. u.gran /\ u.gran - u.tiles + 1 = 1
        BY <3>1, <4>1
      <4> QED
        BY <3>1, <3>3, <4>1, <4>2 DEF Computing
    <3>6. ASSUME NEW t \in Tids
          PROVE  u.send_list[t] = Buffered(u, t) + Uncomputed(c, u, t)
      <4>1. s.send_list[t] = Buffered(s, t) + Uncomputed(c, s, t)
        BY DEF Stock, Held
      <4>2. Buffered(s, t) \in Nat
        BY <1>0, BufferedType DEF CoreTypes, Stock
      <4>3. CASE IsRemote(c, n, t)
        <5>1. PICK o \in outs : o.tid = t
          BY <4>3 DEF IsRemote
        <5>2. \A p \in outs : p.tid = t => p = o
          BY <3>1, <5>1, RemoteOut
        <5>3. u.send_list[t] = o.size
          <6>1. (CHOOSE p \in outs : p.tid = t) = o
            BY <5>1, <5>2
          <6> HIDE DEF outs
          <6> QED
            BY <3>2, <5>1, <6>1
        <5>4. Uncomputed(c, u, t) = TilesFrom(o, u.gran, 1)
          BY <3>5, <5>1, UncomputedIs
        <5>5. o.size \in Nat /\ o.size >= u.gran
          BY <3>5, <5>1, OutTiles
        <5>6. TilesFrom(o, u.gran, 1) = o.size
          BY <3>5, <5>5, TilesWhole DEF Computing
        <5>7. Buffered(u, t) = 0
          <6>1. n > s.cur
            BY <2>1
          <6>2. \A i \in Obufs : \A k \in DOMAIN s.obuf[i] : s.obuf[i][k].tid # t
            BY <1>0, <3>1, <4>3, <6>1, NotHeldYet DEF Stock
          <6>3. Buffered(s, t) = 0
            BY <1>0, <6>2, BufferedType DEF CoreTypes, Stock
          <6> QED
            BY <2>4, <6>3
        <5> QED
          BY <5>3, <5>4, <5>5, <5>6, <5>7
      <4>4. CASE ~IsRemote(c, n, t)
        <5>1. u.send_list[t] = s.send_list[t]
          BY <3>2, <4>4 DEF IsRemote
        <5>2. Uncomputed(c, u, t) = 0
          BY <3>5, <4>4, UncomputedIs
        <5> QED
          BY <2>4, <4>1, <5>1, <5>2
      <4> QED
        BY <4>3, <4>4
    <3> QED
      BY <2>3, <3>4, <3>6 DEF Stock, Held
  <2> QED
    BY <2>5, <2>6
<1> QED
  BY <1>1, <1>2

-----------------------------------------------------------------------------
(* Sending.                                                                 *)

(* What the sending of a packet of tile k of buffer i changes.               *)
PacketCut(s, u, i, k) ==
  LET b == s.obuf[i]
      n == Smaller(b[k].size, PacketBytes)
  IN  /\ u.cur = s.cur /\ u.tiles = s.tiles /\ u.gran = s.gran /\ u.cnt1 = s.cnt1
      /\ u.cur_rq = s.cur_rq /\ u.r_rq = s.r_rq /\ u.s_rq = s.s_rq /\ u.obuf_wl = s.obuf_wl
      /\ u.send_list = [s.send_list EXCEPT ![b[k].tid] = @ - n]
      /\ \A j \in Obufs \ {i} : u.obuf[j] = s.obuf[j]
      /\ u.obuf[i] = IF b[k].size - n > 0 THEN [b EXCEPT ![k].size = b[k].size - n]
                     ELSE RemoveAt(b, k)

(* DataSent field by field (core.cpp:642).                                   *)
LEMMA DataSentFields ==
  ASSUME NEW c \in Cores,
         NEW s, Safe(c, s), s.sd # NoBuf, NEW d
  PROVE  PacketCut(s, DataSent(s, d), s.sd, s.mini)
<1> DEFINE b == s.obuf[s.sd]
           x == MiniTile(s).tid
           p == PacketSize(s)
           left == MiniTile(s).size - p
           tiles == RemoveAt(b, s.mini)
           bb == [b EXCEPT ![s.mini].size = left]
           v == Drain(s)
           rel == IF IsEnd(s) THEN NoDdr ELSE IF ToDram(s) THEN d ELSE v.ddr_rel[x]
           n == [v EXCEPT !.send_list[x] = @ - p, !.ddr_rel[x] = rel]
           t == DataSent(s, d)
<1>0. DOMAIN s = Fields /\ c \in Cores
  BY CoreFields, WorkloadsType DEF Safe, CoreTypes
<1>1. /\ s.sd \in Obufs /\ MiniTile(s) = b[s.mini] /\ p = Smaller(b[s.mini].size, PacketBytes)
      /\ DOMAIN s.obuf = Obufs
  BY <1>0, MiniTileInBuffer DEF MiniTile, PacketSize, Safe, CoreTypes
<1>2. Same(s, v, {"obuf", "mini", "rc", "sd"}) /\ DOMAIN v = Fields
  BY <1>0, DrainSafe, CoreFields DEF Safe, CoreTypes
<1>3. v.obuf = [s.obuf EXCEPT ![s.sd] = IF left > 0 THEN bb ELSE tiles]
  <2>1. CASE left > 0
    BY <1>0, <1>1, <2>1 DEF Drain, Fields
  <2>2. CASE ~(left > 0)
    <3> DEFINE w == [s EXCEPT !.obuf[s.sd] = tiles,
                              !.mini = IF @ = Len(s.obuf[s.sd]) THEN 1 ELSE @,
                              !.rc = IF tiles = << >> /\ @ = NoBuf THEN s.sd ELSE @]
    <3>1. v = IF tiles = << >> THEN [w EXCEPT !.sd = NextSd(w)] ELSE w
      BY <2>2 DEF Drain
    <3> HIDE DEF tiles, v
    <3>2. DOMAIN w = Fields /\ w.obuf = [s.obuf EXCEPT ![s.sd] = tiles]
      BY <1>0 DEF Fields
    <3> HIDE DEF w
    <3>3. v.obuf = w.obuf
      BY <3>1, <3>2 DEF Fields
    <3> QED
      BY <2>2, <3>2, <3>3
  <2> QED
    BY <2>1, <2>2
<1>4. t = IF n.wl_end /\ \A i \in Obufs : n.obuf[i] = << >>
          THEN [n EXCEPT !.overall_end = TRUE] ELSE n
  BY DEF DataSent
<1> HIDE DEF v, t, x, bb, tiles, left, p, rel
<1>5. /\ DOMAIN n = Fields /\ Same(v, n, {"send_list", "ddr_rel"})
      /\ n.send_list = [v.send_list EXCEPT ![x] = @ - p]
  BY <1>2 DEF Same, Fields
<1> HIDE DEF n
<1>6. Same(n, t, {"overall_end"})
  BY <1>4, <1>5 DEF Same, Fields
<1>7. /\ t.cur = s.cur /\ t.tiles = s.tiles /\ t.gran = s.gran /\ t.cnt1 = s.cnt1
      /\ t.cur_rq = s.cur_rq /\ t.r_rq = s.r_rq /\ t.s_rq = s.s_rq /\ t.obuf_wl = s.obuf_wl
      /\ t.send_list = [s.send_list EXCEPT ![x] = @ - p] /\ t.obuf = v.obuf
  BY <1>2, <1>5, <1>6 DEF Same, Fields
<1>8. /\ \A j \in Obufs \ {s.sd} : t.obuf[j] = s.obuf[j]
      /\ t.obuf[s.sd] = IF left > 0 THEN bb ELSE tiles
  BY <1>1, <1>3, <1>7
<1> QED
  BY <1>1, <1>7, <1>8 DEF PacketCut, t, x, bb, tiles, left, p

(* A packet takes as many bytes out of the buffer as off _send_data_list     *)
(* (core.cpp:642, 671).                                                     *)
LEMMA StockCut ==
  ASSUME NEW c \in Cores, OutputsOwn(c),
         NEW s, CoreTypes(c, s), Stock(c, s), NEW i \in Obufs, NEW k \in DOMAIN s.obuf[i],
         NEW u, PacketCut(s, u, i, k)
  PROVE  /\ Stock(c, u)
         /\ s.obuf[i][k].tid \in Tids
         /\ Smaller(s.obuf[i][k].size, PacketBytes) \in Nat \ {0}
         /\ Smaller(s.obuf[i][k].size, PacketBytes) <= s.send_list[s.obuf[i][k].tid]
         /\ u.send_list = [s.send_list EXCEPT ![s.obuf[i][k].tid] =
                             @ - Smaller(s.obuf[i][k].size, PacketBytes)]
<1> DEFINE b == s.obuf[i]
           x == b[k].tid
           n == Smaller(b[k].size, PacketBytes)
           left == b[k].size - n
           bb == [b EXCEPT ![k].size = left]
           v == RemoveAt(b, k)
<1>1. /\ b \in Seq(MiniTileType) /\ s.obuf \in [Obufs -> Seq(MiniTileType)]
      /\ s.send_list \in [Tids -> Int]
  BY DEF CoreTypes
<1>2. b[k] \in MiniTileType /\ x \in Tids /\ b[k].size \in Nat /\ b[k].size >= 1
  <2>1. b[k] \in MiniTileType
    BY <1>1, LenProperties, ElementOfSeq
  <2>2. b[k].size >= 1
    BY DEF Stock, Pieces
  <2> QED
    BY <2>1, <2>2 DEF MiniTileType
<1>3. n \in Nat \ {0} /\ n <= b[k].size /\ left \in Nat
  <2> HIDE DEF b
  <2> QED
    BY <1>2, PlatformAssumption DEF Smaller
<1>4. /\ u.cur = s.cur /\ u.tiles = s.tiles /\ u.gran = s.gran /\ u.cnt1 = s.cnt1
      /\ u.obuf_wl = s.obuf_wl /\ u.send_list = [s.send_list EXCEPT ![x] = @ - n]
      /\ \A j \in Obufs \ {i} : u.obuf[j] = s.obuf[j]
      /\ u.obuf[i] = IF left > 0 THEN bb ELSE v
  BY DEF PacketCut
<1>5. \A j \in DOMAIN b : b[j].size >= 1 /\ s.obuf_wl[i] \in DOMAIN Workloads[c]
                          /\ IsRemote(c, s.obuf_wl[i], b[j].tid)
  BY DEF Stock, Pieces
<1>6. k \in DOMAIN b
  OBVIOUS
<1> HIDE DEF n, b, bb, v, left
<1>7. /\ u.obuf[i] \in Seq(MiniTileType)
      /\ \A j \in DOMAIN u.obuf[i] : u.obuf[i][j].size >= 1
                                     /\ IsRemote(c, s.obuf_wl[i], u.obuf[i][j].tid)
      /\ \A t : BytesIn(u.obuf[i], t) = BytesIn(b, t) - (IF x = t THEN n ELSE 0)
  <2>1. CASE left > 0
    <3>1. /\ DOMAIN bb = DOMAIN b /\ bb[k] = [b[k] EXCEPT !.size = left]
          /\ \A j \in DOMAIN b \ {k} : bb[j] = b[j]
      <4>1. DOMAIN b = 1 .. Len(b)
        BY <1>1, LenProperties
      <4> QED
        BY <1>6 DEF bb
    <3>2. bb[k] \in MiniTileType /\ bb[k].tid = b[k].tid /\ bb[k].size = left
      BY <1>2, <1>3, <3>1 DEF MiniTileType
    <3>3. bb \in Seq(MiniTileType)
      <4>1. bb = [b EXCEPT ![k] = bb[k]]
        BY <1>6, <3>1 DEF bb
      <4>2. k \in 1 .. Len(b)
        BY <1>1, <1>6, LenProperties
      <4> QED
        BY <1>1, <3>2, <4>1, <4>2, ExceptSeq
    <3>4. bb[k].size = b[k].size - n /\ n \in Int
      BY <1>3, <3>2 DEF left
    <3>5. \A t : BytesIn(bb, t) = BytesIn(b, t) - (IF x = t THEN n ELSE 0)
      <4>1. Cut(b, k, n, bb)
        BY <1>1, <1>6, <3>1, <3>2, <3>4 DEF Cut
      <4> QED
        BY <4>1, BytesCut
    <3>6. \A j \in DOMAIN bb : bb[j].size >= 1 /\ bb[j].tid = b[j].tid /\ j \in DOMAIN b
      <4>1. bb[k].size >= 1
        BY <1>3, <2>1, <3>2
      <4>2. \A j \in DOMAIN bb : j = k \/ bb[j] = b[j]
        BY <3>1
      <4> QED
        BY <1>5, <3>1, <3>2, <4>1, <4>2
    <3> QED
      BY <1>4, <1>5, <2>1, <3>3, <3>5, <3>6
  <2>2. CASE ~(left > 0)
    <3>1. n = b[k].size
      BY <1>2, <1>3, <2>2 DEF left
    <3>2. v \in Seq(MiniTileType)
      BY <1>1, <1>6, RemoveAtType DEF v
    <3>3. \A t : BytesIn(v, t) = BytesIn(b, t) - (IF x = t THEN n ELSE 0)
      BY <1>1, <1>6, <3>1, BytesRemoved DEF v
    <3>4. \A j \in DOMAIN v : \E l \in DOMAIN b : v[j] = b[l]
      <4>1. /\ DOMAIN v = 1 .. Len(b) - 1 /\ DOMAIN b = 1 .. Len(b) /\ Len(b) \in Nat
            /\ \A j \in 1 .. Len(b) - 1 : v[j] = IF j < k THEN b[j] ELSE b[j + 1]
        BY <1>1, <1>6, RemoveAtElements, LenProperties DEF v
      <4> TAKE j \in DOMAIN v
      <4>2. j \in DOMAIN b /\ j + 1 \in DOMAIN b
        BY <4>1
      <4> QED
        BY <4>1, <4>2
    <3> QED
      BY <1>4, <1>5, <2>2, <3>2, <3>3, <3>4
  <2> QED
    BY <2>1, <2>2
<1>8. Pieces(c, u)
  <2>1. \A j \in Obufs : j # i => u.obuf[j] = s.obuf[j]
    BY <1>4
  <2>2. s.obuf_wl[i] \in DOMAIN Workloads[c]
    BY <1>5, <1>6
  <2> QED
    BY <1>4, <1>7, <2>1, <2>2 DEF Stock, Pieces
<1>9. ASSUME NEW t
      PROVE  /\ Buffered(u, t) = Buffered(s, t) - (IF x = t THEN n ELSE 0)
             /\ Buffered(s, t) \in Nat
             /\ x = t => n <= Buffered(s, t)
  <2>1. OneBuffer(c, s, u, i)
    BY <1>1, <1>4, <1>7, <1>8 DEF Stock, OneBuffer
  <2>2. Buffered(u, t) = Buffered(s, t) + BytesIn(u.obuf[i], t) - BytesIn(s.obuf[i], t)
    BY <2>1, BufferedChange
  <2>3. Buffered(s, t) \in Nat /\ BytesIn(s.obuf[i], t) <= Buffered(s, t)
    BY <1>1, BufferedType DEF Stock
  <2>4. BytesIn(b, t) \in Nat /\ (x = t => b[k].size <= BytesIn(b, t))
    BY <1>1, <1>5, <1>6, BytesType
  <2>5. BytesIn(u.obuf[i], t) = BytesIn(b, t) - (IF x = t THEN n ELSE 0)
    BY <1>7
  <2>6. s.obuf[i] = b
    BY DEF b
  <2>7. Buffered(u, t) = Buffered(s, t) - (IF x = t THEN n ELSE 0)
    BY <1>3, <2>2, <2>3, <2>4, <2>5, <2>6
  <2>8. x = t => n <= Buffered(s, t)
    BY <1>2, <1>3, <2>3, <2>4, <2>6
  <2> QED
    BY <2>3, <2>7, <2>8
<1>10. ASSUME NEW t
       PROVE  Uncomputed(c, s, t) \in Nat /\ Uncomputed(c, u, t) = Uncomputed(c, s, t)
  <2>1. Uncomputed(c, u, t) = Uncomputed(c, s, t)
    BY <1>4 DEF Uncomputed
  <2>2. Uncomputed(c, s, t) \in Nat
    BY UncomputedNat DEF Stock
  <2> QED
    BY <2>1, <2>2
<1>11. ASSUME NEW t \in Tids
       PROVE  /\ u.send_list[t] = Buffered(u, t) + Uncomputed(c, u, t)
              /\ x = t => n <= s.send_list[t]
  <2>1. s.send_list[t] = Buffered(s, t) + Uncomputed(c, s, t)
    BY DEF Stock, Held
  <2>2. u.send_list[t] = s.send_list[t] - (IF x = t THEN n ELSE 0)
    BY <1>1, <1>3, <1>4
  <2> QED
    BY <1>3, <1>9, <1>10, <2>1, <2>2
<1>12. Progress(c, u)
  BY <1>4 DEF Stock, Progress
<1>13. Stock(c, u)
  BY <1>8, <1>11, <1>12 DEF Stock, Held
<1> QED
  BY <1>2, <1>3, <1>4, <1>11, <1>13 DEF n, b

-----------------------------------------------------------------------------
(* A whole call of Work.                                                    *)

(* What Work does before it looks for the next workload.                     *)
Computed(c, s) == Compute(c, PickSd(PickRc(Start(c, Tick(s)))))

(* Time, the start of a workload and the choice of buffers leave the outputs  *)
(* alone.                                                                  *)
LEMMA StockPicks ==
  ASSUME NEW c \in Cores, NEW s, DOMAIN s = Fields, Stock(c, s)
  PROVE  /\ Stock(c, Tick(s)) /\ Stock(c, Start(c, s))
         /\ Stock(c, PickRc(s)) /\ Stock(c, PickSd(s))
<1>1. Same(s, Tick(s), Fields \ StockFields)
  BY DEF Tick, Same, Fields, StockFields
<1>2. Same(s, Start(c, s), Fields \ StockFields)
  BY DEF Start, Same, Fields, StockFields
<1>3. Same(s, PickRc(s), Fields \ StockFields)
  BY DEF PickRc, Same, Fields, StockFields
<1>4. Same(s, PickSd(s), Fields \ StockFields)
  BY DEF PickSd, Same, Fields, StockFields
<1> QED
  BY <1>1, <1>2, <1>3, <1>4, StockKept

(* What no phase before Advance touches.                                    *)
SameJob(s, v) == /\ v.cur = s.cur /\ v.wl_end = s.wl_end /\ v.send_list = s.send_list
                 /\ v.s_rq = s.s_rq /\ v.buffer = s.buffer

(* One part of Work after the other.                                        *)
LEMMA ComputedSafe ==
  ASSUME NEW c \in Cores, OutputsOwn(c), NEW s, Safe(c, s), Counting(s), Stock(c, s)
  PROVE  /\ Safe(c, Computed(c, s)) /\ Counting(Computed(c, s)) /\ Stock(c, Computed(c, s))
         /\ SameJob(s, Computed(c, s))
<1> DEFINE s1 == Tick(s)
           s2 == Start(c, s1)
           s3 == PickRc(s2)
           s4 == PickSd(s3)
           s5 == Compute(c, s4)
<1>0. DOMAIN s = Fields
  BY CoreFields DEF Safe, CoreTypes
<1>1. Safe(c, s1) /\ Ticked(s1) /\ DOMAIN s1 = Fields /\ Stock(c, s1) /\ SameJob(s, s1)
  <2>1. SameJob(s, Tick(s))
    BY <1>0 DEF Tick, SameJob, Fields
  <2> QED
    BY <1>0, <2>1, TickSafe, CurKept, StockPicks
<1> HIDE DEF s1
<1>2. Safe(c, s2) /\ Ticked(s2) /\ DOMAIN s2 = Fields /\ Stock(c, s2) /\ SameJob(s1, s2)
  <2>1. SameJob(s1, Start(c, s1))
    BY <1>1 DEF Start, SameJob, Fields
  <2> QED
    BY <1>1, <2>1, StartSafe, CurKept, StockPicks
<1> HIDE DEF s2
<1>3. Safe(c, s3) /\ Ticked(s3) /\ DOMAIN s3 = Fields /\ Stock(c, s3) /\ SameJob(s2, s3)
  <2>1. SameJob(s2, PickRc(s2))
    BY <1>2 DEF PickRc, SameJob, Fields
  <2> QED
    BY <1>2, <2>1, PickRcSafe, CurKept, StockPicks
<1> HIDE DEF s3
<1>4. Safe(c, s4) /\ Ticked(s4) /\ DOMAIN s4 = Fields /\ Stock(c, s4) /\ SameJob(s3, s4)
  <2>1. SameJob(s3, PickSd(s3))
    BY <1>3 DEF PickSd, SameJob, Fields
  <2> QED
    BY <1>3, <2>1, PickSdSafe, CurKept, StockPicks
<1> HIDE DEF s4
<1>5. Safe(c, s5) /\ Counting(s5) /\ Stock(c, s5) /\ SameJob(s4, s5)
  <2>1. SameJob(s4, Compute(c, s4))
    <3>1. SameJob(s4, TileDone(c, s4))
      BY <1>4 DEF TileDone, WriteObuf, SameJob, Fields
    <3>2. SameJob(s4, s4)
      BY DEF SameJob
    <3>3. SameJob(s4, [s4 EXCEPT !.pending = FALSE, !.due = NextTileTime(c, s4)])
      BY <1>4 DEF SameJob, Fields
    <3> QED
      BY <3>1, <3>2, <3>3 DEF Compute
  <2> QED
    BY <1>4, <2>1, ComputeSafe, StockCompute
<1> HIDE DEF s5
<1>6. SameJob(s, s5)
  BY <1>1, <1>2, <1>3, <1>4, <1>5 DEF SameJob
<1> QED
  BY <1>5, <1>6 DEF Computed, s1, s2, s3, s4, s5

-----------------------------------------------------------------------------
(* The jobs of a core in turn: Work begins one, ends one, or does neither.    *)

Keeps(s, v) == BegunOf(v) = BegunOf(s) /\ EndedOf(v) = EndedOf(s)
Begins(c, s, v) ==
  /\ s.dataready /\ s.cur \in 1 .. Len(Workloads[c])
  /\ BegunOf(s) = s.cur - 1 /\ EndedOf(s) = s.cur - 1
  /\ BegunOf(v) = s.cur /\ EndedOf(v) = s.cur - 1
Ends(c, s, v) ==
  /\ s.cur \in 1 .. Len(Workloads[c])
  /\ BegunOf(s) = s.cur /\ EndedOf(s) = s.cur - 1
  /\ BegunOf(v) = s.cur /\ EndedOf(v) = s.cur

(* The flags that tell the jobs apart, and what they depend on.              *)
SameTurn(s, v) ==
  /\ v.cur = s.cur /\ v.wl_end = s.wl_end /\ v.next_start = s.next_start
  /\ v.wl_fn = s.wl_fn /\ v.tiles = s.tiles /\ v.gran = s.gran /\ v.dataready = s.dataready

(* A job in progress is the one that counts as begun; between two jobs the   *)
(* next one is loaded.                                                     *)
LEMMA TurnFlags ==
  ASSUME NEW c \in Cores, NEW s, Safe(c, s)
  PROVE  /\ s.cur \in Nat /\ Len(Workloads[c]) \in Nat
         /\ ~s.wl_fn => /\ s.cur \in 1 .. Len(Workloads[c]) /\ ~Between(s)
                        /\ BegunOf(s) = s.cur /\ EndedOf(s) = s.cur - 1 /\ s.tiles >= 1
         /\ BegunOf(s) \in Nat /\ EndedOf(s) \in Nat
         /\ EndedOf(s) <= s.cur /\ EndedOf(s) >= s.cur - 1
<1>1. Len(Workloads[c]) \in Nat /\ s.cur \in Nat
  BY WorkloadsType DEF Safe, CoreTypes
<1>2. ASSUME ~s.wl_fn
      PROVE  /\ s.cur \in 1 .. Len(Workloads[c]) /\ ~Between(s)
             /\ BegunOf(s) = s.cur /\ EndedOf(s) = s.cur - 1 /\ s.tiles >= 1
  <2>1. s.cur >= 1 /\ ~s.next_start /\ s.tiles >= 1
    BY <1>2 DEF Safe, Orderly
  <2>2. ~s.wl_end
    BY <1>1, <1>2 DEF Safe, Orderly
  <2>3. s.cur <= Len(Workloads[c])
    BY <2>2 DEF Safe, Orderly
  <2> QED
    BY <1>1, <1>2, <2>1, <2>2, <2>3 DEF Between, BegunOf, EndedOf
<1>3. ~Between(s) => s.cur >= 1
  BY <1>1, <1>2 DEF Between, Safe, Orderly
<1> QED
  BY <1>1, <1>2, <1>3 DEF BegunOf, EndedOf, Before, Between

(* The phases that begin and end no job.                                    *)
LEMMA TurnKept ==
  ASSUME NEW s, NEW v, SameTurn(s, v)
  PROVE  Keeps(s, v)
  BY DEF SameTurn, Keeps, BegunOf, EndedOf, Before, Between

(* The end of a tile ends the job with its last tile (core.cpp:285).         *)
LEMMA TileDoneTurn ==
  ASSUME NEW c, NEW s, DOMAIN s = Fields
  PROVE  /\ TileDone(c, s).cur = s.cur /\ TileDone(c, s).wl_end = s.wl_end
         /\ TileDone(c, s).next_start = s.next_start
         /\ s.tiles - 1 = 0 => TileDone(c, s).wl_fn = TRUE
         /\ s.tiles - 1 # 0 => TileDone(c, s).wl_fn = s.wl_fn
<1> DEFINE w == WriteObuf(c, s)
           n == [w EXCEPT !.sd = NextSd(w), !.tiles = @ - 1]
           t == TileDone(c, s)
<1>1. /\ DOMAIN w = Fields /\ w.cur = s.cur /\ w.wl_end = s.wl_end /\ w.wl_fn = s.wl_fn
      /\ w.next_start = s.next_start /\ w.tiles = s.tiles
  BY DEF WriteObuf, Fields
<1> HIDE DEF w
<1>2. /\ DOMAIN n = Fields /\ n.cur = w.cur /\ n.wl_end = w.wl_end /\ n.wl_fn = w.wl_fn
      /\ n.next_start = w.next_start /\ n.tiles = w.tiles - 1
  BY <1>1 DEF Fields
<1>3. t = IF n.tiles = 0 THEN [n EXCEPT !.wl_fn = TRUE, !.cnt1 = 0]
          ELSE IF n.rc = NoBuf THEN [n EXCEPT !.pending = TRUE]
          ELSE [n EXCEPT !.due = NextTileTime(c, n)]
  BY DEF TileDone, w
<1> HIDE DEF n, t
<1>4. CASE n.tiles = 0
  BY <1>1, <1>2, <1>3, <1>4 DEF Fields, t
<1>5. CASE n.tiles # 0
  <2>1. t.cur = n.cur /\ t.wl_end = n.wl_end /\ t.next_start = n.next_start /\ t.wl_fn = n.wl_fn
    BY <1>2, <1>3, <1>5 DEF Fields
  <2> QED
    BY <1>1, <1>2, <1>5, <2>1 DEF t
<1> QED
  BY <1>4, <1>5

(* The computing phase ends the job or leaves it alone (core.cpp:271).       *)
LEMMA ComputeTurn ==
  ASSUME NEW c \in Cores, NEW s, Safe(c, s), Ticked(s)
  PROVE  \/ Keeps(s, Compute(c, s))
         \/ Ends(c, s, Compute(c, s)) /\ s.tiles = 1 /\ s.due = 0 /\ ~s.wl_fn
<1> DEFINE u == Compute(c, s)
<1>0. DOMAIN s = Fields
  BY CoreFields DEF Safe, CoreTypes
<1>1. CASE s.running /\ ~s.wl_end /\ s.due = 0
  <2>1. u = TileDone(c, s)
    BY <1>1 DEF Compute
  <2>2. ~s.wl_fn
    BY <1>1 DEF Ticked
  <2>3. s.tiles \in Int
    BY DEF Safe, CoreTypes
  <2>4. /\ u.cur = s.cur /\ u.wl_end = s.wl_end /\ u.next_start = s.next_start
        /\ s.tiles - 1 = 0 => u.wl_fn = TRUE
        /\ s.tiles - 1 # 0 => u.wl_fn = s.wl_fn
    <3> HIDE DEF u
    <3>1. DOMAIN s = Fields
      BY <1>0
    <3> QED
      BY <3>1, <2>1, TileDoneTurn
  <2>5. /\ s.cur \in 1 .. Len(Workloads[c]) /\ ~Between(s)
        /\ BegunOf(s) = s.cur /\ EndedOf(s) = s.cur - 1
    BY <2>2, TurnFlags
  <2> HIDE DEF u
  <2>6. CASE s.tiles = 1
    <3>1. u.wl_fn = TRUE
      BY <2>4, <2>6
    <3>2. BegunOf(u) = s.cur /\ EndedOf(u) = s.cur
      BY <2>4, <2>5, <3>1 DEF Between, BegunOf, EndedOf
    <3> QED
      BY <1>1, <2>2, <2>5, <2>6, <3>2 DEF Ends, u
  <2>7. CASE s.tiles # 1
    <3>1. u.wl_fn = s.wl_fn
      BY <2>3, <2>4, <2>7
    <3> QED
      BY <2>4, <3>1 DEF Keeps, Between, BegunOf, EndedOf, Before, u
  <2> QED
    BY <2>6, <2>7
<1>2. CASE ~(s.running /\ ~s.wl_end /\ s.due = 0)
  <2>1. /\ u.cur = s.cur /\ u.wl_end = s.wl_end /\ u.next_start = s.next_start
        /\ u.wl_fn = s.wl_fn
    BY <1>0, <1>2 DEF Compute, Fields
  <2> QED
    BY <2>1 DEF Keeps, Between, BegunOf, EndedOf, Before
<1> QED
  BY <1>1, <1>2

(* Loading the next workload neither begins nor ends one (core.cpp:123).     *)
LEMMA AdvanceTurn ==
  ASSUME NEW c \in Cores, NEW s, Safe(c, s), Stock(c, s), NEW u, Advanced(c, s, u)
  PROVE  Keeps(s, u)
<1>1. CASE u = s
  BY <1>1 DEF Keeps
<1>2. CASE u # s
  <2>1. /\ s.wl_fn /\ ~s.wl_end /\ s.cnt1 = 0 /\ u.cur = s.cur + 1 /\ u.next_start
    BY <1>2 DEF Advanced
  <2>2. s.tiles = 0 /\ s.gran \in Nat \ {0} /\ s.cur \in Nat
    BY <2>1 DEF Stock, Progress, Safe, CoreTypes
  <2>3. s.next_start <=> s.cur = 0
    BY <2>1, <2>2 DEF Safe, Orderly
  <2>4. BegunOf(s) = s.cur /\ EndedOf(s) = s.cur
    BY <2>1, <2>2, <2>3 DEF Between, BegunOf, EndedOf, Before
  <2>5. BegunOf(u) = s.cur /\ EndedOf(u) = s.cur
    BY <2>1, <2>2 DEF Between, BegunOf, EndedOf, Before
  <2> QED
    BY <2>4, <2>5 DEF Keeps
<1> QED
  BY <1>1, <1>2

(* The start of a job (core.cpp:250); its first tile, if it is the only one,  *)
(* takes time.                                                             *)
LEMMA StartTurn ==
  ASSUME NEW c \in Cores, NEW s, Safe(c, s)
  PROVE  \/ Start(c, s) = s
         \/ (Begins(c, s, Start(c, s)) /\ (Start(c, s).tiles = 1 => Start(c, s).due # 0))
<1> DEFINE u == Start(c, s)
<1>0. DOMAIN s = Fields
  BY CoreFields DEF Safe, CoreTypes
<1>1. CASE ~(s.wl_fn /\ s.next_start /\ s.dataready /\ s.rc # NoBuf /\ ~s.wl_end)
  BY <1>1 DEF Start
<1>2. CASE s.wl_fn /\ s.next_start /\ s.dataready /\ s.rc # NoBuf /\ ~s.wl_end
  <2>1. /\ u.cur = s.cur /\ u.wl_end = s.wl_end /\ u.next_start = FALSE /\ u.wl_fn = FALSE
        /\ u.tiles = s.tiles /\ u.due = TileTime(CurWl(c, s), s.gran, 1)
    BY <1>0, <1>2 DEF Start, Fields
  <2>2. s.cur \in 1 .. Len(Workloads[c])
    BY <1>2, TurnFlags DEF Safe, Orderly
  <2>3. BegunOf(s) = s.cur - 1 /\ EndedOf(s) = s.cur - 1
    BY <1>2, <2>2 DEF Between, BegunOf, EndedOf, Before
  <2>4. BegunOf(u) = s.cur /\ EndedOf(u) = s.cur - 1
    BY <1>2, <2>1, <2>2 DEF Between, BegunOf, EndedOf, Before
  <2>5. ASSUME u.tiles = 1
        PROVE  u.due # 0
    <3>1. s.gran = 1
      BY <1>2, <2>1, <2>2, <2>5 DEF Safe, Orderly
    <3>2. CurWl(c, s).time \in Nat \ {0}
      BY <2>2, JobType DEF CurWl, Workload
    <3> QED
      BY <2>1, <3>1, <3>2 DEF TileTime
  <2> QED
    BY <1>2, <2>2, <2>3, <2>4, <2>5 DEF Begins
<1> QED
  BY <1>1, <1>2

(* A call of Work begins one job, ends one, or does neither.                 *)
LEMMA WorkTurn ==
  ASSUME NEW c \in Cores, OutputsOwn(c), NEW s, Safe(c, s), Counting(s), Stock(c, s)
  PROVE  Keeps(s, Work(c, s)) \/ Begins(c, s, Work(c, s)) \/ Ends(c, s, Work(c, s))
<1> DEFINE s1 == Tick(s)
           s2 == Start(c, s1)
           s3 == PickRc(s2)
           s4 == PickSd(s3)
           s5 == Compute(c, s4)
           u  == Advance(c, s5)
<1>0. DOMAIN s = Fields
  BY CoreFields DEF Safe, CoreTypes
<1>1. Safe(c, s1) /\ Ticked(s1) /\ DOMAIN s1 = Fields /\ SameTurn(s, s1)
  <2>1. SameTurn(s, Tick(s))
    BY <1>0 DEF Tick, SameTurn, Fields
  <2> QED
    BY <1>0, <2>1, TickSafe, CurKept
<1> HIDE DEF s1
<1>2. /\ Safe(c, s2) /\ Ticked(s2) /\ DOMAIN s2 = Fields
      /\ s2 = s1 \/ (Begins(c, s1, s2) /\ (s2.tiles = 1 => s2.due # 0))
  <2>1. Safe(c, s2) /\ Ticked(s2) /\ DOMAIN s2 = Fields
    BY <1>1, StartSafe, CurKept
  <2>2. s2 = s1 \/ (Begins(c, s1, s2) /\ (s2.tiles = 1 => s2.due # 0))
    BY <1>1, StartTurn
  <2> QED
    BY <2>1, <2>2
<1> HIDE DEF s2
<1>3. Safe(c, s3) /\ Ticked(s3) /\ DOMAIN s3 = Fields /\ SameTurn(s2, s3) /\ s3.due = s2.due
  <2>1. SameTurn(s2, PickRc(s2)) /\ PickRc(s2).due = s2.due
    BY <1>2 DEF PickRc, SameTurn, Fields
  <2> QED
    BY <1>2, <2>1, PickRcSafe, CurKept
<1> HIDE DEF s3
<1>4. Safe(c, s4) /\ Ticked(s4) /\ DOMAIN s4 = Fields /\ SameTurn(s3, s4) /\ s4.due = s3.due
  <2>1. SameTurn(s3, PickSd(s3)) /\ PickSd(s3).due = s3.due
    BY <1>3 DEF PickSd, SameTurn, Fields
  <2> QED
    BY <1>3, <2>1, PickSdSafe, CurKept
<1> HIDE DEF s4
<1>5. Keeps(s4, s5) \/ (Ends(c, s4, s5) /\ s4.tiles = 1 /\ s4.due = 0)
  BY <1>4, ComputeTurn
<1>6. Safe(c, s5) /\ Counting(s5) /\ Stock(c, s5)
  BY ComputedSafe DEF Computed, s1, s2, s3, s4, s5
<1> HIDE DEF s5
<1>7. Keeps(s5, u)
  <2>1. Advanced(c, s5, u)
    BY <1>6, AdvanceSafe
  <2> QED
    BY <1>6, <2>1, AdvanceTurn
<1> HIDE DEF u
<1>8. Keeps(s, s1) /\ Keeps(s2, s3) /\ Keeps(s3, s4) /\ s1.cur = s.cur /\ s1.dataready = s.dataready
      /\ s4.cur = s2.cur /\ s4.tiles = s2.tiles /\ s4.due = s2.due
  BY <1>1, <1>3, <1>4, TurnKept DEF SameTurn
<1>9. CASE s2 = s1
  <2>1. Keeps(s, s4) /\ s4.cur = s.cur
    BY <1>8, <1>9 DEF Keeps
  <2>2. Keeps(s, u) \/ Ends(c, s, u)
    BY <1>5, <1>7, <2>1 DEF Keeps, Ends
  <2> QED
    BY <2>2 DEF Work, u, s5, s4, s3, s2, s1
<1>10. CASE Begins(c, s1, s2) /\ (s2.tiles = 1 => s2.due # 0)
  <2>1. Keeps(s4, s5)
    BY <1>5, <1>8, <1>10
  <2>2. Begins(c, s, u)
    BY <1>7, <1>8, <1>10, <2>1 DEF Keeps, Begins
  <2> QED
    BY <2>2 DEF Work, u, s5, s4, s3, s2, s1
<1> QED
  BY <1>2, <1>9, <1>10

-----------------------------------------------------------------------------
(* A core that has done nothing is as it should be (core.cpp:65).            *)
LEMMA CoreNew ==
  ASSUME NEW c \in Cores, NEW s, s = CoreInit
  PROVE  /\ Safe(c, s) /\ Counting(s) /\ Stock(c, s) /\ Fed(c, s)
         /\ s.cur = 0 /\ s.buffer = {} /\ BegunOf(s) = 0 /\ EndedOf(s) = 0
         /\ s.s_rq = [t \in Tids |-> NoEntry] /\ s.send_list = [t \in Tids |-> 0]
         /\ s.cur_rq = NoRequests /\ s.r_rq = NoRequests
<1>1. /\ s.cur = 0 /\ s.wl_end = FALSE /\ s.overall_end = FALSE /\ s.gran = Gran0
      /\ s.wl_fn = TRUE /\ s.next_start = TRUE /\ s.dataready = FALSE /\ s.running = FALSE
      /\ s.cnt1 = 0 /\ s.pending = FALSE /\ s.due = -1 /\ s.tiles = 0
      /\ s.rc = 1 /\ s.sd = NoBuf /\ s.mini = 1
      /\ s.obuf = [i \in Obufs |-> << >>] /\ s.obuf_wl = [i \in Obufs |-> 0]
      /\ s.cur_rq = NoRequests /\ s.r_rq = NoRequests
      /\ s.s_rq = [t \in Tids |-> NoEntry] /\ s.to_request = << >>
      /\ s.buffer = {} /\ s.left_data = {}
      /\ s.send_list = [t \in Tids |-> 0] /\ s.ddr_rel = [t \in Tids |-> NoDdr]
  BY DEF CoreInit
<1>2. DOMAIN s = DOMAIN CoreInit
  OBVIOUS
<1>3. Len(Workloads[c]) \in Nat /\ DOMAIN Workloads[c] = 1 .. Len(Workloads[c])
  BY WorkloadsType
<1>4. 1 \in Obufs
  BY CoreAssumption DEF Obufs
<1>5. NoRequests \in [Tids -> [Cores -> Int]] /\ NoEntry \in EntryType
  BY DEF NoRequests, NoEntry, EntryType
<1>6. << >> \in Seq(MiniTileType) /\ << >> \in Seq(SUBSET RequestType)
  BY EmptySeq
<1>7. s.obuf \in [Obufs -> Seq(MiniTileType)] /\ \A i \in Obufs : DOMAIN s.obuf[i] = {}
  BY <1>1, <1>6
<1>8. CoreTypes(c, s)
  <2>1. /\ s.cur \in 0 .. Len(Workloads[c]) + 1
        /\ s.gran \in Nat \ {0} /\ s.tiles \in 0 .. s.gran /\ s.due \in Nat \cup {-1}
        /\ s.rc \in Obufs \cup {NoBuf} /\ s.sd \in Obufs \cup {NoBuf} /\ s.mini \in Nat \ {0}
    BY <1>1, <1>3, <1>4, CoreAssumption
  <2>2. s.obuf_wl \in [Obufs -> 0 .. s.cur]
    BY <1>1
  <2>3. /\ s.cur_rq \in [Tids -> [Cores -> Int]] /\ s.r_rq \in [Tids -> [Cores -> Int]]
        /\ s.s_rq \in [Tids -> EntryType] /\ s.to_request \in Seq(SUBSET RequestType)
        /\ s.send_list \in [Tids -> Int] /\ s.ddr_rel \in [Tids -> Ddrs \cup {NoDdr}]
    BY <1>1, <1>5, <1>6
  <2>4. /\ s.wl_end \in BOOLEAN /\ s.overall_end \in BOOLEAN /\ s.wl_fn \in BOOLEAN
        /\ s.next_start \in BOOLEAN /\ s.dataready \in BOOLEAN /\ s.running \in BOOLEAN
        /\ s.pending \in BOOLEAN /\ s.cnt1 \in {0, 1}
        /\ s.buffer \subseteq Layers \X Tids /\ s.left_data \subseteq Tids
    BY <1>1
  <2> QED
    BY <1>2, <1>7, <2>1, <2>2, <2>3, <2>4 DEF CoreTypes
<1> HIDE DEF CoreInit
<1>9. Safe(c, s) /\ Counting(s)
  <2>1. BuffersApart(s) /\ HasRoom(s) /\ DrainJustified(s) /\ Orderly(c, s) /\ Counting(s)
    BY <1>1, <1>3, <1>4 DEF BuffersApart, HasRoom, DrainJustified, Orderly, Counting
  <2> QED
    BY <1>8, <2>1 DEF Safe
<1>10. Fed(c, s)
  BY <1>1 DEF Fed
<1>11. BegunOf(s) = 0 /\ EndedOf(s) = 0
  BY <1>1 DEF BegunOf, EndedOf, Between, Before
<1>12. Stock(c, s)
  <2>1. Pieces(c, s)
    BY <1>7 DEF Pieces
  <2>2. Progress(c, s)
    BY <1>1, CoreAssumption DEF Progress
  <2>3. ASSUME NEW t \in Tids
        PROVE  s.send_list[t] = Buffered(s, t) + Uncomputed(c, s, t)
    <3>1. Buffered(s, t) = 0
      BY <1>7, <2>1, BufferedType
    <3>2. Uncomputed(c, s, t) = 0
      BY <1>1, NothingLeft
    <3>3. s.send_list[t] = 0
      BY <1>1
    <3> QED
      BY <3>1, <3>2, <3>3
  <2> QED
    BY <2>1, <2>2, <2>3 DEF Stock, Held
<1> QED
  BY <1>1, <1>9, <1>10, <1>11, <1>12
=============================================================================
