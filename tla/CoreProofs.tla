----------------------------- MODULE CoreProofs -----------------------------
(***************************************************************************)
(* What is proved of a core in its environment.  CoreOpsProofs has the      *)
(* operators; here Books ties the record to what waits for injection and to *)
(* the environment, and IInv is the inductive invariant of BuffersSafe.     *)
(*                                                                         *)
(* The books of the environment and the lists of the code are two accounts  *)
(* of the same traffic.  OutInv says how they agree: requests received      *)
(* against _r_rq_list and _cur_wl_rq, bytes owed by the suppliers against   *)
(* _s_rq_list, bytes held in o_buf and tiles to come against                *)
(* _send_data_list, and bytes sent against the size of the output.          *)
(***************************************************************************)
EXTENDS Core, CoreOpsProofs

(* The core of the theorems is one of the cores, and its outputs are its own. *)
USE SelfAssumption, OutputAssumption DEF Jobs

-----------------------------------------------------------------------------
(* The core in its environment.                                            *)

(* Nothing is under way before the first workload has been loaded, so that  *)
(* no data can make a core ready that has nothing to compute.              *)
Books ==
  /\ out \in Packet \cup {NoPacket}
  /\ DOMAIN supply = Tids
  /\ \A t \in Tids : \A p \in DOMAIN supply[t] : supply[t][p] \in Int
  /\ core.cur = 0 => out = NoPacket /\ \A t \in Tids : DOMAIN supply[t] = {}

IInv == Safe(Self, core) /\ Counting(core) /\ Books

(* The invariant holds initially.                                           *)
LEMMA InitInv == Init => IInv
<1> SUFFICES ASSUME Init
             PROVE  IInv
  OBVIOUS
<1>1. core = CoreInit
  BY DEF Init
<1>2. Safe(Self, core) /\ Counting(core)
  BY <1>1, CoreNew
<1>3. Books
  BY DEF Books, Init, NoSupply
<1> QED
  BY <1>2, <1>3 DEF IInv

(* A packet of data is one of the packets of the queue (core.cpp:642).       *)
LEMMA DataPacketType ==
  ASSUME NEW c \in Cores, NEW s, Safe(c, s), s.sd # NoBuf, NEW d \in Ddrs
  PROVE  DataPacket(c, s, d) \in Packet
<1>1. MiniTile(s) \in MiniTileType /\ PacketSize(s) \in Int
  BY MiniTileInBuffer
<1>2. MiniTile(s).tid \in Tids /\ MiniTile(s).dst \in SUBSET (Cores \cup {DRAM})
  BY <1>1 DEF MiniTileType
<1>3. IsEnd(s) \in BOOLEAN
  BY DEF IsEnd
<1>4. DdrNode(d) \in DdrNodes
  BY DEF DdrNodes
<1> DEFINE to == (MiniTile(s).dst \ {DRAM}) \cup
                   (IF ~ToDram(s) THEN {} ELSE IF IsEnd(s) THEN DdrNodes ELSE {DdrNode(d)})
<1>5. to \in SUBSET (Cores \cup DdrNodes)
  BY <1>2, <1>4
<1>6. DataPacket(c, s, d) = [kind |-> "data", tid |-> MiniTile(s).tid, src |-> c,
                             size |-> PacketSize(s), end |-> IsEnd(s), to |-> to]
  BY DEF DataPacket
<1> HIDE DEF to
<1> QED
  BY <1>1, <1>2, <1>3, <1>5, <1>6 DEF Packet

(* Core::run keeps the invariant.                                           *)
LEMMA RunInv == IInv /\ Run => IInv'
<1> SUFFICES ASSUME IInv, Run
             PROVE  IInv'
  OBVIOUS
<1> DEFINE s == Work(Self, core)
<1>1. Safe(Self, s) /\ Counting(s) /\ s.cur >= core.cur
  BY SelfAssumption, WorkSafe DEF IInv
<1>2. supply' = supply
  BY DEF Run, RunOnly, RunRequest, RunSend
<1>3. s.cur \in Nat /\ core.cur \in Nat /\ (s.cur = 0 => core.cur = 0)
  BY <1>1 DEF IInv, Safe, CoreTypes
<1>4. s.cur = 0 => s.to_request = << >> /\ s.sd = NoBuf
  <2> SUFFICES ASSUME s.cur = 0
               PROVE  s.to_request = << >> /\ s.sd = NoBuf
    OBVIOUS
  <2> HIDE DEF s
  <2>1. s.to_request = << >> /\ \A i \in Obufs : s.obuf[i] = << >>
    BY <1>1 DEF Safe, Orderly
  <2>2. s.sd # NoBuf => s.sd \in Obufs /\ s.obuf[s.sd] # << >>
    BY <1>1 DEF Safe, CoreTypes, BuffersApart
  <2> QED
    BY <2>1, <2>2
<1>5. CASE RunOnly
  <2>1. core' = s /\ out' = out
    BY <1>5 DEF RunOnly
  <2> HIDE DEF s
  <2>2. Safe(Self, core') /\ Counting(core')
    BY <1>1, <2>1
  <2>3. Books'
    BY <1>2, <1>3, <2>1 DEF IInv, Books
  <2> QED
    BY <2>2, <2>3 DEF IInv, Safe, Counting, CoreTypes, BuffersApart, HasRoom, DrainJustified, Orderly
<1>6. CASE RunRequest
  <2>1. s.to_request # << >>
    BY <1>6 DEF RunRequest, CanRequest
  <2>2. PICK r \in Head(s.to_request) : core' = RequestSent(s, r) /\ out' = RequestPacket(Self, r)
    BY <1>6 DEF RunRequest
  <2>3. Head(s.to_request) \in SUBSET RequestType
    <3> HIDE DEF s
    <3>1. s.to_request \in Seq(SUBSET RequestType)
      BY <1>1 DEF Safe, CoreTypes
    <3> QED
      BY <2>1, <3>1, HeadTailProperties
  <2> HIDE DEF s
  <2>4. Safe(Self, core') /\ Counting(core') /\ core'.cur = s.cur
    BY <1>1, <2>1, <2>2, SelfAssumption, RequestSentSafe
  <2>5. out' \in Packet
    <3>1. r.tid \in Tids /\ r.num \in Nat /\ r.from \in Cores \cup {DRAM}
      BY <2>2, <2>3 DEF RequestType
    <3>2. (IF r.from = DRAM THEN DdrNodes ELSE {r.from}) \in SUBSET (Cores \cup DdrNodes)
      BY <3>1
    <3> QED
      BY <2>2, <3>1, <3>2, SelfAssumption DEF RequestPacket, Packet
  <2>6. Books'
    BY <1>2, <1>3, <1>4, <2>1, <2>4, <2>5 DEF IInv, Books
  <2> QED
    BY <2>4, <2>6 DEF IInv, Safe, Counting, CoreTypes, BuffersApart, HasRoom, DrainJustified, Orderly
<1>7. CASE RunSend
  <2>1. s.sd # NoBuf
    BY <1>7 DEF RunSend, CanSend
  <2>2. PICK d \in DdrChoices(s, MiniTile(s).tid) :
          core' = DataSent(s, d) /\ out' = DataPacket(Self, s, d)
    BY <1>7 DEF RunSend
  <2> HIDE DEF s
  <2>3. Safe(Self, core') /\ Counting(core') /\ core'.cur = s.cur /\ d \in Ddrs
    BY <1>1, <2>1, <2>2, SelfAssumption, DataSentSafe
  <2>4. out' \in Packet
    BY <1>1, <2>1, <2>2, <2>3, SelfAssumption, DataPacketType
  <2>5. Books'
    BY <1>2, <1>3, <1>4, <2>1, <2>3, <2>4 DEF IInv, Books
  <2> QED
    BY <2>3, <2>5 DEF IInv, Safe, Counting, CoreTypes, BuffersApart, HasRoom, DrainJustified, Orderly
<1> QED
  BY <1>5, <1>6, <1>7 DEF Run

(* The network taking a packet keeps the invariant.                         *)
LEMMA InjectInv == IInv /\ Inject => IInv'
<1> SUFFICES ASSUME IInv, Inject
             PROVE  IInv'
  OBVIOUS
<1>1. core' = core /\ out' = NoPacket /\ out # NoPacket /\ out \in Packet
  BY DEF Inject, IInv, Books
<1>2. core.cur # 0
  BY <1>1 DEF IInv, Books
<1>3. /\ DOMAIN supply' = Tids
      /\ \A t \in Tids : \A p \in DOMAIN supply'[t] : supply'[t][p] \in Int
  <2>1. DOMAIN supply = Tids /\ \A t \in Tids : \A p \in DOMAIN supply[t] : supply[t][p] \in Int
    BY DEF IInv, Books
  <2>2. CASE out.kind = "request"
    <3>1. supply' = [supply EXCEPT ![out.tid] = IF @ = NoSupply THEN Shares(out.tid) ELSE @]
      BY <2>2 DEF Inject
    <3>2. out.tid \in Tids
      BY <1>1 DEF Packet
    <3>3. core.s_rq[out.tid].left \in Int
      BY <3>2 DEF IInv, Safe, CoreTypes, EntryType
    <3>4. \A p \in DOMAIN Shares(out.tid) : Shares(out.tid)[p] \in Int
      BY <3>3, PlatformAssumption DEF Shares
    <3> QED
      BY <2>1, <3>1, <3>2, <3>4
  <2>3. CASE out.kind # "request"
    BY <2>1, <2>3 DEF Inject
  <2> QED
    BY <2>2, <2>3
<1>4. Books'
  BY <1>1, <1>2, <1>3 DEF Books
<1>5. Safe(Self, core') /\ Counting(core')
  BY <1>1 DEF IInv
<1> QED
  BY <1>4, <1>5
  DEF IInv, Safe, Counting, CoreTypes, BuffersApart, HasRoom, DrainJustified, Orderly

(* receive_message keeps the invariant.                                     *)
LEMMA ReceiveInv == IInv /\ Receive => IInv'
<1> SUFFICES ASSUME IInv, Receive
             PROVE  IInv'
  OBVIOUS
<1>1. CASE \E t \in Tids, d \in Cores : ReceiveRequest(t, d)
  <2>1. PICK t \in Tids, d \in Cores : ReceiveRequest(t, d)
    BY <1>1
  <2>2. core' = RequestReceived(core, t, d, 1) /\ out' = out /\ supply' = supply
    BY <2>1 DEF ReceiveRequest
  <2>3. Safe(Self, core') /\ Counting(core') /\ core'.cur = core.cur
    <3>1. \A k \in Nat : /\ Safe(Self, RequestReceived(core, t, d, k))
                         /\ Counting(RequestReceived(core, t, d, k))
                         /\ RequestReceived(core, t, d, k).cur = core.cur
      BY SelfAssumption, RequestReceivedSafe DEF IInv
    <3> QED
      BY <2>2, <3>1
  <2>4. Books'
    BY <2>2, <2>3 DEF IInv, Books
  <2> QED
    BY <2>3, <2>4
    DEF IInv, Safe, Counting, CoreTypes, BuffersApart, HasRoom, DrainJustified, Orderly
<1>2. CASE \E t \in Tids, p \in Ddrs : ReceiveData(t, p)
  <2>1. PICK t \in Tids, p \in Ddrs : ReceiveData(t, p)
    BY <1>2
  <2> DEFINE size == Smaller(supply[t][p], PacketBytes)
             end == size = supply[t][p]
  <2>2. /\ core' = DataReceived(core, t, size, end) /\ out' = out
        /\ supply' = [supply EXCEPT ![t][p] = @ - size] /\ p \in DOMAIN supply[t]
    BY <2>1 DEF ReceiveData
  <2>3. supply[t][p] \in Int /\ size \in Int /\ end \in BOOLEAN
    BY <2>2, PlatformAssumption DEF IInv, Books, Smaller
  <2> HIDE DEF size, end
  <2>4. core.cur # 0 /\ core.cur >= 1
    <3>1. core.cur # 0
      BY <2>2 DEF IInv, Books
    <3>2. core.cur \in Nat
      BY DEF IInv, Safe, CoreTypes
    <3> QED
      BY <3>1, <3>2
  <2>5. Safe(Self, core') /\ Counting(core') /\ core'.cur = core.cur
    BY <2>2, <2>3, <2>4, SelfAssumption, DataReceivedSafe DEF IInv
  <2>6. /\ DOMAIN supply' = Tids
        /\ \A u \in Tids : \A q \in DOMAIN supply'[u] : supply'[u][q] \in Int
    BY <2>2, <2>3 DEF IInv, Books
  <2>7. Books'
    BY <2>2, <2>4, <2>5, <2>6 DEF IInv, Books
  <2> QED
    BY <2>5, <2>7
    DEF IInv, Safe, Counting, CoreTypes, BuffersApart, HasRoom, DrainJustified, Orderly
<1> QED
  BY <1>1, <1>2 DEF Receive

(* Every step keeps the invariant.                                          *)
LEMMA StepInv == IInv /\ [Next]_vars => IInv'
<1> SUFFICES ASSUME IInv, [Next]_vars
             PROVE  IInv'
  OBVIOUS
<1>1. CASE UNCHANGED vars
  BY <1>1 DEF vars, IInv, Books, Safe, Counting, CoreTypes, BuffersApart, HasRoom,
              DrainJustified, Orderly, AllRequested
<1> QED
  BY <1>1, RunInv, InjectInv, ReceiveInv DEF Next

(* The inductive invariant holds: the flags of Core::run (core.cpp:242) are  *)
(* never combined in a way its phases do not expect.                        *)
THEOREM Invariance == Spec => []IInv
  BY InitInv, StepInv, PTL DEF Spec

-----------------------------------------------------------------------------
(* The Core object and what it hands over are well formed, for every input  *)
(* of the JSON file and every order of arrival (core.cpp).                  *)
THEOREM TypeCorrect == Spec => []TypeOK
<1>1. IInv => TypeOK
  BY DEF IInv, Safe, Books, TypeOK
<1> QED
  BY <1>1, Invariance, PTL

(* The buffer computed into and the one drained never coincide, and         *)
(* _sd_mini_tile_id always points into the latter (core.cpp:642).           *)
THEOREM BuffersStayApart == Spec => []ObufsApart
<1>1. IInv => ObufsApart
  BY DEF IInv, Safe, ObufsApart
<1> QED
  BY <1>1, Invariance, PTL

(* _write_obuf always has a buffer to write to (core.cpp:610).              *)
THEOREM TileHasBuffer == Spec => []TileHasRoom
<1>1. IInv => TileHasRoom
  BY DEF IInv, Safe, TileHasRoom
<1> QED
  BY <1>1, Invariance, PTL

(* Whatever is being drained is of an earlier workload or has been asked    *)
(* for by all its consumers (core.cpp:580).                                *)
THEOREM DrainStaysJustified == Spec => []DrainsOnlyRequested
<1>1. IInv => DrainsOnlyRequested
  BY DEF IInv, Safe, DrainsOnlyRequested
<1> QED
  BY <1>1, Invariance, PTL

(* The output buffers are handled safely: the four facts above together        *)
(* (core.cpp:580, 610, 642).                                               *)
THEOREM BuffersStaySafe == Spec => []BuffersSafe
<1>1. TypeOK /\ ObufsApart /\ DrainsOnlyRequested /\ TileHasRoom => BuffersSafe
  BY DEF BuffersSafe
<1> QED
  BY <1>1, TypeCorrect, BuffersStayApart, TileHasBuffer, DrainStaysJustified, PTL

(* A core is fed from the beginning, and by every step.                      *)
LEMMA FedInit == Init => Fed(Self, core)
  BY CoreNew DEF Init

(* A step keeps that.                                                      *)
LEMMA FedNext == IInv /\ Fed(Self, core) /\ [Next]_vars => Fed(Self, core)'
<1> SUFFICES ASSUME IInv, Fed(Self, core), [Next]_vars PROVE Fed(Self, core')
  BY DEF Fed, Comes, Has, CurWl
<1> DEFINE s == Work(Self, core)
<1>1. Safe(Self, core) /\ Counting(core) /\ Self \in Cores
  BY SelfAssumption DEF IInv
<1>2. Safe(Self, s) /\ Fed(Self, s)
  BY <1>1, WorkSafe, FedWork
<1>3. CASE Run
  <2>1. CASE RunOnly
    BY <1>2, <2>1 DEF RunOnly
  <2>2. CASE RunRequest
    <3>1. PICK r : core' = RequestSent(s, r)
      BY <2>2 DEF RunRequest
    <3> HIDE DEF s
    <3> QED
      BY <1>1, <1>2, <3>1, FedSending
  <2>3. CASE RunSend
    <3>1. PICK d : core' = DataSent(s, d)
      BY <2>3 DEF RunSend
    <3>2. s.sd # NoBuf
      BY <2>3 DEF RunSend, CanSend
    <3> HIDE DEF s
    <3> QED
      BY <1>1, <1>2, <3>1, <3>2, FedSending
  <2> QED
    BY <1>3, <2>1, <2>2, <2>3 DEF Run
<1>4. CASE Receive
  <2>1. ASSUME NEW t \in Tids, NEW d \in Cores, ReceiveRequest(t, d)
        PROVE  Fed(Self, core')
    <3>1. core' = RequestReceived(core, t, d, 1)
      BY <2>1 DEF ReceiveRequest
    <3> QED
      BY <1>1, <3>1, FedRequest
  <2>2. ASSUME NEW t \in Tids, NEW p \in Ddrs, ReceiveData(t, p)
        PROVE  Fed(Self, core')
    <3> DEFINE size == Smaller(supply[t][p], PacketBytes)
               end == size = supply[t][p]
    <3>1. core' = DataReceived(core, t, size, end) /\ p \in DOMAIN supply[t]
      BY <2>2 DEF ReceiveData
    <3>2. size \in Int /\ end \in BOOLEAN
      BY <3>1, PlatformAssumption DEF IInv, Books, Smaller
    <3> HIDE DEF size, end
    <3> QED
      BY <1>1, <3>1, <3>2, FedData
  <2> QED
    BY <1>4, <2>1, <2>2 DEF Receive
<1>5. CASE Inject \/ UNCHANGED vars
  <2>1. core' = core
    BY <1>5 DEF Inject, vars
  <2> QED
    BY <2>1
<1> QED
  BY <1>3, <1>4, <1>5 DEF Next

(* A running workload has all its inputs, in whatever order and parts they    *)
(* came: _dataready is never set too early (core.cpp:440, 517).               *)
THEOREM InputsStayPresent == Spec => []InputsPresent
<1> DEFINE Inv == IInv /\ Fed(Self, core)
<1>1. Init => Inv
  BY InitInv, FedInit
<1>2. Inv /\ [Next]_vars => Inv'
  BY StepInv, FedNext
<1>3. Inv => InputsPresent
  BY DEF Fed, Has, CurWl, InputsPresent, Jobs
<1> QED
  BY <1>1, <1>2, <1>3, PTL DEF Spec

-----------------------------------------------------------------------------
(* What suppliers still have to deliver of a transfer, against its entry.     *)
Suppliers(e) == IF e.from = DRAM THEN DdrNum ELSE 1
Owes(e, q) ==
  /\ e.left \in Nat /\ e.ends \in Nat
  /\ IsFiniteSet(DOMAIN q) /\ \A p \in DOMAIN q : q[p] \in Nat
  /\ SumFunctionOnSet(q, DOMAIN q) <= e.left
  /\ Cardinality({p \in DOMAIN q : q[p] > 0}) <= e.ends
  /\ q = NoSupply => e = NoEntry \/ e.ends = Suppliers(e)

(* Asking for a transfer keeps its entry, or opens one of the full size.     *)
LEMMA OwesRequested ==
  ASSUME NEW e \in EntryType, NEW q, Owes(e, q), NEW F \in SUBSET Fetches, NEW t
  PROVE  Owes(Requested(F, t, e), q)
<1> DEFINE G == {f \in F : f.tid = t}
           f == CHOOSE f \in G : TRUE
           fresh == [layers |-> {}, left |-> f.size, from |-> f.from,
                     ends |-> IF f.from = DRAM THEN DdrNum ELSE 1]
           new == IF e # NoEntry THEN e ELSE fresh
           r == [new EXCEPT !.layers = @ \cup {g.layer : g \in G}]
<1>1. CASE G = {}
  BY <1>1 DEF Requested
<1>2. CASE G # {}
  <2>1. Requested(F, t, e) = r
    BY <1>2 DEF Requested
  <2>2. f \in Fetches /\ f.size \in Nat
    <3>1. f \in G
      BY <1>2
    <3> QED
      BY <3>1 DEF Fetches
  <2> HIDE DEF f, G
  <2>3. /\ r.left = new.left /\ r.ends = new.ends /\ r.from = new.from
    BY DEF EntryType
  <2> HIDE DEF r
  <2>4. CASE e # NoEntry
    <3>1. new = e
      BY <2>4
    <3> QED
      BY <2>1, <2>3, <2>4, <3>1 DEF Owes, Suppliers
  <2>5. CASE e = NoEntry
    <3>1. new = fresh
      BY <2>5
    <3>2. r.left \in Nat /\ r.ends \in Nat /\ r.ends = Suppliers(r)
      BY <2>2, <2>3, <3>1, PlatformAssumption DEF Suppliers
    <3>3. e.left = 0 /\ e.ends = 0
      BY <2>5 DEF NoEntry
    <3> HIDE DEF new
    <3>4. /\ SumFunctionOnSet(q, DOMAIN q) <= r.left
          /\ Cardinality({p \in DOMAIN q : q[p] > 0}) <= r.ends
      <4>1. SumFunctionOnSet(q, DOMAIN q) \in Nat
        BY SumNat DEF Owes
      <4> DEFINE P == {p \in DOMAIN q : q[p] > 0}
      <4>2. P \in SUBSET DOMAIN q
        OBVIOUS
      <4> HIDE DEF P
      <4>3. Cardinality(P) \in Nat
        BY <4>2, FS_Subset, FS_CardinalityType DEF Owes
      <4>4. Cardinality(P) <= 0 /\ SumFunctionOnSet(q, DOMAIN q) <= 0
        BY <3>3 DEF Owes, P
      <4> QED
        BY <3>2, <4>1, <4>3, <4>4 DEF P
    <3> QED
      BY <2>1, <3>2, <3>4 DEF Owes
  <2> QED
    BY <2>4, <2>5
<1> QED
  BY <1>1, <1>2

(* The suppliers share what the entry says.                                 *)
LEMMA OwesShares ==
  ASSUME NEW e \in EntryType, Owes(e, NoSupply), NEW q,
         q = IF e.from = DRAM THEN [p \in Ddrs |-> e.left \div DdrNum] ELSE [p \in {0} |-> e.left]
  PROVE  Owes(e, q)
<1>1. e.left \in Nat /\ e.ends \in Nat /\ (e = NoEntry \/ e.ends = Suppliers(e))
  BY DEF Owes
<1>2. DdrNum \in Nat \ {0} /\ IsFiniteSet(Ddrs) /\ Cardinality(Ddrs) = DdrNum
  <2>1. DdrNum \in Nat \ {0}
    BY PlatformAssumption
  <2>2. IsFiniteSet(0 .. DdrNum - 1) /\ Cardinality(0 .. DdrNum - 1) = DdrNum
    BY <2>1, FS_Interval
  <2> QED
    BY <2>1, <2>2 DEF Ddrs
<1> DEFINE n == IF e.from = DRAM THEN DdrNum ELSE 1
           x == IF e.from = DRAM THEN e.left \div DdrNum ELSE e.left
           P == {p \in DOMAIN q : q[p] > 0}
<1>3. /\ IsFiniteSet(DOMAIN q) /\ Cardinality(DOMAIN q) = n /\ \A p \in DOMAIN q : q[p] = x
  BY <1>2, FS_Singleton
<1>4. x \in Nat /\ n \in Nat \ {0} /\ n * x <= e.left
  <2>1. CASE e.from = DRAM
    <3> DEFINE m == e.left \div DdrNum
    <3>1. m \in Nat /\ DdrNum * m <= e.left
      BY <1>1, <1>2
    <3> HIDE DEF m
    <3>2. x = m /\ n = DdrNum
      BY <2>1 DEF m
    <3> QED
      BY <1>2, <3>1, <3>2
  <2>2. CASE e.from # DRAM
    BY <1>1, <2>2
  <2> QED
    BY <2>1, <2>2
<1>5. SumFunctionOnSet(q, DOMAIN q) = n * x
  <2> HIDE DEF n, x
  <2> QED
    BY <1>3, <1>4, SumConstant
<1>6. Cardinality(P) <= e.ends
  <2>1. P \in SUBSET DOMAIN q
    OBVIOUS
  <2>2. CASE e = NoEntry
    <3>1. e.left = 0
      BY <2>2 DEF NoEntry
    <3>2. x = 0
      BY <1>2, <3>1
    <3>3. P = {}
      BY <1>3, <3>2
    <3> HIDE DEF P
    <3> QED
      BY <1>1, <3>3, FS_EmptySet
  <2>3. CASE e # NoEntry
    <3>1. e.ends = n
      BY <1>1, <2>3 DEF Suppliers
    <3> HIDE DEF P, n
    <3> QED
      BY <1>3, <2>1, <3>1, FS_Subset
  <2> QED
    BY <2>2, <2>3
<1>7. \A p \in DOMAIN q : q[p] \in Nat
  BY <1>3, <1>4
<1>8. q = NoSupply => e = NoEntry \/ e.ends = Suppliers(e)
  BY <1>1
<1> HIDE DEF n, x
<1>9. SumFunctionOnSet(q, DOMAIN q) <= e.left
  BY <1>4, <1>5
<1> QED
  BY <1>1, <1>3, <1>6, <1>7, <1>8, <1>9 DEF Owes

(* A packet of a supplier takes its bytes off both sides, and the last one    *)
(* of a supplier takes off an end.                                         *)
LEMMA OwesData ==
  ASSUME NEW e \in EntryType, NEW q, Owes(e, q), NEW p \in DOMAIN q, q[p] > 0,
         NEW size \in Nat \ {0}, size <= q[p], NEW end \in BOOLEAN, end <=> size = q[p],
         NEW f \in EntryType, f.left = e.left - size, f.from = e.from,
         f.ends = IF end THEN e.ends - 1 ELSE e.ends,
         NEW r, DOMAIN r = DOMAIN q, r[p] = q[p] - size, \A x \in DOMAIN q \ {p} : r[x] = q[x]
  PROVE  /\ Owes(f, r)
         /\ f.left = 0 => Owes(NoEntry, r)
<1> DEFINE D == DOMAIN q
           P == {x \in D : q[x] > 0}
           R == {x \in D : r[x] > 0}
<1>1. /\ e.left \in Nat /\ e.ends \in Nat /\ IsFiniteSet(D) /\ \A x \in D : q[x] \in Nat
      /\ SumFunctionOnSet(q, D) <= e.left /\ Cardinality(P) <= e.ends
  BY DEF Owes
<1>2. size \in Nat /\ size >= 1 /\ size <= q[p] /\ q[p] \in Nat
  BY <1>1
<1>3. DOMAIN r = D /\ r[p] = q[p] - size /\ \A x \in D \ {p} : r[x] = q[x]
  OBVIOUS
<1> HIDE DEF D
<1>4. \A x \in D : r[x] \in Nat
  BY <1>1, <1>2, <1>3
<1>5. p \in D
  BY DEF D
<1>6. SumFunctionOnSet(r, D) = SumFunctionOnSet(q, D) - size
  <2>1. (\A x \in D : q[x] \in Int) /\ r[p] \in Int
    BY <1>1, <1>4, <1>5
  <2>2. SumFunctionOnSet(r, D) = SumFunctionOnSet(q, D) + r[p] - q[p]
    <3> DEFINE S == D
    <3>1. /\ IsFiniteSet(S) /\ p \in S /\ \A x \in S : q[x] \in Int
          /\ r[p] \in Int /\ \A x \in S \ {p} : r[x] = q[x]
      BY <1>1, <1>3, <1>5, <2>1
    <3> HIDE DEF S
    <3>2. SumFunctionOnSet(r, S) = SumFunctionOnSet(q, S) + r[p] - q[p]
      BY <3>1, SumChange
    <3> QED
      BY <3>2 DEF S
  <2>3. SumFunctionOnSet(q, D) \in Int
    BY <1>1, <2>1, SumInt
  <2> QED
    BY <1>2, <1>3, <2>2, <2>3
<1>7. SumFunctionOnSet(r, D) \in Nat /\ \A x \in D : r[x] <= SumFunctionOnSet(r, D)
  BY <1>1, <1>4, SumNat
<1>8. f.left \in Nat /\ SumFunctionOnSet(r, D) <= f.left
  <2>1. SumFunctionOnSet(q, D) \in Nat
    BY <1>1, SumNat
  <2> QED
    BY <1>1, <1>2, <1>6, <1>7, <2>1
<1>9. IsFiniteSet(P) /\ Cardinality(P) \in Nat /\ p \in P
  <2>1. P \in SUBSET D /\ p \in P
    BY <1>5
  <2> HIDE DEF P
  <2> QED
    BY <1>1, <2>1, FS_Subset, FS_CardinalityType
<1>10. f.ends \in Nat /\ Cardinality(R) <= f.ends
  <2>1. CASE end
    <3>0. r[p] = 0
      <4>1. size = q[p]
        BY <2>1
      <4> QED
        BY <1>2, <1>3, <4>1
    <3>1. R = P \ {p}
      <4>1. \A x \in D : r[x] > 0 <=> q[x] > 0 /\ x # p
        BY <1>3, <3>0
      <4> QED
        BY <4>1
    <3> HIDE DEF P, R
    <3>2. Cardinality(R) = Cardinality(P) - 1 /\ Cardinality(R) \in Nat
      BY <1>9, <3>1, FS_RemoveElement, FS_CardinalityType
    <3> QED
      BY <1>1, <1>9, <2>1, <3>2
  <2>2. CASE ~end
    <3>1. r[p] > 0
      <4>1. size # q[p]
        BY <2>2
      <4> QED
        BY <1>2, <1>3, <4>1
    <3>2. R = P
      BY <1>3, <1>9, <3>1
    <3> QED
      BY <1>1, <2>2, <3>2
  <2> QED
    BY <2>1, <2>2
<1>11. r # NoSupply
  BY <1>3, <1>5 DEF NoSupply
<1>12. Owes(f, r)
  BY <1>1, <1>3, <1>4, <1>8, <1>10, <1>11 DEF Owes
<1>13. ASSUME f.left = 0
       PROVE  Owes(NoEntry, r)
  <2>1. SumFunctionOnSet(r, D) = 0
    BY <1>7, <1>8, <1>13
  <2>2. R = {}
    <3>1. \A x \in D : ~(r[x] > 0)
      BY <1>4, <1>7, <2>1
    <3> QED
      BY <3>1
  <2>3. NoEntry.left = 0 /\ NoEntry.ends = 0 /\ Cardinality(R) = 0
    BY <2>2, FS_EmptySet DEF NoEntry
  <2> QED
    BY <1>1, <1>3, <1>4, <1>11, <2>1, <2>3 DEF Owes
<1> QED
  BY <1>12, <1>13

-----------------------------------------------------------------------------
(* The inductive invariant of the outputs.                                  *)

Begun(s, t)  == \E n \in DOMAIN Jobs : n <= s.cur /\ IsOut(Self, n, t)
Sending(s, t) == \E n \in DOMAIN Jobs : n <= s.cur /\ IsRemote(Self, n, t)

(* A request is in _r_rq_list until the workload with the output is loaded,  *)
(* and struck off _cur_wl_rq afterwards.                                     *)
RequestIn(s, t, d, n) ==
  /\ n \in Nat /\ n <= TotalWanted(t, d)
  /\ Begun(s, t) => s.r_rq[t][d] = 0 /\ s.cur_rq[t][d] = TotalWanted(t, d) - n
  /\ ~Begun(s, t) => s.r_rq[t][d] = n /\ s.cur_rq[t][d] = 0
  /\ (s.cur \in DOMAIN Jobs => ~IsOut(Self, s.cur, t)) => s.cur_rq[t][d] = 0
RequestsIn(s, ask) == \A t \in Tids, d \in Cores : RequestIn(s, t, d, ask[t][d])

(* What was sent, what waits for injection and what is left make the output. *)
Waits(o, t)    == o # NoPacket /\ o.kind = "data" /\ o.tid = t
OutBytes(o, t) == IF Waits(o, t) THEN o.size ELSE 0
OutEnds(o, t)  == IF Waits(o, t) /\ o.end THEN 1 ELSE 0
SentOf(s, o, t, e) ==
  /\ e.bytes \in Int /\ e.ends \in Nat
  /\ Sending(s, t) =>
       /\ e.bytes + OutBytes(o, t) + s.send_list[t] = SizeOf(t)
       /\ e.ends + OutEnds(o, t) = IF s.send_list[t] = 0 THEN 1 ELSE 0
       /\ e.ends # 0 => ~Waits(o, t)
  /\ ~Sending(s, t) => e.ends = 0 /\ e.bytes = 0 /\ s.send_list[t] = 0 /\ ~Waits(o, t)
SentIn(s, o, e) == \A t \in Tids : SentOf(s, o, t, e[t])

OutAsked == out # NoPacket /\ out.kind = "data" =>
              \A d \in Cores : asked[out.tid][d] = TotalWanted(out.tid, d)

(* The same for any state of a core with its books: requests received,       *)
(* packet waiting, bytes and ends sent, bytes supplied.                      *)
Booked(s, ask, o, e, q) ==
  /\ RequestsIn(s, ask)
  /\ Stock(Self, s)
  /\ SentIn(s, o, e)
  /\ \A t \in Tids : Owes(s.s_rq[t], q[t])

OutInv == /\ asked \in [Tids -> [Cores -> Nat]]
          /\ sent \in [Tids -> [bytes : Int, ends : Nat]]
          /\ Booked(core, asked, out, sent, supply)
          /\ OutAsked

-----------------------------------------------------------------------------
(* What the input says of the outputs.                                      *)

(* The workloads of this core.                                              *)
LEMMA JobsType ==
  /\ Self \in Cores /\ Jobs \in Seq(Workload)
  /\ Len(Jobs) \in Nat /\ DOMAIN Jobs = 1 .. Len(Jobs) /\ IsFiniteSet(DOMAIN Jobs)
  /\ \A n \in DOMAIN Jobs : Jobs[n] \in Workload
  BY WorkloadsType

(* The size of an output that is sent is that of its id.                     *)
LEMMA SizeOfRemote ==
  ASSUME NEW n \in DOMAIN Jobs, NEW o \in RemoteOuts(Self, Jobs[n])
  PROVE  SizeOf(o.tid) = o.size
<1> DEFINE All == UNION {{Jobs[m].outs[i] : i \in DOMAIN Jobs[m].outs} : m \in DOMAIN Jobs}
<1>1. PICK i \in DOMAIN Jobs[n].outs : o = Jobs[n].outs[i]
  BY DEF RemoteOuts
<1>2. o \in All
  BY <1>1
<1>3. ASSUME NEW p \in All, p.tid = o.tid
      PROVE  p = o
  <2>1. PICK m \in DOMAIN Jobs : \E j \in DOMAIN Jobs[m].outs : p = Jobs[m].outs[j]
    BY <1>3
  <2>2. PICK j \in DOMAIN Jobs[m].outs : p = Jobs[m].outs[j]
    BY <2>1
  <2>3. m = n /\ j = i
    BY <1>1, <1>3, <2>2 DEF OutputsOwn
  <2> QED
    BY <1>1, <2>2, <2>3
<1>4. SizeOf(o.tid) = (CHOOSE p \in All : p.tid = o.tid).size
  BY DEF SizeOf
<1> HIDE DEF All
<1>5. (CHOOSE p \in All : p.tid = o.tid) = o
  BY <1>2, <1>3
<1> QED
  BY <1>4, <1>5

(* A workload without the transfer waits for no request for it.              *)
LEMMA WantedNone ==
  ASSUME NEW n \in DOMAIN Jobs, NEW t, ~IsOut(Self, n, t), NEW d
  PROVE  Wanted(Self, Jobs[n], t, d) = 0
<1> DEFINE w == Jobs[n]
           P == {p \in UNION {{i} \X DOMAIN w.outs[i].dst : i \in DOMAIN w.outs} :
                    w.outs[p[1]].tid = t /\ w.outs[p[1]].dst[p[2]] = d}
<1>1. P = {}
  BY DEF IsOut
<1>2. Cardinality(P) = 0
  <2> HIDE DEF P
  <2> QED
    BY <1>1, FS_EmptySet
<1> QED
  BY <1>2 DEF Wanted

(* All requests for a transfer are those of the workload that computes it.   *)
LEMMA TotalWantedIs ==
  ASSUME NEW t \in Tids, NEW d \in Cores
  PROVE  /\ TotalWanted(t, d) \in Nat
         /\ \A n \in DOMAIN Jobs : IsOut(Self, n, t) => TotalWanted(t, d) = Wanted(Self, Jobs[n], t, d)
<1> DEFINE S == DOMAIN Jobs
           f == [n \in S |-> Wanted(Self, Jobs[n], t, d)]
<1>1. IsFiniteSet(S) /\ \A n \in S : f[n] \in Nat
  BY JobsType, WantedType
<1>2. TotalWanted(t, d) = SumFunctionOnSet(f, S)
  BY DEF TotalWanted
<1>3. ASSUME NEW n \in S, IsOut(Self, n, t)
      PROVE  f[n] = Wanted(Self, Jobs[n], t, d) /\ \A m \in S \ {n} : f[m] = 0
  <2>1. \A m \in S \ {n} : ~IsOut(Self, m, t)
    BY <1>3, OneJob
  <2> QED
    BY <2>1, WantedNone
<1> HIDE DEF S, f
<1>4. SumFunctionOnSet(f, S) \in Nat
  BY <1>1, SumNat
<1>5. ASSUME NEW n \in S, IsOut(Self, n, t)
      PROVE  SumFunctionOnSet(f, S) = f[n]
  <2>1. f[n] \in Int /\ \A m \in S \ {n} : f[m] = 0
    BY <1>1, <1>3, <1>5
  <2> QED
    BY <1>1, <2>1, SumOnly
<1>6. ASSUME NEW n \in S, IsOut(Self, n, t)
      PROVE  TotalWanted(t, d) = Wanted(Self, Jobs[n], t, d)
  BY <1>2, <1>3, <1>5, <1>6
<1> QED
  BY <1>2, <1>4, <1>6 DEF S

-----------------------------------------------------------------------------
(* Requests for the outputs.                                                *)

(* The next workload begins its outputs, and no other.                       *)
LEMMA BegunNext ==
  ASSUME NEW s, s.cur \in Nat, NEW u, u.cur = s.cur + 1, NEW t
  PROVE  /\ Begun(u, t) <=> Begun(s, t) \/ (u.cur \in DOMAIN Jobs /\ IsOut(Self, u.cur, t))
         /\ u.cur \in DOMAIN Jobs /\ IsOut(Self, u.cur, t) => ~Begun(s, t)
<1>1. \A n \in DOMAIN Jobs : n \in Nat
  BY JobsType
<1>2. \A n \in DOMAIN Jobs : n <= u.cur <=> n <= s.cur \/ n = u.cur
  BY <1>1
<1>3. Begun(u, t) <=> Begun(s, t) \/ (u.cur \in DOMAIN Jobs /\ IsOut(Self, u.cur, t))
  BY <1>1, <1>2 DEF Begun
<1>4. ASSUME u.cur \in DOMAIN Jobs, IsOut(Self, u.cur, t), Begun(s, t)
      PROVE  FALSE
  <2>1. PICK n \in DOMAIN Jobs : n <= s.cur /\ IsOut(Self, n, t)
    BY <1>4 DEF Begun
  <2>2. n = u.cur
    BY <1>4, <2>1, OneJob
  <2> QED
    BY <1>1, <2>1, <2>2
<1> QED
  BY <1>3, <1>4

(* Requests do not depend on anything else.                                 *)
LEMMA RequestsKept ==
  ASSUME NEW s, NEW u, NEW ask, RequestsIn(s, ask),
         u.cur = s.cur, u.cur_rq = s.cur_rq, u.r_rq = s.r_rq
  PROVE  RequestsIn(u, ask)
<1>1. \A t : Begun(u, t) <=> Begun(s, t)
  BY DEF Begun
<1> QED
  BY <1>1 DEF RequestsIn, RequestIn

(* Loading a workload takes the requests that came early off those it needs  *)
(* (core.cpp:124).                                                          *)
LEMMA RequestsAdvance ==
  ASSUME NEW s, Safe(Self, s), NEW u, Advanced(Self, s, u), NEW ask, RequestsIn(s, ask)
  PROVE  RequestsIn(u, ask)
<1>0. s.cur \in Nat
  BY JobsType DEF Safe, CoreTypes
<1>1. CASE u = s
  BY <1>1
<1>2. CASE u # s
  <2>1. u.cur = s.cur + 1 /\ AllRequested(s)
    BY <1>2 DEF Advanced
  <2>2. SUFFICES ASSUME NEW t \in Tids, NEW d \in Cores
                 PROVE  RequestIn(u, t, d, ask[t][d])
    BY DEF RequestsIn
  <2>3. RequestIn(s, t, d, ask[t][d]) /\ s.cur_rq[t][d] = 0
    BY <2>1 DEF RequestsIn, AllRequested, NoRequests
  <2> DEFINE a == ask[t][d]
             T == TotalWanted(t, d)
  <2>4. a \in Nat /\ a <= T /\ T \in Nat
    BY <2>3, TotalWantedIs DEF RequestIn
  <2>5. CASE u.cur = Len(Jobs) + 1
    <3>1. u.cur_rq = s.cur_rq /\ u.r_rq = s.r_rq
      BY <1>2, <2>5, JobsType DEF Advanced, Same, Fields, Jobs
    <3>2. u.cur \notin DOMAIN Jobs
      BY <2>5, JobsType
    <3>3. Begun(u, t) <=> Begun(s, t)
      BY <1>0, <2>1, <3>2, BegunNext
    <3> QED
      BY <2>3, <3>1, <3>2, <3>3 DEF RequestIn
  <2>6. CASE u.cur # Len(Jobs) + 1
    <3> DEFINE n == u.cur
               w == Jobs[n]
               W == Wanted(Self, w, t, d)
               r == s.r_rq[t][d]
    <3>1. n \in DOMAIN Jobs /\ Loaded(Self, s, w, u)
      BY <1>2, <2>6, JobsType DEF Advanced, Jobs
    <3>2. u.cur_rq[t][d] = W - Smaller(W, r) /\ u.r_rq[t][d] = r - Smaller(W, r)
      BY <3>1 DEF Loaded
    <3>3. W \in Nat
      BY <3>1, JobsType, WantedType
    <3>4. /\ Begun(u, t) <=> Begun(s, t) \/ IsOut(Self, n, t)
          /\ IsOut(Self, n, t) => ~Begun(s, t)
      BY <1>0, <2>1, <3>1, BegunNext
    <3>5. CASE IsOut(Self, n, t)
      <4>1. W = T /\ r = a
        BY <2>3, <3>1, <3>4, <3>5, TotalWantedIs DEF RequestIn
      <4>2. u.r_rq[t][d] = 0 /\ u.cur_rq[t][d] = T - a
        <5> HIDE DEF W, T, r, a
        <5> QED
          BY <2>4, <3>2, <4>1 DEF Smaller
      <4> QED
        BY <2>4, <3>1, <3>4, <3>5, <4>2 DEF RequestIn
    <3>6. CASE ~IsOut(Self, n, t)
      <4>1. W = 0
        BY <3>1, <3>6, WantedNone
      <4>2. r \in Nat
        BY <2>3, <2>4 DEF RequestIn
      <4>3. u.r_rq[t][d] = r /\ u.cur_rq[t][d] = 0
        <5> HIDE DEF W, r
        <5>1. Smaller(W, r) = 0
          BY <4>1, <4>2 DEF Smaller
        <5> QED
          BY <3>2, <4>1, <4>2, <5>1
      <4> QED
        BY <2>3, <2>4, <3>1, <3>4, <3>6, <4>3 DEF RequestIn
    <3> QED
      BY <3>5, <3>6
  <2> QED
    BY <2>5, <2>6
<1> QED
  BY <1>1, <1>2

(* A request is counted early before the workload with the output is loaded  *)
(* and off its needs afterwards (core.cpp:392).                              *)
LEMMA RequestsReceived ==
  ASSUME NEW s, Safe(Self, s), NEW ask \in [Tids -> [Cores -> Nat]], RequestsIn(s, ask),
         NEW t \in Tids, NEW d \in Cores, ask[t][d] < TotalWanted(t, d)
  PROVE  RequestsIn(RequestReceived(s, t, d, 1), [ask EXCEPT ![t][d] = @ + 1])
<1> DEFINE u == RequestReceived(s, t, d, 1)
           asks == [ask EXCEPT ![t][d] = @ + 1]
           none == \A e \in Cores : s.cur_rq[t][e] = 0
           a == ask[t][d]
           T == TotalWanted(t, d)
<1>0. DOMAIN s = Fields
  BY CoreFields DEF Safe, CoreTypes
<1>1. s.r_rq \in [Tids -> [Cores -> Int]] /\ s.cur_rq \in [Tids -> [Cores -> Int]]
  BY DEF Safe, CoreTypes
<1>2. /\ asks[t][d] = a + 1
      /\ \A x \in Tids, e \in Cores : x # t \/ e # d => asks[x][e] = ask[x][e]
  OBVIOUS
<1>3. a \in Nat /\ T \in Nat /\ a + 1 <= T /\ RequestIn(s, t, d, a)
  BY TotalWantedIs DEF RequestsIn
<1>4. none <=> ~Begun(s, t)
  <2>1. ASSUME Begun(s, t)
        PROVE  s.cur_rq[t][d] # 0
    BY <1>3, <2>1 DEF RequestIn
  <2>2. ASSUME ~Begun(s, t)
        PROVE  none
    BY <2>2 DEF RequestsIn, RequestIn
  <2> QED
    BY <2>1, <2>2
<1>5. /\ u.cur = s.cur
      /\ none => u.r_rq[t][d] = s.r_rq[t][d] + 1 /\ u.cur_rq[t][d] = s.cur_rq[t][d]
      /\ ~none => u.r_rq[t][d] = s.r_rq[t][d] /\ u.cur_rq[t][d] = s.cur_rq[t][d] - 1
      /\ \A x \in Tids, e \in Cores : x # t \/ e # d =>
            u.r_rq[x][e] = s.r_rq[x][e] /\ u.cur_rq[x][e] = s.cur_rq[x][e]
  <2>1. CASE none
    <3> DEFINE R == [s.r_rq EXCEPT ![t][d] = @ + 1]
    <3>1. u = [s EXCEPT !.r_rq = R]
      BY <1>0, <1>1, <2>1 DEF RequestReceived, Fields
    <3>2. R[t][d] = s.r_rq[t][d] + 1 /\ \A x \in Tids, e \in Cores : x # t \/ e # d =>
                                            R[x][e] = s.r_rq[x][e]
      BY <1>1
    <3> HIDE DEF u, R
    <3>3. u.cur = s.cur /\ u.r_rq = R /\ u.cur_rq = s.cur_rq
      BY <1>0, <3>1 DEF Fields
    <3> QED
      BY <2>1, <3>2, <3>3
  <2>2. CASE ~none
    <3> DEFINE R == [s.cur_rq EXCEPT ![t][d] = @ - 1]
    <3>1. u = [s EXCEPT !.cur_rq = R]
      BY <1>0, <1>1, <2>2 DEF RequestReceived, Fields
    <3>2. R[t][d] = s.cur_rq[t][d] - 1 /\ \A x \in Tids, e \in Cores : x # t \/ e # d =>
                                            R[x][e] = s.cur_rq[x][e]
      BY <1>1
    <3> HIDE DEF u, R
    <3>3. u.cur = s.cur /\ u.cur_rq = R /\ u.r_rq = s.r_rq
      BY <1>0, <3>1 DEF Fields
    <3> QED
      BY <2>2, <3>2, <3>3
  <2> QED
    BY <2>1, <2>2
<1> HIDE DEF u, asks, none
<1>6. \A x : Begun(u, x) <=> Begun(s, x)
  BY <1>5 DEF Begun
<1>7. RequestIn(u, t, d, a + 1)
  <2>1. CASE Begun(s, t)
    <3>1. u.r_rq[t][d] = 0 /\ u.cur_rq[t][d] = T - (a + 1) /\ s.cur_rq[t][d] > 0
      BY <1>3, <1>4, <1>5, <2>1 DEF RequestIn
    <3>2. s.cur \in DOMAIN Jobs /\ IsOut(Self, s.cur, t)
      BY <1>3, <3>1 DEF RequestIn
    <3> QED
      BY <1>3, <1>5, <1>6, <2>1, <3>1, <3>2 DEF RequestIn
  <2>2. CASE ~Begun(s, t)
    BY <1>3, <1>4, <1>5, <1>6, <2>2 DEF RequestIn
  <2> QED
    BY <2>1, <2>2
<1>8. ASSUME NEW x \in Tids, NEW e \in Cores, x # t \/ e # d
      PROVE  RequestIn(u, x, e, asks[x][e])
  <2>1. RequestIn(s, x, e, ask[x][e])
    BY DEF RequestsIn
  <2> QED
    BY <1>2, <1>5, <1>6, <1>8, <2>1 DEF RequestIn
<1>9. ASSUME NEW x \in Tids, NEW e \in Cores
      PROVE  RequestIn(u, x, e, asks[x][e])
  BY <1>2, <1>7, <1>8
<1> QED
  BY <1>9 DEF RequestsIn, u, asks

-----------------------------------------------------------------------------
(* What was sent.                                                           *)

(* The next workload begins to send its outputs, and no other.               *)
LEMMA SendingNext ==
  ASSUME NEW s, s.cur \in Nat, NEW u, u.cur = s.cur + 1, NEW t
  PROVE  /\ Sending(u, t) <=> Sending(s, t) \/ (u.cur \in DOMAIN Jobs /\ IsRemote(Self, u.cur, t))
         /\ u.cur \in DOMAIN Jobs /\ IsRemote(Self, u.cur, t) => ~Sending(s, t)
<1>1. \A n \in DOMAIN Jobs : n \in Nat
  BY JobsType
<1>2. \A n \in DOMAIN Jobs : n <= u.cur <=> n <= s.cur \/ n = u.cur
  BY <1>1
<1>3. Sending(u, t) <=> Sending(s, t) \/ (u.cur \in DOMAIN Jobs /\ IsRemote(Self, u.cur, t))
  BY <1>1, <1>2 DEF Sending
<1>4. Sending(s, t) => Begun(s, t)
  BY RemoteIsOut DEF Sending, Begun
<1> QED
  BY <1>3, <1>4, BegunNext, RemoteIsOut

(* What was sent does not depend on anything else.                           *)
LEMMA SentKept ==
  ASSUME NEW s, NEW u, NEW o, NEW e, SentIn(s, o, e),
         u.cur = s.cur, u.send_list = s.send_list
  PROVE  SentIn(u, o, e)
<1>1. \A t : Sending(u, t) <=> Sending(s, t)
  BY DEF Sending
<1> QED
  BY <1>1 DEF SentIn, SentOf

(* The outputs of the next workload are still to be sent (core.cpp:205).     *)
LEMMA SentAdvance ==
  ASSUME NEW s, Safe(Self, s), NEW u, Advanced(Self, s, u), NEW o, NEW e, SentIn(s, o, e)
  PROVE  SentIn(u, o, e)
<1>0. s.cur \in Nat
  BY JobsType DEF Safe, CoreTypes
<1>1. CASE u = s
  BY <1>1
<1>2. CASE u # s
  <2>1. u.cur = s.cur + 1
    BY <1>2 DEF Advanced
  <2>2. SUFFICES ASSUME NEW t \in Tids
                 PROVE  SentOf(u, o, t, e[t])
    BY DEF SentIn
  <2>3. SentOf(s, o, t, e[t])
    BY DEF SentIn
  <2>4. CASE u.cur = Len(Jobs) + 1
    <3>1. u.send_list = s.send_list
      BY <1>2, <2>4, JobsType DEF Advanced, Same, Fields, Jobs
    <3>2. Sending(u, t) <=> Sending(s, t)
      BY <1>0, <2>1, <2>4, JobsType, SendingNext
    <3> QED
      BY <2>3, <3>1, <3>2 DEF SentOf
  <2>5. CASE u.cur # Len(Jobs) + 1
    <3> DEFINE n == u.cur
               outs == RemoteOuts(Self, Jobs[n])
    <3>1. n \in DOMAIN Jobs /\ Loaded(Self, s, Jobs[n], u)
      BY <1>2, <2>5, JobsType DEF Advanced, Jobs
    <3>2. u.send_list[t] = IF \E p \in outs : p.tid = t
                           THEN (CHOOSE p \in outs : p.tid = t).size ELSE s.send_list[t]
      BY <3>1 DEF Loaded
    <3>3. /\ Sending(u, t) <=> Sending(s, t) \/ IsRemote(Self, n, t)
          /\ IsRemote(Self, n, t) => ~Sending(s, t)
      BY <1>0, <2>1, <3>1, SendingNext
    <3>4. CASE IsRemote(Self, n, t)
      <4>1. PICK p \in outs : p.tid = t
        BY <3>4 DEF IsRemote
      <4>2. /\ \A r \in outs : r.tid = t => r = p
            /\ SizeOf(t) = p.size /\ p.size >= Gran0 /\ p \in Outputs
        BY <3>1, <4>1, RemoteOut, SizeOfRemote
      <4>3. u.send_list[t] = p.size
        <5>1. (CHOOSE r \in outs : r.tid = t) = p
          BY <4>1, <4>2
        <5> HIDE DEF outs
        <5> QED
          BY <3>2, <4>1, <5>1
      <4>4. p.size \in Nat /\ p.size # 0
        BY <4>2, CoreAssumption DEF Outputs
      <4>5. e[t].ends = 0 /\ e[t].bytes = 0 /\ ~Waits(o, t)
        BY <2>3, <3>3, <3>4 DEF SentOf
      <4>6. OutBytes(o, t) = 0 /\ OutEnds(o, t) = 0
        BY <4>5 DEF OutBytes, OutEnds
      <4> QED
        BY <3>3, <3>4, <4>2, <4>3, <4>4, <4>5, <4>6 DEF SentOf
    <3>5. CASE ~IsRemote(Self, n, t)
      <4>1. u.send_list[t] = s.send_list[t]
        BY <3>2, <3>5 DEF IsRemote
      <4> QED
        BY <2>3, <3>3, <3>5, <4>1 DEF SentOf
    <3> QED
      BY <3>4, <3>5
  <2> QED
    BY <2>4, <2>5
<1> QED
  BY <1>1, <1>2

(* The part of run before the network is looked at.                         *)
LEMMA BookedKept ==
  ASSUME NEW s, NEW ask, NEW o, NEW e, NEW q, Booked(s, ask, o, e, q), NEW u, Stock(Self, u),
         u.cur = s.cur, u.cur_rq = s.cur_rq, u.r_rq = s.r_rq, u.s_rq = s.s_rq,
         u.send_list = s.send_list
  PROVE  Booked(u, ask, o, e, q)
<1>1. RequestsIn(u, ask)
  BY RequestsKept DEF Booked
<1>2. SentIn(u, o, e)
  BY SentKept DEF Booked
<1> QED
  BY <1>1, <1>2 DEF Booked

(* Time, starting and the choice of buffers change none of the books.        *)
LEMMA BookedPicks ==
  ASSUME NEW s, DOMAIN s = Fields, NEW ask, NEW o, NEW e, NEW q, Booked(s, ask, o, e, q)
  PROVE  /\ Booked(Tick(s), ask, o, e, q) /\ Booked(Start(Self, s), ask, o, e, q)
         /\ Booked(PickRc(s), ask, o, e, q) /\ Booked(PickSd(s), ask, o, e, q)
<1> DEFINE G == {"next_start", "running", "wl_fn", "dataready", "due", "rc", "sd"}
<1>1. /\ Same(s, Tick(s), G) /\ Same(s, Start(Self, s), G)
      /\ Same(s, PickRc(s), G) /\ Same(s, PickSd(s), G)
  BY DEF Tick, Start, PickRc, PickSd, Same, Fields
<1>2. ASSUME NEW u, Same(s, u, G)
      PROVE  Booked(u, ask, o, e, q)
  <2>1. Same(s, u, Fields \ StockFields)
    BY <1>2 DEF Same, Fields, StockFields
  <2>2. Stock(Self, u)
    BY <2>1, StockKept DEF Booked
  <2>3. /\ u.cur = s.cur /\ u.cur_rq = s.cur_rq /\ u.r_rq = s.r_rq /\ u.s_rq = s.s_rq
        /\ u.send_list = s.send_list
    BY <1>2 DEF Same, Fields
  <2> QED
    BY <2>2, <2>3, BookedKept
<1> HIDE DEF G
<1> QED
  BY <1>1, <1>2

(* Neither does computing, apart from the stock.                             *)
LEMMA BookedCompute ==
  ASSUME NEW s, Safe(Self, s), Ticked(s), NEW ask, NEW o, NEW e, NEW q,
         Booked(s, ask, o, e, q)
  PROVE  Booked(Compute(Self, s), ask, o, e, q)
<1> DEFINE u == Compute(Self, s)
<1>0. DOMAIN s = Fields
  BY CoreFields DEF Safe, CoreTypes
<1>1. Stock(Self, u)
  BY StockCompute DEF Booked
<1>2. TileWritten(Self, s, TileDone(Self, s))
  BY <1>0, TileDoneFields
<1>3. /\ u.cur = s.cur /\ u.cur_rq = s.cur_rq /\ u.r_rq = s.r_rq /\ u.s_rq = s.s_rq
      /\ u.send_list = s.send_list
  <2>1. CASE u = TileDone(Self, s)
    BY <1>2, <2>1 DEF TileWritten
  <2>2. CASE u # TileDone(Self, s)
    BY <1>0, <2>2 DEF Compute, Fields
  <2> QED
    BY <2>1, <2>2
<1> HIDE DEF u
<1> QED
  BY <1>1, <1>3, BookedKept DEF u

(* Loading a workload keeps them in step (core.cpp:467).                      *)
LEMMA BookedAdvance ==
  ASSUME NEW s, Safe(Self, s), NEW u, Safe(Self, u), Advanced(Self, s, u),
         NEW ask, NEW o, NEW e, NEW q, Booked(s, ask, o, e, q)
  PROVE  Booked(u, ask, o, e, q)
<1>1. RequestsIn(u, ask) /\ Stock(Self, u) /\ SentIn(u, o, e)
  BY RequestsAdvance, StockAdvance, SentAdvance DEF Booked
<1>2. ASSUME NEW t \in Tids
      PROVE  Owes(u.s_rq[t], q[t])
  <2>1. Owes(s.s_rq[t], q[t]) /\ s.s_rq[t] \in EntryType
    BY DEF Booked, Safe, CoreTypes
  <2>2. CASE u.s_rq = s.s_rq
    BY <2>1, <2>2
  <2>3. CASE u.s_rq # s.s_rq
    <3> DEFINE w == Workloads[Self][u.cur]
               F == Missing(Self, w, s.buffer)
    <3>1. u.cur \in 1 .. Len(Workloads[Self]) /\ Loaded(Self, s, w, u)
      BY <2>3 DEF Advanced, Same, Fields
    <3>2. u.s_rq[t] = Requested(F, t, s.s_rq[t])
      BY <3>1 DEF Loaded
    <3>3. w \in Workload
      BY <3>1, JobsType, JobType
    <3>4. F \in SUBSET Fetches
      BY <3>3 DEF Missing, Workload
    <3> HIDE DEF F
    <3> QED
      BY <2>1, <3>2, <3>4, OwesRequested
  <2> QED
    BY <2>2, <2>3
<1> QED
  BY <1>1, <1>2 DEF Booked

(* All of it.                                                               *)
LEMMA BookedWork ==
  ASSUME NEW s, Safe(Self, s), Counting(s), NEW ask, NEW o, NEW e, NEW q,
         Booked(s, ask, o, e, q)
  PROVE  Booked(Work(Self, s), ask, o, e, q)
<1> DEFINE s1 == Tick(s)
           s2 == Start(Self, s1)
           s3 == PickRc(s2)
           s4 == PickSd(s3)
           s5 == Compute(Self, s4)
<1>0. DOMAIN s = Fields /\ Self \in Cores
  BY CoreFields, JobsType DEF Safe, CoreTypes
<1>1. Safe(Self, s1) /\ Ticked(s1) /\ DOMAIN s1 = Fields /\ Booked(s1, ask, o, e, q)
  BY <1>0, TickSafe, CurKept, BookedPicks
<1> HIDE DEF s1
<1>2. Safe(Self, s2) /\ Ticked(s2) /\ DOMAIN s2 = Fields /\ Booked(s2, ask, o, e, q)
  BY <1>0, <1>1, StartSafe, CurKept, BookedPicks
<1> HIDE DEF s2
<1>3. Safe(Self, s3) /\ Ticked(s3) /\ DOMAIN s3 = Fields /\ Booked(s3, ask, o, e, q)
  BY <1>0, <1>2, PickRcSafe, CurKept, BookedPicks
<1> HIDE DEF s3
<1>4. Safe(Self, s4) /\ Ticked(s4) /\ DOMAIN s4 = Fields /\ Booked(s4, ask, o, e, q)
  BY <1>0, <1>3, PickSdSafe, CurKept, BookedPicks
<1> HIDE DEF s4
<1>5. Safe(Self, s5) /\ Counting(s5) /\ Booked(s5, ask, o, e, q)
  BY <1>0, <1>4, ComputeSafe, BookedCompute
<1> HIDE DEF s5
<1>6. Booked(Advance(Self, s5), ask, o, e, q)
  BY <1>0, <1>5, AdvanceSafe, BookedAdvance
<1> QED
  BY <1>6 DEF Work, s1, s2, s3, s4, s5

-----------------------------------------------------------------------------
(* The packets that leave the core.                                         *)

(* What is being drained has been asked for by all its consumers             *)
(* (core.cpp:580).                                                         *)
LEMMA DrainAsked ==
  ASSUME NEW s, Safe(Self, s), Stock(Self, s), s.sd # NoBuf,
         NEW ask \in [Tids -> [Cores -> Nat]], RequestsIn(s, ask)
  PROVE  /\ MiniTile(s).tid \in Tids
         /\ Sending(s, MiniTile(s).tid)
         /\ \A d \in Cores : ask[MiniTile(s).tid][d] = TotalWanted(MiniTile(s).tid, d)
<1> DEFINE x == MiniTile(s).tid
           n == s.obuf_wl[s.sd]
<1>1. /\ s.sd \in Obufs /\ MiniTile(s) \in MiniTileType
      /\ s.mini \in DOMAIN s.obuf[s.sd] /\ MiniTile(s) = s.obuf[s.sd][s.mini]
  BY SelfAssumption, MiniTileInBuffer DEF MiniTile, Safe, BuffersApart
<1>2. x \in Tids
  BY <1>1 DEF MiniTileType
<1>3. n \in DOMAIN Jobs /\ IsRemote(Self, n, x)
  BY <1>1 DEF Stock, Pieces
<1>4. n \in Nat /\ n <= s.cur /\ s.cur \in Nat
  BY <1>1, <1>3, JobsType DEF Safe, CoreTypes
<1>5. IsOut(Self, n, x)
  BY <1>3, RemoteIsOut
<1>6. Sending(s, x) /\ Begun(s, x)
  BY <1>3, <1>4, <1>5 DEF Sending, Begun
<1>7. n < s.cur \/ AllRequested(s)
  BY DEF Safe, DrainJustified
<1> HIDE DEF x, n
<1>8. ASSUME NEW d \in Cores
      PROVE  ask[x][d] = TotalWanted(x, d)
  <2>1. RequestIn(s, x, d, ask[x][d])
    BY <1>2 DEF RequestsIn
  <2>2. s.cur_rq[x][d] = 0
    <3>1. CASE n < s.cur
      <4>1. s.cur \in DOMAIN Jobs => ~IsOut(Self, s.cur, x)
        BY <1>3, <1>4, <1>5, <3>1, OneJob
      <4> QED
        BY <2>1, <4>1 DEF RequestIn
    <3>2. CASE AllRequested(s)
      BY <1>2, <3>2 DEF AllRequested, NoRequests
    <3> QED
      BY <1>7, <3>1, <3>2
  <2>3. ask[x][d] \in Nat /\ TotalWanted(x, d) \in Nat
    BY <1>2, TotalWantedIs
  <2>4. 0 = TotalWanted(x, d) - ask[x][d]
    BY <1>6, <2>1, <2>2 DEF RequestIn
  <2> QED
    BY <2>3, <2>4
<1> QED
  BY <1>2, <1>6, <1>8 DEF x

(* The packet o with n bytes of transfer x has left.                         *)
Leaving(s, u, o, x, n) ==
  /\ o # NoPacket /\ o.kind = "data" /\ o.tid = x /\ o.size = n
  /\ o.end <=> s.send_list[x] = n
  /\ x \in Tids /\ Sending(s, x) /\ s.send_list \in [Tids -> Int]
  /\ n \in Nat \ {0} /\ n <= s.send_list[x]
  /\ u.cur = s.cur /\ u.send_list = [s.send_list EXCEPT ![x] = @ - n]

(* It is the last one if and only if nothing is left to send (core.cpp:696). *)
LEMMA SentCut ==
  ASSUME NEW s, NEW e, SentIn(s, NoPacket, e), NEW u, NEW o, NEW x, NEW n,
         Leaving(s, u, o, x, n)
  PROVE  SentIn(u, o, e)
<1>1. SUFFICES ASSUME NEW t \in Tids
               PROVE  SentOf(u, o, t, e[t])
  BY DEF SentIn
<1>2. SentOf(s, NoPacket, t, e[t])
  BY DEF SentIn
<1>3. Sending(u, t) <=> Sending(s, t)
  BY DEF Sending, Leaving
<1>4. ~Waits(NoPacket, t) /\ OutBytes(NoPacket, t) = 0 /\ OutEnds(NoPacket, t) = 0
  BY DEF Waits, OutBytes, OutEnds
<1>5. CASE t # x
  <2>1. ~Waits(o, t) /\ OutBytes(o, t) = 0 /\ OutEnds(o, t) = 0
    BY <1>5 DEF Waits, OutBytes, OutEnds, Leaving
  <2>2. u.send_list[t] = s.send_list[t]
    BY <1>5 DEF Leaving
  <2> QED
    BY <1>2, <1>3, <1>4, <2>1, <2>2 DEF SentOf
<1>6. CASE t = x
  <2>1. /\ Waits(o, t) /\ OutBytes(o, t) = n
        /\ OutEnds(o, t) = IF s.send_list[t] = n THEN 1 ELSE 0
    BY <1>6 DEF Waits, OutBytes, OutEnds, Leaving
  <2>2. /\ u.send_list[t] = s.send_list[t] - n /\ s.send_list[t] \in Int
        /\ n \in Nat \ {0} /\ n <= s.send_list[t] /\ Sending(s, t)
    BY <1>6 DEF Leaving
  <2>3. /\ e[t].bytes \in Int /\ e[t].ends \in Nat
        /\ e[t].bytes + 0 + s.send_list[t] = SizeOf(t)
        /\ e[t].ends + 0 = IF s.send_list[t] = 0 THEN 1 ELSE 0
    BY <1>2, <1>4, <2>2 DEF SentOf
  <2>4. e[t].ends = 0
    BY <2>2, <2>3
  <2>5. e[t].bytes + n + u.send_list[t] = SizeOf(t)
    BY <2>2, <2>3
  <2>6. OutEnds(o, t) = IF u.send_list[t] = 0 THEN 1 ELSE 0
    BY <2>1, <2>2
  <2>7. e[t].ends + OutEnds(o, t) = IF u.send_list[t] = 0 THEN 1 ELSE 0
    BY <2>4, <2>6
  <2> QED
    BY <1>3, <2>1, <2>2, <2>3, <2>4, <2>5, <2>7 DEF SentOf
<1> QED
  BY <1>5, <1>6

(* Sending a packet keeps the books (core.cpp:642).                          *)
LEMMA BookedSend ==
  ASSUME NEW s, Safe(Self, s), s.sd # NoBuf, NEW d, NEW ask, NEW e, NEW q,
         Booked(s, ask, NoPacket, e, q), MiniTile(s).tid \in Tids, Sending(s, MiniTile(s).tid),
         DataPacket(Self, s, d) # NoPacket
  PROVE  Booked(DataSent(s, d), ask, DataPacket(Self, s, d), e, q)
<1> DEFINE x == MiniTile(s).tid
           n == PacketSize(s)
           u == DataSent(s, d)
           o == DataPacket(Self, s, d)
<1>1. /\ s.sd \in Obufs /\ s.mini \in DOMAIN s.obuf[s.sd]
      /\ CoreTypes(Self, s) /\ s.send_list \in [Tids -> Int]
  BY SelfAssumption, MiniTileInBuffer DEF Safe, BuffersApart, CoreTypes
<1>2. x = s.obuf[s.sd][s.mini].tid /\ n = Smaller(s.obuf[s.sd][s.mini].size, PacketBytes)
  BY DEF MiniTile, PacketSize
<1>3. o.kind = "data" /\ o.tid = x /\ o.size = n /\ (o.end <=> s.send_list[x] = n)
  BY DEF DataPacket, IsEnd
<1>4. PacketCut(s, u, s.sd, s.mini)
  BY DataSentFields
<1> HIDE DEF u, o
<1>5. /\ Stock(Self, u) /\ n \in Nat \ {0} /\ n <= s.send_list[x]
      /\ u.send_list = [s.send_list EXCEPT ![x] = @ - n]
  <2>1. Stock(Self, s)
    BY DEF Booked
  <2> HIDE DEF x, n
  <2>2. /\ Stock(Self, u)
        /\ Smaller(s.obuf[s.sd][s.mini].size, PacketBytes) \in Nat \ {0}
        /\ Smaller(s.obuf[s.sd][s.mini].size, PacketBytes) <= s.send_list[s.obuf[s.sd][s.mini].tid]
    BY <1>1, <1>4, <2>1, StockCut
  <2>3. u.send_list = [s.send_list EXCEPT ![x] = @ - n]
    BY <1>2, <1>4 DEF PacketCut
  <2> QED
    BY <1>2, <2>2, <2>3
<1>6. u.cur = s.cur /\ u.cur_rq = s.cur_rq /\ u.r_rq = s.r_rq /\ u.s_rq = s.s_rq
  BY <1>4 DEF PacketCut
<1>7. RequestsIn(u, ask)
  BY <1>6, RequestsKept DEF Booked
<1>8. Leaving(s, u, o, x, n)
  BY <1>1, <1>3, <1>5, <1>6 DEF Leaving, o
<1> HIDE DEF x, n
<1>9. SentIn(u, o, e)
  BY <1>8, SentCut DEF Booked
<1>10. \A t \in Tids : Owes(u.s_rq[t], q[t])
  BY <1>6 DEF Booked
<1> QED
  BY <1>5, <1>7, <1>9, <1>10 DEF Booked, u, o

-----------------------------------------------------------------------------
(* The inductive invariant.                                                 *)

(* A core that has done nothing has its books in order.                      *)
LEMMA OutInit == Init => OutInv
<1> SUFFICES ASSUME Init
             PROVE  OutInv
  OBVIOUS
<1>1. /\ core.cur = 0 /\ core.gran = Gran0 /\ core.cnt1 = 0 /\ core.tiles = 0
      /\ core.obuf = [i \in Obufs |-> << >>]
      /\ core.cur_rq = NoRequests /\ core.r_rq = NoRequests
      /\ core.s_rq = [t \in Tids |-> NoEntry] /\ core.send_list = [t \in Tids |-> 0]
  BY DEF Init, CoreInit
<1>2. /\ out = NoPacket /\ asked = NoRequests /\ supply = [t \in Tids |-> NoSupply]
      /\ sent = [t \in Tids |-> [bytes |-> 0, ends |-> 0]]
  BY DEF Init
<1>3. \A t : ~Begun(core, t) /\ ~Sending(core, t)
  BY <1>1, JobsType DEF Begun, Sending
<1>4. asked \in [Tids -> [Cores -> Nat]] /\ sent \in [Tids -> [bytes : Int, ends : Nat]]
  BY <1>2 DEF NoRequests
<1>5. RequestsIn(core, asked)
  <2>1. SUFFICES ASSUME NEW t \in Tids, NEW d \in Cores
                 PROVE  RequestIn(core, t, d, asked[t][d])
    BY DEF RequestsIn
  <2>2. TotalWanted(t, d) \in Nat
    BY TotalWantedIs
  <2>3. asked[t][d] = 0 /\ core.cur_rq[t][d] = 0 /\ core.r_rq[t][d] = 0
    BY <1>1, <1>2 DEF NoRequests
  <2> QED
    BY <1>3, <2>2, <2>3 DEF RequestIn
<1>6. Stock(Self, core)
  BY CoreNew DEF Init
<1>7. SentIn(core, out, sent)
  BY <1>1, <1>2, <1>3 DEF SentIn, SentOf, Waits
<1>8. Owes(NoEntry, NoSupply)
  <2> DEFINE q == NoSupply
             P == {p \in DOMAIN q : q[p] > 0}
  <2>1. DOMAIN q = {} /\ P = {}
    BY DEF NoSupply
  <2> HIDE DEF q, P
  <2>2. SumFunctionOnSet(q, DOMAIN q) = 0 /\ Cardinality(P) = 0 /\ IsFiniteSet(DOMAIN q)
    BY <2>1, SumEmpty, FS_EmptySet
  <2>3. NoEntry.left = 0 /\ NoEntry.ends = 0
    BY DEF NoEntry
  <2>4. Owes(NoEntry, q)
    BY <2>1, <2>2, <2>3 DEF Owes, P
  <2> QED
    BY <2>4 DEF q
<1>9. OutAsked
  BY <1>2 DEF OutAsked
<1> QED
  BY <1>1, <1>2, <1>4, <1>5, <1>6, <1>7, <1>8, <1>9 DEF OutInv, Booked

(* Core::run keeps the books (core.cpp:242).                                 *)
LEMMA OutRun == IInv /\ OutInv /\ Run => OutInv'
<1> SUFFICES ASSUME IInv, OutInv, Run
             PROVE  OutInv'
  OBVIOUS
<1> DEFINE s == Work(Self, core)
<1>1. Safe(Self, s) /\ Counting(s)
  BY SelfAssumption, WorkSafe DEF IInv
<1>2. Booked(s, asked, out, sent, supply)
  BY BookedWork DEF IInv, OutInv
<1>3. asked' = asked /\ sent' = sent /\ supply' = supply
  BY DEF Run, RunOnly, RunRequest, RunSend
<1>4. asked \in [Tids -> [Cores -> Nat]] /\ sent \in [Tids -> [bytes : Int, ends : Nat]]
  BY DEF OutInv
<1>5. CASE RunOnly
  <2>1. core' = s /\ out' = out
    BY <1>5 DEF RunOnly
  <2> HIDE DEF s
  <2>2. Booked(core', asked', out', sent', supply')
    BY <1>2, <1>3, <2>1
  <2>3. OutAsked'
    BY <1>3, <2>1 DEF OutInv, OutAsked, TotalWanted
  <2> QED
    BY <1>3, <1>4, <2>2, <2>3 DEF OutInv
<1>6. CASE RunRequest
  <2>1. PICK r : core' = RequestSent(s, r) /\ out' = RequestPacket(Self, r)
    BY <1>6 DEF RunRequest
  <2>2. out = NoPacket
    BY <1>6 DEF RunRequest
  <2> HIDE DEF s
  <2>3. out'.kind = "request"
    BY <2>1 DEF RequestPacket
  <2>4. \A t : ~Waits(out', t) /\ ~Waits(out, t)
    BY <2>2, <2>3 DEF Waits
  <2>5. SentIn(s, out', sent)
    BY <1>2, <2>4 DEF Booked, SentIn, SentOf, OutBytes, OutEnds
  <2>6. Booked(s, asked, out', sent, supply)
    BY <1>2, <2>5 DEF Booked
  <2>7. Same(s, core', {"to_request"})
    <3>1. DOMAIN s = Fields
      BY <1>1, CoreFields DEF Safe, CoreTypes
    <3> QED
      BY <2>1, <3>1 DEF RequestSent, Same, Fields
  <2>8. Stock(Self, core')
    <3>1. Same(s, core', Fields \ StockFields)
      BY <2>7 DEF Same, Fields, StockFields
    <3> QED
      BY <1>2, <3>1, StockKept DEF Booked
  <2>9. /\ core'.cur = s.cur /\ core'.cur_rq = s.cur_rq /\ core'.r_rq = s.r_rq
        /\ core'.s_rq = s.s_rq /\ core'.send_list = s.send_list
    BY <2>7 DEF Same, Fields
  <2>10. Booked(core', asked, out', sent, supply)
    BY <2>6, <2>8, <2>9, BookedKept
  <2>11. OutAsked'
    BY <2>3 DEF OutAsked
  <2> QED
    BY <1>3, <1>4, <2>10, <2>11 DEF OutInv
<1>7. CASE RunSend
  <2>1. PICK d \in DdrChoices(s, MiniTile(s).tid) :
          core' = DataSent(s, d) /\ out' = DataPacket(Self, s, d)
    BY <1>7 DEF RunSend
  <2>2. out = NoPacket /\ s.sd # NoBuf
    BY <1>7 DEF RunSend, CanSend
  <2>3. out' # NoPacket
    <3>1. d \in Ddrs
      BY <1>1, <2>1, <2>2, SelfAssumption, DataSentSafe
    <3> HIDE DEF s
    <3>2. out' \in Packet
      BY <1>1, <2>1, <2>2, <3>1, SelfAssumption, DataPacketType
    <3> QED
      BY <3>2, QueueAssumption
  <2> HIDE DEF s
  <2>4. /\ MiniTile(s).tid \in Tids /\ Sending(s, MiniTile(s).tid)
        /\ \A c \in Cores : asked[MiniTile(s).tid][c] = TotalWanted(MiniTile(s).tid, c)
    BY <1>1, <1>2, <1>4, <2>2, DrainAsked DEF Booked
  <2>5. Booked(core', asked, out', sent, supply)
    BY <1>1, <1>2, <2>1, <2>2, <2>3, <2>4, BookedSend
  <2>6. out'.tid = MiniTile(s).tid
    BY <2>1 DEF DataPacket
  <2>7. OutAsked'
    BY <1>3, <2>4, <2>6 DEF OutAsked, TotalWanted
  <2> QED
    BY <1>3, <1>4, <2>5, <2>7 DEF OutInv
<1> QED
  BY <1>5, <1>6, <1>7 DEF Run

-----------------------------------------------------------------------------
(* The network takes over what leaves: a request opens what is owed, data    *)
(* counts as sent.                                                         *)
LEMMA OutInject == IInv /\ OutInv /\ Inject => OutInv'
<1> SUFFICES ASSUME IInv, OutInv, Inject
             PROVE  OutInv'
  OBVIOUS
<1> DEFINE x == out.tid
<1>1. /\ core' = core /\ asked' = asked /\ out' = NoPacket /\ out # NoPacket
      /\ out \in Packet /\ x \in Tids
  BY DEF Inject, IInv, Books, Packet
<1>2. /\ asked \in [Tids -> [Cores -> Nat]] /\ sent \in [Tids -> [bytes : Int, ends : Nat]]
      /\ RequestsIn(core, asked) /\ Stock(Self, core) /\ SentIn(core, out, sent)
      /\ \A t \in Tids : Owes(core.s_rq[t], supply[t])
  BY DEF OutInv, Booked
<1>3. OutAsked'
  BY <1>1 DEF OutAsked
<1>4. \A t : ~Waits(NoPacket, t) /\ OutBytes(NoPacket, t) = 0 /\ OutEnds(NoPacket, t) = 0
  BY DEF Waits, OutBytes, OutEnds
<1>5. CASE out.kind = "request"
  <2>1. /\ sent' = sent
        /\ supply' = [supply EXCEPT ![x] = IF @ = NoSupply THEN Shares(x) ELSE @]
    BY <1>5 DEF Inject
  <2>2. \A t : ~Waits(out, t) /\ OutBytes(out, t) = 0 /\ OutEnds(out, t) = 0
    BY <1>5 DEF Waits, OutBytes, OutEnds
  <2>3. SentIn(core, NoPacket, sent)
    BY <1>2, <1>4, <2>2 DEF SentIn, SentOf
  <2>4. ASSUME NEW t \in Tids
        PROVE  Owes(core.s_rq[t], supply'[t])
    <3>1. DOMAIN supply = Tids /\ core.s_rq[t] \in EntryType
      BY DEF IInv, Books, Safe, CoreTypes
    <3>2. CASE t = x /\ supply[t] = NoSupply
      <4>1. supply'[t] = Shares(t)
        BY <2>1, <3>1, <3>2
      <4>2. Owes(core.s_rq[t], NoSupply)
        BY <1>2, <3>2
      <4> DEFINE q == Shares(t)
      <4>3. q = IF core.s_rq[t].from = DRAM THEN [p \in Ddrs |-> core.s_rq[t].left \div DdrNum]
                ELSE [p \in {0} |-> core.s_rq[t].left]
        BY DEF Shares
      <4> HIDE DEF q
      <4>4. Owes(core.s_rq[t], q)
        BY <3>1, <4>2, <4>3, OwesShares
      <4> QED
        BY <4>1, <4>4 DEF q
    <3>3. CASE ~(t = x /\ supply[t] = NoSupply)
      <4>1. supply'[t] = supply[t]
        BY <2>1, <3>1, <3>3
      <4> QED
        BY <1>2, <4>1
    <3> QED
      BY <3>2, <3>3
  <2>5. Booked(core, asked, NoPacket, sent, supply')
    BY <1>2, <2>3, <2>4 DEF Booked
  <2> QED
    BY <1>1, <1>2, <1>3, <2>1, <2>5 DEF OutInv
<1>6. CASE out.kind # "request"
  <2>1. /\ supply' = supply
        /\ sent' = [sent EXCEPT ![x].bytes = @ + out.size,
                                ![x].ends  = IF out.end THEN @ + 1 ELSE @]
    BY <1>6 DEF Inject
  <2>2. out.kind = "data" /\ out.size \in Int /\ out.end \in BOOLEAN
    BY <1>1, <1>6 DEF Packet
  <2>3. /\ sent'[x].bytes = sent[x].bytes + out.size
        /\ sent'[x].ends = IF out.end THEN sent[x].ends + 1 ELSE sent[x].ends
        /\ sent' \in [Tids -> [bytes : Int, ends : Nat]]
        /\ \A t \in Tids \ {x} : sent'[t] = sent[t]
    BY <1>1, <1>2, <2>1, <2>2
  <2>4. ASSUME NEW t \in Tids
        PROVE  SentOf(core, NoPacket, t, sent'[t])
    <3>1. SentOf(core, out, t, sent[t])
      BY <1>2 DEF SentIn
    <3>2. CASE t # x
      <4>1. ~Waits(out, t) /\ OutBytes(out, t) = 0 /\ OutEnds(out, t) = 0
        BY <3>2 DEF Waits, OutBytes, OutEnds
      <4>2. sent'[t] = sent[t]
        BY <2>3, <3>2
      <4> QED
        BY <1>4, <3>1, <4>1, <4>2 DEF SentOf
    <3>3. CASE t = x
      <4>1. Waits(out, t) /\ OutBytes(out, t) = out.size
        BY <1>1, <2>2, <3>3 DEF Waits, OutBytes
      <4>2. OutEnds(out, t) = IF out.end THEN 1 ELSE 0
        BY <4>1 DEF OutEnds
      <4>3. Sending(core, t) /\ sent[t].ends \in Nat /\ sent[t].bytes \in Int
        BY <3>1, <4>1 DEF SentOf
      <4>4. sent[t].bytes + out.size + core.send_list[t] = SizeOf(t)
        BY <3>1, <4>1, <4>3 DEF SentOf
      <4>5. sent[t].ends + OutEnds(out, t) = IF core.send_list[t] = 0 THEN 1 ELSE 0
        BY <3>1, <4>3 DEF SentOf
      <4>6. sent'[t].ends = sent[t].ends + OutEnds(out, t)
        BY <2>2, <2>3, <3>3, <4>2, <4>3
      <4>7. sent'[t].bytes \in Int /\ sent'[t].ends \in Nat
        BY <2>3
      <4>8. core.send_list[t] \in Int
        BY DEF IInv, Safe, CoreTypes
      <4>9. sent'[t].bytes + 0 + core.send_list[t] = SizeOf(t)
        BY <2>2, <2>3, <3>3, <4>3, <4>4, <4>8
      <4>10. sent'[t].ends + 0 = IF core.send_list[t] = 0 THEN 1 ELSE 0
        BY <4>5, <4>6, <4>7
      <4> QED
        BY <1>4, <4>3, <4>7, <4>9, <4>10 DEF SentOf
    <3> QED
      BY <3>2, <3>3
  <2>5. SentIn(core, NoPacket, sent')
    BY <2>4 DEF SentIn
  <2>6. Booked(core, asked, NoPacket, sent', supply)
    BY <1>2, <2>5 DEF Booked
  <2> QED
    BY <1>1, <1>2, <1>3, <2>1, <2>3, <2>6 DEF OutInv
<1> QED
  BY <1>5, <1>6

(* A request counts off what the consumer may still ask (core.cpp:392).      *)
LEMMA OutRequest ==
  ASSUME IInv, OutInv, NEW t \in Tids, NEW d \in Cores, ReceiveRequest(t, d)
  PROVE  OutInv'
<1> DEFINE u == RequestReceived(core, t, d, 1)
<1>1. /\ core' = u /\ asked' = [asked EXCEPT ![t][d] = @ + 1] /\ asked[t][d] < TotalWanted(t, d)
      /\ out' = out /\ supply' = supply /\ sent' = sent
  BY DEF ReceiveRequest
<1>2. /\ asked \in [Tids -> [Cores -> Nat]] /\ sent \in [Tids -> [bytes : Int, ends : Nat]]
      /\ Booked(core, asked, out, sent, supply) /\ OutAsked
  BY DEF OutInv
<1>3. RequestsIn(u, asked')
  BY <1>1, <1>2, RequestsReceived DEF IInv, Booked
<1>4. Same(core, u, {"cur_rq", "r_rq"})
  <2>1. DOMAIN core = Fields
    BY CoreFields DEF IInv, Safe, CoreTypes
  <2> QED
    BY <2>1 DEF RequestReceived, Same, Fields
<1> HIDE DEF u
<1>5. Stock(Self, u)
  <2>1. Same(core, u, Fields \ StockFields)
    BY <1>4 DEF Same, Fields, StockFields
  <2> QED
    BY <1>2, <2>1, StockKept DEF Booked
<1>6. u.cur = core.cur /\ u.send_list = core.send_list /\ u.s_rq = core.s_rq
  BY <1>4 DEF Same, Fields
<1>7. SentIn(u, out, sent)
  BY <1>2, <1>6, SentKept DEF Booked
<1>8. Booked(u, asked', out, sent, supply)
  BY <1>2, <1>3, <1>5, <1>6, <1>7 DEF Booked
<1>9. asked' \in [Tids -> [Cores -> Nat]]
  BY <1>1, <1>2
<1>10. OutAsked'
  <2>1. SUFFICES ASSUME out # NoPacket, out.kind = "data", NEW e \in Cores
                 PROVE  asked'[out.tid][e] = TotalWanted(out.tid, e)
    BY <1>1 DEF OutAsked, TotalWanted
  <2>2. asked[out.tid][e] = TotalWanted(out.tid, e) /\ out.tid \in Tids
    BY <1>2, <2>1 DEF OutAsked, IInv, Books, Packet
  <2>3. TotalWanted(out.tid, e) \in Nat
    BY <2>2, TotalWantedIs
  <2>4. ~(out.tid = t /\ e = d)
    BY <1>1, <2>2, <2>3
  <2> QED
    BY <1>1, <1>2, <2>2, <2>4
<1> QED
  BY <1>1, <1>2, <1>8, <1>9, <1>10 DEF OutInv

(* A packet of data counts off what its supplier owes (core.cpp:412).        *)
LEMMA OutData ==
  ASSUME IInv, OutInv, NEW t \in Tids, NEW p \in Ddrs, ReceiveData(t, p)
  PROVE  OutInv'
<1> DEFINE size == Smaller(supply[t][p], PacketBytes)
           end == size = supply[t][p]
           u == DataReceived(core, t, size, end)
           f == [core.s_rq[t] EXCEPT !.left = @ - size, !.ends = IF end THEN @ - 1 ELSE @]
           q == supply[t]
           r == [q EXCEPT ![p] = @ - size]
<1>1. /\ core' = u /\ supply' = [supply EXCEPT ![t] = r]
      /\ p \in DOMAIN q /\ q[p] > 0
      /\ asked' = asked /\ out' = out /\ sent' = sent
  BY DEF ReceiveData
<1>2. /\ asked \in [Tids -> [Cores -> Nat]] /\ sent \in [Tids -> [bytes : Int, ends : Nat]]
      /\ Booked(core, asked, out, sent, supply) /\ OutAsked
  BY DEF OutInv
<1>3. DOMAIN core = Fields /\ core.s_rq \in [Tids -> EntryType] /\ DOMAIN supply = Tids
  BY CoreFields DEF IInv, Safe, CoreTypes, Books
<1>4. Owes(core.s_rq[t], q)
  BY <1>2 DEF Booked
<1>5. size \in Nat \ {0} /\ size <= q[p]
  <2>1. q[p] \in Nat
    BY <1>1, <1>4 DEF Owes
  <2> QED
    BY <1>1, <2>1, PlatformAssumption DEF Smaller
<1>6. /\ core.s_rq[t] \in EntryType /\ f \in EntryType /\ f.left = core.s_rq[t].left - size
      /\ f.from = core.s_rq[t].from
      /\ f.ends = IF end THEN core.s_rq[t].ends - 1 ELSE core.s_rq[t].ends
  <2> DEFINE e == core.s_rq[t]
  <2>1. e \in EntryType
    BY <1>3
  <2> HIDE DEF e, size, end
  <2> DEFINE k == IF end THEN e.ends - 1 ELSE e.ends
  <2>2. size \in Int /\ k \in Int
    BY <1>5, <2>1 DEF EntryType
  <2>3. f = [e EXCEPT !.left = @ - size, !.ends = k]
    BY DEF e
  <2> HIDE DEF f, k
  <2>4. /\ e.left \in Int /\ e.layers \in SUBSET Layers /\ e.from \in Cores \cup {DRAM}
        /\ e = [layers |-> e.layers, left |-> e.left, ends |-> e.ends, from |-> e.from]
    BY <2>1 DEF EntryType
  <2>5. f = [layers |-> e.layers, left |-> e.left - size, ends |-> k, from |-> e.from]
    BY <2>3, <2>4
  <2>6. e.left - size \in Int
    BY <2>2, <2>4
  <2>7. f \in EntryType
    BY <2>2, <2>4, <2>5, <2>6 DEF EntryType
  <2> QED
    BY <2>1, <2>5, <2>7 DEF e, k
<1>7. DOMAIN r = DOMAIN q /\ r[p] = q[p] - size /\ \A y \in DOMAIN q \ {p} : r[y] = q[y]
  BY <1>1
<1>8. end \in BOOLEAN /\ (end <=> size = q[p])
  OBVIOUS
<1>9. /\ Same(core, u, {"s_rq", "buffer", "left_data", "dataready"})
      /\ u.s_rq[t] = IF f.left = 0 THEN NoEntry ELSE f
      /\ \A y \in Tids \ {t} : u.s_rq[y] = core.s_rq[y]
  <2>1. CASE f.left = 0
    BY <1>3, <2>1 DEF DataReceived, Same, Fields
  <2>2. CASE f.left # 0
    BY <1>3, <2>2 DEF DataReceived, Same, Fields
  <2> QED
    BY <2>1, <2>2
<1> HIDE DEF u, f, r, q, size, end
<1>10. Owes(f, r) /\ (f.left = 0 => Owes(NoEntry, r))
  BY <1>1, <1>4, <1>5, <1>6, <1>7, <1>8, OwesData
<1>11. ASSUME NEW y \in Tids
       PROVE  Owes(u.s_rq[y], supply'[y])
  <2>1. CASE y = t
    BY <1>1, <1>3, <1>9, <1>10, <2>1
  <2>2. CASE y # t
    BY <1>1, <1>2, <1>3, <1>9, <2>2 DEF Booked
  <2> QED
    BY <2>1, <2>2
<1>12. Stock(Self, u)
  <2>1. Same(core, u, Fields \ StockFields)
    BY <1>9 DEF Same, Fields, StockFields
  <2> QED
    BY <1>2, <2>1, StockKept DEF Booked
<1>13. /\ u.cur = core.cur /\ u.cur_rq = core.cur_rq /\ u.r_rq = core.r_rq
       /\ u.send_list = core.send_list
  BY <1>9 DEF Same, Fields
<1>14. RequestsIn(u, asked) /\ SentIn(u, out, sent)
  BY <1>2, <1>13, RequestsKept, SentKept DEF Booked
<1>15. Booked(u, asked, out, sent, supply')
  BY <1>11, <1>12, <1>14 DEF Booked
<1>16. OutAsked'
  BY <1>1, <1>2 DEF OutAsked, TotalWanted
<1> QED
  BY <1>1, <1>2, <1>15, <1>16 DEF OutInv

-----------------------------------------------------------------------------
(* Every step keeps the books.                                              *)
LEMMA OutStep == IInv /\ OutInv /\ [Next]_vars => OutInv'
<1> SUFFICES ASSUME IInv, OutInv, [Next]_vars
             PROVE  OutInv'
  OBVIOUS
<1>1. CASE UNCHANGED vars
  <2>1. core' = core /\ out' = out /\ asked' = asked /\ supply' = supply /\ sent' = sent
    BY <1>1 DEF vars
  <2> QED
    BY <2>1 DEF OutInv, OutAsked, TotalWanted
<1>2. CASE Receive
  BY <1>2, OutRequest, OutData DEF Receive
<1> QED
  BY <1>1, <1>2, OutRun, OutInject DEF Next

(* The counters never pass zero.                                            *)
LEMMA OutCounts == IInv /\ OutInv => CountsSound
<1> SUFFICES ASSUME IInv, OutInv
             PROVE  CountsSound
  OBVIOUS
<1>1. ASSUME NEW t \in Tids
      PROVE  core.s_rq[t].left >= 0 /\ core.s_rq[t].ends >= 0
  <2>1. Owes(core.s_rq[t], supply[t])
    BY DEF OutInv, Booked
  <2> QED
    BY <2>1 DEF Owes
<1>2. ASSUME NEW t \in Tids, NEW d \in Cores
      PROVE  core.cur_rq[t][d] >= 0 /\ core.r_rq[t][d] >= 0
  <2>1. RequestIn(core, t, d, asked[t][d])
    BY DEF OutInv, Booked, RequestsIn
  <2>2. asked[t][d] \in Nat /\ TotalWanted(t, d) \in Nat
    BY TotalWantedIs DEF OutInv
  <2> QED
    BY <2>1, <2>2 DEF RequestIn
<1>3. ASSUME NEW t \in Tids
      PROVE  core.send_list[t] >= 0
  <2>1. core.send_list[t] = Buffered(core, t) + Uncomputed(Self, core, t)
    BY DEF OutInv, Booked, Stock, Held
  <2>2. Buffered(core, t) \in Nat
    BY BufferedType DEF OutInv, Booked, Stock, IInv, Safe, CoreTypes
  <2>3. Uncomputed(Self, core, t) \in Nat
    BY UncomputedNat DEF OutInv, Booked, Stock, IInv, Safe
  <2> QED
    BY <2>1, <2>2, <2>3
<1> QED
  BY <1>1, <1>2, <1>3 DEF CountsSound

(* Every output is sent whole, with one end, to cores that have all asked    *)
(* for it, and none of the counters the code keeps for it passes zero        *)
(* (core.cpp:392, 411, 580, 642).                                          *)
THEOREM OutputsStayComplete == Spec => []OutputsComplete
<1> DEFINE Inv == IInv /\ OutInv
<1>1. Init => Inv
  BY InitInv, OutInit
<1>2. Inv /\ [Next]_vars => Inv'
  BY StepInv, OutStep
<1>3. Inv => OutputsComplete
  <2> SUFFICES ASSUME Inv
               PROVE  OutputsComplete
    OBVIOUS
  <2>1. CountsSound
    BY OutCounts
  <2>2. DataOnlyOnRequest
    BY DEF OutInv, OutAsked, DataOnlyOnRequest
  <2>3. NothingLost
    BY DEF OutInv, Booked, Stock, Held, NothingLost
  <2>4. EndIsLast
    <3>1. SUFFICES ASSUME NEW t \in Tids, sent[t].ends # 0
                   PROVE  sent[t].ends = 1 /\ sent[t].bytes = SizeOf(t)
      BY DEF EndIsLast
    <3>2. SentOf(core, out, t, sent[t])
      BY DEF OutInv, Booked, SentIn
    <3>3. Sending(core, t) /\ ~Waits(out, t)
      BY <3>1, <3>2 DEF SentOf
    <3>4. OutBytes(out, t) = 0 /\ OutEnds(out, t) = 0
      BY <3>3 DEF OutBytes, OutEnds
    <3>5. sent[t].ends \in Nat /\ sent[t].bytes \in Int
      BY <3>2 DEF SentOf
    <3>6. sent[t].ends + 0 = IF core.send_list[t] = 0 THEN 1 ELSE 0
      BY <3>2, <3>3, <3>4 DEF SentOf
    <3>7. core.send_list[t] = 0 /\ sent[t].ends = 1
      BY <3>1, <3>5, <3>6
    <3>8. sent[t].bytes + 0 + core.send_list[t] = SizeOf(t)
      BY <3>2, <3>3, <3>4 DEF SentOf
    <3> QED
      BY <3>5, <3>7, <3>8
  <2> QED
    BY <2>1, <2>2, <2>3, <2>4 DEF OutputsComplete
<1> QED
  BY <1>1, <1>2, <1>3, PTL DEF Spec
=============================================================================
