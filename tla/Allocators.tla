----------------------------- MODULE Allocators -----------------------------
(***************************************************************************)
(* The allocators of src/allocators.  A router adds the requests of a cycle   *)
(* (input, output, and a priority for each side), calls Allocate, reads the   *)
(* matches and clears.  One step is such a cycle, with any requests; what     *)
(* is kept between cycles are the pointers, or arbiters, of the ports.  How   *)
(* the VCs of a switch come to one request for an input and an output is shown *)
(* with a kind of its own, the tables without an allocator.                  *)
(***************************************************************************)
EXTENDS Arbiters, SequencesExt

CONSTANTS
  Kinds,        \* the allocators looked at
  InputsOf,     \* InputsOf[k]: number of inputs of allocator k
  OutputsOf,    \* OutputsOf[k]: number of its outputs
  TypeOf,       \* TypeOf[k]: what it is
  ArbType,      \* ArbType[k]: the arbiters of a separable one
  Iters,        \* Iters[k]: alloc_iters
  RequestsOf,   \* RequestsOf[k]: what may be asked of k in a cycle
  PrisOf,       \* PrisOf[k][i]: the priorities of the VCs of input i, in the tables
  Vcs           \* the VCs of an input that ask, in the tables

(* There are ports and VCs.  TreeArbiter asserts that its groups, here two,     *)
(* divide its inputs, and selects for one output.  MaxSizeMatch has an entry of  *)
(* _from for each input and indexes it by outputs.  NewAllocator is called     *)
(* without the configuration, so that there is one iteration unless the name of *)
(* the allocator says more (one that says none grants nothing); Select with     *)
(* more can accept two outputs for an input.                                 *)
ASSUME AllocAssumption ==
  /\ Vcs \in Nat \ {0}
  /\ \A k \in Kinds : /\ InputsOf[k] \in Nat \ {0} /\ OutputsOf[k] \in Nat \ {0} /\ Iters[k] \in Nat \ {0}
                      /\ TypeOf[k] = "tree" => InputsOf[k] % 2 = 0 /\ OutputsOf[k] = 1
                      /\ TypeOf[k] = "select" => Iters[k] <= 1
                      /\ TypeOf[k] = "max_size" => OutputsOf[k] <= InputsOf[k]
                      /\ \A r \in RequestsOf[k] :
                           /\ DOMAIN r \subseteq Ports(InputsOf[k]) \X Ports(OutputsOf[k])
                           /\ \A c \in DOMAIN r : r[c] \in Int \X Int
                      /\ \A i \in Ports(InputsOf[k]) : PrisOf[k][i] \subseteq Int

VARIABLES
  kind,         \* which allocator this is
  inarb,        \* _aptrs, _rptr or _input_arb
  outarb,       \* _gptrs, _gptr or _output_arb
  turn,         \* _pri of the wavefront, _prio of the maximum matching
  req,          \* the requests of the last cycle: <<input, output>> to <<in_pri, out_pri>>
  inmatch,      \* _inmatch
  outmatch,     \* _outmatch
  made,        \* in the tables: the output and priority each <<input, VC>> asked for
  dense,        \* _request of a DenseAllocator
  sparse        \* _in_req, _out_req, _in_occ and _out_occ of a SparseAllocator

tables == <<made, dense, sparse>>
vars == <<kind, inarb, outarb, turn, req, inmatch, outmatch, tables>>

NI      == InputsOf[kind]
NO      == OutputsOf[kind]
Inputs  == Ports(NI)
Outputs == Ports(NO)
type    == TypeOf[kind]
arb     == ArbType[kind]
Square  == Max({NI, NO})

Free(n) == [p \in Ports(n) |-> Nobody]

(* The first of the ports S from ptr on, around.                            *)
First(S, ptr) == IF \E p \in S : p >= ptr THEN Min({p \in S : p >= ptr}) ELSE Min(S)

(* Of those with the highest priority.                                     *)
Best(S, pri(_), ptr) == First({p \in S : \A q \in S : pri(q) <= pri(p)}, ptr)

InReq(r, i)  == {c[2] : c \in {c \in DOMAIN r : c[1] = i}}
OutReq(r, o) == {c[1] : c \in {c \in DOMAIN r : c[2] = o}}

(* Matches m to which accept, a function from inputs to outputs, is added.    *)
Accepted(m, accept) ==
  [inm  |-> [i \in Inputs |-> IF i \in DOMAIN accept THEN accept[i] ELSE m.inm[i]],
   outm |-> [o \in Outputs |-> IF \E i \in DOMAIN accept : accept[i] = o
                               THEN CHOOSE i \in DOMAIN accept : accept[i] = o ELSE m.outm[o]]]

NoMatch == [inm |-> Free(NI), outm |-> Free(NO)]

(* An output takes part in an iteration while it is unmatched and some       *)
(* unmatched input asks for it.                                            *)
Asking(r, m, o) == IF m.outm[o] # Nobody THEN {} ELSE {i \in OutReq(r, o) : m.inm[i] = Nobody}
Granting(r, m)  == {o \in Outputs : Asking(r, m, o) # {}}
GrantsTo(g, i)  == {o \in DOMAIN g : g[o] = i}
Granted(g)      == {g[o] : o \in DOMAIN g}

-----------------------------------------------------------------------------
(* iSLIP: grant and accept by round robin, both pointers move only for what   *)
(* is accepted in the first iteration.                                     *)
MovedIn(t, accept) ==   \* mutant: the pointers of the outputs stay
  [in |-> [i \in Inputs |-> IF i \in DOMAIN accept THEN After(accept[i], NO) ELSE t.in[i]],
   out |-> t.out]

Moved(t, accept) ==
  [in  |-> [i \in Inputs |-> IF i \in DOMAIN accept THEN After(accept[i], NO) ELSE t.in[i]],
   out |-> [o \in Outputs |-> IF \E i \in DOMAIN accept : accept[i] = o
                              THEN After(CHOOSE i \in DOMAIN accept : accept[i] = o, NI)
                              ELSE t.out[o]]]

ISlipEager(r, t, k) ==   \* mutant: grants to inputs that are matched
  LET grants == [o \in {o \in Outputs : OutReq(r, o) # {}} |-> First(OutReq(r, o), t.out[o])]
      accept == [i \in Granted(grants) |-> First(GrantsTo(grants, i), t.in[i])]
      ptrs   == IF k = 1 THEN Moved(t, accept) ELSE t
  IN  [in |-> ptrs.in, out |-> ptrs.out, m |-> Accepted(t.m, accept)]

ISlipIteration(r, t, k) ==
  LET grants == [o \in Granting(r, t.m) |-> First(Asking(r, t.m, o), t.out[o])]
      accept == [i \in Granted(grants) |-> First(GrantsTo(grants, i), t.in[i])]
      ptrs   == IF k = 1 THEN Moved(t, accept) ELSE t
  IN  [in |-> ptrs.in, out |-> ptrs.out, m |-> Accepted(t.m, accept)]

ISlip(r) == FoldLeft(LAMBDA t, k : ISlipIteration(r, t, k),
                     [in |-> inarb, out |-> outarb, m |-> NoMatch], [k \in 1 .. Iters[kind] |-> k])

-----------------------------------------------------------------------------
(* Select: iSLIP with priorities.  The grants are kept from one iteration to  *)
(* the next, and are accepted whether or not the output is still free.       *)
SelectIteration(r, t, k) ==
  LET asking == Granting(r, t.m)
      grants == [o \in asking \cup DOMAIN t.grants |->
                   IF o \in asking
                   THEN Best(Asking(r, t.m, o), LAMBDA i : r[<<i, o>>][2], t.out[o])
                   ELSE t.grants[o]]
      accept == [i \in Granted(grants) |->
                   Best(GrantsTo(grants, i), LAMBDA o : r[<<i, o>>][1], t.in[i])]
      ptrs   == IF k = 1 THEN Moved(t, accept) ELSE t
  IN  [in |-> ptrs.in, out |-> ptrs.out, m |-> Accepted(t.m, accept), grants |-> grants]

Select(r) == FoldLeft(LAMBDA t, k : SelectIteration(r, t, k),
                      [in |-> inarb, out |-> outarb, m |-> NoMatch, grants |-> << >>],
                      [k \in 1 .. Iters[kind] |-> k])

-----------------------------------------------------------------------------
(* PIM: iterations as iSLIP, with random choices.                           *)
Choice(S, F(_)) == {f \in [S -> UNION {F(x) : x \in S}] : \A x \in S : f[x] \in F(x)}

PimIteration(r, m) ==
  UNION {{Accepted(m, accept) : accept \in Choice(Granted(g), LAMBDA i : GrantsTo(g, i))} :
           g \in Choice(Granting(r, m), LAMBDA o : Asking(r, m, o))}

Pim(r) == FoldLeft(LAMBDA ms, k : UNION {PimIteration(r, m) : m \in ms}, {NoMatch},
                   [k \in 1 .. Iters[kind] |-> k])

-----------------------------------------------------------------------------
(* LOA: an input asks for the output with the fewest requests, an output     *)
(* takes the first by its pointer.  Pointers move by one.                   *)
Loa(r) ==
  LET asked(o) == Cardinality(OutReq(r, o))
      lonely == [i \in {c[1] : c \in DOMAIN r} |->
                   Best(InReq(r, i), LAMBDA o : 0 - asked(o), inarb[i])]
      grants == [o \in Granted(lonely) |-> First({i \in DOMAIN lonely : lonely[i] = o}, outarb[o])]
      accept == [i \in Granted(grants) |-> lonely[i]]
  IN  [in  |-> [i \in Inputs |-> IF i \in DOMAIN accept THEN After(inarb[i], NO) ELSE inarb[i]],
       out |-> [o \in Outputs |-> IF o \in DOMAIN grants THEN After(outarb[o], NI) ELSE outarb[o]],
       m   |-> Accepted(NoMatch, accept)]

-----------------------------------------------------------------------------
(* Wavefront: priorities from the highest, and for each the diagonals from    *)
(* the one whose turn it is; on a diagonal nothing conflicts.               *)
Higher(a, b) == a[2] > b[2] \/ (a[2] = b[2] /\ a[1] > b[1])
Priorities(r) == {r[c] : c \in DOMAIN r}
Ascending(r)  ==   \* mutant
  [k \in 1 .. Cardinality(Priorities(r)) |->
     CHOOSE p \in Priorities(r) : Cardinality({q \in Priorities(r) : Higher(p, q)}) = k - 1]
Descending(r) ==
  [k \in 1 .. Cardinality(Priorities(r)) |->
     CHOOSE p \in Priorities(r) : Cardinality({q \in Priorities(r) : Higher(q, p)}) = k - 1]
Diagonal(c)  == (c[1] + c[2]) % Square

Wave(r, t, pri, d) ==
  LET cells == {c \in DOMAIN r : /\ Diagonal(c) = (turn + d) % Square /\ r[c] = pri
                                 /\ t.m.inm[c[1]] = Nobody /\ t.m.outm[c[2]] = Nobody}
  IN  [m     |-> Accepted(t.m, [i \in {c[1] : c \in cells} |-> CHOOSE o \in Outputs : <<i, o>> \in cells]),
       first |-> IF t.first = Nobody /\ cells # {} THEN (turn + d) % Square ELSE t.first]

Wavefront(r) ==
  FoldLeft(LAMBDA t, pri : FoldLeft(LAMBDA u, d : Wave(r, u, pri, d - 1), t, [d \in 1 .. Square |-> d]),
           [m |-> NoMatch, first |-> Nobody], Descending(r))

-----------------------------------------------------------------------------
(* Maximum matching: augmenting paths by breadth first search from the        *)
(* unmatched inputs, in order from the turn.  A search s has the inputs of    *)
(* this layer and of the next, the input each output was reached from, and    *)
(* the free output it ends at.                                              *)
Look(r, m, s, i, j) ==
  IF s.end # Nobody \/ <<i, j>> \notin DOMAIN r \/ m.inm[i] = j \/ s.from[j] # Nobody THEN s
  ELSE [s EXCEPT !.from[j] = i,
                 !.end = IF m.outm[j] = Nobody THEN j ELSE @,
                 !.next = IF m.outm[j] = Nobody THEN @ ELSE Append(@, m.outm[j])]

LayerOnly(r, m, s) ==   \* mutant: the search ends after one layer
  LET t == FoldLeft(LAMBDA u, i : FoldLeft(LAMBDA w, j : Look(r, m, w, i, j - 1), u, [j \in 1 .. NO |-> j]),
                    s, s.layer)
  IN  [t EXCEPT !.layer = << >>]

Layer(r, m, s) ==
  LET t == FoldLeft(LAMBDA u, i : FoldLeft(LAMBDA w, j : Look(r, m, w, i, j - 1), u, [j \in 1 .. NO |-> j]),
                    s, s.layer)
  IN  [t EXCEPT !.layer = t.next, !.next = << >>]

Unmatched(m, order) ==
  FoldLeft(LAMBDA q, i : IF m.inm[i] = Nobody THEN Append(q, i) ELSE q, << >>, order)

Search(r, m) ==
  LET order == [k \in 1 .. NI |-> (k - 1 + turn) % NI]
  IN  FoldLeft(LAMBDA s, k : Layer(r, m, s),
               [layer |-> Unmatched(m, order), next |-> << >>,
                from |-> Free(NO), end |-> Nobody], order)

(* The edges of the path are swapped from its end to its beginning.         *)
Swap(m, from, j) ==
  FoldLeft(LAMBDA t, k : IF t.j = Nobody THEN t
                         ELSE LET i == from[t.j]
                              IN  [m |-> [inm |-> [t.m.inm EXCEPT ![i] = t.j],
                                          outm |-> [t.m.outm EXCEPT ![t.j] = i]],
                                   j |-> t.m.inm[i]],
           [m |-> m, j |-> j], [k \in 1 .. NI |-> k]).m

Augment(r, m) == LET s == Search(r, m) IN IF s.end = Nobody THEN m ELSE Swap(m, s.from, s.end)

MaxSize(r) == FoldLeft(LAMBDA m, k : Augment(r, m), NoMatch, [k \in 1 .. NI |-> k])

-----------------------------------------------------------------------------
(* Separable: an arbiter at every input and output; one side chooses first,  *)
(* and only arbiters whose choice is granted move on.                       *)
AtInput(r, i, offers)  == Arbitrate(arb, inarb[i], [o \in offers |-> r[<<i, o>>][1]], NO)
AtOutput(r, o, offers) == Arbitrate(arb, outarb[o], [i \in offers |-> r[<<i, o>>][2]], NI)

InputFirst(r) ==
  LET bids   == [i \in {c[1] : c \in DOMAIN r} |-> AtInput(r, i, InReq(r, i))]
      grants == [o \in Granted(bids) |-> AtOutput(r, o, {i \in DOMAIN bids : bids[i] = o})]
  IN  [i \in Granted(grants) |-> bids[i]]

OutputFirst(r) ==
  LET bids   == [o \in {c[2] : c \in DOMAIN r} |-> AtOutput(r, o, OutReq(r, o))]
  IN  [i \in Granted(bids) |-> AtInput(r, i, GrantsTo(bids, i))]

UpdatedIn(accept) ==
  [i \in Inputs |-> IF i \in DOMAIN accept THEN Update(arb, inarb[i], accept[i], NO) ELSE inarb[i]]
UpdatedOut(accept) ==
  [o \in Outputs |-> IF \E i \in DOMAIN accept : accept[i] = o
                     THEN Update(arb, outarb[o], CHOOSE i \in DOMAIN accept : accept[i] = o, NI)
                     ELSE outarb[o]]

-----------------------------------------------------------------------------
InitArb(n) == CASE type = "separable_input_first" -> ArbInit(arb, n)
                [] type = "separable_output_first" -> ArbInit(arb, n)
                [] OTHER -> 0

Init ==
  /\ kind \in Kinds
  /\ inarb = [i \in Inputs |-> InitArb(NO)]
  /\ outarb = [o \in Outputs |-> IF type = "tree" THEN TreeInit(arb, NI, NI \div 2) ELSE InitArb(NI)]
  /\ turn = 0 /\ req = << >> /\ inmatch = Free(NI) /\ outmatch = Free(NO)
  /\ made = << >> /\ dense = DenseClear(NI, NO) /\ sparse = SparseClear(NI, NO)

Matches(m) == inmatch' = m.inm /\ outmatch' = m.outm

AllocateISlip(r) ==
  /\ type = "islip"
  /\ \E t \in {ISlip(r)} : Matches(t.m) /\ inarb' = t.in /\ outarb' = t.out
  /\ turn' = turn

AllocateSelect(r) ==
  /\ type = "select"
  /\ \E t \in {Select(r)} : Matches(t.m) /\ inarb' = t.in /\ outarb' = t.out
  /\ turn' = turn

AllocatePim(r) ==
  /\ type = "pim"
  /\ \E m \in Pim(r) : Matches(m)
  /\ UNCHANGED <<inarb, outarb, turn>>

AllocateLoa(r) ==
  /\ type = "loa"
  /\ \E t \in {Loa(r)} : Matches(t.m) /\ inarb' = t.in /\ outarb' = t.out
  /\ turn' = turn

(* rr_wavefront skips the diagonals before the first that had a grant.      *)
AllocateWavefront(r) ==
  /\ type \in {"wavefront", "rr_wavefront"}
  /\ \E w \in {Wavefront(r)} :
       /\ Matches(w.m)
       /\ turn' = CASE r = << >> -> turn
                    [] r # << >> /\ type = "wavefront" -> After(turn, Square)
                    [] r # << >> /\ type # "wavefront" -> After(w.first, Square)
  /\ UNCHANGED <<inarb, outarb>>

AllocateMaxSize(r) ==
  /\ type = "max_size"
  /\ (\E m \in {MaxSize(r)} : Matches(m)) /\ turn' = After(turn, NI)
  /\ UNCHANGED <<inarb, outarb>>

AllocateSeparable(r) ==
  /\ type \in {"separable_input_first", "separable_output_first"}
  /\ \E accept \in {IF type = "separable_input_first" THEN InputFirst(r) ELSE OutputFirst(r)} :
       /\ Matches(Accepted(NoMatch, accept))
       /\ inarb' = UpdatedIn(accept) /\ outarb' = UpdatedOut(accept)
  /\ turn' = turn

(* A tree arbiter on its own, as an allocator of one output.                *)
ArbitrateTree(r) ==
  /\ type = "tree"
  /\ \E w \in {Tree(arb, outarb[0], [i \in OutReq(r, 0) |-> r[<<i, 0>>][2]], NI, NI \div 2)} :
       /\ Matches(Accepted(NoMatch, IF w = Nobody THEN << >> ELSE [i \in {w} |-> 0]))
       /\ outarb' = IF w = Nobody THEN outarb
                    ELSE [outarb EXCEPT ![0] = TreeUpdate(arb, outarb[0], w, NI, NI \div 2)]
  /\ UNCHANGED <<inarb, turn>>

Requests == RequestsOf[kind]

Cycle ==
  /\ \E r \in Requests :
       /\ req' = r
       /\ \/ AllocateISlip(r) \/ AllocateSelect(r) \/ AllocatePim(r) \/ AllocateLoa(r)
          \/ AllocateWavefront(r) \/ AllocateMaxSize(r) \/ AllocateSeparable(r) \/ ArbitrateTree(r)
  /\ UNCHANGED <<kind, tables>>

(* A VC asks for an output once in a cycle.                                   *)
Ask(i, vc, o, pri) ==
  /\ type = "tables" /\ <<i, vc>> \notin DOMAIN made
  /\ made' = With(made, <<i, vc>>, <<o, pri>>)
  /\ dense' = DenseAsk(dense, i, o, Request(vc, pri), turn, Vcs)
  /\ sparse' = SparseAsk(sparse, i, o, Request(vc, pri), turn, Vcs)
  /\ UNCHANGED <<kind, inarb, outarb, turn, req, inmatch, outmatch>>

(* The end of a cycle: the offset is that behind the VC granted.              *)
ClearRequests(vc) ==
  /\ type = "tables"
  /\ made' = << >> /\ dense' = DenseClear(NI, NO) /\ sparse' = SparseClear(NI, NO)
  /\ turn' = After(vc, Vcs)
  /\ UNCHANGED <<kind, inarb, outarb, req, inmatch, outmatch>>

Next ==
  \/ Cycle
  \/ \E i \in Inputs, vc \in Ports(Vcs), o \in Outputs : \E pri \in PrisOf[kind][i] : Ask(i, vc, o, pri)
  \/ \E vc \in Ports(Vcs) : ClearRequests(vc)

(* A router allocates in every cycle in which it is active, so without end.  *)
Spec     == Init /\ [][Next]_vars
FairSpec == Spec /\ []<><<TRUE>>_vars

-----------------------------------------------------------------------------
Asked    == DOMAIN req
Matched  == {c \in Inputs \X Outputs : inmatch[c[1]] = c[2]}
Clash(c, d) == c[1] = d[1] \/ c[2] = d[2]
IsMatching(S) == \A c, d \in S : Clash(c, d) => c = d

(* What a port remembers fits its arbiter.                                  *)
ArbTypes(s, n) ==
  IF type \in {"separable_input_first", "separable_output_first"} /\ arb = "matrix"
  THEN s \subseteq Ports(n) \X Ports(n) ELSE s \in Ports(n)

TypeOK ==
  /\ kind \in Kinds /\ turn \in Ports(IF type = "tables" THEN Vcs ELSE Square)
  /\ type # "tree" => /\ \A i \in Inputs : ArbTypes(inarb[i], NO)
                      /\ \A o \in Outputs : ArbTypes(outarb[o], NI)
  /\ inmatch \in [Inputs -> Outputs \cup {Nobody}] /\ outmatch \in [Outputs -> Inputs \cup {Nobody}]

(* Both ends agree on a match, nobody is matched twice, and only requests     *)
(* are granted (assert((_inmatch[input] == -1) && (_outmatch[output] == -1))).*)
Matching ==
  /\ \A i \in Inputs, o \in Outputs : inmatch[i] = o <=> outmatch[o] = i
  /\ Matched \subseteq Asked

(* If anybody asks somebody is granted: no allocator wastes a cycle, and an   *)
(* arbiter with requests selects one (assert((_selected >= 0) ||            *)
(* (_num_reqs == 0))).                                                      *)
SomebodyGranted == Asked # {} => Matched # {}

(* Augmenting paths find a matching of the largest size there is.           *)
LargestMatching ==
  type = "max_size" =>
    \A S \in SUBSET Asked : IsMatching(S) => Cardinality(S) <= Cardinality(Matched)

(* The wavefront leaves a request ungranted only for one of at least its      *)
(* priority at the same input or output.                                    *)
Stable ==
  type \in {"wavefront", "rr_wavefront"} =>
    \A c \in Asked : \E d \in Matched : Clash(c, d) /\ ~Higher(req[c], req[d])

(* A matrix arbiter orders its inputs: of two exactly one goes first, and     *)
(* there is no cycle, so any set of requests has a winner.                  *)
IsOrder(m, n) ==
  \A i, j \in Ports(n) :
    /\ i # j => (<<i, j>> \in m <=> <<j, i>> \notin m)
    /\ \A k \in Ports(n) : <<i, j>> \in m /\ <<j, k>> \in m => <<i, k>> \in m
MatricesOrdered ==
  arb = "matrix" /\ type \in {"separable_input_first", "separable_output_first"} =>
    (\A i \in Inputs : IsOrder(inarb[i], NO)) /\ (\A o \in Outputs : IsOrder(outarb[o], NI))

(* The request that stands for an input and an output is the best of those made  *)
(* by the VCs, in whatever order they came, and both tables have it, from the    *)
(* side of the input and of the output.  (NumInputRequests, which nothing calls, *)
(* tells 0 or 1 of a SparseAllocator.)                                        *)
TablesAgree ==
  \A i \in Inputs, o \in Outputs :
    LET offers == {Request(c[2], made[c][2]) : c \in {d \in DOMAIN made : d[1] = i /\ made[d][1] = o}}
        held == DenseRead(dense, i, o)
    IN  /\ IF offers = {} THEN held = NoRequest
           ELSE held \in offers /\ \A a \in offers \ {held} : Before(held, a, turn, Vcs)
        /\ SparseRead(sparse, i, o) = held
        /\ i \in DOMAIN sparse.out_req[o] <=> o \in DOMAIN sparse.in_req[i]
        /\ i \in DOMAIN sparse.out_req[o] => sparse.out_req[o][i] = held
        /\ SparseInputHas(sparse, i) <=> DenseOfInput(dense, i) # {}
        /\ SparseOutputHas(sparse, o) <=> DenseOfOutput(dense, o) # {}

(* What an allocator grants is a matching of what was asked, what its arbiters   *)
(* remember keeps deciding between any requests, and of the VCs of an input that  *)
(* ask for an output the best is the one that asks the allocator.              *)
GrantsSound == TypeOK /\ MatricesOrdered /\ Matching /\ TablesAgree

(* No cycle is wasted: somebody is granted whenever somebody asks, as many as  *)
(* there can be where augmenting paths are searched, and by the wavefront all   *)
(* but those that lose to one of at least their priority.                     *)
NothingLeft == SomebodyGranted /\ LargestMatching /\ Stable

(* An input that goes on asking for one output, and nothing else, is granted  *)
(* it again and again as long as all priorities are equal, whatever the      *)
(* others ask; PIM may draw against it.                                    *)
Flat(S)        == [c \in S |-> <<0, 0>>]
AsksOnly(i, o) == InReq(req, i) = {o} /\ req = Flat(Asked) /\ type # "pim"
NoStarvation ==
  \A i \in Ports(3), o \in Ports(2) : <>[]AsksOnly(i, o) => []<>(<<i, o>> \in Matched)
=============================================================================
