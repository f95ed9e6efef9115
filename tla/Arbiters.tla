------------------------------ MODULE Arbiters ------------------------------
(***************************************************************************)
(* The arbiters of src/arbiters: round robin, matrix and tree.  A request is  *)
(* an input with a priority: r[i] for the inputs i that have one.  What      *)
(* Arbitrate selects is a state function of the arbiter and its requests;    *)
(* UpdateState is called only when the selection is used.  At the end, the     *)
(* tables of requests that allocators share.                                *)
(***************************************************************************)
EXTENDS Integers, FiniteSets, FiniteSetsExt

Ports(n) == 0 .. n - 1
Nobody   == -1

-----------------------------------------------------------------------------
(* Round robin: the state is the pointer.                                   *)
Offset(i, ptr, n) == (i - ptr + n) % n

Supersedes(r, i, j, ptr, n) ==
  \/ r[i] > r[j]
  \/ r[i] = r[j] /\ Offset(i, ptr, n) < Offset(j, ptr, n)

RoundRobin(r, ptr, n) ==
  IF r = << >> THEN Nobody
  ELSE CHOOSE i \in DOMAIN r : \A j \in DOMAIN r \ {i} : Supersedes(r, i, j, ptr, n)

AfterLast(i, n) == i + 1   \* mutant: does not wrap
After(i, n) == (i + 1) % n

-----------------------------------------------------------------------------
(* Matrix: the state is the set of pairs of which the first goes before the  *)
(* second.  The winner goes behind all others.                             *)
MatrixInit(n) == {c \in Ports(n) \X Ports(n) : c[2] < c[1]}

Matrix(r, m) ==
  IF Cardinality(DOMAIN r) < 2 THEN (IF r = << >> THEN Nobody ELSE CHOOSE i \in DOMAIN r : TRUE)
  ELSE LET first == {i \in DOMAIN r : \A j \in DOMAIN r :
                       r[j] <= r[i] /\ (r[j] = r[i] => <<j, i>> \notin m)}
       IN  IF first = {} THEN Nobody ELSE Min(first)

BehindOne(m, i, n) == {c \in m : c[1] # i}   \* mutant: only its own row is cleared
Behind(m, i, n) == {c \in m : c[1] # i} \cup {<<j, i>> : j \in Ports(n) \ {i}}

-----------------------------------------------------------------------------
(* An arbiter of one of these types, over n inputs.                         *)
ArbInit(type, n) == IF type = "matrix" THEN MatrixInit(n) ELSE 0

Arbitrate(type, s, r, n) == IF type = "matrix" THEN Matrix(r, s) ELSE RoundRobin(r, s, n)

Update(type, s, i, n) == IF type = "matrix" THEN Behind(s, i, n) ELSE After(i, n)

-----------------------------------------------------------------------------
(* Tree: inputs in groups of k, an arbiter for each group and one for the     *)
(* winners of the groups.                                                   *)
TreeInit(type, n, k) ==
  [group |-> [g \in Ports(n \div k) |-> ArbInit(type, k)], global |-> ArbInit(type, n \div k)]

InGroup(r, g, k) == [j \in {i % k : i \in {i \in DOMAIN r : i \div k = g}} |-> r[g * k + j]]

GroupWinner(type, t, r, g, k) == Arbitrate(type, t.group[g], InGroup(r, g, k), k)

Tree(type, t, r, n, k) ==
  LET asked  == {i \div k : i \in DOMAIN r}
      offers == [g \in asked |-> r[g * k + GroupWinner(type, t, r, g, k)]]
      g      == Arbitrate(type, t.global, offers, n \div k)
  IN  IF r = << >> THEN Nobody ELSE g * k + GroupWinner(type, t, r, g, k)

(* Only the group of the winner moves on.                                   *)
TreeUpdate(type, t, i, n, k) ==
  LET g == i \div k
  IN  [group  |-> [t.group EXCEPT ![g] = Update(type, t.group[g], i % k, k)],
       global |-> Update(type, t.global, g, n \div k)]

-----------------------------------------------------------------------------
(* The requests that an allocator holds for a cycle, allocators/allocator.cpp,*)
(* in a matrix (DenseAllocator) or in maps of the inputs and of the outputs   *)
(* with the sets of the ports that have any (SparseAllocator).  A request is  *)
(* the VC that asks and its priority; that of a VC the router gives both      *)
(* sides the same.                                                         *)
Request(label, pri) == [label |-> label, pri |-> pri]
NoRequest == Request(Nobody, 0)

-----------------------------------------------------------------------------
(* What a removed request leaves behind is never read, so that it is as none.  *)
DenseClear(ni, no)       == [i \in Ports(ni) |-> [o \in Ports(no) |-> NoRequest]]
DenseRead(t, i, o)       == t[i][o]
DenseAdd(t, i, o, req)   == [t EXCEPT ![i][o] = req]
DenseRemove(t, i, o)     == [t EXCEPT ![i][o] = NoRequest]
DenseOfInput(t, i)       == {o \in DOMAIN t[i] : t[i][o].label >= 0}
DenseOfOutput(t, o)      == {i \in DOMAIN t : t[i][o].label >= 0}

-----------------------------------------------------------------------------
With(f, x, y) == [z \in DOMAIN f \cup {x} |-> IF z = x THEN y ELSE f[z]]
Without(f, x) == [z \in DOMAIN f \ {x} |-> f[z]]

SparseClear(ni, no) ==
  [in_req |-> [i \in Ports(ni) |-> << >>], out_req |-> [o \in Ports(no) |-> << >>],
   in_occ |-> {}, out_occ |-> {}]
SparseRead(t, i, o) == IF o \in DOMAIN t.in_req[i] THEN t.in_req[i][o] ELSE NoRequest
SparseAdd(t, i, o, req) ==
  [in_req  |-> [t.in_req EXCEPT ![i] = With(t.in_req[i], o, req)],
   out_req |-> [t.out_req EXCEPT ![o] = With(t.out_req[o], i, req)],
   in_occ  |-> t.in_occ \cup {i}, out_occ |-> t.out_occ \cup {o}]
SparseRemove(t, i, o) ==
  LET in == Without(t.in_req[i], o)
      out == Without(t.out_req[o], i)
  IN  [in_req  |-> [t.in_req EXCEPT ![i] = in], out_req |-> [t.out_req EXCEPT ![o] = out],
       in_occ  |-> IF in = << >> THEN t.in_occ \ {i} ELSE t.in_occ,
       out_occ |-> IF out = << >> THEN t.out_occ \ {o} ELSE t.out_occ]
SparseInputHas(t, i)  == i \in t.in_occ
SparseOutputHas(t, o) == o \in t.out_occ

-----------------------------------------------------------------------------
(* A VC of an input asks: it takes the place of another VC of the input if it   *)
(* goes before it (_SWAllocAddReq).                                         *)
Before(a, b, offset, vcs) ==
  LET pri == [v \in {a.label, b.label} |-> IF v = a.label THEN a.pri ELSE b.pri]
  IN  Supersedes(pri, a.label, b.label, offset, vcs)
DenseAsk(t, i, o, req, offset, vcs) ==
  LET old == DenseRead(t, i, o) IN
  CASE old.label = Nobody -> DenseAdd(t, i, o, req)
    [] old.label # Nobody /\ Before(req, old, offset, vcs) -> DenseAdd(DenseRemove(t, i, o), i, o, req)
    [] OTHER -> t
SparseAsk(t, i, o, req, offset, vcs) ==
  LET old == SparseRead(t, i, o) IN
  CASE old.label = Nobody -> SparseAdd(t, i, o, req)
    [] old.label # Nobody /\ Before(req, old, offset, vcs) -> SparseAdd(SparseRemove(t, i, o), i, o, req)
    [] OTHER -> t
=============================================================================
