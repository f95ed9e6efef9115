---------------------------- MODULE AllocProofs ----------------------------
(***************************************************************************)
(* What the allocators grant is sound, and nothing is left that could have   *)
(* been granted (GrantsSound and NothingLeft of Allocators.tla), for every   *)
(* number of ports and whatever is asked.                                   *)
(*                                                                         *)
(* Every allocator is a fold over iterations, priorities, inputs or the edges *)
(* of a path.  The first lemmas unfold such a fold and lead it through a       *)
(* sequence of sets; then each arbiter is shown to select one of those that   *)
(* ask, and each allocator to leave the matches and the pointers in a set     *)
(* that its steps do not leave, with somebody matched after the first step.    *)
(* The searches of augmenting paths need a rank, the layer in which an output *)
(* was reached: it shows that the edges swapped are those of a path, and that *)
(* the path ends within as many swaps as there are inputs.  A search without  *)
(* an end has looked at all outputs from all inputs of its tree, since each   *)
(* layer but the last has somebody new; the pairs of the matching at the       *)
(* outputs reached and at the inputs outside the tree then bound every other   *)
(* matching.                                                               *)
(***************************************************************************)
EXTENDS Allocators, SumLemmas, SequenceTheorems, TLAPS

-----------------------------------------------------------------------------
(* A function of the elements is largest somewhere.                          *)
LEMMA LargestSomewhere ==
  ASSUME NEW S, IsFiniteSet(S), S # {}, NEW f, \A x \in S : f[x] \in Int
  PROVE  \E p \in S : \A q \in S : f[q] <= f[p]
<1> DEFINE R == {c \in S \X S : f[c[2]] <= f[c[1]]}
<1>1. \A i, j \in S : <<i, j>> \in R <=> f[j] <= f[i]
  OBVIOUS
<1>2. \E i \in S : \A j \in S \ {i} : <<i, j>> \in R
  <2>1. \A i, j \in S : i # j => <<i, j>> \in R \/ <<j, i>> \in R
    BY <1>1
  <2>2. \A i, j, k \in S : <<i, j>> \in R /\ <<j, k>> \in R => <<i, k>> \in R
    BY <1>1
  <2>3. Orders(R, S)
    BY <2>1, <2>2 DEF Orders
  <2> HIDE DEF R
  <2> QED
    BY <2>3, HasTop
<1>3. PICK p \in S : \A q \in S \ {p} : f[q] <= f[p]
  BY <1>1, <1>2
<1>4. f[p] <= f[p]
  BY <1>3
<1> QED
  BY <1>3, <1>4

-----------------------------------------------------------------------------
(* Folds.  A fold over the indices D takes the largest index last.  When the  *)
(* steps stay in a set T of states, it is this recursion with a step that is  *)
(* a function.                                                             *)
(* g obeys the recursion.                                                    *)
Unfolds(g, base, step, D) ==
  g = [s \in SUBSET D |-> IF s = {} THEN base ELSE step[<<Max(s), g[s \ {Max(s)}]>>]]

(* The largest of some indices is one of them.                               *)
LEMMA MaxOf ==
  ASSUME NEW D, IsFiniteSet(D), Ints(D)
  PROVE  \A s \in SUBSET D : s # {} => Max(s) \in D
<1>1. \A s \in SUBSET D : IsFiniteSet(s) /\ s \subseteq Int
  BY FS_Subset DEF Ints
<1> QED
  BY <1>1, MaxIn

(* The recursion has a solution, whose values stay in T.                     *)
Solves(g, base, step, D, T) == g \in [SUBSET D -> T] /\ Unfolds(g, base, step, D)
Has(base, step, T, D) == \E g : Solves(g, base, step, D, T)

(* The recursion has a solution.                                             *)
LEMMA Foldable ==
  ASSUME NEW D, IsFiniteSet(D), Ints(D), NEW T, NEW base \in T, NEW step \in [D \X T -> T]
  PROVE  Has(base, step, T, D)
<1> DEFINE B == {E \in SUBSET D : ~Has(base, step, T, E)}
<1>1. SUFFICES ASSUME B # {} PROVE FALSE
  OBVIOUS
<1>2. PICK m \in B : \A s \in B : s \subseteq m => s = m
  <2>1. B \in SUBSET (SUBSET D)
    OBVIOUS
  <2> HIDE DEF B
  <2> QED
    BY <1>1, <2>1, Smallest
<1>3. m \in SUBSET D /\ ~Has(base, step, T, m) /\ IsFiniteSet(m)
  BY <1>2, FS_Subset
<1> USE DEF Ints
<1>4. CASE m = {}
  <2> DEFINE e == [s \in SUBSET m |-> base]
  <2>1. e \in [SUBSET m -> T] /\ Unfolds(e, base, step, m)
    BY <1>4 DEF Unfolds
  <2> QED
    BY <1>3, <2>1 DEF Has, Solves
<1>5. CASE m # {}
  <2> DEFINE x == Max(m)
             E == m \ {x}
  <2>1. x \in m /\ x \in D /\ \A y \in m : x >= y
    BY <1>3, <1>5, MaxIn
  <2>2. E \in SUBSET D /\ E \subseteq m /\ E # m
    BY <1>3, <2>1
  <2>3. PICK f \in [SUBSET E -> T] : Unfolds(f, base, step, E)
    BY <1>2, <2>2 DEF Has, Solves
  <2> DEFINE g == [s \in SUBSET m |-> IF x \in s THEN step[<<x, f[s \ {x}]>>] ELSE f[s]]
  <2>4. \A s \in SUBSET m : s \ {x} \in SUBSET E /\ (x \notin s => s \in SUBSET E)
    OBVIOUS
  <2> HIDE DEF x
  <2>5. g \in [SUBSET m -> T]
    <3>1. \A s \in SUBSET m : f[s \ {x}] \in T /\ (x \notin s => f[s] \in T)
      BY <2>3, <2>4
    <3>2. \A s \in SUBSET m : step[<<x, f[s \ {x}]>>] \in T
      BY <2>1, <3>1
    <3> QED
      BY <3>1, <3>2
  <2>6. ASSUME NEW s \in SUBSET m, s # {}
        PROVE  g[s] = step[<<Max(s), g[s \ {Max(s)}]>>]
    <3>1. IsFiniteSet(s) /\ s \subseteq Int
      BY <1>3, FS_Subset
    <3>2. Max(s) \in s /\ \A y \in s : Max(s) >= y
      BY <2>6, <3>1, MaxIn
    <3>3. CASE x \in s
      <4>1. Max(s) = x
        <5>1. Max(s) >= x /\ x >= Max(s) /\ x \in Int /\ Max(s) \in Int
          BY <2>1, <3>1, <3>2, <3>3
        <5> QED
          BY <5>1
      <4>2. x \notin s \ {x} /\ s \ {x} \in SUBSET m
        OBVIOUS
      <4>3. g[s \ {x}] = f[s \ {x}]
        BY <4>2
      <4> QED
        BY <3>3, <4>1, <4>3
    <3>4. CASE x \notin s
      <4>1. s \in SUBSET E /\ s \ {Max(s)} \in SUBSET m /\ x \notin s \ {Max(s)}
        BY <2>4, <3>4
      <4>2. f[s] = step[<<Max(s), f[s \ {Max(s)}]>>]
        <5> DEFINE F == [r \in SUBSET E |-> IF r = {} THEN base ELSE step[<<Max(r), f[r \ {Max(r)}]>>]]
        <5>1. f = F
          BY <2>3 DEF Unfolds
        <5>2. F[s] = step[<<Max(s), f[s \ {Max(s)}]>>]
          BY <2>6, <4>1
        <5> QED
          BY <5>1, <5>2
      <4> QED
        BY <3>4, <4>1, <4>2
    <3> QED
      BY <3>3, <3>4
  <2>7. g[{}] = base
    <3> DEFINE F == [r \in SUBSET E |-> IF r = {} THEN base ELSE step[<<Max(r), f[r \ {Max(r)}]>>]]
    <3>1. f = F
      BY <2>3 DEF Unfolds
    <3>2. F[{}] = base
      OBVIOUS
    <3> QED
      BY <3>1, <3>2
  <2>8. Unfolds(g, base, step, m)
    <3>1. g = [s \in SUBSET m |-> g[s]]
      OBVIOUS
    <3> HIDE DEF g
    <3> QED
      BY <2>6, <2>7, <3>1 DEF Unfolds
  <2> HIDE DEF g
  <2> QED
    BY <1>3, <2>5, <2>8 DEF Has, Solves
<1> QED
  BY <1>4, <1>5

(* At a set of indices that is not empty.                                   *)
LEMMA UnfoldsAt ==
  ASSUME NEW D, NEW base, NEW step, NEW g, Unfolds(g, base, step, D), NEW s \in SUBSET D
  PROVE  /\ s = {} => g[s] = base
         /\ s # {} => g[s] = step[<<Max(s), g[s \ {Max(s)}]>>]
<1> DEFINE F == [r \in SUBSET D |-> IF r = {} THEN base ELSE step[<<Max(r), g[r \ {Max(r)}]>>]]
<1>1. g = F
  BY DEF Unfolds
<1>2. F[s] = IF s = {} THEN base ELSE step[<<Max(s), g[s \ {Max(s)}]>>]
  OBVIOUS
<1> QED
  BY <1>1, <1>2

(* At no index.                                                            *)
LEMMA UnfoldsNone ==
  ASSUME NEW D, NEW base, NEW step, NEW g, Unfolds(g, base, step, D)
  PROVE  g[{}] = base
<1>1. {} \in SUBSET D
  OBVIOUS
<1> DEFINE F == [r \in SUBSET D |-> IF r = {} THEN base ELSE step[<<Max(r), g[r \ {Max(r)}]>>]]
<1>2. g = F
  BY DEF Unfolds
<1>3. F[{}] = base
  BY <1>1
<1> QED
  BY <1>2, <1>3

(* Whatever obeys the recursion as long as its values are in T is that       *)
(* solution.                                                               *)
Follows(h, base, step, D, T) ==
  /\ h[{}] = base
  /\ \A s \in SUBSET D :
       s # {} /\ h[s \ {Max(s)}] \in T => h[s] = step[<<Max(s), h[s \ {Max(s)}]>>]

(* Whatever follows it as long as it stays in T is that solution.            *)
LEMMA FoldFollows ==
  ASSUME NEW D, IsFiniteSet(D), Ints(D), NEW T, NEW base, NEW step,
         NEW g, Solves(g, base, step, D, T), NEW h, Follows(h, base, step, D, T)
  PROVE  h[D] = g[D] /\ h[D] \in T
<1> DEFINE B == {s \in SUBSET D : h[s] # g[s]}
<1>0. g \in [SUBSET D -> T] /\ Unfolds(g, base, step, D)
  BY DEF Solves
<1>1. SUFFICES ASSUME B # {} PROVE FALSE
  <2>1. D \in SUBSET D
    OBVIOUS
  <2> QED
    BY <1>0, <2>1
<1>2. PICK m \in B : \A s \in B : s \subseteq m => s = m
  <2>1. B \in SUBSET (SUBSET D)
    OBVIOUS
  <2> HIDE DEF B
  <2> QED
    BY <1>1, <2>1, Smallest
<1>3. m \in SUBSET D /\ h[m] # g[m] /\ IsFiniteSet(m)
  BY <1>2, FS_Subset
<1>4. m # {}
  <2>1. g[{}] = base
    BY <1>0, UnfoldsNone
  <2> QED
    BY <1>3, <2>1 DEF Follows
<1>5. Max(m) \in m
  <2>1. m \subseteq Int
    BY <1>3 DEF Ints
  <2> QED
    BY <1>3, <1>4, <2>1, MaxIn
<1>6. m \ {Max(m)} \in SUBSET D /\ m \ {Max(m)} \notin B
  BY <1>2, <1>3, <1>5
<1>7. h[m \ {Max(m)}] = g[m \ {Max(m)}] /\ g[m \ {Max(m)}] \in T
  BY <1>0, <1>6
<1>8. h[m] = step[<<Max(m), h[m \ {Max(m)}]>>]
  BY <1>3, <1>4, <1>7 DEF Follows
<1>9. g[m] = step[<<Max(m), g[m \ {Max(m)}]>>]
  BY <1>0, <1>3, <1>4, UnfoldsAt
<1> QED
  BY <1>3, <1>7, <1>8, <1>9

(* Sets W[k] that the states go through one after the other.                 *)
Upto(D, n) == n \in Nat /\ D = 1 .. n

Through(W, base, step, n) ==
  /\ base \in W[0]
  /\ \A k \in 1 .. n : \A t \in W[k - 1] : step[<<k, t>>] \in W[k]

(* A fold over 1 .. n goes through the sets W, to W[n].                      *)
LEMMA FoldThrough ==
  ASSUME NEW n, NEW D, Upto(D, n), NEW base, NEW step, NEW g, Unfolds(g, base, step, D),
         NEW W, Through(W, base, step, n)
  PROVE  g[D] \in W[n]
<1> DEFINE B == {s \in SUBSET D : \E k \in 0 .. n : s = 1 .. k /\ g[s] \notin W[k]}
<1>1. SUFFICES ASSUME B # {} PROVE FALSE
  BY DEF Upto
<1>2. PICK m \in B : \A s \in B : s \subseteq m => s = m
  <2>1. B \in SUBSET (SUBSET D)
    OBVIOUS
  <2>2. IsFiniteSet(D)
    BY FS_Interval DEF Upto
  <2> HIDE DEF B
  <2> QED
    BY <1>1, <2>1, <2>2, Smallest
<1>3. PICK k \in 0 .. n : m = 1 .. k /\ g[m] \notin W[k]
  BY <1>2
<1>4. m \in SUBSET D /\ {} \in SUBSET D /\ k \in Int
  BY <1>2, <1>3 DEF Upto
<1>5. CASE k = 0
  <2>1. m = {}
    BY <1>3, <1>5
  <2>2. g[{}] = base
    BY UnfoldsNone
  <2> QED
    BY <1>3, <1>5, <2>1, <2>2 DEF Through
<1>6. CASE k # 0
  <2>1. m # {} /\ IsFiniteSet(m) /\ m \subseteq Int /\ k \in m
    <3>1. IsFiniteSet(m)
      <4>1. 1 \in Int /\ k \in Int
        BY <1>4
      <4>2. IsFiniteSet(1 .. k)
        BY <4>1, FS_Interval
      <4> QED
        BY <1>3, <4>2
    <3>2. k \in m /\ m \subseteq Int
      BY <1>3, <1>6
    <3> QED
      BY <3>1, <3>2
  <2>2. Max(m) \in m /\ \A y \in m : Max(m) >= y
    BY <2>1, MaxIn
  <2>3. Max(m) = k /\ m \ {k} = 1 .. k - 1
    BY <1>3, <1>6, <2>1, <2>2
  <2> DEFINE l == m \ {k}
  <2>4. l \in SUBSET D /\ l \subseteq m /\ l # m
    BY <1>4, <2>1
  <2>5. g[m] = step[<<k, g[l]>>]
    <3>1. g[m] = step[<<Max(m), g[m \ {Max(m)}]>>]
      BY <1>4, <2>1, UnfoldsAt
    <3> QED
      BY <2>3, <3>1
  <2>6. l \notin B
    BY <1>2, <2>4
  <2>7. k - 1 \in 0 .. n /\ k \in 1 .. n
    BY <1>3, <1>6 DEF Upto
  <2>8. g[l] \in W[k - 1]
    BY <2>3, <2>4, <2>6, <2>7
  <2> QED
    BY <1>3, <2>5, <2>7, <2>8 DEF Through
<1> QED
  BY <1>5, <1>6

(* The sets W that the states of a fold of n steps go through are within T.     *)
Passes(W, T, base, n) == base \in W[0] /\ \A k \in 0 .. n : W[k] \subseteq T

-----------------------------------------------------------------------------
(* The distance behind the pointer tells the inputs apart.                   *)
LEMMA OffsetIs ==
  ASSUME NEW n \in Nat \ {0}, NEW i \in Ports(n), NEW p \in Ports(n)
  PROVE  Offset(i, p, n) = IF i >= p THEN i - p ELSE i - p + n
<1>1. CASE i >= p
  <2>1. i - p + n = n + (i - p) /\ i - p \in 0 .. n - 1
    BY <1>1 DEF Ports
  <2>2. (i - p + n) % n = i - p
    BY <2>1, Z3
  <2> QED
    BY <1>1, <2>2 DEF Offset
<1>2. CASE i < p
  <2>1. i - p + n \in 0 .. n - 1
    BY <1>2 DEF Ports
  <2>2. (i - p + n) % n = i - p + n
    BY <2>1, Z3
  <2> QED
    BY <1>2, <2>2 DEF Offset, Ports
<1> QED
  BY <1>1, <1>2 DEF Ports

(* Offsets are numbers, and different for different ports.                   *)
LEMMA OffsetTells ==
  ASSUME NEW n \in Nat \ {0}, NEW p \in Ports(n)
  PROVE  /\ \A i \in Ports(n) : Offset(i, p, n) \in Int
         /\ \A i, j \in Ports(n) : Offset(i, p, n) = Offset(j, p, n) => i = j
<1>1. \A i \in Ports(n) : Offset(i, p, n) = IF i >= p THEN i - p ELSE i - p + n
  BY OffsetIs
<1> QED
  BY <1>1 DEF Ports

(* The requests r, with integers for priorities, come from some of n inputs.   *)
Asks(r, n) == DOMAIN r # {} /\ DOMAIN r \subseteq Ports(n) /\ \A i \in DOMAIN r : r[i] \in Int

(* There are finitely many ports.                                            *)
LEMMA PortsFinite ==
  ASSUME NEW n \in Nat
  PROVE  IsFiniteSet(Ports(n)) /\ Ports(n) \subseteq Int
<1>1. IsFiniteSet(0 .. n - 1)
  BY FS_Interval
<1> QED
  BY <1>1 DEF Ports

(* There are finitely many that ask.                                         *)
LEMMA AsksFinite ==
  ASSUME NEW n \in Nat, NEW r, Asks(r, n)
  PROVE  IsFiniteSet(DOMAIN r)
  BY PortsFinite, FS_Subset DEF Asks

(* Round robin selects one of those that ask.                               *)
LEMMA RoundRobinIn ==
  ASSUME NEW n \in Nat \ {0}, NEW p \in Ports(n), NEW r, Asks(r, n)
  PROVE  RoundRobin(r, p, n) \in DOMAIN r
<1> DEFINE R == {c \in (DOMAIN r) \X (DOMAIN r) : Supersedes(r, c[1], c[2], p, n)}
<1>1. \A i, j \in DOMAIN r : <<i, j>> \in R <=> Supersedes(r, i, j, p, n)
  OBVIOUS
<1>2. \A i, j \in DOMAIN r : /\ Offset(i, p, n) \in Int /\ r[i] \in Int
                             /\ Offset(i, p, n) = Offset(j, p, n) => i = j
  BY OffsetTells DEF Asks
<1>3. \A i, j \in DOMAIN r : i # j => Supersedes(r, i, j, p, n) \/ Supersedes(r, j, i, p, n)
  BY <1>2 DEF Supersedes
<1>4. \A i, j, k \in DOMAIN r : Supersedes(r, i, j, p, n) /\ Supersedes(r, j, k, p, n)
                                => Supersedes(r, i, k, p, n)
  BY <1>2 DEF Supersedes
<1>5. Orders(R, DOMAIN r)
  BY <1>1, <1>3, <1>4 DEF Orders
<1>6. \E i \in DOMAIN r : \A j \in DOMAIN r \ {i} : <<i, j>> \in R
  <2> HIDE DEF R
  <2> QED
    BY <1>5, AsksFinite, HasTop DEF Asks
<1>7. PICK i \in DOMAIN r : \A j \in DOMAIN r \ {i} : Supersedes(r, i, j, p, n)
  BY <1>1, <1>6
<1>8. r # << >>
  BY DEF Asks
<1> QED
  BY <1>7, <1>8 DEF RoundRobin

-----------------------------------------------------------------------------
(* A matrix orders its inputs, none before itself.                          *)
OrderOn(m, n) ==
  /\ m \subseteq Ports(n) \X Ports(n) /\ IsOrder(m, n)
  /\ \A i \in Ports(n) : <<i, i>> \notin m

(* A matrix orders its inputs at first, the later before the earlier.        *)
LEMMA MatrixInitOrders ==
  ASSUME NEW n \in Nat
  PROVE  OrderOn(MatrixInit(n), n)
<1>1. \A i, j \in Ports(n) : <<i, j>> \in MatrixInit(n) <=> j < i
  BY DEF MatrixInit
<1>2. Ports(n) \subseteq Int /\ MatrixInit(n) \subseteq Ports(n) \X Ports(n)
  BY PortsFinite DEF MatrixInit
<1> DEFINE M == MatrixInit(n)
<1> HIDE DEF M
<1>3. \A a, b \in Ports(n) : a # b => (<<a, b>> \in M <=> <<b, a>> \notin M)
  BY <1>1, <1>2 DEF M
<1>4. \A a, b, c \in Ports(n) : <<a, b>> \in M /\ <<b, c>> \in M => <<a, c>> \in M
  BY <1>1, <1>2 DEF M
<1>5. \A a \in Ports(n) : <<a, a>> \notin M
  BY <1>1, <1>2 DEF M
<1>6. IsOrder(M, n)
  BY <1>3, <1>4 DEF IsOrder
<1> QED
  BY <1>2, <1>5, <1>6 DEF OrderOn, M

(* The winner goes behind all others, which keep their order.                *)
LEMMA BehindOrders ==
  ASSUME NEW n \in Nat, NEW m, OrderOn(m, n), NEW i \in Ports(n)
  PROVE  OrderOn(Behind(m, i, n), n)
<1>1. \A a, b \in Ports(n) : <<a, b>> \in Behind(m, i, n)
                               <=> (<<a, b>> \in m /\ a # i) \/ (b = i /\ a # i)
  BY DEF Behind
<1>2. Behind(m, i, n) \subseteq Ports(n) \X Ports(n)
  BY DEF Behind, OrderOn
<1> DEFINE M == Behind(m, i, n)
<1>3. \A a, b \in Ports(n) : /\ a # b => (<<a, b>> \in m <=> <<b, a>> \notin m)
                             /\ <<a, a>> \notin m
  BY DEF OrderOn, IsOrder
<1>4. \A a, b, c \in Ports(n) : <<a, b>> \in m /\ <<b, c>> \in m => <<a, c>> \in m
  BY DEF OrderOn, IsOrder
<1> HIDE DEF M
<1>5. \A a, b \in Ports(n) : a # b => (<<a, b>> \in M <=> <<b, a>> \notin M)
  BY <1>1, <1>3 DEF M
<1>6. \A a, b, c \in Ports(n) : <<a, b>> \in M /\ <<b, c>> \in M => <<a, c>> \in M
  BY <1>1, <1>4 DEF M
<1>7. \A a \in Ports(n) : <<a, a>> \notin M
  BY <1>1, <1>3 DEF M
<1>8. IsOrder(M, n)
  BY <1>5, <1>6 DEF IsOrder
<1> QED
  BY <1>2, <1>7, <1>8 DEF OrderOn, M

(* A matrix selects one of those that ask.                                   *)
LEMMA MatrixIn ==
  ASSUME NEW n \in Nat, NEW m, OrderOn(m, n), NEW r, Asks(r, n)
  PROVE  Matrix(r, m) \in DOMAIN r
<1>1. r # << >> /\ DOMAIN r # {} /\ IsFiniteSet(DOMAIN r) /\ DOMAIN r \subseteq Int
  BY AsksFinite, PortsFinite DEF Asks
<1>2. CASE Cardinality(DOMAIN r) < 2
  BY <1>1, <1>2 DEF Matrix
<1>3. CASE ~(Cardinality(DOMAIN r) < 2)
  <2> DEFINE Beats(i, j) == r[i] > r[j] \/ (r[i] = r[j] /\ <<i, j>> \in m)
             R == {c \in (DOMAIN r) \X (DOMAIN r) : Beats(c[1], c[2])}
             F == {i \in DOMAIN r : \A j \in DOMAIN r :
                     r[j] <= r[i] /\ (r[j] = r[i] => <<j, i>> \notin m)}
  <2>1. \A i, j \in DOMAIN r : <<i, j>> \in R <=> Beats(i, j)
    OBVIOUS
  <2>2. \A i \in DOMAIN r : r[i] \in Int /\ i \in Ports(n)
    BY DEF Asks
  <2>3. \A i, j \in DOMAIN r : i # j => (<<i, j>> \in m <=> <<j, i>> \notin m)
    BY <2>2 DEF OrderOn, IsOrder
  <2>4. \A i, j, k \in DOMAIN r : <<i, j>> \in m /\ <<j, k>> \in m => <<i, k>> \in m
    BY <2>2 DEF OrderOn, IsOrder
  <2>5. \A i \in DOMAIN r : <<i, i>> \notin m
    BY <2>2 DEF OrderOn
  <2>6. \A i, j \in DOMAIN r : i # j => Beats(i, j) \/ Beats(j, i)
    BY <2>2, <2>3
  <2>7. \A i, j, k \in DOMAIN r : Beats(i, j) /\ Beats(j, k) => Beats(i, k)
    BY <2>2, <2>4
  <2> HIDE DEF Beats
  <2>8. Orders(R, DOMAIN r)
    BY <2>1, <2>6, <2>7 DEF Orders
  <2>9. \E i \in DOMAIN r : \A j \in DOMAIN r \ {i} : <<i, j>> \in R
    <3> HIDE DEF R
    <3> QED
      BY <1>1, <2>8, HasTop
  <2>10. PICK i \in DOMAIN r : \A j \in DOMAIN r \ {i} : Beats(i, j)
    BY <2>1, <2>9
  <2>11. i \in F
    <3>1. \A j \in DOMAIN r : r[j] <= r[i] /\ (r[j] = r[i] => <<j, i>> \notin m)
      <4>1. r[i] <= r[i] /\ <<i, i>> \notin m
        BY <2>2, <2>5
      <4>2. ASSUME NEW j \in DOMAIN r, j # i
            PROVE  r[j] <= r[i] /\ (r[j] = r[i] => <<j, i>> \notin m)
        <5>1. r[i] \in Int /\ r[j] \in Int /\ (r[i] > r[j] \/ (r[i] = r[j] /\ <<i, j>> \in m))
          BY <2>2, <2>10, <4>2 DEF Beats
        <5>2. <<i, j>> \in m => <<j, i>> \notin m
          BY <2>3, <4>2
        <5> QED
          BY <5>1, <5>2
      <4> QED
        BY <4>1, <4>2
    <3> QED
      BY <3>1
  <2>12. IsFiniteSet(F) /\ F # {} /\ F \subseteq Int /\ F \subseteq DOMAIN r
    <3>1. F \subseteq DOMAIN r /\ F # {}
      BY <2>11
    <3> HIDE DEF F
    <3> QED
      BY <1>1, <3>1, FS_Subset
  <2>13. Min(F) \in F
    <3> HIDE DEF F
    <3> QED
      BY <2>12, MinIn
  <2>14. Matrix(r, m) = Min(F)
    BY <1>3, <2>12 DEF Matrix
  <2> HIDE DEF F
  <2> QED
    BY <2>12, <2>13, <2>14
<1> QED
  BY <1>2, <1>3

-----------------------------------------------------------------------------
(* What an arbiter over n inputs remembers.                                  *)
ArbOK(at, s, n) == IF at = "matrix" THEN OrderOn(s, n) ELSE s \in Ports(n)

(* The next port, around, is a port.                                         *)
LEMMA AfterIn ==
  ASSUME NEW n \in Nat \ {0}, NEW i \in Int, i >= -1
  PROVE  After(i, n) \in Ports(n)
<1>1. i + 1 \in Nat
  OBVIOUS
<1>2. (i + 1) % n \in 0 .. n - 1
  BY <1>1, Z3
<1> QED
  BY <1>2 DEF After, Ports

(* Arbiters are fit for use at first.                                        *)
LEMMA ArbInitOK ==
  ASSUME NEW n \in Nat \ {0}, NEW at
  PROVE  ArbOK(at, ArbInit(at, n), n)
<1>1. 0 \in Ports(n)
  BY DEF Ports
<1> QED
  BY <1>1, MatrixInitOrders DEF ArbOK, ArbInit

(* An arbiter remains fit for use when its selection is used.                *)
LEMMA UpdateOK ==
  ASSUME NEW n \in Nat \ {0}, NEW at, NEW s, ArbOK(at, s, n), NEW i \in Ports(n)
  PROVE  ArbOK(at, Update(at, s, i, n), n)
<1>1. After(i, n) \in Ports(n)
  <2>1. i \in Int /\ i >= -1
    BY DEF Ports
  <2> QED
    BY <2>1, AfterIn
<1>2. at = "matrix" => OrderOn(Behind(s, i, n), n)
  BY BehindOrders DEF ArbOK
<1> QED
  BY <1>1, <1>2 DEF ArbOK, Update

(* An arbiter selects one of those that ask.                                *)
LEMMA ArbitrateIn ==
  ASSUME NEW n \in Nat \ {0}, NEW at, NEW s, ArbOK(at, s, n), NEW r, Asks(r, n)
  PROVE  Arbitrate(at, s, r, n) \in DOMAIN r
<1>1. CASE at = "matrix"
  <2>1. OrderOn(s, n)
    BY <1>1 DEF ArbOK
  <2> QED
    BY <1>1, <2>1, MatrixIn DEF Arbitrate
<1>2. CASE at # "matrix"
  <2>1. s \in Ports(n)
    BY <1>2 DEF ArbOK
  <2> QED
    BY <1>2, <2>1, RoundRobinIn DEF Arbitrate
<1> QED
  BY <1>1, <1>2

-----------------------------------------------------------------------------
(* The first of some ports is one of them, and so is the best.               *)
LEMMA FirstIn ==
  ASSUME NEW n \in Nat, NEW S, S \subseteq Ports(n), S # {}, NEW ptr
  PROVE  First(S, ptr) \in S
<1> DEFINE L == {p \in S : p >= ptr}
<1>1. IsFiniteSet(S) /\ S \subseteq Int
  BY PortsFinite, FS_Subset
<1>2. IsFiniteSet(L) /\ L \subseteq Int /\ L \subseteq S
  <2>1. L \subseteq S
    OBVIOUS
  <2> HIDE DEF L
  <2> QED
    BY <1>1, <2>1, FS_Subset
<1>3. Min(S) \in S
  BY <1>1, MinIn
<1>4. L # {} => Min(L) \in L
  <2> HIDE DEF L
  <2> QED
    BY <1>2, MinIn
<1>5. First(S, ptr) = IF L # {} THEN Min(L) ELSE Min(S)
  BY DEF First
<1> HIDE DEF L
<1> QED
  BY <1>2, <1>3, <1>4, <1>5

(* The best of some ports by a number is one of them.                        *)
LEMMA BestIn ==
  ASSUME NEW n \in Nat, NEW S, S \subseteq Ports(n), S # {}, NEW f, \A x \in S : f[x] \in Int, NEW ptr
  PROVE  First({p \in S : \A q \in S : f[q] <= f[p]}, ptr) \in S
<1> DEFINE L == {p \in S : \A q \in S : f[q] <= f[p]}
<1>1. IsFiniteSet(S)
  BY PortsFinite, FS_Subset
<1>2. \E p \in S : \A q \in S : f[q] <= f[p]
  BY <1>1, LargestSomewhere
<1>3. L # {} /\ L \subseteq S /\ L \subseteq Ports(n)
  BY <1>2
<1> HIDE DEF L
<1>4. First(L, ptr) \in L
  BY <1>3, FirstIn
<1> QED
  BY <1>3, <1>4 DEF L

-----------------------------------------------------------------------------
(* The ports of an allocator.                                               *)
LEMMA Sizes ==
  ASSUME kind \in Kinds
  PROVE  /\ NI \in Nat \ {0} /\ NO \in Nat \ {0} /\ Iters[kind] \in Nat
         /\ Inputs = Ports(NI) /\ Outputs = Ports(NO)
         /\ Inputs \subseteq Nat /\ Outputs \subseteq Nat
         /\ IsFiniteSet(Inputs) /\ IsFiniteSet(Outputs)
         /\ Nobody \notin Inputs /\ Nobody \notin Outputs
<1>1. NI \in Nat \ {0} /\ NO \in Nat \ {0} /\ Iters[kind] \in Nat
  BY AllocAssumption DEF NI, NO
<1>2. IsFiniteSet(Inputs) /\ IsFiniteSet(Outputs)
  BY <1>1, PortsFinite DEF Inputs, Outputs
<1> QED
  BY <1>1, <1>2 DEF Inputs, Outputs, Ports, Nobody

(* Requests: pairs of ports, each with two priorities.                             *)
Asking2(r) == /\ DOMAIN r \subseteq Inputs \X Outputs
              /\ \A c \in DOMAIN r : r[c] \in Int \X Int

(* The requests of a cycle are so.                                           *)
LEMMA RequestsAsk ==
  ASSUME kind \in Kinds, NEW r \in Requests
  PROVE  Asking2(r)
  BY AllocAssumption DEF Asking2, Requests, Inputs, Outputs, NI, NO

(* The ports that ask, from the side of either.                              *)
LEMMA ReqPorts ==
  ASSUME NEW r, Asking2(r)
  PROVE  /\ \A i, o : i \in OutReq(r, o) <=> <<i, o>> \in DOMAIN r
         /\ \A i, o : o \in InReq(r, i) <=> <<i, o>> \in DOMAIN r
         /\ \A o : OutReq(r, o) \subseteq Inputs
         /\ \A i : InReq(r, i) \subseteq Outputs
<1>1. \A c \in DOMAIN r : c \in Inputs \X Outputs /\ c = <<c[1], c[2]>>
  BY DEF Asking2
<1> QED
  BY <1>1 DEF OutReq, InReq

-----------------------------------------------------------------------------
(* The matchings within the pairs C.                                        *)
Matchings(C) ==
  {m \in [inm : [Inputs -> Outputs \cup {Nobody}], outm : [Outputs -> Inputs \cup {Nobody}]] :
     \A i \in Inputs, o \in Outputs :
       (m.inm[i] = o <=> m.outm[o] = i) /\ (m.inm[i] = o => <<i, o>> \in C)}

(* Nothing matched is a matching.                                            *)
LEMMA NoMatchOK ==
  ASSUME kind \in Kinds, NEW C
  PROVE  NoMatch \in Matchings(C)
<1>1. /\ NoMatch \in [inm : [Inputs -> Outputs \cup {Nobody}], outm : [Outputs -> Inputs \cup {Nobody}]]
      /\ \A i \in Inputs : NoMatch.inm[i] = Nobody
      /\ \A o \in Outputs : NoMatch.outm[o] = Nobody
  BY Sizes DEF NoMatch, Free
<1> QED
  BY <1>1, Sizes DEF Matchings

(* Unmatched inputs accept different unmatched outputs, of pairs of C.        *)
Fits(accept, m, C) ==
  /\ DOMAIN accept \subseteq Inputs
  /\ \A i \in DOMAIN accept : /\ accept[i] \in Outputs /\ <<i, accept[i]>> \in C
                              /\ m.inm[i] = Nobody /\ m.outm[accept[i]] = Nobody
  /\ \A i, j \in DOMAIN accept : accept[i] = accept[j] => i = j

(* What is accepted so is added to a matching, and gives one.                *)
LEMMA AcceptedOK ==
  ASSUME kind \in Kinds, NEW C, NEW m \in Matchings(C), NEW accept, Fits(accept, m, C)
  PROVE  Accepted(m, accept) \in Matchings(C)
<1> DEFINE a == Accepted(m, accept)
           chosen(o) == CHOOSE i \in DOMAIN accept : accept[i] = o
<1>1. \A i \in DOMAIN accept : chosen(accept[i]) = i
  BY DEF Fits
<1>2. \A i \in Inputs : a.inm[i] = IF i \in DOMAIN accept THEN accept[i] ELSE m.inm[i]
  BY DEF Accepted
<1>3. \A o \in Outputs : /\ (\E i \in DOMAIN accept : accept[i] = o) => a.outm[o] = chosen(o)
                         /\ ~(\E i \in DOMAIN accept : accept[i] = o) => a.outm[o] = m.outm[o]
  BY DEF Accepted
<1> HIDE DEF chosen
<1>4. a = [inm |-> a.inm, outm |-> a.outm]
  BY DEF Accepted
<1>5. a.inm \in [Inputs -> Outputs \cup {Nobody}]
  <2>1. \A i \in Inputs : a.inm[i] \in Outputs \cup {Nobody}
    BY <1>2 DEF Matchings, Fits
  <2>2. a.inm = [i \in Inputs |-> a.inm[i]]
    BY DEF Accepted
  <2> QED
    BY <2>1, <2>2
<1>6. a.outm \in [Outputs -> Inputs \cup {Nobody}]
  <2>1. \A o \in Outputs : a.outm[o] \in Inputs \cup {Nobody}
    BY <1>1, <1>3 DEF Matchings, Fits
  <2>2. a.outm = [o \in Outputs |-> a.outm[o]]
    BY DEF Accepted
  <2> QED
    BY <2>1, <2>2
<1> HIDE DEF a
<1>7. \A i \in Inputs, o \in Outputs :
        (m.inm[i] = o <=> m.outm[o] = i) /\ (m.inm[i] = o => <<i, o>> \in C)
  BY DEF Matchings
<1>8. ASSUME NEW i \in Inputs, NEW o \in Outputs
      PROVE  (a.inm[i] = o <=> a.outm[o] = i) /\ (a.inm[i] = o => <<i, o>> \in C)
  <2>1. CASE i \in DOMAIN accept /\ accept[i] = o
    BY <1>1, <1>2, <1>3, <2>1 DEF Fits
  <2>2. CASE i \in DOMAIN accept /\ accept[i] # o
    <3>1. a.inm[i] # o /\ m.inm[i] = Nobody
      BY <1>2, <2>2 DEF Fits
    <3>2. m.outm[o] # i
      BY <1>7, <3>1, Sizes
    <3>3. a.outm[o] # i
      <4>1. CASE \E j \in DOMAIN accept : accept[j] = o
        <5>1. PICK j \in DOMAIN accept : accept[j] = o
          BY <4>1
        <5>2. a.outm[o] = j
          BY <1>1, <1>3, <5>1
        <5> QED
          BY <2>2, <5>1, <5>2
      <4>2. CASE ~(\E j \in DOMAIN accept : accept[j] = o)
        BY <1>3, <3>2, <4>2
      <4> QED
        BY <4>1, <4>2
    <3> QED
      BY <3>1, <3>3
  <2>3. CASE i \notin DOMAIN accept
    <3>1. a.inm[i] = m.inm[i]
      BY <1>2, <2>3
    <3>2. CASE \E j \in DOMAIN accept : accept[j] = o
      <4>1. PICK j \in DOMAIN accept : accept[j] = o
        BY <3>2
      <4>2. a.outm[o] = j /\ m.outm[o] = Nobody
        BY <1>1, <1>3, <4>1 DEF Fits
      <4>3. m.inm[i] # o
        BY <1>7, <4>2, Sizes
      <4> QED
        BY <2>3, <3>1, <4>1, <4>2, <4>3
    <3>3. CASE ~(\E j \in DOMAIN accept : accept[j] = o)
      BY <1>3, <1>7, <3>1, <3>3
    <3> QED
      BY <3>2, <3>3
  <2> QED
    BY <2>1, <2>2, <2>3
<1> QED
  BY <1>4, <1>5, <1>6, <1>8 DEF Matchings, a

(* Somebody is matched, if anybody asks.                                     *)
SomeMatched(m) == \E i \in Inputs : m.inm[i] # Nobody
Enough(r, m)   == DOMAIN r # {} => SomeMatched(m)

(* Who is matched stays so when more is accepted, and who accepts is matched. *)
LEMMA AcceptedSome ==
  ASSUME kind \in Kinds, NEW C, NEW m, NEW accept, Fits(accept, m, C),
         SomeMatched(m) \/ DOMAIN accept # {}
  PROVE  SomeMatched(Accepted(m, accept))
<1> DEFINE a == Accepted(m, accept)
<1>1. \A i \in Inputs : a.inm[i] = IF i \in DOMAIN accept THEN accept[i] ELSE m.inm[i]
  BY DEF Accepted
<1>2. \A i \in DOMAIN accept : i \in Inputs /\ accept[i] \in Outputs /\ m.inm[i] = Nobody
  BY DEF Fits
<1> HIDE DEF a
<1>3. CASE DOMAIN accept # {}
  BY <1>1, <1>2, <1>3, Sizes DEF SomeMatched, a
<1>4. CASE SomeMatched(m)
  BY <1>1, <1>2, <1>4 DEF SomeMatched, a
<1> QED
  BY <1>3, <1>4

(* Outputs grant to inputs that ask, each of which accepts one of the grants  *)
(* it has.                                                                 *)
LEMMA GrantAccept ==
  ASSUME kind \in Kinds, NEW r, Asking2(r), NEW m, NEW grants, NEW accept,
         DOMAIN grants \subseteq Outputs, \A o \in DOMAIN grants : grants[o] \in Asking(r, m, o),
         DOMAIN accept = Granted(grants), \A i \in DOMAIN accept : accept[i] \in GrantsTo(grants, i)
  PROVE  Fits(accept, m, DOMAIN r)
<1>1. \A o \in DOMAIN grants : /\ m.outm[o] = Nobody /\ grants[o] \in OutReq(r, o)
                               /\ m.inm[grants[o]] = Nobody
  BY DEF Asking
<1>2. \A o \in DOMAIN grants : <<grants[o], o>> \in DOMAIN r /\ grants[o] \in Inputs
  BY <1>1, ReqPorts
<1>3. \A i \in DOMAIN accept : accept[i] \in DOMAIN grants /\ grants[accept[i]] = i
  BY DEF GrantsTo
<1> QED
  BY <1>1, <1>2, <1>3 DEF Fits

-----------------------------------------------------------------------------
(* The pointers stay within the ports when they move behind what is accepted. *)
LEMMA MovedOK ==
  ASSUME kind \in Kinds, NEW C, NEW m, NEW accept, Fits(accept, m, C), NEW t,
         t.in \in [Inputs -> Outputs], t.out \in [Outputs -> Inputs]
  PROVE  Moved(t, accept).in \in [Inputs -> Outputs] /\ Moved(t, accept).out \in [Outputs -> Inputs]
<1>1. \A o \in Outputs : After(o, NO) \in Outputs
  BY Sizes, AfterIn
<1>2. \A i \in Inputs : After(i, NI) \in Inputs
  BY Sizes, AfterIn
<1>3. \A i \in Inputs : i \in DOMAIN accept => After(accept[i], NO) \in Outputs
  BY <1>1 DEF Fits
<1>4. \A o \in Outputs : (\E i \in DOMAIN accept : accept[i] = o)
                           => After(CHOOSE i \in DOMAIN accept : accept[i] = o, NI) \in Inputs
  BY <1>2 DEF Fits
<1>5. Moved(t, accept).in \in [Inputs -> Outputs]
  BY <1>3 DEF Moved
<1>6. Moved(t, accept).out \in [Outputs -> Inputs]
  BY <1>4 DEF Moved
<1> QED
  BY <1>5, <1>6

(* The inputs that are granted are those that were asked for.                *)
LEMMA GrantsToSome ==
  ASSUME NEW g, NEW i \in Granted(g)
  PROVE  GrantsTo(g, i) # {} /\ GrantsTo(g, i) \subseteq DOMAIN g
  BY DEF Granted, GrantsTo

(* Whoever grants grants to somebody.                                        *)
LEMMA GrantedSome ==
  ASSUME NEW g, DOMAIN g # {}
  PROVE  Granted(g) # {}
  BY DEF Granted

(* As long as nobody is matched, every output that is asked for can grant.    *)
LEMMA SomeOrGranting ==
  ASSUME kind \in Kinds, NEW r, Asking2(r), DOMAIN r # {}, NEW m \in Matchings(DOMAIN r)
  PROVE  SomeMatched(m) \/ Granting(r, m) # {}
<1>1. SUFFICES ASSUME ~SomeMatched(m) PROVE Granting(r, m) # {}
  OBVIOUS
<1>2. \A i \in Inputs : m.inm[i] = Nobody
  BY <1>1 DEF SomeMatched
<1>3. \A o \in Outputs : m.outm[o] = Nobody
  <2>1. /\ \A i \in Inputs, o \in Outputs : m.outm[o] = i => m.inm[i] = o
        /\ \A o \in Outputs : m.outm[o] \in Inputs \cup {Nobody} /\ o # Nobody
    BY Sizes DEF Matchings
  <2> QED
    BY <1>2, <2>1
<1>4. PICK i \in Inputs, o \in Outputs : <<i, o>> \in DOMAIN r
  BY DEF Asking2
<1>5. i \in Asking(r, m, o)
  BY <1>2, <1>3, <1>4, ReqPorts DEF Asking
<1> QED
  BY <1>4, <1>5 DEF Granting

(* States an iteration goes from and to.                                    *)
Rounds(r) == [in : [Inputs -> Outputs], out : [Outputs -> Inputs], m : Matchings(DOMAIN r)]

(* An iteration of iSLIP leaves a matching, and pointers of the ports, and    *)
(* has somebody matched if anybody asks.                                     *)
LEMMA ISlipIterationOK ==
  ASSUME kind \in Kinds, NEW r, Asking2(r), NEW t \in Rounds(r), NEW k
  PROVE  ISlipIteration(r, t, k) \in Rounds(r) /\ Enough(r, ISlipIteration(r, t, k).m)
<1> DEFINE grants == [o \in Granting(r, t.m) |-> First(Asking(r, t.m, o), t.out[o])]
           accept == [i \in Granted(grants) |-> First(GrantsTo(grants, i), t.in[i])]
           ptrs   == IF k = 1 THEN Moved(t, accept) ELSE t
<1>1. /\ t.in \in [Inputs -> Outputs] /\ t.out \in [Outputs -> Inputs]
      /\ t.m \in Matchings(DOMAIN r)
  BY DEF Rounds
<1>2. \A o \in DOMAIN grants : grants[o] \in Asking(r, t.m, o)
  <2>1. \A o \in Granting(r, t.m) : Asking(r, t.m, o) # {} /\ Asking(r, t.m, o) \subseteq Inputs
    BY ReqPorts DEF Granting, Asking
  <2> QED
    BY <2>1, FirstIn, Sizes
<1>3. DOMAIN grants \subseteq Outputs
  BY DEF Granting
<1> HIDE DEF grants
<1>4. DOMAIN accept = Granted(grants)
  OBVIOUS
<1>5. \A i \in DOMAIN accept : accept[i] \in GrantsTo(grants, i)
  <2>1. \A i \in Granted(grants) : GrantsTo(grants, i) # {} /\ GrantsTo(grants, i) \subseteq Outputs
    BY <1>3, GrantsToSome
  <2> QED
    BY <2>1, FirstIn, Sizes
<1> HIDE DEF accept
<1>6. Fits(accept, t.m, DOMAIN r)
  BY <1>2, <1>3, <1>4, <1>5, GrantAccept
<1>7. Accepted(t.m, accept) \in Matchings(DOMAIN r)
  BY <1>1, <1>6, AcceptedOK
<1>8. ptrs.in \in [Inputs -> Outputs] /\ ptrs.out \in [Outputs -> Inputs]
  BY <1>1, <1>6, MovedOK
<1>9. ISlipIteration(r, t, k) = [in |-> ptrs.in, out |-> ptrs.out, m |-> Accepted(t.m, accept)]
  BY DEF ISlipIteration, accept, grants
<1>10. DOMAIN grants = Granting(r, t.m)
  BY DEF grants
<1>11. Enough(r, Accepted(t.m, accept))
  <2>1. Granting(r, t.m) # {} => DOMAIN accept # {}
    BY <1>4, <1>10, GrantedSome
  <2> QED
    BY <1>1, <1>6, <2>1, SomeOrGranting, AcceptedSome DEF Enough
<1> HIDE DEF ptrs
<1> QED
  BY <1>7, <1>8, <1>9, <1>11 DEF Rounds

(* The iterations of iSLIP.                                                   *)
LEMMA ISlipThrough ==
  ASSUME NEW r,
         Iters[kind] \in Nat, NEW T, NEW W, Passes(W, T, [in |-> inarb, out |-> outarb, m |-> NoMatch], Iters[kind]),
         \A x \in 1 .. Iters[kind], t \in T : ISlipIteration(r, t, x) \in T,
         \A k \in 1 .. Iters[kind] : \A t \in W[k - 1] : ISlipIteration(r, t, k) \in W[k]
  PROVE  ISlip(r) \in W[Iters[kind]]
<1> DEFINE seq == [k \in 1 .. Iters[kind] |-> k]
           D == DOMAIN seq
           base == [in |-> inarb, out |-> outarb, m |-> NoMatch]
           step == [c \in D \X T |-> ISlipIteration(r, c[2], seq[c[1]])]
           R(g) == g = [s \in SUBSET D |-> IF s = {} THEN base
                                           ELSE ISlipIteration(r, g[s \ {Max(s)}], seq[Max(s)])]
           h == CHOOSE g : R(g)
<1>1. ISlip(r) = h[D]
  BY DEF ISlip, FoldLeft, MapThenFoldSet
<1>2. IsFiniteSet(D) /\ Ints(D) /\ Upto(D, Iters[kind])
  <2>1. Iters[kind] \in Int /\ D = 1 .. Iters[kind]
    OBVIOUS
  <2> HIDE DEF D
  <2> QED
    BY <2>1, FS_Interval DEF Ints, Upto
<1>3. base \in T /\ base \in W[0]
  <2>1. 0 \in 0 .. Iters[kind]
    OBVIOUS
  <2> QED
    BY <2>1 DEF Passes
<1>4. step \in [D \X T -> T]
  <2> HIDE DEF base
  <2> QED
    OBVIOUS
<1>5. \A x \in D, t \in T : step[<<x, t>>] = ISlipIteration(r, t, seq[x])
  OBVIOUS
<1>6. \A s \in SUBSET D : s # {} => Max(s) \in D
  <2> HIDE DEF D
  <2> QED
    BY <1>2, MaxOf
<1>7. Through(W, base, step, Iters[kind])
  <2>1. ASSUME NEW k \in 1 .. Iters[kind], NEW t \in W[k - 1]
        PROVE  step[<<k, t>>] \in W[k]
    <3>1. k - 1 \in 0 .. Iters[kind] /\ k \in D
      OBVIOUS
    <3>2. t \in T
      BY <3>1 DEF Passes
    <3>3. step[<<k, t>>] = ISlipIteration(r, t, k)
      BY <1>5, <3>1, <3>2
    <3> HIDE DEF step
    <3> QED
      BY <3>3
  <2> HIDE DEF step, base
  <2> QED
    BY <1>3, <2>1 DEF Through
<1> HIDE DEF D, base, step, seq
<1>8. PICK g : Solves(g, base, step, D, T)
  BY <1>2, <1>3, <1>4, Foldable DEF Has
<1>9. R(g)
  <2>1. ASSUME NEW s \in SUBSET D, s # {}
        PROVE  g[s] = ISlipIteration(r, g[s \ {Max(s)}], seq[Max(s)])
    <3>1. g[s] = step[<<Max(s), g[s \ {Max(s)}]>>]
      BY <1>8, <2>1, UnfoldsAt DEF Solves
    <3>2. Max(s) \in D /\ g[s \ {Max(s)}] \in T
      BY <1>6, <1>8, <2>1 DEF Solves
    <3> QED
      BY <1>5, <3>1, <3>2
  <2>2. g[{}] = base
    BY <1>8, UnfoldsNone DEF Solves
  <2>3. g = [s \in SUBSET D |-> g[s]]
    BY <1>8 DEF Solves
  <2> QED
    BY <2>1, <2>2, <2>3
<1>10. R(h)
  <2> HIDE DEF R
  <2> QED
    BY <1>9
<1>11. Follows(h, base, step, D, T)
  <2> HIDE DEF h
  <2>1. h[{}] = base
    BY <1>10
  <2>2. \A s \in SUBSET D : s # {} => h[s] = ISlipIteration(r, h[s \ {Max(s)}], seq[Max(s)])
    BY <1>10
  <2> QED
    BY <1>5, <1>6, <2>1, <2>2 DEF Follows
<1> HIDE DEF h
<1>12. h[D] = g[D]
  BY <1>2, <1>8, <1>11, FoldFollows
<1>13. g[D] \in W[Iters[kind]]
  BY <1>2, <1>7, <1>8, FoldThrough DEF Solves
<1> QED
  BY <1>1, <1>12, <1>13

(* All its iterations do.                                                    *)
LEMMA ISlipOK ==
  ASSUME kind \in Kinds, NEW r, Asking2(r),
         inarb \in [Inputs -> Outputs], outarb \in [Outputs -> Inputs]
  PROVE  ISlip(r) \in Rounds(r) /\ Enough(r, ISlip(r).m)
<1> DEFINE n == Iters[kind]
           W == [k \in 0 .. n |-> {t \in Rounds(r) : k = 0 \/ Enough(r, t.m)}]
           base == [in |-> inarb, out |-> outarb, m |-> NoMatch]
<1>1. n \in Nat \ {0}
  BY AllocAssumption
<1>2. base \in Rounds(r)
  BY NoMatchOK DEF Rounds
<1> HIDE DEF n
<1>3. Passes(W, Rounds(r), base, n)
  BY <1>1, <1>2 DEF Passes
<1>4. \A t \in Rounds(r) : \A k : ISlipIteration(r, t, k) \in Rounds(r) /\ Enough(r, ISlipIteration(r, t, k).m)
  BY ISlipIterationOK
<1>5. \A k \in 1 .. n : \A t \in W[k - 1] : ISlipIteration(r, t, k) \in W[k]
  BY <1>1, <1>4
<1> HIDE DEF W
<1>6. ISlip(r) \in W[n]
  BY <1>1, <1>3, <1>4, <1>5, ISlipThrough DEF n
<1> QED
  BY <1>1, <1>6 DEF W

-----------------------------------------------------------------------------
(* Select, in its one iteration: an output takes the best of those that ask,   *)
(* an input the best of its grants.                                        *)
LEMMA SelectFirst ==
  ASSUME kind \in Kinds, NEW r, Asking2(r), NEW t,
         t.in \in [Inputs -> Outputs], t.out \in [Outputs -> Inputs],
         t.m \in Matchings(DOMAIN r), t.grants = << >>, NEW k
  PROVE  /\ SelectIteration(r, t, k).m \in Matchings(DOMAIN r)
         /\ Enough(r, SelectIteration(r, t, k).m)
         /\ SelectIteration(r, t, k).in \in [Inputs -> Outputs]
         /\ SelectIteration(r, t, k).out \in [Outputs -> Inputs]
<1> DEFINE asking == Granting(r, t.m)
           grants == [o \in asking \cup DOMAIN t.grants |->
                        IF o \in asking
                        THEN Best(Asking(r, t.m, o), LAMBDA i : r[<<i, o>>][2], t.out[o])
                        ELSE t.grants[o]]
           accept == [i \in Granted(grants) |->
                        Best(GrantsTo(grants, i), LAMBDA o : r[<<i, o>>][1], t.in[i])]
           ptrs   == IF k = 1 THEN Moved(t, accept) ELSE t
<1>1. DOMAIN grants = asking /\ asking \subseteq Outputs
  BY DEF Granting
<1>2. ASSUME NEW o \in asking
      PROVE  grants[o] \in Asking(r, t.m, o)
  <2> DEFINE S == Asking(r, t.m, o)
             f == [i \in S |-> r[<<i, o>>][2]]
  <2>1. S # {} /\ S \subseteq Ports(NI) /\ NI \in Nat /\ \A i \in S : <<i, o>> \in DOMAIN r
    BY ReqPorts, Sizes DEF Granting, Asking
  <2>2. \A i \in S : f[i] \in Int
    BY <2>1 DEF Asking2
  <2>3. Best(S, LAMBDA i : r[<<i, o>>][2], t.out[o])
          = First({p \in S : \A q \in S : f[q] <= f[p]}, t.out[o])
    BY DEF Best
  <2>4. grants[o] = Best(S, LAMBDA i : r[<<i, o>>][2], t.out[o])
    BY DEF S
  <2> HIDE DEF S, f, grants
  <2>5. First({p \in S : \A q \in S : f[q] <= f[p]}, t.out[o]) \in S
    BY <2>1, <2>2, BestIn
  <2> QED
    BY <2>3, <2>4, <2>5 DEF S
<1> HIDE DEF grants
<1>3. DOMAIN accept = Granted(grants)
  OBVIOUS
<1>4. ASSUME NEW i \in DOMAIN accept
      PROVE  accept[i] \in GrantsTo(grants, i)
  <2> DEFINE S == GrantsTo(grants, i)
             f == [o \in S |-> r[<<i, o>>][1]]
  <2>1. S # {} /\ S \subseteq DOMAIN grants /\ S \subseteq Ports(NO) /\ NO \in Nat
    <3>1. S # {} /\ S \subseteq DOMAIN grants
      BY GrantsToSome
    <3> QED
      BY <1>1, <3>1, Sizes
  <2>2. \A o \in S : <<i, o>> \in DOMAIN r
    <3>1. \A o \in S : grants[o] = i /\ grants[o] \in Asking(r, t.m, o)
      BY <1>1, <1>2 DEF GrantsTo
    <3> QED
      BY <3>1, ReqPorts DEF Asking
  <2>3. \A o \in S : f[o] \in Int
    BY <2>2 DEF Asking2
  <2>4. Best(S, LAMBDA o : r[<<i, o>>][1], t.in[i])
          = First({p \in S : \A q \in S : f[q] <= f[p]}, t.in[i])
    BY DEF Best
  <2>5. accept[i] = Best(S, LAMBDA o : r[<<i, o>>][1], t.in[i])
    BY DEF S
  <2> HIDE DEF S, f, accept
  <2>6. First({p \in S : \A q \in S : f[q] <= f[p]}, t.in[i]) \in S
    BY <2>1, <2>3, BestIn
  <2> QED
    BY <2>4, <2>5, <2>6 DEF S
<1> HIDE DEF accept
<1>5. Fits(accept, t.m, DOMAIN r)
  <2>1. DOMAIN grants \subseteq Outputs /\ \A o \in DOMAIN grants : grants[o] \in Asking(r, t.m, o)
    BY <1>1, <1>2
  <2> QED
    BY <1>3, <1>4, <2>1, GrantAccept
<1>6. Accepted(t.m, accept) \in Matchings(DOMAIN r)
  BY <1>5, AcceptedOK
<1>7. ptrs.in \in [Inputs -> Outputs] /\ ptrs.out \in [Outputs -> Inputs]
  BY <1>5, MovedOK
<1>8. SelectIteration(r, t, k) = [in |-> ptrs.in, out |-> ptrs.out, m |-> Accepted(t.m, accept),
                                  grants |-> grants]
  BY DEF SelectIteration, accept, grants
<1>9. Enough(r, Accepted(t.m, accept))
  <2>1. Granting(r, t.m) # {} => DOMAIN accept # {}
    BY <1>1, <1>3, GrantedSome
  <2> QED
    BY <1>5, <2>1, SomeOrGranting, AcceptedSome DEF Enough
<1> HIDE DEF ptrs
<1> QED
  BY <1>6, <1>7, <1>8, <1>9

(* Select leaves a matching and pointers of the ports, in its one iteration.   *)
LEMMA SelectOK ==
  ASSUME kind \in Kinds, NEW r, Asking2(r), type = "select",
         inarb \in [Inputs -> Outputs], outarb \in [Outputs -> Inputs]
  PROVE  /\ Select(r).m \in Matchings(DOMAIN r) /\ Enough(r, Select(r).m)
         /\ Select(r).in \in [Inputs -> Outputs] /\ Select(r).out \in [Outputs -> Inputs]
<1> DEFINE seq == [k \in 1 .. Iters[kind] |-> k]
           D == DOMAIN seq
           base == [in |-> inarb, out |-> outarb, m |-> NoMatch, grants |-> << >>]
           R(g) == g = [s \in SUBSET D |-> IF s = {} THEN base
                                           ELSE SelectIteration(r, g[s \ {Max(s)}], seq[Max(s)])]
           h == CHOOSE g : R(g)
           e == [s \in SUBSET D |-> IF s = {} THEN base ELSE SelectIteration(r, base, seq[Max(s)])]
<1>1. Select(r) = h[D]
  BY DEF Select, FoldLeft, MapThenFoldSet
<1>2. Iters[kind] = 1
  <2>1. Iters[kind] \in Nat \ {0}
    BY AllocAssumption
  <2>2. TypeOf[kind] = "select" => Iters[kind] <= 1
    BY AllocAssumption
  <2> QED
    BY <2>1, <2>2 DEF type
<1>3. D = {1}
  BY <1>2
<1>4. \A s \in SUBSET D : s # {} => s \ {Max(s)} = {}
  <2>1. \A s \in SUBSET D : s # {} => s = {1} /\ Max(s) = 1
    <3>1. Max({1}) = 1
      BY DEF Max
    <3> QED
      BY <1>3, <3>1
  <2> QED
    BY <2>1
<1> HIDE DEF D, base, seq
<1>5. R(e)
  <2>1. e[{}] = base
    OBVIOUS
  <2>2. \A s \in SUBSET D : s # {} => e[s] = SelectIteration(r, e[s \ {Max(s)}], seq[Max(s)])
    BY <1>4, <2>1
  <2>3. e = [s \in SUBSET D |-> e[s]]
    OBVIOUS
  <2> HIDE DEF e
  <2> QED
    BY <2>1, <2>2, <2>3
<1>6. R(h)
  <2> HIDE DEF R, e
  <2> QED
    BY <1>5
<1>7. h[D] = SelectIteration(r, base, seq[Max(D)])
  <2> HIDE DEF h
  <2>1. h[{}] = base
    BY <1>6
  <2>2. h[D] = SelectIteration(r, h[D \ {Max(D)}], seq[Max(D)])
    BY <1>3, <1>6
  <2> QED
    BY <1>3, <1>4, <2>1, <2>2
<1>8. /\ base.in = inarb /\ base.out = outarb /\ base.grants = << >>
      /\ base.m \in Matchings(DOMAIN r)
  BY NoMatchOK DEF base
<1> HIDE DEF h, R
<1> QED
  BY <1>1, <1>7, <1>8, SelectFirst

-----------------------------------------------------------------------------
(* An iteration of PIM, which draws among those that ask and among the grants.*)
LEMMA PimIterationOK ==
  ASSUME kind \in Kinds, NEW r, Asking2(r), NEW m \in Matchings(DOMAIN r)
  PROVE  PimIteration(r, m) \subseteq {x \in Matchings(DOMAIN r) : Enough(r, x)}
<1>1. SUFFICES ASSUME NEW x \in PimIteration(r, m) PROVE x \in Matchings(DOMAIN r) /\ Enough(r, x)
  OBVIOUS
<1>2. PICK g \in Choice(Granting(r, m), LAMBDA o : Asking(r, m, o)) :
        x \in {Accepted(m, accept) : accept \in Choice(Granted(g), LAMBDA i : GrantsTo(g, i))}
  BY <1>1 DEF PimIteration
<1>3. PICK accept \in Choice(Granted(g), LAMBDA i : GrantsTo(g, i)) : x = Accepted(m, accept)
  BY <1>2
<1>4. DOMAIN g = Granting(r, m) /\ \A o \in Granting(r, m) : g[o] \in Asking(r, m, o)
  BY <1>2 DEF Choice
<1>5. DOMAIN accept = Granted(g) /\ \A i \in Granted(g) : accept[i] \in GrantsTo(g, i)
  BY <1>3 DEF Choice
<1>6. DOMAIN g \subseteq Outputs
  BY <1>4 DEF Granting
<1>7. Fits(accept, m, DOMAIN r)
  BY <1>4, <1>5, <1>6, GrantAccept
<1>8. Granting(r, m) # {} => DOMAIN accept # {}
  BY <1>4, <1>5, GrantedSome
<1>9. Enough(r, x)
  BY <1>3, <1>7, <1>8, SomeOrGranting, AcceptedSome DEF Enough
<1> QED
  BY <1>3, <1>7, <1>9, AcceptedOK

(* The iterations of PIM.                                                     *)
LEMMA PimThrough ==
  ASSUME NEW r,
         Iters[kind] \in Nat, NEW T, NEW W, Passes(W, T, {NoMatch}, Iters[kind]),
         \A x \in 1 .. Iters[kind], t \in T : UNION {PimIteration(r, m) : m \in t} \in T,
         \A k \in 1 .. Iters[kind] : \A t \in W[k - 1] : UNION {PimIteration(r, m) : m \in t} \in W[k]
  PROVE  Pim(r) \in W[Iters[kind]]
<1> DEFINE seq == [k \in 1 .. Iters[kind] |-> k]
           D == DOMAIN seq
           base == {NoMatch}
           step == [c \in D \X T |-> UNION {PimIteration(r, m) : m \in c[2]}]
           R(g) == g = [s \in SUBSET D |-> IF s = {} THEN base
                                           ELSE UNION {PimIteration(r, m) : m \in g[s \ {Max(s)}]}]
           h == CHOOSE g : R(g)
<1>1. Pim(r) = h[D]
  BY DEF Pim, FoldLeft, MapThenFoldSet
<1>2. IsFiniteSet(D) /\ Ints(D) /\ Upto(D, Iters[kind])
  <2>1. Iters[kind] \in Int /\ D = 1 .. Iters[kind]
    OBVIOUS
  <2> HIDE DEF D
  <2> QED
    BY <2>1, FS_Interval DEF Ints, Upto
<1>3. base \in T /\ base \in W[0]
  <2>1. 0 \in 0 .. Iters[kind]
    OBVIOUS
  <2> QED
    BY <2>1 DEF Passes
<1>4. step \in [D \X T -> T]
  <2> HIDE DEF base
  <2> QED
    OBVIOUS
<1>5. \A x \in D, t \in T : step[<<x, t>>] = UNION {PimIteration(r, m) : m \in t}
  OBVIOUS
<1>6. \A s \in SUBSET D : s # {} => Max(s) \in D
  <2> HIDE DEF D
  <2> QED
    BY <1>2, MaxOf
<1>7. Through(W, base, step, Iters[kind])
  <2>1. ASSUME NEW k \in 1 .. Iters[kind], NEW t \in W[k - 1]
        PROVE  step[<<k, t>>] \in W[k]
    <3>1. k - 1 \in 0 .. Iters[kind] /\ k \in D
      OBVIOUS
    <3>2. t \in T
      BY <3>1 DEF Passes
    <3>3. step[<<k, t>>] = UNION {PimIteration(r, m) : m \in t}
      BY <1>5, <3>1, <3>2
    <3> HIDE DEF step
    <3> QED
      BY <3>3
  <2> HIDE DEF step, base
  <2> QED
    BY <1>3, <2>1 DEF Through
<1> HIDE DEF D, base, step, seq
<1>8. PICK g : Solves(g, base, step, D, T)
  BY <1>2, <1>3, <1>4, Foldable DEF Has
<1>9. R(g)
  <2>1. ASSUME NEW s \in SUBSET D, s # {}
        PROVE  g[s] = UNION {PimIteration(r, m) : m \in g[s \ {Max(s)}]}
    <3>1. g[s] = step[<<Max(s), g[s \ {Max(s)}]>>]
      BY <1>8, <2>1, UnfoldsAt DEF Solves
    <3>2. Max(s) \in D /\ g[s \ {Max(s)}] \in T
      BY <1>6, <1>8, <2>1 DEF Solves
    <3> QED
      BY <1>5, <3>1, <3>2
  <2>2. g[{}] = base
    BY <1>8, UnfoldsNone DEF Solves
  <2>3. g = [s \in SUBSET D |-> g[s]]
    BY <1>8 DEF Solves
  <2> QED
    BY <2>1, <2>2, <2>3
<1>10. R(h)
  <2> HIDE DEF R
  <2> QED
    BY <1>9
<1>11. Follows(h, base, step, D, T)
  <2> HIDE DEF h
  <2>1. h[{}] = base
    BY <1>10
  <2>2. \A s \in SUBSET D : s # {} => h[s] = UNION {PimIteration(r, m) : m \in h[s \ {Max(s)}]}
    BY <1>10
  <2> QED
    BY <1>5, <1>6, <2>1, <2>2 DEF Follows
<1> HIDE DEF h
<1>12. h[D] = g[D]
  BY <1>2, <1>8, <1>11, FoldFollows
<1>13. g[D] \in W[Iters[kind]]
  BY <1>2, <1>7, <1>8, FoldThrough DEF Solves
<1> QED
  BY <1>1, <1>12, <1>13

(* PIM leaves a matching whatever is drawn.                                  *)
LEMMA PimOK ==
  ASSUME kind \in Kinds, NEW r, Asking2(r)
  PROVE  Pim(r) \subseteq {m \in Matchings(DOMAIN r) : Enough(r, m)}
<1> DEFINE n == Iters[kind]
           T == SUBSET Matchings(DOMAIN r)
           W == [k \in 0 .. n |-> {t \in T : k = 0 \/ \A m \in t : Enough(r, m)}]
<1>1. n \in Nat \ {0}
  BY AllocAssumption
<1>2. {NoMatch} \in T
  BY NoMatchOK
<1> HIDE DEF n
<1>3. Passes(W, T, {NoMatch}, n)
  BY <1>1, <1>2 DEF Passes
<1>4. \A t \in T : /\ UNION {PimIteration(r, m) : m \in t} \in T
                    /\ \A m \in UNION {PimIteration(r, m) : m \in t} : Enough(r, m)
  BY PimIterationOK
<1>5. \A k \in 1 .. n : \A t \in W[k - 1] : UNION {PimIteration(r, m) : m \in t} \in W[k]
  BY <1>1, <1>4
<1> HIDE DEF W, T
<1>6. Pim(r) \in W[n]
  BY <1>1, <1>3, <1>4, <1>5, PimThrough DEF n
<1> QED
  BY <1>1, <1>6 DEF W, T

-----------------------------------------------------------------------------
(* Inputs bid for outputs they ask, each of which grants one of its bids.     *)
LEMMA BidsAccept ==
  ASSUME kind \in Kinds, NEW r, Asking2(r), NEW bids, NEW grants, NEW accept,
         DOMAIN bids \subseteq Inputs, \A i \in DOMAIN bids : bids[i] \in InReq(r, i),
         DOMAIN grants = Granted(bids),
         \A o \in DOMAIN grants : grants[o] \in {i \in DOMAIN bids : bids[i] = o},
         accept = [i \in Granted(grants) |-> bids[i]]
  PROVE  Fits(accept, NoMatch, DOMAIN r)
<1>1. DOMAIN accept = Granted(grants) /\ \A i \in DOMAIN accept : accept[i] = bids[i]
  OBVIOUS
<1>2. \A i \in DOMAIN accept : i \in DOMAIN bids /\ grants[bids[i]] = i
  BY <1>1 DEF Granted
<1>3. \A i \in DOMAIN accept : <<i, accept[i]>> \in DOMAIN r /\ i \in Inputs /\ accept[i] \in Outputs
  BY <1>1, <1>2, ReqPorts
<1>4. /\ \A i \in Inputs : NoMatch.inm[i] = Nobody
      /\ \A o \in Outputs : NoMatch.outm[o] = Nobody
  BY DEF NoMatch, Free, Inputs, Outputs
<1>5. \A i, j \in DOMAIN accept : accept[i] = accept[j] => i = j
  BY <1>1, <1>2
<1> QED
  BY <1>3, <1>4, <1>5 DEF Fits

(* And somebody accepts when somebody bids.                                  *)
LEMMA BidsSome ==
  ASSUME NEW bids, DOMAIN bids # {}, NEW grants, NEW accept, DOMAIN grants = Granted(bids),
         DOMAIN accept = Granted(grants)
  PROVE  DOMAIN accept # {}
<1>1. DOMAIN grants # {}
  BY GrantedSome
<1> QED
  BY <1>1, GrantedSome

(* If anybody asks, some input and some output do.                           *)
LEMMA SomeAsk ==
  ASSUME NEW r, DOMAIN r # {}
  PROVE  {c[1] : c \in DOMAIN r} # {} /\ {c[2] : c \in DOMAIN r} # {}
  OBVIOUS

(* LOA prefers the least number of requests: the largest when negated.       *)
LEMMA Minus ==
  ASSUME NEW n \in Nat
  PROVE  0 - n \in Int
  OBVIOUS

(* LOA matches what asks and leaves pointers of the ports.                   *)
LEMMA LoaOK ==
  ASSUME kind \in Kinds, NEW r, Asking2(r),
         inarb \in [Inputs -> Outputs], outarb \in [Outputs -> Inputs]
  PROVE  Loa(r) \in Rounds(r) /\ Enough(r, Loa(r).m)
<1> DEFINE lonely == [i \in {c[1] : c \in DOMAIN r} |->
                       Best(InReq(r, i), LAMBDA o : 0 - Cardinality(OutReq(r, o)), inarb[i])]
           grants == [o \in Granted(lonely) |-> First({i \in DOMAIN lonely : lonely[i] = o}, outarb[o])]
           accept == [i \in Granted(grants) |-> lonely[i]]
           in2 == [i \in Inputs |-> IF i \in DOMAIN accept THEN After(inarb[i], NO) ELSE inarb[i]]
           out2 == [o \in Outputs |-> IF o \in DOMAIN grants THEN After(outarb[o], NI) ELSE outarb[o]]
<1>1. DOMAIN lonely \subseteq Inputs
  BY DEF Asking2
<1>2. ASSUME NEW i \in DOMAIN lonely
      PROVE  lonely[i] \in InReq(r, i)
  <2> DEFINE S == InReq(r, i)
             f == [o \in S |-> 0 - Cardinality(OutReq(r, o))]
  <2>1. S # {} /\ S \subseteq Ports(NO) /\ NO \in Nat
    <3>1. PICK c \in DOMAIN r : c[1] = i
      BY <1>2
    <3> HIDE DEF lonely
    <3>2. c[2] \in S
      BY <3>1 DEF InReq
    <3>3. S \subseteq Ports(NO)
      BY ReqPorts, Sizes
    <3> QED
      BY <3>2, <3>3, Sizes
  <2>2. \A o \in S : f[o] \in Int
    <3>1. \A o : IsFiniteSet(OutReq(r, o))
      BY ReqPorts, Sizes, FS_Subset
    <3>2. \A o : Cardinality(OutReq(r, o)) \in Nat
      BY <3>1, FS_CardinalityType
    <3>3. \A n \in Nat : 0 - n \in Int
      BY Minus
    <3>4. \A o \in S : f[o] = 0 - Cardinality(OutReq(r, o))
      OBVIOUS
    <3> HIDE DEF f, lonely
    <3> QED
      BY <3>2, <3>3, <3>4
  <2>3. Best(S, LAMBDA o : 0 - Cardinality(OutReq(r, o)), inarb[i])
          = First({p \in S : \A q \in S : f[q] <= f[p]}, inarb[i])
    BY DEF Best
  <2>4. lonely[i] = Best(S, LAMBDA o : 0 - Cardinality(OutReq(r, o)), inarb[i])
    BY DEF S
  <2> HIDE DEF S, f, lonely
  <2>5. First({p \in S : \A q \in S : f[q] <= f[p]}, inarb[i]) \in S
    BY <2>1, <2>2, BestIn
  <2> QED
    BY <2>3, <2>4, <2>5 DEF S
<1> HIDE DEF lonely
<1>3. DOMAIN grants = Granted(lonely) /\ Granted(lonely) \subseteq Outputs
  BY <1>2, ReqPorts DEF Granted
<1>4. \A o \in DOMAIN grants : grants[o] \in {i \in DOMAIN lonely : lonely[i] = o}
  <2>1. \A o \in Granted(lonely) : /\ {i \in DOMAIN lonely : lonely[i] = o} # {}
                                   /\ {i \in DOMAIN lonely : lonely[i] = o} \subseteq Ports(NI)
    BY <1>1, Sizes DEF Granted
  <2> QED
    BY <2>1, FirstIn, Sizes
<1> HIDE DEF grants
<1>5. Fits(accept, NoMatch, DOMAIN r)
  BY <1>1, <1>2, <1>3, <1>4, BidsAccept
<1>6. Accepted(NoMatch, accept) \in Matchings(DOMAIN r)
  BY <1>5, NoMatchOK, AcceptedOK
<1>7. in2 \in [Inputs -> Outputs] /\ out2 \in [Outputs -> Inputs]
  <2>1. \A o \in Outputs : After(o, NO) \in Outputs
    BY Sizes, AfterIn
  <2>2. \A i \in Inputs : After(i, NI) \in Inputs
    BY Sizes, AfterIn
  <2> QED
    BY <2>1, <2>2
<1>8. Loa(r) = [in |-> in2, out |-> out2, m |-> Accepted(NoMatch, accept)]
  BY DEF Loa, grants, lonely
<1>9. Enough(r, Accepted(NoMatch, accept))
  <2>1. DOMAIN r # {} => DOMAIN lonely # {}
    BY SomeAsk DEF lonely
  <2>2. DOMAIN accept = Granted(grants)
    OBVIOUS
  <2> HIDE DEF accept
  <2> QED
    BY <1>3, <1>5, <2>1, <2>2, BidsSome, AcceptedSome DEF Enough
<1> HIDE DEF in2, out2
<1> QED
  BY <1>6, <1>7, <1>8, <1>9 DEF Rounds

-----------------------------------------------------------------------------
(* The arbiters of a separable allocator.                                   *)
ArbsOK == /\ \A i \in Inputs : ArbOK(arb, inarb[i], NO)
          /\ \A o \in Outputs : ArbOK(arb, outarb[o], NI)

(* The arbiter of an input selects one of the offers made to it.             *)
LEMMA AtInputIn ==
  ASSUME kind \in Kinds, NEW r, Asking2(r), ArbsOK, NEW i \in Inputs,
         NEW S, S \subseteq InReq(r, i), S # {}
  PROVE  AtInput(r, i, S) \in S
<1> DEFINE q == [o \in S |-> r[<<i, o>>][1]]
<1>1. \A o \in S : <<i, o>> \in DOMAIN r /\ o \in Outputs
  BY ReqPorts
<1>2. Asks(q, NO)
  BY <1>1, Sizes DEF Asks, Asking2
<1>3. Arbitrate(arb, inarb[i], q, NO) \in DOMAIN q
  <2> HIDE DEF q
  <2> QED
    BY <1>2, Sizes, ArbitrateIn DEF ArbsOK
<1> QED
  BY <1>3 DEF AtInput

(* The arbiter of an output selects one of the bids made to it.              *)
LEMMA AtOutputIn ==
  ASSUME kind \in Kinds, NEW r, Asking2(r), ArbsOK, NEW o \in Outputs,
         NEW S, S \subseteq OutReq(r, o), S # {}
  PROVE  AtOutput(r, o, S) \in S
<1> DEFINE q == [i \in S |-> r[<<i, o>>][2]]
<1>1. \A i \in S : <<i, o>> \in DOMAIN r /\ i \in Inputs
  BY ReqPorts
<1>2. Asks(q, NI)
  BY <1>1, Sizes DEF Asks, Asking2
<1>3. Arbitrate(arb, outarb[o], q, NI) \in DOMAIN q
  <2> HIDE DEF q
  <2> QED
    BY <1>2, Sizes, ArbitrateIn DEF ArbsOK
<1> QED
  BY <1>3 DEF AtOutput

(* When the inputs choose first, what is accepted fits.                      *)
LEMMA InputFirstOK ==
  ASSUME kind \in Kinds, NEW r, Asking2(r), ArbsOK
  PROVE  Fits(InputFirst(r), NoMatch, DOMAIN r) /\ (DOMAIN r # {} => DOMAIN InputFirst(r) # {})
<1> DEFINE bids   == [i \in {c[1] : c \in DOMAIN r} |-> AtInput(r, i, InReq(r, i))]
           grants == [o \in Granted(bids) |-> AtOutput(r, o, {i \in DOMAIN bids : bids[i] = o})]
           accept == [i \in Granted(grants) |-> bids[i]]
<1>1. DOMAIN bids \subseteq Inputs
  BY DEF Asking2
<1>2. \A i \in DOMAIN bids : bids[i] \in InReq(r, i)
  <2>1. \A i \in DOMAIN bids : InReq(r, i) # {} /\ i \in Inputs
    BY <1>1 DEF InReq
  <2>2. \A i \in DOMAIN bids : AtInput(r, i, InReq(r, i)) \in InReq(r, i)
    BY <2>1, AtInputIn
  <2> QED
    BY <2>2
<1> HIDE DEF bids
<1>3. DOMAIN grants = Granted(bids)
  OBVIOUS
<1>4. \A o \in DOMAIN grants : grants[o] \in {i \in DOMAIN bids : bids[i] = o}
  <2>1. ASSUME NEW o \in Granted(bids)
        PROVE  AtOutput(r, o, {i \in DOMAIN bids : bids[i] = o}) \in {i \in DOMAIN bids : bids[i] = o}
    <3> DEFINE S == {i \in DOMAIN bids : bids[i] = o}
    <3>1. S # {} /\ S \subseteq OutReq(r, o) /\ o \in Outputs
      BY <1>2, ReqPorts DEF Granted
    <3> HIDE DEF S
    <3>2. AtOutput(r, o, S) \in S
      BY <3>1, AtOutputIn
    <3> QED
      BY <3>2 DEF S
  <2> QED
    BY <2>1
<1> HIDE DEF grants
<1>5. Fits(accept, NoMatch, DOMAIN r)
  BY <1>1, <1>2, <1>3, <1>4, BidsAccept
<1>6. DOMAIN r # {} => DOMAIN accept # {}
  <2>1. DOMAIN r # {} => DOMAIN bids # {}
    BY SomeAsk DEF bids
  <2>2. DOMAIN accept = Granted(grants)
    OBVIOUS
  <2> HIDE DEF accept
  <2> QED
    BY <1>3, <2>1, <2>2, BidsSome
<1> QED
  BY <1>5, <1>6 DEF InputFirst, grants, bids

(* When the outputs choose first, what is accepted fits.                     *)
LEMMA OutputFirstOK ==
  ASSUME kind \in Kinds, NEW r, Asking2(r), ArbsOK
  PROVE  Fits(OutputFirst(r), NoMatch, DOMAIN r) /\ (DOMAIN r # {} => DOMAIN OutputFirst(r) # {})
<1> DEFINE bids   == [o \in {c[2] : c \in DOMAIN r} |-> AtOutput(r, o, OutReq(r, o))]
           accept == [i \in Granted(bids) |-> AtInput(r, i, GrantsTo(bids, i))]
<1>1. DOMAIN bids \subseteq Outputs
  BY DEF Asking2
<1>2. \A o \in DOMAIN bids : bids[o] \in OutReq(r, o)
  <2>1. \A o \in DOMAIN bids : OutReq(r, o) # {} /\ o \in Outputs
    BY <1>1 DEF OutReq
  <2>2. \A o \in DOMAIN bids : AtOutput(r, o, OutReq(r, o)) \in OutReq(r, o)
    BY <2>1, AtOutputIn
  <2> QED
    BY <2>2
<1> HIDE DEF bids
<1>3. \A o \in DOMAIN bids : bids[o] \in Asking(r, NoMatch, o)
  <2>1. /\ \A i \in Inputs : NoMatch.inm[i] = Nobody
        /\ \A o \in Outputs : NoMatch.outm[o] = Nobody
    BY DEF NoMatch, Free, Inputs, Outputs
  <2> QED
    BY <1>1, <1>2, <2>1, ReqPorts DEF Asking
<1>4. \A i \in Granted(bids) : AtInput(r, i, GrantsTo(bids, i)) \in GrantsTo(bids, i)
  <2>1. ASSUME NEW i \in Granted(bids)
        PROVE  /\ GrantsTo(bids, i) # {} /\ GrantsTo(bids, i) \subseteq InReq(r, i)
               /\ i \in Inputs
    BY <1>2, ReqPorts DEF Granted, GrantsTo
  <2> QED
    BY <2>1, AtInputIn
<1>5. DOMAIN accept = Granted(bids) /\ \A i \in DOMAIN accept : accept[i] \in GrantsTo(bids, i)
  BY <1>4
<1> HIDE DEF accept
<1>6. Fits(accept, NoMatch, DOMAIN r)
  BY <1>1, <1>3, <1>5, GrantAccept
<1>7. DOMAIN r # {} => DOMAIN accept # {}
  <2>1. DOMAIN r # {} => DOMAIN bids # {}
    BY SomeAsk DEF bids
  <2> QED
    BY <1>5, <2>1, GrantedSome
<1> QED
  BY <1>6, <1>7 DEF OutputFirst, accept, bids

(* Only arbiters whose choice is granted move on.                           *)
LEMMA UpdatedOK ==
  ASSUME kind \in Kinds, ArbsOK, NEW C, NEW accept, Fits(accept, NoMatch, C)
  PROVE  /\ \A i \in Inputs : ArbOK(arb, UpdatedIn(accept)[i], NO)
         /\ \A o \in Outputs : ArbOK(arb, UpdatedOut(accept)[o], NI)
<1>1. ASSUME NEW i \in Inputs
      PROVE  ArbOK(arb, UpdatedIn(accept)[i], NO)
  <2>1. i \in DOMAIN accept => ArbOK(arb, Update(arb, inarb[i], accept[i], NO), NO)
    BY Sizes, UpdateOK DEF ArbsOK, Fits
  <2> QED
    BY <2>1 DEF ArbsOK, UpdatedIn
<1>2. ASSUME NEW o \in Outputs
      PROVE  ArbOK(arb, UpdatedOut(accept)[o], NI)
  <2> DEFINE i == CHOOSE i \in DOMAIN accept : accept[i] = o
  <2>1. (\E j \in DOMAIN accept : accept[j] = o) => i \in Inputs
    BY DEF Fits
  <2>2. UpdatedOut(accept)[o] = IF \E j \in DOMAIN accept : accept[j] = o
                                THEN Update(arb, outarb[o], i, NI) ELSE outarb[o]
    BY DEF UpdatedOut
  <2> HIDE DEF i
  <2>3. i \in Inputs => ArbOK(arb, Update(arb, outarb[o], i, NI), NI)
    BY Sizes, UpdateOK DEF ArbsOK
  <2> QED
    BY <2>1, <2>2, <2>3 DEF ArbsOK
<1> QED
  BY <1>1, <1>2

-----------------------------------------------------------------------------
(* A tree of two groups of k inputs.                                        *)
LEMMA Halves ==
  ASSUME NEW n \in Nat \ {0}, n % 2 = 0
  PROVE  /\ n \div 2 \in Nat \ {0} /\ n = 2 * (n \div 2)
         /\ n \div (n \div 2) = 2
<1>1. n \div 2 \in Nat \ {0} /\ n = 2 * (n \div 2)
  BY Z3
<1> DEFINE k == n \div 2
<1> HIDE DEF k
<1>2. k \in Nat \ {0} /\ n = 2 * k
  BY <1>1 DEF k
<1>3. (2 * k) \div k = 2
  BY <1>2, Z3
<1> QED
  BY <1>1, <1>2, <1>3 DEF k

(* An input is told by its group and its place in it.                        *)
LEMMA GroupOf ==
  ASSUME NEW k \in Nat \ {0}, NEW i \in Ports(2 * k)
  PROVE  /\ i \div k \in Ports(2) /\ i % k \in Ports(k)
         /\ (i \div k) * k + (i % k) = i
<1>1. i \in Nat /\ i < 2 * k
  BY DEF Ports
<1>2. CASE i < k
  <2>1. i \div k = 0 /\ i % k = i
    BY <1>1, <1>2, Z3
  <2>2. 0 * k + i = i
    BY <1>1, Z3
  <2> QED
    BY <1>1, <1>2, <2>1, <2>2 DEF Ports
<1>3. CASE ~(i < k)
  <2> DEFINE j == i - k
  <2>1. j \in Nat /\ j < k /\ i = k + j
    BY <1>1, <1>3
  <2> HIDE DEF j
  <2>2. (k + j) \div k = 1 /\ (k + j) % k = j
    BY <2>1, Z3
  <2>3. 1 * k + j = i
    BY <2>1, Z3
  <2>4. i \div k = 1 /\ i % k = j
    BY <2>1, <2>2
  <2>5. (i \div k) * k + (i % k) = i
    <3> DEFINE d == i \div k
               m == i % k
    <3>1. d = 1 /\ m = j /\ 1 * k + j = i
      BY <2>3, <2>4
    <3> HIDE DEF d, m
    <3>2. d * k + m = 1 * k + j
      BY <3>1
    <3>3. d * k + m = i
      BY <3>1, <3>2
    <3> QED
      BY <3>3 DEF d, m
  <2>6. i \div k \in Ports(2) /\ i % k \in Ports(k)
    BY <2>1, <2>4 DEF Ports
  <2> QED
    BY <2>5, <2>6
<1> QED
  BY <1>2, <1>3

(* What a tree remembers: an arbiter for each group, and that between them.    *)
TreeOK(at, t, k) ==
  /\ t = [group |-> t.group, global |-> t.global]
  /\ DOMAIN t.group = Ports(2) /\ \A g \in Ports(2) : ArbOK(at, t.group[g], k)
  /\ ArbOK(at, t.global, 2)

(* The arbiters of a tree are fit for use at first.                          *)
LEMMA TreeInitOK ==
  ASSUME NEW n \in Nat \ {0}, n % 2 = 0, NEW at
  PROVE  TreeOK(at, TreeInit(at, n, n \div 2), n \div 2)
  BY Halves, ArbInitOK DEF TreeOK, TreeInit

(* They are after the update of a selection.                                 *)
LEMMA TreeUpdateOK ==
  ASSUME NEW n \in Nat \ {0}, n % 2 = 0, NEW at, NEW t, TreeOK(at, t, n \div 2), NEW i \in Ports(n)
  PROVE  TreeOK(at, TreeUpdate(at, t, i, n, n \div 2), n \div 2)
<1> DEFINE k == n \div 2
           g == i \div k
           a == Update(at, t.group[g], i % k, k)
           b == Update(at, t.global, g, 2)
<1>1. k \in Nat \ {0} /\ n = 2 * k /\ n \div k = 2
  BY Halves
<1> HIDE DEF k
<1>2. g \in Ports(2) /\ i % k \in Ports(k)
  BY <1>1, GroupOf
<1>3. TreeUpdate(at, t, i, n, k) = [group |-> [t.group EXCEPT ![g] = a], global |-> b]
  BY <1>1 DEF TreeUpdate
<1>4. TreeOK(at, t, k)
  BY DEF k
<1>5. ArbOK(at, a, k) /\ ArbOK(at, b, 2)
  <2>1. ArbOK(at, t.group[g], k) /\ ArbOK(at, t.global, 2) /\ 2 \in Nat \ {0}
    BY <1>2, <1>4 DEF TreeOK
  <2> HIDE DEF g
  <2>2. ArbOK(at, a, k)
    BY <1>1, <1>2, <2>1, UpdateOK
  <2>3. ArbOK(at, b, 2)
    BY <1>2, <2>1, UpdateOK
  <2> QED
    BY <2>2, <2>3
<1> HIDE DEF a, b, g
<1> DEFINE u == [group |-> [t.group EXCEPT ![g] = a], global |-> b]
<1>6. DOMAIN u.group = Ports(2) /\ \A x \in Ports(2) : ArbOK(at, u.group[x], k)
  BY <1>2, <1>4, <1>5 DEF TreeOK
<1>7. u = [group |-> u.group, global |-> u.global] /\ u.global = b
  OBVIOUS
<1> HIDE DEF u
<1>8. TreeOK(at, u, k)
  BY <1>5, <1>6, <1>7 DEF TreeOK
<1> QED
  BY <1>3, <1>8 DEF k, u

(* A tree selects one of those that ask.                                     *)
LEMMA TreeIn ==
  ASSUME NEW n \in Nat \ {0}, n % 2 = 0, NEW at, NEW t, TreeOK(at, t, n \div 2),
         NEW r, Asks(r, n)
  PROVE  Tree(at, t, r, n, n \div 2) \in DOMAIN r
<1> DEFINE k == n \div 2
           w(g) == GroupWinner(at, t, r, g, k)
           asked == {i \div k : i \in DOMAIN r}
           offers == [g \in asked |-> r[g * k + w(g)]]
           g0 == Arbitrate(at, t.global, offers, 2)
<1>1. k \in Nat \ {0} /\ n = 2 * k /\ n \div k = 2
  BY Halves
<1>2. TreeOK(at, t, k)
  OBVIOUS
<1>3. r # << >>
  BY DEF Asks
<1>4. Tree(at, t, r, n, k) = g0 * k + w(g0)
  BY <1>1, <1>3 DEF Tree
<1> HIDE DEF k
<1>5. \A i \in DOMAIN r : i \div k \in Ports(2) /\ i % k \in Ports(k) /\ (i \div k) * k + (i % k) = i
  BY <1>1, GroupOf DEF Asks
<1>6. ASSUME NEW g \in asked
      PROVE  g \in Ports(2) /\ g * k + w(g) \in DOMAIN r
  <2> DEFINE q == InGroup(r, g, k)
  <2>1. PICK i \in DOMAIN r : g = i \div k
    BY <1>6
  <2>2. \A j \in DOMAIN q : j \in Ports(k) /\ g * k + j \in DOMAIN r
    <3>1. ASSUME NEW j \in DOMAIN q
          PROVE  \E x \in DOMAIN r : x \div k = g /\ j = x % k
      BY DEF InGroup
    <3>2. ASSUME NEW j \in DOMAIN q
          PROVE  j \in Ports(k) /\ g * k + j \in DOMAIN r
      <4>1. PICK x \in DOMAIN r : x \div k = g /\ j = x % k
        BY <3>1
      <4>2. x % k \in Ports(k) /\ (x \div k) * k + (x % k) = x
        BY <1>5
      <4> DEFINE d == x \div k
                 m == x % k
      <4>3. d = g /\ m = j /\ m \in Ports(k) /\ d * k + m \in DOMAIN r
        BY <4>1, <4>2
      <4> HIDE DEF d, m
      <4> QED
        BY <4>3
    <3> QED
      BY <3>2
  <2>3. i % k \in DOMAIN q
    BY <2>1 DEF InGroup
  <2>4. \A j \in DOMAIN q : q[j] = r[g * k + j]
    BY DEF InGroup
  <2> HIDE DEF q
  <2>5. Asks(q, k)
    BY <2>2, <2>3, <2>4 DEF Asks
  <2>6. g \in Ports(2)
    BY <1>5, <2>1
  <2>7. Arbitrate(at, t.group[g], q, k) \in DOMAIN q
    BY <1>1, <1>2, <2>5, <2>6, ArbitrateIn DEF TreeOK
  <2>8. w(g) \in DOMAIN q
    BY <2>7 DEF GroupWinner, q
  <2> QED
    BY <2>2, <2>6, <2>8
<1> HIDE DEF w
<1>7. Asks(offers, 2)
  <2>1. asked # {}
    BY DEF Asks
  <2> HIDE DEF asked
  <2> QED
    BY <1>6, <2>1 DEF Asks
<1>8. g0 \in asked
  <2>1. g0 \in DOMAIN offers
    <3> HIDE DEF offers
    <3>1. ArbOK(at, t.global, 2) /\ 2 \in Nat \ {0}
      BY <1>2 DEF TreeOK
    <3> QED
      BY <1>7, <3>1, ArbitrateIn
  <2> QED
    BY <2>1
<1> HIDE DEF g0, offers, asked
<1> QED
  BY <1>4, <1>6, <1>8 DEF k

-----------------------------------------------------------------------------
(* The diagonals of a wavefront.                                            *)
LEMMA SquareIs ==
  ASSUME kind \in Kinds
  PROVE  Square \in Nat \ {0} /\ Square \in {NI, NO} /\ NI <= Square /\ NO <= Square
<1>1. \E x \in {NI, NO} : \A y \in {NI, NO} : x >= y
  BY Sizes
<1>2. Square \in {NI, NO} /\ \A y \in {NI, NO} : Square >= y
  BY <1>1 DEF Square, Max
<1> QED
  BY <1>2, Sizes

(* On one diagonal, ports of the same side have different ports opposite.     *)
LEMMA DiagonalTells ==
  ASSUME NEW n \in Nat \ {0}, NEW a \in 0 .. n - 1, NEW b \in 0 .. n - 1, NEW c \in 0 .. n - 1,
         (a + c) % n = (b + c) % n
  PROVE  a = b
<1>1. ASSUME NEW x \in 0 .. n - 1
      PROVE  (x + c) % n = IF x + c < n THEN x + c ELSE x + c - n
  <2>1. CASE x + c < n
    <3>1. x + c \in 0 .. n - 1
      BY <2>1
    <3>2. (x + c) % n = x + c
      BY <3>1, Z3
    <3> QED
      BY <2>1, <3>2
  <2>2. CASE ~(x + c < n)
    <3> DEFINE y == x + c - n
    <3>1. y \in 0 .. n - 1 /\ x + c = n + y
      BY <2>2
    <3> HIDE DEF y
    <3>2. (n + y) % n = y
      BY <3>1, Z3
    <3> QED
      BY <2>2, <3>1, <3>2 DEF y
  <2> QED
    BY <2>1, <2>2
<1>2. /\ (a + c) % n = IF a + c < n THEN a + c ELSE a + c - n
      /\ (b + c) % n = IF b + c < n THEN b + c ELSE b + c - n
  BY <1>1
<1> QED
  BY <1>2

(* A wavefront and the first diagonal it had a grant on.                     *)
Waves(r) == [m : Matchings(DOMAIN r), first : Ports(Square) \cup {Nobody}]

(* What a diagonal d adds to the matching m for the priority pri: matches of   *)
(* that priority, so that of what asks on d with it both ports are not free.   *)
Sweeps(r, m, m2, pri, d) ==
  \E accept : /\ Fits(accept, m, DOMAIN r) /\ m2 = Accepted(m, accept)
              /\ \A i \in DOMAIN accept : r[<<i, accept[i]>>] = pri
              /\ \A i \in Inputs, o \in Outputs :
                   /\ <<i, o>> \in DOMAIN r /\ r[<<i, o>>] = pri
                   /\ Diagonal(<<i, o>>) = (turn + d) % Square
                   => i \in DOMAIN accept \/ m.inm[i] # Nobody \/ m.outm[o] # Nobody

(* A diagonal leaves a matching, as nothing on it conflicts.                 *)
LEMMA WaveOK ==
  ASSUME kind \in Kinds, NEW r, Asking2(r), turn \in Nat, NEW t \in Waves(r), NEW pri, NEW d \in Nat
  PROVE  Wave(r, t, pri, d) \in Waves(r) /\ Sweeps(r, t.m, Wave(r, t, pri, d).m, pri, d)
<1> DEFINE cells == {c \in DOMAIN r : /\ Diagonal(c) = (turn + d) % Square /\ r[c] = pri
                                      /\ t.m.inm[c[1]] = Nobody /\ t.m.outm[c[2]] = Nobody}
           accept == [i \in {c[1] : c \in cells} |-> CHOOSE o \in Outputs : <<i, o>> \in cells]
           f == IF t.first = Nobody /\ cells # {} THEN (turn + d) % Square ELSE t.first
<1>1. \A i, o : <<i, o>> \in cells =>
        /\ i \in Inputs /\ o \in Outputs /\ <<i, o>> \in DOMAIN r
        /\ (i + o) % Square = (turn + d) % Square
        /\ t.m.inm[i] = Nobody /\ t.m.outm[o] = Nobody
  BY DEF Asking2, Diagonal
<1>2. \A c \in cells : c = <<c[1], c[2]>>
  BY DEF Asking2
<1> HIDE DEF cells
<1>3. \A i \in DOMAIN accept : <<i, accept[i]>> \in cells
  <2>1. \A i \in DOMAIN accept : \E o \in Outputs : <<i, o>> \in cells
    BY <1>1, <1>2
  <2> QED
    BY <2>1
<1> HIDE DEF accept
<1>4. ASSUME NEW i \in DOMAIN accept, NEW j \in DOMAIN accept, accept[i] = accept[j]
      PROVE  i = j
  <2> DEFINE o == accept[i]
  <2>1. /\ i \in Inputs /\ j \in Inputs /\ o \in Outputs
        /\ (i + o) % Square = (j + o) % Square
    BY <1>1, <1>3, <1>4
  <2> HIDE DEF o
  <2>2. i \in 0 .. Square - 1 /\ j \in 0 .. Square - 1 /\ o \in 0 .. Square - 1
    BY <2>1, Sizes, SquareIs DEF Ports
  <2> QED
    BY <2>1, <2>2, SquareIs, DiagonalTells
<1>5. Fits(accept, t.m, DOMAIN r)
  <2>1. DOMAIN accept \subseteq Inputs
    BY <1>1, <1>3
  <2> QED
    BY <1>1, <1>3, <1>4, <2>1 DEF Fits
<1>6. Accepted(t.m, accept) \in Matchings(DOMAIN r)
  BY <1>5, AcceptedOK DEF Waves
<1>7. f \in Ports(Square) \cup {Nobody}
  <2>1. (turn + d) % Square \in 0 .. Square - 1
    <3>1. turn + d \in Nat
      OBVIOUS
    <3> QED
      BY <3>1, SquareIs, Z3
  <2> QED
    BY <2>1 DEF Ports, Waves
<1>8. Wave(r, t, pri, d) = [m |-> Accepted(t.m, accept), first |-> f]
  BY DEF Wave, accept, cells
<1>9. \A i \in DOMAIN accept : r[<<i, accept[i]>>] = pri
  BY <1>3 DEF cells
<1>10. ASSUME NEW i \in Inputs, NEW o \in Outputs, <<i, o>> \in DOMAIN r, r[<<i, o>>] = pri,
              Diagonal(<<i, o>>) = (turn + d) % Square
       PROVE  i \in DOMAIN accept \/ t.m.inm[i] # Nobody \/ t.m.outm[o] # Nobody
  <2>1. t.m.inm[i] = Nobody /\ t.m.outm[o] = Nobody => <<i, o>> \in cells
    BY <1>10 DEF cells
  <2>2. <<i, o>> \in cells => i \in DOMAIN accept
    BY DEF accept
  <2> QED
    BY <2>1, <2>2
<1> HIDE DEF f
<1>11. Sweeps(r, t.m, Accepted(t.m, accept), pri, d)
  BY <1>5, <1>9, <1>10 DEF Sweeps
<1> QED
  BY <1>6, <1>7, <1>8, <1>11 DEF Waves

(* A request is served by a match at its input or output of no lower priority. *)
Served(r, m, i, o) ==
  \E x \in Inputs, y \in Outputs : m.inm[x] = y /\ (x = i \/ y = o) /\ ~Higher(r[<<i, o>>], r[<<x, y>>])

(* Pairs of priorities are ordered.                                          *)
LEMMA HigherOrders ==
  ASSUME NEW P, P \subseteq Int \X Int
  PROVE  /\ \A a \in P : ~Higher(a, a)
         /\ \A a, b \in P : a = b \/ Higher(a, b) \/ Higher(b, a)
         /\ \A a, b \in P : ~(Higher(a, b) /\ Higher(b, a))
         /\ \A a, b, c \in P : Higher(a, b) /\ Higher(b, c) => Higher(a, c)
<1>1. \A a \in P : a[1] \in Int /\ a[2] \in Int /\ a = <<a[1], a[2]>>
  OBVIOUS
<1>2. \A a \in P : ~Higher(a, a)
  BY <1>1 DEF Higher
<1>3. ASSUME NEW a \in P, NEW b \in P
      PROVE  (a = b \/ Higher(a, b) \/ Higher(b, a)) /\ ~(Higher(a, b) /\ Higher(b, a))
  BY <1>1 DEF Higher
<1>4. \A a, b, c \in P : Higher(a, b) /\ Higher(b, c) => Higher(a, c)
  BY <1>1 DEF Higher
<1> QED
  BY <1>2, <1>3, <1>4

(* All requests of a priority above p, and those with p on one of the first e   *)
(* diagonals, are served by now, and no match has a lower priority than p.      *)
SweptTo(r, p, e) ==
  {t \in Waves(r) :
     /\ \A i \in Inputs, o \in Outputs : t.m.inm[i] = o => ~Higher(p, r[<<i, o>>])
     /\ \A i \in Inputs, o \in Outputs :
          /\ <<i, o>> \in DOMAIN r
          /\ \/ Higher(r[<<i, o>>], p)
             \/ r[<<i, o>>] = p /\ \E d \in 0 .. e - 1 : Diagonal(<<i, o>>) = (turn + d) % Square
          => Served(r, t.m, i, o)}

(* What is matched stays so when more is accepted.                           *)
LEMMA AcceptedKeeps ==
  ASSUME kind \in Kinds, NEW C, NEW m, NEW accept, Fits(accept, m, C), NEW i \in Inputs, NEW o \in Outputs
  PROVE  /\ m.inm[i] = o => Accepted(m, accept).inm[i] = o
         /\ Accepted(m, accept).inm[i] = o => m.inm[i] = o \/ (i \in DOMAIN accept /\ accept[i] = o)
         /\ i \in DOMAIN accept => accept[i] \in Outputs /\ Accepted(m, accept).inm[i] = accept[i]
<1>1. Accepted(m, accept).inm[i] = IF i \in DOMAIN accept THEN accept[i] ELSE m.inm[i]
  BY DEF Accepted
<1>2. i \in DOMAIN accept => m.inm[i] = Nobody /\ accept[i] \in Outputs
  BY DEF Fits
<1> QED
  BY <1>1, <1>2, Sizes

(* One more diagonal serves what asks there with the priority p.               *)
LEMMA WaveServes ==
  ASSUME kind \in Kinds, NEW r, Asking2(r), turn \in Nat, NEW p \in Priorities(r), NEW e \in Nat,
         NEW t \in SweptTo(r, p, e)
  PROVE  Wave(r, t, p, e) \in SweptTo(r, p, e + 1)
<1> DEFINE u == Wave(r, t, p, e)
<1>1. t \in Waves(r) /\ t.m \in Matchings(DOMAIN r)
  BY DEF SweptTo, Waves
<1>2. u \in Waves(r) /\ Sweeps(r, t.m, u.m, p, e)
  BY <1>1, WaveOK
<1> HIDE DEF u
<1>3. PICK accept : /\ Fits(accept, t.m, DOMAIN r) /\ u.m = Accepted(t.m, accept)
                    /\ \A i \in DOMAIN accept : r[<<i, accept[i]>>] = p
                    /\ \A i \in Inputs, o \in Outputs :
                         /\ <<i, o>> \in DOMAIN r /\ r[<<i, o>>] = p
                         /\ Diagonal(<<i, o>>) = (turn + e) % Square
                         => i \in DOMAIN accept \/ t.m.inm[i] # Nobody \/ t.m.outm[o] # Nobody
  BY <1>2 DEF Sweeps
<1>4. Priorities(r) \subseteq Int \X Int
  BY DEF Asking2, Priorities
<1>5. ~Higher(p, p)
  BY <1>4, HigherOrders
<1>6. \A i \in Inputs, o \in Outputs :
        /\ t.m.inm[i] = o => u.m.inm[i] = o
        /\ u.m.inm[i] = o => t.m.inm[i] = o \/ (i \in DOMAIN accept /\ accept[i] = o)
        /\ i \in DOMAIN accept => accept[i] \in Outputs /\ u.m.inm[i] = accept[i]
  BY <1>3, AcceptedKeeps
<1>7. ASSUME NEW i \in Inputs, NEW o \in Outputs, u.m.inm[i] = o
      PROVE  ~Higher(p, r[<<i, o>>])
  <2>1. CASE t.m.inm[i] = o
    BY <2>1 DEF SweptTo
  <2>2. CASE i \in DOMAIN accept /\ accept[i] = o
    BY <1>3, <1>5, <2>2
  <2> QED
    BY <1>6, <1>7, <2>1, <2>2
<1>8. \A i \in Inputs, o \in Outputs : Served(r, t.m, i, o) => Served(r, u.m, i, o)
  BY <1>6 DEF Served
<1>9. ASSUME NEW i \in Inputs, NEW o \in Outputs, <<i, o>> \in DOMAIN r, r[<<i, o>>] = p,
             Diagonal(<<i, o>>) = (turn + e) % Square
      PROVE  Served(r, u.m, i, o)
  <2>1. CASE i \in DOMAIN accept
    <3>1. accept[i] \in Outputs /\ u.m.inm[i] = accept[i] /\ r[<<i, accept[i]>>] = p
      BY <1>3, <1>6, <2>1
    <3> QED
      BY <1>5, <1>9, <3>1 DEF Served
  <2>2. CASE t.m.inm[i] # Nobody
    <3>1. t.m.inm[i] \in Outputs
      BY <1>1, <2>2 DEF Matchings
    <3>2. ~Higher(p, r[<<i, t.m.inm[i]>>])
      BY <3>1 DEF SweptTo
    <3> QED
      BY <1>6, <1>9, <3>1, <3>2 DEF Served
  <2>3. CASE t.m.outm[o] # Nobody
    <3>1. t.m.outm[o] \in Inputs /\ t.m.inm[t.m.outm[o]] = o
      <4>1. t.m.outm[o] \in Inputs
        BY <1>1, <2>3 DEF Matchings
      <4> QED
        BY <1>1, <4>1 DEF Matchings
    <3>2. ~Higher(p, r[<<t.m.outm[o], o>>])
      BY <3>1 DEF SweptTo
    <3> QED
      BY <1>6, <1>9, <3>1, <3>2 DEF Served
  <2> QED
    BY <1>3, <1>9, <2>1, <2>2, <2>3
<1>10. \A d \in 0 .. e + 1 - 1 : d = e \/ d \in 0 .. e - 1
  OBVIOUS
<1>11. ASSUME NEW i \in Inputs, NEW o \in Outputs, <<i, o>> \in DOMAIN r,
              \/ Higher(r[<<i, o>>], p)
              \/ r[<<i, o>>] = p /\ \E d \in 0 .. e + 1 - 1 : Diagonal(<<i, o>>) = (turn + d) % Square
       PROVE  Served(r, u.m, i, o)
  <2>1. CASE Higher(r[<<i, o>>], p)
    <3>1. Served(r, t.m, i, o)
      BY <1>11, <2>1 DEF SweptTo
    <3> QED
      BY <1>8, <3>1
  <2>2. CASE r[<<i, o>>] = p /\ \E d \in 0 .. e - 1 : Diagonal(<<i, o>>) = (turn + d) % Square
    <3>1. Served(r, t.m, i, o)
      BY <1>11, <2>2 DEF SweptTo
    <3> QED
      BY <1>8, <3>1
  <2> QED
    BY <1>9, <1>10, <1>11, <2>1, <2>2
<1>12. u \in SweptTo(r, p, e + 1)
  BY <1>2, <1>7, <1>11 DEF SweptTo
<1> QED
  BY <1>12 DEF u

(* All diagonals for one priority.                                          *)
Diagonals(r, t, pri) ==
  FoldLeft(LAMBDA u, d : Wave(r, u, pri, d - 1), t, [d \in 1 .. Square |-> d])

(* The diagonals for one priority.                                            *)
LEMMA DiagonalsThrough ==
  ASSUME NEW r, NEW u, NEW pri,
         Square \in Nat, NEW T, NEW W, Passes(W, T, u, Square),
         \A x \in 1 .. Square, t \in T : Wave(r, t, pri, x - 1) \in T,
         \A k \in 1 .. Square : \A t \in W[k - 1] : Wave(r, t, pri, k - 1) \in W[k]
  PROVE  Diagonals(r, u, pri) \in W[Square]
<1> DEFINE seq == [d \in 1 .. Square |-> d]
           D == DOMAIN seq
           base == u
           step == [c \in D \X T |-> Wave(r, c[2], pri, seq[c[1]] - 1)]
           R(g) == g = [s \in SUBSET D |-> IF s = {} THEN base
                                           ELSE Wave(r, g[s \ {Max(s)}], pri, seq[Max(s)] - 1)]
           h == CHOOSE g : R(g)
<1>1. Diagonals(r, u, pri) = h[D]
  BY DEF Diagonals, FoldLeft, MapThenFoldSet
<1>2. IsFiniteSet(D) /\ Ints(D) /\ Upto(D, Square)
  <2>1. Square \in Int /\ D = 1 .. Square
    OBVIOUS
  <2> HIDE DEF D
  <2> QED
    BY <2>1, FS_Interval DEF Ints, Upto
<1>3. base \in T /\ base \in W[0]
  <2>1. 0 \in 0 .. Square
    OBVIOUS
  <2> QED
    BY <2>1 DEF Passes
<1>4. step \in [D \X T -> T]
  <2> HIDE DEF base
  <2> QED
    OBVIOUS
<1>5. \A x \in D, t \in T : step[<<x, t>>] = Wave(r, t, pri, seq[x] - 1)
  OBVIOUS
<1>6. \A s \in SUBSET D : s # {} => Max(s) \in D
  <2> HIDE DEF D
  <2> QED
    BY <1>2, MaxOf
<1>7. Through(W, base, step, Square)
  <2>1. ASSUME NEW k \in 1 .. Square, NEW t \in W[k - 1]
        PROVE  step[<<k, t>>] \in W[k]
    <3>1. k - 1 \in 0 .. Square /\ k \in D
      OBVIOUS
    <3>2. t \in T
      BY <3>1 DEF Passes
    <3>3. step[<<k, t>>] = Wave(r, t, pri, k - 1)
      BY <1>5, <3>1, <3>2
    <3> HIDE DEF step
    <3> QED
      BY <3>3
  <2> HIDE DEF step, base
  <2> QED
    BY <1>3, <2>1 DEF Through
<1> HIDE DEF D, base, step, seq
<1>8. PICK g : Solves(g, base, step, D, T)
  BY <1>2, <1>3, <1>4, Foldable DEF Has
<1>9. R(g)
  <2>1. ASSUME NEW s \in SUBSET D, s # {}
        PROVE  g[s] = Wave(r, g[s \ {Max(s)}], pri, seq[Max(s)] - 1)
    <3>1. g[s] = step[<<Max(s), g[s \ {Max(s)}]>>]
      BY <1>8, <2>1, UnfoldsAt DEF Solves
    <3>2. Max(s) \in D /\ g[s \ {Max(s)}] \in T
      BY <1>6, <1>8, <2>1 DEF Solves
    <3> QED
      BY <1>5, <3>1, <3>2
  <2>2. g[{}] = base
    BY <1>8, UnfoldsNone DEF Solves
  <2>3. g = [s \in SUBSET D |-> g[s]]
    BY <1>8 DEF Solves
  <2> QED
    BY <2>1, <2>2, <2>3
<1>10. R(h)
  <2> HIDE DEF R
  <2> QED
    BY <1>9
<1>11. Follows(h, base, step, D, T)
  <2> HIDE DEF h
  <2>1. h[{}] = base
    BY <1>10
  <2>2. \A s \in SUBSET D : s # {} => h[s] = Wave(r, h[s \ {Max(s)}], pri, seq[Max(s)] - 1)
    BY <1>10
  <2> QED
    BY <1>5, <1>6, <2>1, <2>2 DEF Follows
<1> HIDE DEF h
<1>12. h[D] = g[D]
  BY <1>2, <1>8, <1>11, FoldFollows
<1>13. g[D] \in W[Square]
  BY <1>2, <1>7, <1>8, FoldThrough DEF Solves
<1> QED
  BY <1>1, <1>12, <1>13

(* Every diagonal is swept, from that whose turn it is on.                    *)
LEMMA EveryDiagonal ==
  ASSUME kind \in Kinds, turn \in Ports(Square), NEW i \in Inputs, NEW o \in Outputs
  PROVE  \E d \in 0 .. Square - 1 : Diagonal(<<i, o>>) = (turn + d) % Square
<1> DEFINE x == (i + o) % Square
           d == IF x >= turn THEN x - turn ELSE x - turn + Square
<1>1. Square \in Nat \ {0} /\ turn \in 0 .. Square - 1
  BY SquareIs DEF Ports
<1>2. x \in 0 .. Square - 1
  <2>1. i + o \in Nat
    BY Sizes
  <2> QED
    BY <1>1, <2>1, Z3
<1> HIDE DEF x
<1>3. d \in 0 .. Square - 1 /\ (turn + d = x \/ turn + d = Square + x)
  BY <1>1, <1>2
<1> HIDE DEF d
<1>4. (turn + d) % Square = x
  <2>1. x % Square = x /\ (Square + x) % Square = x
    BY <1>1, <1>2, Z3
  <2> QED
    BY <1>3, <2>1
<1> QED
  BY <1>3, <1>4 DEF Diagonal, x

(* All diagonals leave a matching, and all requests of the priority served.   *)
LEMMA DiagonalsOK ==
  ASSUME kind \in Kinds, NEW r, Asking2(r), turn \in Nat, NEW p \in Priorities(r), NEW t \in SweptTo(r, p, 0)
  PROVE  Diagonals(r, t, p) \in SweptTo(r, p, Square)
<1> DEFINE W == [e \in 0 .. Square |-> SweptTo(r, p, e)]
<1>1. Square \in Nat \ {0}
  BY SquareIs
<1>2. Passes(W, Waves(r), t, Square)
  BY <1>1 DEF Passes, SweptTo
<1>3. \A x \in 1 .. Square, u \in Waves(r) : Wave(r, u, p, x - 1) \in Waves(r)
  BY <1>1, WaveOK
<1>4. ASSUME NEW k \in 1 .. Square, NEW u \in W[k - 1]
      PROVE  Wave(r, u, p, k - 1) \in W[k]
  <2>1. k - 1 \in Nat /\ k - 1 \in 0 .. Square /\ k - 1 + 1 = k /\ k \in 0 .. Square
    BY <1>1
  <2>2. Wave(r, u, p, k - 1) \in SweptTo(r, p, k - 1 + 1)
    BY <2>1, WaveServes
  <2> QED
    BY <2>1, <2>2
<1> HIDE DEF W
<1>5. Diagonals(r, t, p) \in W[Square]
  BY <1>1, <1>2, <1>3, <1>4, DiagonalsThrough
<1> QED
  BY <1>1, <1>5 DEF W

(* Any wavefront stays one.                                                  *)
LEMMA DiagonalsWaves ==
  ASSUME kind \in Kinds, NEW r, Asking2(r), turn \in Nat, NEW t \in Waves(r), NEW p
  PROVE  Diagonals(r, t, p) \in Waves(r)
<1> DEFINE W == [e \in 0 .. Square |-> Waves(r)]
<1>1. Square \in Nat \ {0}
  BY SquareIs
<1>2. Passes(W, Waves(r), t, Square)
  BY <1>1 DEF Passes
<1>3. \A x \in 1 .. Square, u \in Waves(r) : Wave(r, u, p, x - 1) \in Waves(r)
  BY <1>1, WaveOK
<1>4. \A x \in 1 .. Square : W[x - 1] = Waves(r) /\ W[x] = Waves(r)
  BY <1>1
<1> HIDE DEF W
<1>5. Diagonals(r, t, p) \in W[Square]
  BY <1>1, <1>2, <1>3, <1>4, DiagonalsThrough
<1> QED
  BY <1>1, <1>4, <1>5

(* The priorities from the highest.                                           *)
LEMMA WavefrontThrough ==
  ASSUME NEW r, NEW q, q = Descending(r), DOMAIN q = 1 .. Cardinality(Priorities(r)),
         Cardinality(Priorities(r)) \in Nat, NEW T, NEW W, Passes(W, T, [m |-> NoMatch, first |-> Nobody], Cardinality(Priorities(r))),
         \A x \in 1 .. Cardinality(Priorities(r)), t \in T : Diagonals(r, t, q[x]) \in T,
         \A k \in 1 .. Cardinality(Priorities(r)) : \A t \in W[k - 1] : Diagonals(r, t, q[k]) \in W[k]
  PROVE  Wavefront(r) \in W[Cardinality(Priorities(r))]
<1> DEFINE seq == q
           D == DOMAIN seq
           base == [m |-> NoMatch, first |-> Nobody]
           step == [c \in D \X T |-> Diagonals(r, c[2], seq[c[1]])]
           R(g) == g = [s \in SUBSET D |-> IF s = {} THEN base
                                           ELSE Diagonals(r, g[s \ {Max(s)}], seq[Max(s)])]
           h == CHOOSE g : R(g)
<1>1. Wavefront(r) = h[D]
  BY DEF Wavefront, Diagonals, FoldLeft, MapThenFoldSet
<1>2. IsFiniteSet(D) /\ Ints(D) /\ Upto(D, Cardinality(Priorities(r)))
  <2>1. Cardinality(Priorities(r)) \in Int /\ D = 1 .. Cardinality(Priorities(r))
    OBVIOUS
  <2> HIDE DEF D
  <2> QED
    BY <2>1, FS_Interval DEF Ints, Upto
<1>3. base \in T /\ base \in W[0]
  <2>1. 0 \in 0 .. Cardinality(Priorities(r))
    OBVIOUS
  <2> QED
    BY <2>1 DEF Passes
<1>4. step \in [D \X T -> T]
  <2> HIDE DEF base
  <2> QED
    OBVIOUS
<1>5. \A x \in D, t \in T : step[<<x, t>>] = Diagonals(r, t, seq[x])
  OBVIOUS
<1>6. \A s \in SUBSET D : s # {} => Max(s) \in D
  <2> HIDE DEF D
  <2> QED
    BY <1>2, MaxOf
<1>7. Through(W, base, step, Cardinality(Priorities(r)))
  <2>1. ASSUME NEW k \in 1 .. Cardinality(Priorities(r)), NEW t \in W[k - 1]
        PROVE  step[<<k, t>>] \in W[k]
    <3>1. k - 1 \in 0 .. Cardinality(Priorities(r)) /\ k \in D
      OBVIOUS
    <3>2. t \in T
      BY <3>1 DEF Passes
    <3>3. step[<<k, t>>] = Diagonals(r, t, q[k])
      BY <1>5, <3>1, <3>2
    <3> HIDE DEF step
    <3> QED
      BY <3>3
  <2> HIDE DEF step, base
  <2> QED
    BY <1>3, <2>1 DEF Through
<1> HIDE DEF D, base, step, seq
<1>8. PICK g : Solves(g, base, step, D, T)
  BY <1>2, <1>3, <1>4, Foldable DEF Has
<1>9. R(g)
  <2>1. ASSUME NEW s \in SUBSET D, s # {}
        PROVE  g[s] = Diagonals(r, g[s \ {Max(s)}], seq[Max(s)])
    <3>1. g[s] = step[<<Max(s), g[s \ {Max(s)}]>>]
      BY <1>8, <2>1, UnfoldsAt DEF Solves
    <3>2. Max(s) \in D /\ g[s \ {Max(s)}] \in T
      BY <1>6, <1>8, <2>1 DEF Solves
    <3> QED
      BY <1>5, <3>1, <3>2
  <2>2. g[{}] = base
    BY <1>8, UnfoldsNone DEF Solves
  <2>3. g = [s \in SUBSET D |-> g[s]]
    BY <1>8 DEF Solves
  <2> QED
    BY <2>1, <2>2, <2>3
<1>10. R(h)
  <2> HIDE DEF R
  <2> QED
    BY <1>9
<1>11. Follows(h, base, step, D, T)
  <2> HIDE DEF h
  <2>1. h[{}] = base
    BY <1>10
  <2>2. \A s \in SUBSET D : s # {} => h[s] = Diagonals(r, h[s \ {Max(s)}], seq[Max(s)])
    BY <1>10
  <2> QED
    BY <1>5, <1>6, <2>1, <2>2 DEF Follows
<1> HIDE DEF h
<1>12. h[D] = g[D]
  BY <1>2, <1>8, <1>11, FoldFollows
<1>13. g[D] \in W[Cardinality(Priorities(r))]
  BY <1>2, <1>7, <1>8, FoldThrough DEF Solves
<1> QED
  BY <1>1, <1>12, <1>13

(* Descending lists all priorities, from the highest.                        *)
LEMMA DescendingLists ==
  ASSUME kind \in Kinds, NEW r, Asking2(r), NEW n, n = Cardinality(Priorities(r))
  PROVE  /\ n \in Nat /\ \A k \in 1 .. n : Descending(r)[k] \in Priorities(r)
         /\ \A p \in Priorities(r) : \E k \in 1 .. n : Descending(r)[k] = p
         /\ \A j, k \in 1 .. n : j < k => Higher(Descending(r)[j], Descending(r)[k])
<1> DEFINE P == Priorities(r)
           above(p) == {q \in P : Higher(q, p)}
           rank == [p \in P |-> Cardinality(above(p))]
<1>1. P \subseteq Int \X Int
  BY DEF Asking2, Priorities
<1>2. IsFiniteSet(P)
  <2>1. IsFiniteSet(Inputs \X Outputs)
    BY Sizes, FS_Product
  <2>2. IsFiniteSet(DOMAIN r)
    BY <2>1, FS_Subset DEF Asking2
  <2> DEFINE f == [c \in DOMAIN r |-> r[c]]
  <2>3. f \in Surjection(DOMAIN r, Priorities(r))
    BY DEF Surjection, Priorities
  <2> HIDE DEF f
  <2> QED
    BY <2>2, <2>3, FS_Surjection
<1>3. n \in Nat
  BY <1>2, FS_CardinalityType
<1>4. \A p \in P : IsFiniteSet(above(p)) /\ Cardinality(above(p)) \in Nat
  <2>1. \A p \in P : above(p) \in SUBSET P
    OBVIOUS
  <2> HIDE DEF above
  <2> QED
    BY <1>2, <2>1, FS_Subset, FS_CardinalityType
<1>5. ASSUME NEW p \in P, NEW q \in P, Higher(p, q)
      PROVE  rank[p] < rank[q]
  <2>1. above(p) \in SUBSET above(q) /\ p \in above(q) /\ p \notin above(p)
    BY <1>1, <1>5, HigherOrders
  <2> HIDE DEF above
  <2>2. Cardinality(above(p)) <= Cardinality(above(q)) /\ Cardinality(above(p)) # Cardinality(above(q))
    BY <1>4, <2>1, FS_Subset
  <2> QED
    BY <1>4, <2>2
<1>6. \A p \in P : rank[p] \in 0 .. n - 1
  <2>1. ASSUME NEW p \in P PROVE rank[p] \in 0 .. n - 1
    <3>1. above(p) \in SUBSET P /\ p \notin above(p)
      BY <1>1, HigherOrders
    <3> HIDE DEF above
    <3>2. Cardinality(above(p)) <= n /\ Cardinality(above(p)) # n
      BY <1>2, <3>1, FS_Subset
    <3> QED
      BY <1>3, <1>4, <3>2
  <2> QED
    BY <2>1
<1>7. \A p, q \in P : rank[p] = rank[q] => p = q
  <2>1. \A p \in P : rank[p] \in Int
    BY <1>3, <1>6
  <2> HIDE DEF rank
  <2> QED
    BY <1>1, <1>5, <2>1, HigherOrders
<1>8. \A k \in 0 .. n - 1 : \E p \in P : rank[p] = k
  <2>1. rank \in Injection(P, 0 .. n - 1)
    <3>1. rank \in [P -> 0 .. n - 1]
      BY <1>6
    <3>2. IsInjective(rank)
      BY <1>7 DEF IsInjective
    <3> QED
      BY <3>1, <3>2 DEF Injection
  <2>2. IsFiniteSet(0 .. n - 1) /\ Cardinality(0 .. n - 1) = n
    <3>1. 0 \in Int /\ n - 1 \in Int
      BY <1>3
    <3>2. Cardinality(0 .. n - 1) = IF 0 > n - 1 THEN 0 ELSE n - 1 - 0 + 1
      BY <3>1, FS_Interval
    <3> QED
      BY <1>3, <3>1, <3>2, FS_Interval
  <2> HIDE DEF rank, P
  <2>3. rank \in Surjection(P, 0 .. n - 1)
    BY <2>1, <2>2, FS_Injection DEF P
  <2> QED
    BY <2>3 DEF Surjection
<1>9. \A k \in 1 .. n : Descending(r)[k] \in P /\ rank[Descending(r)[k]] = k - 1
  <2>1. ASSUME NEW k \in 1 .. n
        PROVE  Descending(r)[k] \in P /\ rank[Descending(r)[k]] = k - 1
    <3>1. Descending(r)[k] = CHOOSE p \in P : Cardinality(above(p)) = k - 1
      BY DEF Descending
    <3>2. k - 1 \in 0 .. n - 1
      BY <1>3
    <3>3. \E p \in P : Cardinality(above(p)) = k - 1
      BY <1>8, <3>2
    <3> HIDE DEF above, P
    <3> QED
      BY <3>1, <3>3
  <2> QED
    BY <2>1
<1>10. ASSUME NEW p \in P PROVE \E k \in 1 .. n : Descending(r)[k] = p
  <2>1. rank[p] \in 0 .. n - 1
    BY <1>6
  <2> HIDE DEF rank, P
  <2> DEFINE k == rank[p] + 1
  <2>2. k \in 1 .. n /\ k - 1 = rank[p]
    BY <1>3, <2>1
  <2> HIDE DEF k
  <2>3. Descending(r)[k] \in P /\ rank[Descending(r)[k]] = rank[p]
    BY <1>9, <2>2
  <2> QED
    BY <1>7, <2>2, <2>3
<1>11. ASSUME NEW j \in 1 .. n, NEW k \in 1 .. n, j < k
       PROVE  Higher(Descending(r)[j], Descending(r)[k])
  <2> DEFINE a == Descending(r)[j]
             b == Descending(r)[k]
  <2>1. a \in P /\ b \in P /\ rank[a] = j - 1 /\ rank[b] = k - 1
    BY <1>9
  <2> HIDE DEF a, b, rank, P
  <2>2. ~(rank[b] < rank[a]) /\ rank[a] # rank[b]
    BY <1>3, <1>11, <2>1
  <2>3. Higher(a, b) \/ Higher(b, a)
    BY <1>1, <2>1, <2>2, HigherOrders
  <2> QED
    BY <1>5, <2>1, <2>2, <2>3 DEF a, b
<1> QED
  BY <1>3, <1>9, <1>10, <1>11

(* After k priorities q all requests that have one of them are served, and all  *)
(* matches have one of them.                                                *)
SweptBy(r, q, k) ==
  {t \in Waves(r) :
     /\ \A i \in Inputs, o \in Outputs : t.m.inm[i] = o => \E j \in 1 .. k : r[<<i, o>>] = q[j]
     /\ \A i \in Inputs, o \in Outputs :
          <<i, o>> \in DOMAIN r /\ (\E j \in 1 .. k : r[<<i, o>>] = q[j]) => Served(r, t.m, i, o)}

(* A wavefront leaves a matching, for all its priorities, and serves every     *)
(* request.                                                                *)
LEMMA WavefrontOK ==
  ASSUME kind \in Kinds, NEW r, Asking2(r), turn \in Ports(Square)
  PROVE  /\ Wavefront(r) \in Waves(r)
         /\ \A i \in Inputs, o \in Outputs :
              <<i, o>> \in DOMAIN r => Served(r, Wavefront(r).m, i, o)
<1> DEFINE n == Cardinality(Priorities(r))
           q == Descending(r)
           base == [m |-> NoMatch, first |-> Nobody]
           W == [k \in 0 .. n |-> SweptBy(r, q, k)]
<1>0. turn \in Nat
  BY DEF Ports
<1>1. DOMAIN q = 1 .. n
  BY DEF Descending
<1>2. /\ n \in Nat /\ \A k \in 1 .. n : q[k] \in Priorities(r)
      /\ \A p \in Priorities(r) : \E k \in 1 .. n : q[k] = p
      /\ \A j, k \in 1 .. n : j < k => Higher(q[j], q[k])
  BY DescendingLists
<1>3. Priorities(r) \subseteq Int \X Int
  BY DEF Asking2, Priorities
<1>4. \A i \in Inputs, o \in Outputs : <<i, o>> \in DOMAIN r => r[<<i, o>>] \in Priorities(r)
  BY DEF Priorities
<1> HIDE DEF n, q
<1>5. base \in SweptBy(r, q, 0)
  <2>1. base \in Waves(r)
    BY NoMatchOK DEF Waves
  <2>2. \A i \in Inputs, o \in Outputs : base.m.inm[i] # o
    BY Sizes DEF NoMatch, Free, Inputs
  <2> HIDE DEF base
  <2> QED
    BY <2>1, <2>2 DEF SweptBy
<1>6. Passes(W, Waves(r), base, n)
  BY <1>2, <1>5 DEF Passes, SweptBy
<1>7. ASSUME NEW k \in 1 .. n, NEW t \in SweptBy(r, q, k - 1)
      PROVE  Diagonals(r, t, q[k]) \in SweptBy(r, q, k)
  <2> DEFINE p == q[k]
             u == Diagonals(r, t, p)
  <2>1. p \in Priorities(r)
    BY <1>2
  <2>2. \A j \in 1 .. k - 1 : j \in 1 .. n /\ j \in 1 .. k /\ Higher(q[j], p) /\ ~Higher(p, q[j])
    <3>1. \A j \in 1 .. k - 1 : j \in 1 .. n /\ j \in 1 .. k /\ j < k
      BY <1>2
    <3>2. \A j \in 1 .. k - 1 : Higher(q[j], p) /\ q[j] \in Priorities(r)
      BY <1>2, <3>1
    <3> HIDE DEF p
    <3> QED
      BY <1>3, <2>1, <3>1, <3>2, HigherOrders
  <2>3. \A x \in Priorities(r) : ~Higher(p, x) => \E j \in 1 .. k : x = q[j]
    <3>1. ASSUME NEW x \in Priorities(r), ~Higher(p, x)
          PROVE  \E j \in 1 .. k : x = q[j]
      <4>1. PICK j \in 1 .. n : q[j] = x
        BY <1>2
      <4>2. ~(k < j)
        BY <1>2, <3>1, <4>1
      <4>3. j \in 1 .. k
        BY <1>2, <4>2
      <4> QED
        BY <4>1, <4>3
    <3> QED
      BY <3>1
  <2>4. \A x \in Priorities(r) : Higher(x, p) => \E j \in 1 .. k - 1 : x = q[j]
    <3>1. ASSUME NEW x \in Priorities(r), Higher(x, p)
          PROVE  \E j \in 1 .. k - 1 : x = q[j]
      <4>1. ~Higher(p, x) /\ x # p
        BY <1>3, <2>1, <3>1, HigherOrders
      <4>2. PICK j \in 1 .. k : x = q[j]
        BY <2>3, <4>1
      <4>3. j # k
        BY <4>1, <4>2
      <4> QED
        BY <1>2, <4>2, <4>3
    <3> QED
      BY <3>1
  <2> HIDE DEF p
  <2>5. t \in SweptTo(r, p, 0)
    <3>1. t \in Waves(r)
      BY <1>7 DEF SweptBy
    <3>2. \A i \in Inputs, o \in Outputs : t.m.inm[i] = o => ~Higher(p, r[<<i, o>>])
      BY <2>2 DEF SweptBy
    <3>3. \A i \in Inputs, o \in Outputs :
            <<i, o>> \in DOMAIN r /\ Higher(r[<<i, o>>], p) => Served(r, t.m, i, o)
      BY <1>4, <2>4 DEF SweptBy
    <3>4. \A d : d \notin 0 .. 0 - 1
      OBVIOUS
    <3> QED
      BY <3>1, <3>2, <3>3, <3>4 DEF SweptTo
  <2>6. u \in SweptTo(r, p, Square)
    BY <1>0, <2>1, <2>5, DiagonalsOK
  <2> HIDE DEF u
  <2>7. u \in Waves(r) /\ u.m \in Matchings(DOMAIN r)
    BY <2>6 DEF SweptTo, Waves
  <2>8. ASSUME NEW i \in Inputs, NEW o \in Outputs, u.m.inm[i] = o
        PROVE  \E j \in 1 .. k : r[<<i, o>>] = q[j]
    <3>1. <<i, o>> \in DOMAIN r
      BY <2>7, <2>8 DEF Matchings
    <3>2. ~Higher(p, r[<<i, o>>])
      BY <2>6, <2>8 DEF SweptTo
    <3> QED
      BY <1>4, <2>3, <3>1, <3>2
  <2>9. ASSUME NEW i \in Inputs, NEW o \in Outputs, <<i, o>> \in DOMAIN r, NEW j \in 1 .. k, r[<<i, o>>] = q[j]
        PROVE  Served(r, u.m, i, o)
    <3>1. j = k \/ j \in 1 .. k - 1
      BY <1>2
    <3>2. r[<<i, o>>] = p \/ Higher(r[<<i, o>>], p)
      BY <2>2, <2>9, <3>1 DEF p
    <3>3. \E d \in 0 .. Square - 1 : Diagonal(<<i, o>>) = (turn + d) % Square
      BY EveryDiagonal
    <3> QED
      BY <2>6, <2>9, <3>2, <3>3 DEF SweptTo
  <2>10. u \in SweptBy(r, q, k)
    BY <2>7, <2>8, <2>9 DEF SweptBy
  <2> QED
    BY <2>10 DEF u, p
<1>8. ASSUME NEW k \in 1 .. n, NEW t \in W[k - 1]
      PROVE  Diagonals(r, t, q[k]) \in W[k]
  <2>1. k - 1 \in 0 .. n /\ k \in 0 .. n
    BY <1>2
  <2> QED
    BY <1>7, <2>1
<1> HIDE DEF W
<1>9. \A x \in 1 .. n, t \in Waves(r) : Diagonals(r, t, q[x]) \in Waves(r)
  BY <1>0, <1>2, DiagonalsWaves
<1>10. Wavefront(r) \in W[n]
  BY <1>1, <1>2, <1>6, <1>8, <1>9, WavefrontThrough DEF n, q
<1>11. Wavefront(r) \in SweptBy(r, q, n)
  BY <1>2, <1>10 DEF W
<1> QED
  BY <1>2, <1>4, <1>11 DEF SweptBy

-----------------------------------------------------------------------------
(* A search of augmenting paths.  An input is in the tree when it is unmatched *)
(* or its output was reached; dep is the layer an output was reached in, and    *)
(* Lev that of the output of an input.                                      *)
InTree(m, from, i) == m.inm[i] = Nobody \/ from[m.inm[i]] # Nobody
Lev(m, dep, i) == IF m.inm[i] = Nobody THEN 0 ELSE dep[m.inm[i]]

(* Outputs are reached from inputs of the tree that ask them, of a lower layer *)
(* and none above a; the inputs of this layer are in the tree, none above b,   *)
(* and those of the next none above a.                                     *)
Reached(r, m, s, dep, a, b) ==
  /\ \A j \in Outputs : s.from[j] # Nobody =>
       /\ <<s.from[j], j>> \in DOMAIN r /\ InTree(m, s.from, s.from[j])
       /\ Lev(m, dep, s.from[j]) < dep[j] /\ dep[j] <= a
  /\ \A x \in DOMAIN s.layer : InTree(m, s.from, s.layer[x]) /\ Lev(m, dep, s.layer[x]) <= b
  /\ \A x \in DOMAIN s.next : InTree(m, s.from, s.next[x]) /\ Lev(m, dep, s.next[x]) <= a
  /\ s.end # Nobody => s.from[s.end] # Nobody /\ m.outm[s.end] = Nobody

(* Searches, and those in which outputs of layers up to a were reached, from    *)
(* inputs of layers up to b.                                                 *)
Searches == [layer : Seq(Inputs), next : Seq(Inputs), from : [Outputs -> Inputs \cup {Nobody}],
             end : Outputs \cup {Nobody}]
Bounded(r, m, a, b) ==
  {s \in Searches : \E dep \in [Outputs -> Nat] : Reached(r, m, s, dep, a, b)}

(* Looking at an output from an input of this layer keeps what was reached.  *)
LEMMA LookOK ==
  ASSUME kind \in Kinds, NEW r, Asking2(r), NEW m \in Matchings(DOMAIN r), NEW k \in Nat,
         NEW s \in Bounded(r, m, k + 1, k), NEW x \in DOMAIN s.layer, NEW j \in Outputs
  PROVE  /\ Look(r, m, s, s.layer[x], j) \in Bounded(r, m, k + 1, k)
         /\ Look(r, m, s, s.layer[x], j).layer = s.layer
<1> DEFINE i == s.layer[x]
           u == Look(r, m, s, i, j)
<1>1. CASE s.end # Nobody \/ <<i, j>> \notin DOMAIN r \/ m.inm[i] = j \/ s.from[j] # Nobody
  BY <1>1 DEF Look
<1>2. CASE ~(s.end # Nobody \/ <<i, j>> \notin DOMAIN r \/ m.inm[i] = j \/ s.from[j] # Nobody)
  <2>1. s \in Searches
    BY DEF Bounded
  <2>2. PICK dep \in [Outputs -> Nat] : Reached(r, m, s, dep, k + 1, k)
    BY DEF Bounded
  <2>3. s.end = Nobody /\ <<i, j>> \in DOMAIN r /\ m.inm[i] # j /\ s.from[j] = Nobody /\ i \in Inputs
    BY <1>2, <2>1 DEF Searches
  <2>4. /\ m.inm \in [Inputs -> Outputs \cup {Nobody}] /\ m.outm \in [Outputs -> Inputs \cup {Nobody}]
        /\ \A y \in Inputs, o \in Outputs : m.inm[y] = o <=> m.outm[o] = y
    BY DEF Matchings
  <2> DEFINE free == m.outm[j] = Nobody
             from2 == [s.from EXCEPT ![j] = i]
             next2 == IF free THEN s.next ELSE Append(s.next, m.outm[j])
             end2 == IF free THEN j ELSE s.end
             dep2 == [dep EXCEPT ![j] = k + 1]
             v == [layer |-> s.layer, next |-> next2, from |-> from2, end |-> end2]
  <2>5. u = v
    <3>1. s = [layer |-> s.layer, next |-> s.next, from |-> s.from, end |-> s.end]
      BY <2>1 DEF Searches
    <3>2. u = [s EXCEPT !.from = from2, !.end = end2, !.next = next2]
      BY <1>2 DEF Look
    <3> HIDE DEF from2, next2, end2
    <3> QED
      BY <3>1, <3>2
  <2>6. /\ from2 \in [Outputs -> Inputs \cup {Nobody}] /\ dep2 \in [Outputs -> Nat]
        /\ end2 \in Outputs \cup {Nobody}
    BY <2>1, <2>3 DEF Searches
  <2>7. next2 \in Seq(Inputs)
    <3>1. s.next \in Seq(Inputs) /\ (~free => m.outm[j] \in Inputs)
      BY <2>1, <2>4 DEF Searches
    <3> HIDE DEF free
    <3> QED
      BY <3>1
  <2>8. v \in Searches
    <3>1. s.layer \in Seq(Inputs)
      BY <2>1 DEF Searches
    <3> HIDE DEF next2, from2, end2
    <3> QED
      BY <2>6, <2>7, <3>1 DEF Searches
  <2>9. ASSUME NEW y \in Inputs, InTree(m, s.from, y)
        PROVE  InTree(m, from2, y) /\ Lev(m, dep2, y) = Lev(m, dep, y)
    <3>1. m.inm[y] # j
      BY <2>3, <2>9, Sizes DEF InTree
    <3>2. m.inm[y] # Nobody => m.inm[y] \in Outputs
      BY <2>4
    <3>3. m.inm[y] # Nobody => from2[m.inm[y]] = s.from[m.inm[y]] /\ dep2[m.inm[y]] = dep[m.inm[y]]
      BY <2>1, <3>1, <3>2 DEF Searches
    <3> QED
      BY <2>9, <3>3 DEF InTree, Lev
  <2>10. InTree(m, s.from, i) /\ Lev(m, dep, i) <= k /\ Lev(m, dep, i) \in Nat
    <3>1. InTree(m, s.from, i) /\ Lev(m, dep, i) <= k
      BY <2>2 DEF Reached
    <3>2. Lev(m, dep, i) \in Nat
      BY <2>3, <2>4 DEF Lev
    <3> QED
      BY <3>1, <3>2
  <2>11. ASSUME NEW o \in Outputs, from2[o] # Nobody
         PROVE  /\ <<from2[o], o>> \in DOMAIN r /\ InTree(m, from2, from2[o])
                /\ Lev(m, dep2, from2[o]) < dep2[o] /\ dep2[o] <= k + 1
    <3>1. CASE o = j
      <4>1. from2[o] = i /\ dep2[o] = k + 1
        BY <2>1, <3>1 DEF Searches
      <4>2. InTree(m, from2, i) /\ Lev(m, dep2, i) = Lev(m, dep, i)
        BY <2>3, <2>9, <2>10
      <4> HIDE DEF from2, dep2
      <4> QED
        BY <2>3, <2>10, <3>1, <4>1, <4>2
    <3>2. CASE o # j
      <4>1. from2[o] = s.from[o] /\ dep2[o] = dep[o]
        BY <2>1, <3>2 DEF Searches
      <4>2. /\ <<s.from[o], o>> \in DOMAIN r /\ InTree(m, s.from, s.from[o])
            /\ Lev(m, dep, s.from[o]) < dep[o] /\ dep[o] <= k + 1
        BY <2>2, <2>11, <4>1 DEF Reached
      <4>3. s.from[o] \in Inputs
        BY <4>2 DEF Asking2
      <4>4. InTree(m, from2, s.from[o]) /\ Lev(m, dep2, s.from[o]) = Lev(m, dep, s.from[o])
        BY <2>9, <4>2, <4>3
      <4> HIDE DEF from2, dep2
      <4> QED
        BY <4>1, <4>2, <4>4
    <3> QED
      BY <3>1, <3>2
  <2>12. ASSUME NEW y \in DOMAIN s.layer
         PROVE  InTree(m, from2, s.layer[y]) /\ Lev(m, dep2, s.layer[y]) <= k
    <3>1. s.layer[y] \in Inputs
      BY <2>1 DEF Searches
    <3>2. InTree(m, s.from, s.layer[y]) /\ Lev(m, dep, s.layer[y]) <= k
      BY <2>2 DEF Reached
    <3> HIDE DEF from2, dep2
    <3> QED
      BY <2>9, <3>1, <3>2
  <2>13. ASSUME NEW y \in DOMAIN next2
         PROVE  InTree(m, from2, next2[y]) /\ Lev(m, dep2, next2[y]) <= k + 1
    <3>1. CASE y \in DOMAIN s.next /\ next2[y] = s.next[y]
      <4>1. s.next[y] \in Inputs
        BY <2>1, <3>1 DEF Searches
      <4>2. InTree(m, s.from, s.next[y]) /\ Lev(m, dep, s.next[y]) <= k + 1
        BY <2>2, <3>1 DEF Reached
      <4> HIDE DEF from2, dep2, next2
      <4> QED
        BY <2>9, <3>1, <4>1, <4>2
    <3>2. CASE ~free /\ next2[y] = m.outm[j]
      <4> DEFINE z == m.outm[j]
      <4>1. z \in Inputs /\ m.inm[z] = j
        BY <2>4, <3>2
      <4>2. from2[j] = i /\ dep2[j] = k + 1 /\ i # Nobody /\ j # Nobody
        BY <2>1, <2>3, Sizes DEF Searches
      <4> HIDE DEF z, from2, dep2, next2
      <4>3. InTree(m, from2, z) /\ Lev(m, dep2, z) = k + 1
        BY <4>1, <4>2 DEF InTree, Lev
      <4> QED
        BY <3>2, <4>3 DEF z
    <3>3. (y \in DOMAIN s.next /\ next2[y] = s.next[y]) \/ (~free /\ next2[y] = m.outm[j])
      <4>1. s.next \in Seq(Inputs) /\ (~free => m.outm[j] \in Inputs)
        BY <2>1, <2>4 DEF Searches
      <4> HIDE DEF free
      <4> QED
        BY <4>1
    <3> QED
      BY <3>1, <3>2, <3>3
  <2>14. end2 # Nobody => from2[end2] # Nobody /\ m.outm[end2] = Nobody
    <3>1. from2[j] # Nobody
      BY <2>1, <2>3, Sizes DEF Searches
    <3> HIDE DEF from2
    <3> QED
      BY <2>3, <3>1
  <2>15. Reached(r, m, v, dep2, k + 1, k)
    <3> HIDE DEF from2, dep2, next2, end2, i
    <3>1. v.layer = s.layer /\ v.next = next2 /\ v.from = from2 /\ v.end = end2
      OBVIOUS
    <3> HIDE DEF v
    <3> QED
      BY <2>11, <2>12, <2>13, <2>14, <3>1 DEF Reached
  <2>16. v.layer = s.layer
    OBVIOUS
  <2> HIDE DEF v, u, dep2, i
  <2> QED
    BY <2>5, <2>6, <2>8, <2>15, <2>16 DEF Bounded, u, i
<1> QED
  BY <1>1, <1>2

(* All outputs are looked at from one input.                                 *)
LookAll(r, m, u, i) == FoldLeft(LAMBDA w, j : Look(r, m, w, i, j - 1), u, [j \in 1 .. NO |-> j])

(* The outputs one after the other.                                           *)
LEMMA LookAllThrough ==
  ASSUME NEW r, NEW m, NEW u, NEW i,
         NO \in Nat, NEW T, NEW W, Passes(W, T, u, NO),
         \A x \in 1 .. NO, t \in T : Look(r, m, t, i, x - 1) \in T,
         \A k \in 1 .. NO : \A t \in W[k - 1] : Look(r, m, t, i, k - 1) \in W[k]
  PROVE  LookAll(r, m, u, i) \in W[NO]
<1> DEFINE seq == [j \in 1 .. NO |-> j]
           D == DOMAIN seq
           base == u
           step == [c \in D \X T |-> Look(r, m, c[2], i, seq[c[1]] - 1)]
           R(g) == g = [s \in SUBSET D |-> IF s = {} THEN base
                                           ELSE Look(r, m, g[s \ {Max(s)}], i, seq[Max(s)] - 1)]
           h == CHOOSE g : R(g)
<1>1. LookAll(r, m, u, i) = h[D]
  BY DEF LookAll, FoldLeft, MapThenFoldSet
<1>2. IsFiniteSet(D) /\ Ints(D) /\ Upto(D, NO)
  <2>1. NO \in Int /\ D = 1 .. NO
    OBVIOUS
  <2> HIDE DEF D
  <2> QED
    BY <2>1, FS_Interval DEF Ints, Upto
<1>3. base \in T /\ base \in W[0]
  <2>1. 0 \in 0 .. NO
    OBVIOUS
  <2> QED
    BY <2>1 DEF Passes
<1>4. step \in [D \X T -> T]
  <2> HIDE DEF base
  <2> QED
    OBVIOUS
<1>5. \A x \in D, t \in T : step[<<x, t>>] = Look(r, m, t, i, seq[x] - 1)
  OBVIOUS
<1>6. \A s \in SUBSET D : s # {} => Max(s) \in D
  <2> HIDE DEF D
  <2> QED
    BY <1>2, MaxOf
<1>7. Through(W, base, step, NO)
  <2>1. ASSUME NEW k \in 1 .. NO, NEW t \in W[k - 1]
        PROVE  step[<<k, t>>] \in W[k]
    <3>1. k - 1 \in 0 .. NO /\ k \in D
      OBVIOUS
    <3>2. t \in T
      BY <3>1 DEF Passes
    <3>3. step[<<k, t>>] = Look(r, m, t, i, k - 1)
      BY <1>5, <3>1, <3>2
    <3> HIDE DEF step
    <3> QED
      BY <3>3
  <2> HIDE DEF step, base
  <2> QED
    BY <1>3, <2>1 DEF Through
<1> HIDE DEF D, base, step, seq
<1>8. PICK g : Solves(g, base, step, D, T)
  BY <1>2, <1>3, <1>4, Foldable DEF Has
<1>9. R(g)
  <2>1. ASSUME NEW s \in SUBSET D, s # {}
        PROVE  g[s] = Look(r, m, g[s \ {Max(s)}], i, seq[Max(s)] - 1)
    <3>1. g[s] = step[<<Max(s), g[s \ {Max(s)}]>>]
      BY <1>8, <2>1, UnfoldsAt DEF Solves
    <3>2. Max(s) \in D /\ g[s \ {Max(s)}] \in T
      BY <1>6, <1>8, <2>1 DEF Solves
    <3> QED
      BY <1>5, <3>1, <3>2
  <2>2. g[{}] = base
    BY <1>8, UnfoldsNone DEF Solves
  <2>3. g = [s \in SUBSET D |-> g[s]]
    BY <1>8 DEF Solves
  <2> QED
    BY <2>1, <2>2, <2>3
<1>10. R(h)
  <2> HIDE DEF R
  <2> QED
    BY <1>9
<1>11. Follows(h, base, step, D, T)
  <2> HIDE DEF h
  <2>1. h[{}] = base
    BY <1>10
  <2>2. \A s \in SUBSET D : s # {} => h[s] = Look(r, m, h[s \ {Max(s)}], i, seq[Max(s)] - 1)
    BY <1>10
  <2> QED
    BY <1>5, <1>6, <2>1, <2>2 DEF Follows
<1> HIDE DEF h
<1>12. h[D] = g[D]
  BY <1>2, <1>8, <1>11, FoldFollows
<1>13. g[D] \in W[NO]
  BY <1>2, <1>7, <1>8, FoldThrough DEF Solves
<1> QED
  BY <1>1, <1>12, <1>13

(* Looking at all outputs from an input keeps what was reached.              *)
LEMMA LookAllOK ==
  ASSUME kind \in Kinds, NEW r, Asking2(r), NEW m \in Matchings(DOMAIN r), NEW k \in Nat,
         NEW u \in Bounded(r, m, k + 1, k), NEW i, \E x \in DOMAIN u.layer : i = u.layer[x]
  PROVE  LookAll(r, m, u, i) \in {w \in Bounded(r, m, k + 1, k) : w.layer = u.layer}
<1> DEFINE T == {w \in Bounded(r, m, k + 1, k) : w.layer = u.layer}
           W == [j \in 0 .. NO |-> T]
<1>1. NO \in Nat /\ \A j \in 1 .. NO : j - 1 \in Outputs
  BY Sizes DEF Ports
<1>2. PICK x \in DOMAIN u.layer : i = u.layer[x]
  OBVIOUS
<1>3. ASSUME NEW j \in 1 .. NO, NEW w \in T
      PROVE  Look(r, m, w, i, j - 1) \in T
  <2>1. x \in DOMAIN w.layer /\ i = w.layer[x]
    BY <1>2
  <2>2. Look(r, m, w, i, j - 1) \in Bounded(r, m, k + 1, k) /\ Look(r, m, w, i, j - 1).layer = w.layer
    BY <1>1, <2>1, LookOK
  <2> QED
    BY <2>2
<1>4. u \in T
  OBVIOUS
<1> HIDE DEF T
<1>5. Passes(W, T, u, NO)
  <2>1. u \in W[0] /\ \A j \in 0 .. NO : W[j] \subseteq T
    BY <1>1, <1>4
  <2> HIDE DEF W
  <2> QED
    BY <2>1 DEF Passes
<1>6. \A j \in 1 .. NO : \A w \in W[j - 1] : Look(r, m, w, i, j - 1) \in W[j]
  BY <1>1, <1>3
<1>7. W[NO] = T
  BY <1>1
<1> HIDE DEF W
<1>8. LookAll(r, m, u, i) \in W[NO]
  BY <1>1, <1>3, <1>5, <1>6, LookAllThrough
<1> QED
  BY <1>7, <1>8 DEF T

(* All inputs of a layer look at all outputs.                                *)
Looked(r, m, s, q) == FoldLeft(LAMBDA u, i : LookAll(r, m, u, i), s, q)

(* The inputs of a layer one after the other.                                 *)
LEMMA LookedThrough ==
  ASSUME NEW r, NEW m, NEW s0, NEW n, NEW q, DOMAIN q = 1 .. n,
         n \in Nat, NEW T, NEW W, Passes(W, T, s0, n),
         \A x \in 1 .. n, t \in T : LookAll(r, m, t, q[x]) \in T,
         \A k \in 1 .. n : \A t \in W[k - 1] : LookAll(r, m, t, q[k]) \in W[k]
  PROVE  Looked(r, m, s0, q) \in W[n]
<1> DEFINE seq == q
           D == DOMAIN seq
           base == s0
           step == [c \in D \X T |-> LookAll(r, m, c[2], seq[c[1]])]
           R(g) == g = [s \in SUBSET D |-> IF s = {} THEN base
                                           ELSE LookAll(r, m, g[s \ {Max(s)}], seq[Max(s)])]
           h == CHOOSE g : R(g)
<1>1. Looked(r, m, s0, q) = h[D]
  BY DEF Looked, FoldLeft, MapThenFoldSet
<1>2. IsFiniteSet(D) /\ Ints(D) /\ Upto(D, n)
  <2>1. n \in Int /\ D = 1 .. n
    OBVIOUS
  <2> HIDE DEF D
  <2> QED
    BY <2>1, FS_Interval DEF Ints, Upto
<1>3. base \in T /\ base \in W[0]
  <2>1. 0 \in 0 .. n
    OBVIOUS
  <2> QED
    BY <2>1 DEF Passes
<1>4. step \in [D \X T -> T]
  <2> HIDE DEF base
  <2> QED
    OBVIOUS
<1>5. \A x \in D, t \in T : step[<<x, t>>] = LookAll(r, m, t, seq[x])
  OBVIOUS
<1>6. \A s \in SUBSET D : s # {} => Max(s) \in D
  <2> HIDE DEF D
  <2> QED
    BY <1>2, MaxOf
<1>7. Through(W, base, step, n)
  <2>1. ASSUME NEW k \in 1 .. n, NEW t \in W[k - 1]
        PROVE  step[<<k, t>>] \in W[k]
    <3>1. k - 1 \in 0 .. n /\ k \in D
      OBVIOUS
    <3>2. t \in T
      BY <3>1 DEF Passes
    <3>3. step[<<k, t>>] = LookAll(r, m, t, q[k])
      BY <1>5, <3>1, <3>2
    <3> HIDE DEF step
    <3> QED
      BY <3>3
  <2> HIDE DEF step, base
  <2> QED
    BY <1>3, <2>1 DEF Through
<1> HIDE DEF D, base, step, seq
<1>8. PICK g : Solves(g, base, step, D, T)
  BY <1>2, <1>3, <1>4, Foldable DEF Has
<1>9. R(g)
  <2>1. ASSUME NEW s \in SUBSET D, s # {}
        PROVE  g[s] = LookAll(r, m, g[s \ {Max(s)}], seq[Max(s)])
    <3>1. g[s] = step[<<Max(s), g[s \ {Max(s)}]>>]
      BY <1>8, <2>1, UnfoldsAt DEF Solves
    <3>2. Max(s) \in D /\ g[s \ {Max(s)}] \in T
      BY <1>6, <1>8, <2>1 DEF Solves
    <3> QED
      BY <1>5, <3>1, <3>2
  <2>2. g[{}] = base
    BY <1>8, UnfoldsNone DEF Solves
  <2>3. g = [s \in SUBSET D |-> g[s]]
    BY <1>8 DEF Solves
  <2> QED
    BY <2>1, <2>2, <2>3
<1>10. R(h)
  <2> HIDE DEF R
  <2> QED
    BY <1>9
<1>11. Follows(h, base, step, D, T)
  <2> HIDE DEF h
  <2>1. h[{}] = base
    BY <1>10
  <2>2. \A s \in SUBSET D : s # {} => h[s] = LookAll(r, m, h[s \ {Max(s)}], seq[Max(s)])
    BY <1>10
  <2> QED
    BY <1>5, <1>6, <2>1, <2>2 DEF Follows
<1> HIDE DEF h
<1>12. h[D] = g[D]
  BY <1>2, <1>8, <1>11, FoldFollows
<1>13. g[D] \in W[n]
  BY <1>2, <1>7, <1>8, FoldThrough DEF Solves
<1> QED
  BY <1>1, <1>12, <1>13

(* The next layer.                                                           *)
LEMMA LayerIs ==
  ASSUME NEW r, NEW m, NEW s, Looked(r, m, s, s.layer) \in Searches
  PROVE  Layer(r, m, s) = [layer |-> Looked(r, m, s, s.layer).next, next |-> << >>,
                           from |-> Looked(r, m, s, s.layer).from, end |-> Looked(r, m, s, s.layer).end]
<1> DEFINE t == Looked(r, m, s, s.layer)
<1>1. Layer(r, m, s) = [t EXCEPT !.layer = t.next, !.next = << >>]
  BY DEF Layer, Looked, LookAll
<1> HIDE DEF t
<1>2. t = [layer |-> t.layer, next |-> t.next, from |-> t.from, end |-> t.end]
  BY DEF t, Searches
<1> QED
  BY <1>1, <1>2 DEF t

(* After a layer the next begins, with outputs reached one layer deeper.     *)
LEMMA LayerOK ==
  ASSUME kind \in Kinds, NEW r, Asking2(r), NEW m \in Matchings(DOMAIN r), NEW k \in Nat,
         NEW s \in Bounded(r, m, k, k)
  PROVE  Layer(r, m, s) \in Bounded(r, m, k + 1, k + 1)
<1> DEFINE q == s.layer
           n == Len(q)
           T == {w \in Bounded(r, m, k + 1, k) : w.layer = s.layer}
           W == [x \in 0 .. n |-> T]
           t == Looked(r, m, s, q)
           v == [layer |-> t.next, next |-> << >>, from |-> t.from, end |-> t.end]
<1>1. s \in Searches /\ n \in Nat /\ DOMAIN q = 1 .. n
  BY DEF Bounded, Searches
<1>2. s \in T
  <2>1. PICK dep \in [Outputs -> Nat] : Reached(r, m, s, dep, k, k)
    BY DEF Bounded
  <2>2. Reached(r, m, s, dep, k + 1, k)
    <3>1. \A j \in Outputs : dep[j] \in Nat /\ (dep[j] <= k => dep[j] <= k + 1)
      BY <2>1
    <3>2. \A i \in Inputs : Lev(m, dep, i) \in Nat
      BY <2>1 DEF Lev, Matchings
    <3>3. \A i \in Inputs : Lev(m, dep, i) <= k => Lev(m, dep, i) <= k + 1
      BY <3>2
    <3>4. \A y \in DOMAIN s.next : s.next[y] \in Inputs
      BY <1>1 DEF Searches
    <3> QED
      BY <2>1, <3>1, <3>3, <3>4 DEF Reached
  <2> QED
    BY <1>1, <2>1, <2>2 DEF Bounded
<1> HIDE DEF n
<1>3. ASSUME NEW x \in 1 .. n, NEW w \in T
      PROVE  LookAll(r, m, w, q[x]) \in T
  <2>1. x \in DOMAIN w.layer /\ q[x] = w.layer[x]
    BY <1>1
  <2>2. LookAll(r, m, w, q[x]) \in {z \in Bounded(r, m, k + 1, k) : z.layer = w.layer}
    BY <2>1, LookAllOK
  <2> QED
    BY <2>2
<1> HIDE DEF T
<1>4. Passes(W, T, s, n)
  <2>1. s \in W[0] /\ \A x \in 0 .. n : W[x] \subseteq T
    BY <1>1, <1>2
  <2> HIDE DEF W
  <2> QED
    BY <2>1 DEF Passes
<1>5. \A x \in 1 .. n : \A w \in W[x - 1] : LookAll(r, m, w, q[x]) \in W[x]
  BY <1>1, <1>3
<1>6. W[n] = T
  BY <1>1
<1> HIDE DEF W, q
<1>7. t \in W[n]
  BY <1>1, <1>3, <1>4, <1>5, LookedThrough
<1> HIDE DEF t
<1>8. t \in Searches /\ \E dep \in [Outputs -> Nat] : Reached(r, m, t, dep, k + 1, k)
  BY <1>6, <1>7 DEF T, Bounded
<1>9. Layer(r, m, s) = v
  BY <1>8, LayerIs DEF t, q
<1>10. PICK dep \in [Outputs -> Nat] : Reached(r, m, t, dep, k + 1, k)
  BY <1>8
<1>11. v \in Searches
  BY <1>8 DEF Searches
<1>12. Reached(r, m, v, dep, k + 1, k + 1)
  <2>1. v.layer = t.next /\ DOMAIN v.next = {} /\ v.from = t.from /\ v.end = t.end
    OBVIOUS
  <2> HIDE DEF v
  <2> QED
    BY <1>10, <2>1 DEF Reached
<1> HIDE DEF v
<1> QED
  BY <1>9, <1>10, <1>11, <1>12 DEF Bounded

(* What is kept of the unmatched, the order of a search, and its start.       *)
Queued(m, q, i) == IF m.inm[i] = Nobody THEN Append(q, i) ELSE q
Order == [k \in 1 .. NI |-> (k - 1 + turn) % NI]
SearchStart(m) == [layer |-> Unmatched(m, Order), next |-> << >>, from |-> Free(NO), end |-> Nobody]

(* The inputs in order, of which the unmatched are kept.                      *)
LEMMA UnmatchedThrough ==
  ASSUME NEW m, NEW order, DOMAIN order = 1 .. NI,
         NI \in Nat, NEW T, NEW W, Passes(W, T, << >>, NI),
         \A x \in 1 .. NI, t \in T : Queued(m, t, order[x]) \in T,
         \A k \in 1 .. NI : \A t \in W[k - 1] : Queued(m, t, order[k]) \in W[k]
  PROVE  Unmatched(m, order) \in W[NI]
<1> DEFINE seq == order
           D == DOMAIN seq
           base == << >>
           step == [c \in D \X T |-> Queued(m, c[2], seq[c[1]])]
           R(g) == g = [s \in SUBSET D |-> IF s = {} THEN base
                                           ELSE Queued(m, g[s \ {Max(s)}], seq[Max(s)])]
           h == CHOOSE g : R(g)
<1>1. Unmatched(m, order) = h[D]
  BY DEF Unmatched, Queued, FoldLeft, MapThenFoldSet
<1>2. IsFiniteSet(D) /\ Ints(D) /\ Upto(D, NI)
  <2>1. NI \in Int /\ D = 1 .. NI
    OBVIOUS
  <2> HIDE DEF D
  <2>2. 1 \in Int /\ NI \in Nat /\ IsFiniteSet(1 .. NI)
    BY <2>1, FS_Interval
  <2> QED
    BY <2>1, <2>2 DEF Ints, Upto
<1>3. base \in T /\ base \in W[0]
  <2>1. 0 \in 0 .. NI
    OBVIOUS
  <2> QED
    BY <2>1 DEF Passes
<1>4. step \in [D \X T -> T]
  <2> HIDE DEF base
  <2> QED
    OBVIOUS
<1>5. \A x \in D, t \in T : step[<<x, t>>] = Queued(m, t, seq[x])
  OBVIOUS
<1>6. \A s \in SUBSET D : s # {} => Max(s) \in D
  <2> HIDE DEF D
  <2> QED
    BY <1>2, MaxOf
<1>7. Through(W, base, step, NI)
  <2>1. ASSUME NEW k \in 1 .. NI, NEW t \in W[k - 1]
        PROVE  step[<<k, t>>] \in W[k]
    <3>1. k - 1 \in 0 .. NI /\ k \in D
      OBVIOUS
    <3>2. t \in T
      BY <3>1 DEF Passes
    <3>3. step[<<k, t>>] = Queued(m, t, order[k])
      BY <1>5, <3>1, <3>2
    <3> HIDE DEF step
    <3> QED
      BY <3>3
  <2> HIDE DEF step, base
  <2> QED
    BY <1>3, <2>1 DEF Through
<1> HIDE DEF D, base, step, seq
<1>8. PICK g : Solves(g, base, step, D, T)
  BY <1>2, <1>3, <1>4, Foldable DEF Has
<1>9. R(g)
  <2>1. ASSUME NEW s \in SUBSET D, s # {}
        PROVE  g[s] = Queued(m, g[s \ {Max(s)}], seq[Max(s)])
    <3>1. g[s] = step[<<Max(s), g[s \ {Max(s)}]>>]
      BY <1>8, <2>1, UnfoldsAt DEF Solves
    <3>2. Max(s) \in D /\ g[s \ {Max(s)}] \in T
      BY <1>6, <1>8, <2>1 DEF Solves
    <3> QED
      BY <1>5, <3>1, <3>2
  <2>2. g[{}] = base
    BY <1>8, UnfoldsNone DEF Solves
  <2>3. g = [s \in SUBSET D |-> g[s]]
    BY <1>8 DEF Solves
  <2> QED
    BY <2>1, <2>2, <2>3
<1>10. R(h)
  <2> HIDE DEF R
  <2> QED
    BY <1>9
<1>11. Follows(h, base, step, D, T)
  <2> HIDE DEF h
  <2>1. h[{}] = base
    BY <1>10
  <2>2. \A s \in SUBSET D : s # {} => h[s] = Queued(m, h[s \ {Max(s)}], seq[Max(s)])
    BY <1>10
  <2> QED
    BY <1>5, <1>6, <2>1, <2>2 DEF Follows
<1> HIDE DEF h
<1>12. h[D] = g[D]
  BY <1>2, <1>8, <1>11, FoldFollows
<1>13. g[D] \in W[NI]
  BY <1>2, <1>7, <1>8, FoldThrough DEF Solves
<1> QED
  BY <1>1, <1>12, <1>13

(* All inputs have a turn.                                                   *)
LEMMA EveryInput ==
  ASSUME kind \in Kinds, turn \in Ports(NI)
  PROVE  /\ \A k \in 1 .. NI : Order[k] \in Inputs
         /\ \A i \in Inputs : \E k \in 1 .. NI : Order[k] = i
<1>1. NI \in Nat \ {0} /\ turn \in 0 .. NI - 1 /\ Inputs = 0 .. NI - 1
  BY Sizes DEF Ports
<1>2. ASSUME NEW k \in 1 .. NI PROVE Order[k] \in Inputs
  <2>1. k - 1 + turn \in Nat
    BY <1>1
  <2>2. (k - 1 + turn) % NI \in 0 .. NI - 1
    BY <1>1, <2>1, Z3
  <2> QED
    BY <1>1, <2>2 DEF Order
<1>3. ASSUME NEW i \in Inputs PROVE \E k \in 1 .. NI : Order[k] = i
  <2> DEFINE k == IF i >= turn THEN i - turn + 1 ELSE i - turn + NI + 1
  <2>1. k \in 1 .. NI /\ (k - 1 + turn = i \/ k - 1 + turn = NI + i)
    BY <1>1
  <2> HIDE DEF k
  <2>2. i % NI = i /\ (NI + i) % NI = i
    BY <1>1, Z3
  <2>3. Order[k] = (k - 1 + turn) % NI
    BY <2>1 DEF Order
  <2> QED
    BY <2>1, <2>2, <2>3
<1> QED
  BY <1>2, <1>3

(* A queue q of unmatched inputs, with all of the first k of an order.          *)
Queues(m, order, q, k) ==
  /\ \A x \in DOMAIN q : m.inm[q[x]] = Nobody
  /\ \A y \in 1 .. k : m.inm[order[y]] = Nobody => \E x \in DOMAIN q : q[x] = order[y]

(* The unmatched of the inputs are searched from, all of them.                *)
LEMMA UnmatchedOK ==
  ASSUME kind \in Kinds, NEW m, NEW order, DOMAIN order = 1 .. NI, \A k \in 1 .. NI : order[k] \in Inputs
  PROVE  Unmatched(m, order) \in Seq(Inputs) /\ Queues(m, order, Unmatched(m, order), NI)
<1> DEFINE T == Seq(Inputs)
           holds(q, k) == Queues(m, order, q, k)
           W == [k \in 0 .. NI |-> {q \in T : holds(q, k)}]
<1>1. NI \in Nat
  BY Sizes
<1>2. << >> \in T /\ holds(<< >>, 0)
  BY DEF Queues
<1>3. \A x \in 1 .. NI, q \in T : Queued(m, q, order[x]) \in T
  BY DEF Queued
<1>4. \A k \in 1 .. NI : \A q \in W[k - 1] : Queued(m, q, order[k]) \in W[k]
  <2>1. ASSUME NEW k \in 1 .. NI, NEW q \in W[k - 1] PROVE Queued(m, q, order[k]) \in W[k]
    <3> DEFINE i == order[k]
               u == Queued(m, q, i)
    <3>1. k - 1 \in 0 .. NI /\ k \in 0 .. NI
      BY <1>1
    <3>2. q \in T /\ holds(q, k - 1) /\ i \in Inputs
      BY <3>1
    <3>3. u \in T
      BY <1>3, <3>2
    <3>4. m.inm[i] # Nobody => u = q
      BY DEF Queued
    <3>5. m.inm[i] = Nobody =>
            /\ \A x \in DOMAIN u : (x \in DOMAIN q /\ u[x] = q[x]) \/ u[x] = i
            /\ \A x \in DOMAIN q : x \in DOMAIN u /\ u[x] = q[x]
            /\ \E x \in DOMAIN u : u[x] = i
      <4>1. DOMAIN q = 1 .. Len(q) /\ Len(q) \in Nat
        BY <3>2
      <4>2. m.inm[i] = Nobody => u = Append(q, i)
        BY DEF Queued
      <4>6. q \in Seq(Inputs) /\ i \in Inputs
        BY <3>2
      <4> HIDE DEF u, i
      <4> DEFINE v == Append(q, i)
      <4>7. /\ DOMAIN v = 1 .. Len(q) + 1 /\ v[Len(q) + 1] = i
            /\ \A x \in 1 .. Len(q) : v[x] = q[x]
        BY <4>6
      <4> HIDE DEF v
      <4>3. m.inm[i] = Nobody => /\ DOMAIN u = 1 .. Len(q) + 1 /\ u[Len(q) + 1] = i
                                 /\ \A x \in 1 .. Len(q) : u[x] = q[x]
        BY <4>2, <4>7 DEF v
      <4>4. \A x \in 1 .. Len(q) + 1 : x = Len(q) + 1 \/ x \in 1 .. Len(q)
        BY <4>1
      <4>5. Len(q) + 1 \in 1 .. Len(q) + 1 /\ \A x \in 1 .. Len(q) : x \in 1 .. Len(q) + 1
        BY <4>1
      <4> QED
        BY <4>1, <4>3, <4>4, <4>5
    <3>6. \A y \in 1 .. k : y = k \/ y \in 1 .. k - 1
      BY <1>1
    <3> HIDE DEF u
    <3>7. holds(u, k)
      <4>1. CASE m.inm[i] # Nobody
        BY <3>2, <3>4, <3>6, <4>1 DEF Queues
      <4>2. CASE m.inm[i] = Nobody
        <5>1. \A x \in DOMAIN u : m.inm[u[x]] = Nobody
          BY <3>2, <3>5, <4>2 DEF Queues
        <5>2. ASSUME NEW y \in 1 .. k, m.inm[order[y]] = Nobody PROVE \E x \in DOMAIN u : u[x] = order[y]
          <6>1. CASE y = k
            BY <3>5, <4>2, <6>1
          <6>2. CASE y \in 1 .. k - 1
            <7>1. PICK x \in DOMAIN q : q[x] = order[y]
              BY <3>2, <5>2, <6>2 DEF Queues
            <7> QED
              BY <3>5, <4>2, <7>1
          <6> QED
            BY <3>6, <6>1, <6>2
        <5> QED
          BY <5>1, <5>2 DEF Queues
      <4> QED
        BY <4>1, <4>2
    <3> HIDE DEF holds
    <3> QED
      BY <3>1, <3>3, <3>7 DEF u
  <2> QED
    BY <2>1
<1>5. Passes(W, T, << >>, NI)
  <2>1. << >> \in W[0]
    <3> HIDE DEF holds
    <3> QED
      BY <1>1, <1>2
  <2>2. \A k \in 0 .. NI : W[k] \subseteq T
    OBVIOUS
  <2> HIDE DEF W, T
  <2> QED
    BY <2>1, <2>2 DEF Passes
<1>6. W[NI] = {q \in T : holds(q, NI)}
  BY <1>1
<1> HIDE DEF W, T, holds
<1>7. Unmatched(m, order) \in W[NI]
  BY <1>1, <1>3, <1>4, <1>5, UnmatchedThrough
<1> QED
  BY <1>6, <1>7 DEF T, holds

(* The layers of a search.                                                    *)
LEMMA SearchThrough ==
  ASSUME NEW r, NEW m, NEW q, q = Order, DOMAIN q = 1 .. NI,
         NI \in Nat, NEW T, NEW W, Passes(W, T, SearchStart(m), NI),
         \A x \in 1 .. NI, t \in T : Layer(r, m, t) \in T,
         \A k \in 1 .. NI : \A t \in W[k - 1] : Layer(r, m, t) \in W[k]
  PROVE  Search(r, m) \in W[NI]
<1> DEFINE seq == q
           D == DOMAIN seq
           base == SearchStart(m)
           step == [c \in D \X T |-> Layer(r, m, c[2])]
           R(g) == g = [s \in SUBSET D |-> IF s = {} THEN base
                                           ELSE Layer(r, m, g[s \ {Max(s)}])]
           h == CHOOSE g : R(g)
<1>1. Search(r, m) = h[D]
  BY DEF Search, SearchStart, Order, FoldLeft, MapThenFoldSet
<1>2. IsFiniteSet(D) /\ Ints(D) /\ Upto(D, NI)
  <2>1. NI \in Int /\ D = 1 .. NI
    OBVIOUS
  <2> HIDE DEF D
  <2> QED
    BY <2>1, FS_Interval DEF Ints, Upto
<1>3. base \in T /\ base \in W[0]
  <2>1. 0 \in 0 .. NI
    OBVIOUS
  <2> QED
    BY <2>1 DEF Passes
<1>4. step \in [D \X T -> T]
  <2> HIDE DEF base
  <2> QED
    OBVIOUS
<1>5. \A x \in D, t \in T : step[<<x, t>>] = Layer(r, m, t)
  OBVIOUS
<1>6. \A s \in SUBSET D : s # {} => Max(s) \in D
  <2> HIDE DEF D
  <2> QED
    BY <1>2, MaxOf
<1>7. Through(W, base, step, NI)
  <2>1. ASSUME NEW k \in 1 .. NI, NEW t \in W[k - 1]
        PROVE  step[<<k, t>>] \in W[k]
    <3>1. k - 1 \in 0 .. NI /\ k \in D
      OBVIOUS
    <3>2. t \in T
      BY <3>1 DEF Passes
    <3>3. step[<<k, t>>] = Layer(r, m, t)
      BY <1>5, <3>1, <3>2
    <3> HIDE DEF step
    <3> QED
      BY <3>3
  <2> HIDE DEF step, base
  <2> QED
    BY <1>3, <2>1 DEF Through
<1> HIDE DEF D, base, step, seq
<1>8. PICK g : Solves(g, base, step, D, T)
  BY <1>2, <1>3, <1>4, Foldable DEF Has
<1>9. R(g)
  <2>1. ASSUME NEW s \in SUBSET D, s # {}
        PROVE  g[s] = Layer(r, m, g[s \ {Max(s)}])
    <3>1. g[s] = step[<<Max(s), g[s \ {Max(s)}]>>]
      BY <1>8, <2>1, UnfoldsAt DEF Solves
    <3>2. Max(s) \in D /\ g[s \ {Max(s)}] \in T
      BY <1>6, <1>8, <2>1 DEF Solves
    <3> QED
      BY <1>5, <3>1, <3>2
  <2>2. g[{}] = base
    BY <1>8, UnfoldsNone DEF Solves
  <2>3. g = [s \in SUBSET D |-> g[s]]
    BY <1>8 DEF Solves
  <2> QED
    BY <2>1, <2>2, <2>3
<1>10. R(h)
  <2> HIDE DEF R
  <2> QED
    BY <1>9
<1>11. Follows(h, base, step, D, T)
  <2> HIDE DEF h
  <2>1. h[{}] = base
    BY <1>10
  <2>2. \A s \in SUBSET D : s # {} => h[s] = Layer(r, m, h[s \ {Max(s)}])
    BY <1>10
  <2> QED
    BY <1>5, <1>6, <2>1, <2>2 DEF Follows
<1> HIDE DEF h
<1>12. h[D] = g[D]
  BY <1>2, <1>8, <1>11, FoldFollows
<1>13. g[D] \in W[NI]
  BY <1>2, <1>7, <1>8, FoldThrough DEF Solves
<1> QED
  BY <1>1, <1>12, <1>13

(* A search has as many layers as there are inputs.                          *)
LEMMA SearchOK ==
  ASSUME kind \in Kinds, NEW r, Asking2(r), NEW m \in Matchings(DOMAIN r), turn \in Ports(NI)
  PROVE  Search(r, m) \in Bounded(r, m, NI, NI)
<1> DEFINE at(k) == Bounded(r, m, k, k)
           T == UNION {at(k) : k \in Nat}
           W == [k \in 0 .. NI |-> at(k)]
           s == SearchStart(m)
           q == Unmatched(m, Order)
           dep == [o \in Outputs |-> 0]
<1>1. NI \in Nat \ {0} /\ DOMAIN Order = 1 .. NI
  BY Sizes DEF Order
<1>2. s \in at(0)
  <2>1. \A k \in 1 .. NI : Order[k] \in Inputs
    BY EveryInput
  <2>2. q \in Seq(Inputs) /\ \A x \in DOMAIN q : m.inm[q[x]] = Nobody
    <3>1. q \in Seq(Inputs) /\ Queues(m, Order, q, NI)
      BY <1>1, <2>1, UnmatchedOK
    <3> HIDE DEF q
    <3> QED
      BY <3>1 DEF Queues
  <2>3. s \in Searches /\ DOMAIN s.next = {} /\ s.layer = q /\ s.from = Free(NO) /\ s.end = Nobody
    BY <2>2 DEF Searches, SearchStart, Free, Outputs
  <2> HIDE DEF s, q
  <2>4. \A o \in Outputs : s.from[o] = Nobody
    BY <2>3 DEF Free, Outputs
  <2>5. Reached(r, m, s, dep, 0, 0)
    BY <2>2, <2>3, <2>4 DEF Reached, InTree, Lev
  <2>6. dep \in [Outputs -> Nat]
    OBVIOUS
  <2> HIDE DEF dep
  <2> QED
    BY <2>3, <2>5, <2>6 DEF Bounded
<1>3. \A k \in Nat : \A t \in at(k) : Layer(r, m, t) \in at(k + 1)
  BY LayerOK
<1> HIDE DEF at, s
<1>4. \A x \in 1 .. NI, t \in T : Layer(r, m, t) \in T
  <2>1. ASSUME NEW t \in T PROVE Layer(r, m, t) \in T
    <3>1. PICK k \in Nat : t \in at(k)
      OBVIOUS
    <3>2. k + 1 \in Nat /\ Layer(r, m, t) \in at(k + 1)
      BY <1>3, <3>1
    <3> QED
      BY <3>2
  <2> QED
    BY <2>1
<1>5. \A k \in 1 .. NI : \A t \in W[k - 1] : Layer(r, m, t) \in W[k]
  <2>1. ASSUME NEW k \in 1 .. NI, NEW t \in W[k - 1] PROVE Layer(r, m, t) \in W[k]
    <3>1. k - 1 \in Nat /\ k - 1 \in 0 .. NI /\ k - 1 + 1 = k /\ k \in 0 .. NI
      BY <1>1
    <3>2. Layer(r, m, t) \in at(k - 1 + 1)
      BY <1>3, <3>1
    <3> QED
      BY <3>1, <3>2
  <2> QED
    BY <2>1
<1>6. Passes(W, T, s, NI)
  <2>1. s \in W[0]
    BY <1>1, <1>2
  <2>2. \A k \in 0 .. NI : W[k] \subseteq T
    OBVIOUS
  <2> HIDE DEF W, T
  <2> QED
    BY <2>1, <2>2 DEF Passes
<1>7. W[NI] = at(NI)
  BY <1>1
<1> HIDE DEF W, T
<1>8. Search(r, m) \in W[NI]
  BY <1>1, <1>4, <1>5, <1>6, SearchThrough DEF s
<1> QED
  BY <1>7, <1>8 DEF at

(* A search that has looked at the pairs E and comes back to none of the inputs *)
(* Q, which are in the tree already: unless it ended, what was looked at is     *)
(* reached, whoever else is in the tree is in the next layer, and everything   *)
(* reached is matched.  If it had ended before, at e, it stays so.            *)
SeenBy(r, m, E, Q, e) ==
  {u \in Searches :
     /\ e # Nobody => u.end # Nobody
     /\ u.end = Nobody =>
          /\ \A i \in Inputs, j \in Outputs :
               <<i, j>> \in E /\ <<i, j>> \in DOMAIN r => m.inm[i] = j \/ u.from[j] # Nobody
          /\ \A i \in Inputs : InTree(m, u.from, i) => i \in Q \/ \E x \in DOMAIN u.next : u.next[x] = i
          /\ \A x \in DOMAIN u.next : u.next[x] \notin Q
          /\ \A j \in Outputs : u.from[j] # Nobody => m.outm[j] # Nobody
          /\ \A i \in Inputs : i \in Q \/ (\E x \in DOMAIN u.next : u.next[x] = i) => InTree(m, u.from, i)}

(* A look at one more pair.                                                  *)
LEMMA LookSees ==
  ASSUME kind \in Kinds, NEW r, NEW m \in Matchings(DOMAIN r), NEW E, NEW Q, NEW e,
         NEW s \in SeenBy(r, m, E, Q, e), NEW i \in Inputs, NEW j \in Outputs
  PROVE  Look(r, m, s, i, j) \in SeenBy(r, m, E \cup {<<i, j>>}, Q, e)
<1> DEFINE u == Look(r, m, s, i, j)
<1>1. s \in Searches /\ (e # Nobody => s.end # Nobody)
  BY DEF SeenBy
<1>2. CASE s.end # Nobody
  <2>1. u = s
    BY <1>2 DEF Look
  <2> QED
    BY <1>1, <1>2, <2>1 DEF SeenBy
<1>3. CASE s.end = Nobody /\ (<<i, j>> \notin DOMAIN r \/ m.inm[i] = j \/ s.from[j] # Nobody)
  <2>1. u = s
    BY <1>3 DEF Look
  <2>2. \A y \in Inputs, o \in Outputs :
          <<y, o>> \in E \cup {<<i, j>>} /\ <<y, o>> \in DOMAIN r => m.inm[y] = o \/ s.from[o] # Nobody
    BY <1>3 DEF SeenBy
  <2> QED
    BY <1>3, <2>1, <2>2 DEF SeenBy
<1>4. CASE s.end = Nobody /\ ~(<<i, j>> \notin DOMAIN r \/ m.inm[i] = j \/ s.from[j] # Nobody)
  <2> DEFINE free == m.outm[j] = Nobody
             from2 == [s.from EXCEPT ![j] = i]
             next2 == IF free THEN s.next ELSE Append(s.next, m.outm[j])
             end2 == IF free THEN j ELSE s.end
  <2>1. u = [layer |-> s.layer, next |-> next2, from |-> from2, end |-> end2]
    <3>1. s = [layer |-> s.layer, next |-> s.next, from |-> s.from, end |-> s.end]
      BY <1>1 DEF Searches
    <3>2. u = [s EXCEPT !.from = from2, !.end = end2, !.next = next2]
      BY <1>4 DEF Look
    <3> HIDE DEF from2, next2, end2
    <3> QED
      BY <3>1, <3>2
  <2>2. /\ m.inm \in [Inputs -> Outputs \cup {Nobody}] /\ m.outm \in [Outputs -> Inputs \cup {Nobody}]
        /\ \A y \in Inputs, o \in Outputs : m.inm[y] = o <=> m.outm[o] = y
    BY DEF Matchings
  <2>3. s.layer \in Seq(Inputs) /\ s.next \in Seq(Inputs) /\ s.from \in [Outputs -> Inputs \cup {Nobody}]
    BY <1>1 DEF Searches
  <2>4. from2 \in [Outputs -> Inputs \cup {Nobody}] /\ end2 \in Outputs \cup {Nobody}
    BY <1>4, <2>3
  <2>5. next2 \in Seq(Inputs)
    <3>1. ~free => m.outm[j] \in Inputs
      BY <2>2
    <3> HIDE DEF free
    <3> QED
      BY <2>3, <3>1
  <2>6. from2[j] = i /\ \A o \in Outputs : o # j => from2[o] = s.from[o]
    BY <2>3
  <2> HIDE DEF from2
  <2>7. u.next = next2 /\ u.from = from2 /\ u.end = end2
    BY <2>1
  <2>8. u \in Searches
    <3> HIDE DEF next2, end2
    <3> QED
      BY <2>1, <2>3, <2>4, <2>5 DEF Searches
  <2> HIDE DEF u
  <2>9. e = Nobody
    BY <1>1, <1>4
  <2>10. CASE free
    <3>1. u.end # Nobody
      BY <2>7, <2>10, Sizes
    <3> QED
      BY <2>8, <3>1 DEF SeenBy, u
  <2>11. CASE ~free
    <3> DEFINE z == m.outm[j]
    <3>1. z \in Inputs /\ m.inm[z] = j
      BY <2>2, <2>11
    <3>2. next2 = Append(s.next, z)
      BY <2>11
    <3> HIDE DEF z, next2
    <3>3. /\ \A x \in DOMAIN s.next : x \in DOMAIN next2 /\ next2[x] = s.next[x]
          /\ \E x \in DOMAIN next2 : next2[x] = z
          /\ \A x \in DOMAIN next2 : next2[x] = z \/ \E y \in DOMAIN s.next : next2[x] = s.next[y]
      <4>1. /\ DOMAIN s.next = 1 .. Len(s.next) /\ DOMAIN next2 = 1 .. Len(s.next) + 1 /\ Len(s.next) \in Nat
            /\ next2[Len(s.next) + 1] = z /\ \A x \in 1 .. Len(s.next) : next2[x] = s.next[x]
        BY <2>3, <3>1, <3>2
      <4> DEFINE l == Len(s.next)
      <4> HIDE DEF l
      <4>2. /\ DOMAIN s.next = 1 .. l /\ DOMAIN next2 = 1 .. l + 1 /\ l \in Nat
            /\ next2[l + 1] = z /\ \A x \in 1 .. l : next2[x] = s.next[x]
        BY <4>1 DEF l
      <4>3. \A x \in 1 .. l + 1 : x = l + 1 \/ x \in 1 .. l
        BY <4>2
      <4>4. l + 1 \in 1 .. l + 1 /\ \A x \in 1 .. l : x \in 1 .. l + 1
        BY <4>2
      <4> QED
        BY <4>2, <4>3, <4>4
    <3>4. /\ \A y \in Inputs : m.inm[y] # Nobody => m.inm[y] \in Outputs
          /\ i # Nobody /\ j # Nobody
      BY <2>2, Sizes
    <3>5. \A y \in Inputs : InTree(m, s.from, y) => InTree(m, from2, y)
      BY <2>6, <3>4 DEF InTree
    <3>6. \A y \in Inputs : InTree(m, from2, y) => InTree(m, s.from, y) \/ y = z
      BY <2>2, <2>6, <3>4 DEF InTree, z
    <3>7. ~InTree(m, s.from, z) /\ InTree(m, from2, z)
      BY <1>4, <2>6, <3>1, <3>4 DEF InTree
    <3>8. \A y \in Inputs, o \in Outputs :
            <<y, o>> \in E \cup {<<i, j>>} /\ <<y, o>> \in DOMAIN r => m.inm[y] = o \/ from2[o] # Nobody
      BY <1>4, <2>6, <3>4 DEF SeenBy
    <3>9. \A y \in Inputs : InTree(m, from2, y) => y \in Q \/ \E x \in DOMAIN next2 : next2[x] = y
      <4>1. \A y \in Inputs : InTree(m, s.from, y) => y \in Q \/ \E x \in DOMAIN s.next : s.next[x] = y
        BY <1>4 DEF SeenBy
      <4> QED
        BY <3>3, <3>6, <4>1
    <3>10. \A y \in Inputs : y \in Q \/ (\E x \in DOMAIN s.next : s.next[x] = y) => InTree(m, s.from, y)
      BY <1>4 DEF SeenBy
    <3>11. \A y \in Inputs : y \in Q \/ (\E x \in DOMAIN next2 : next2[x] = y) => InTree(m, from2, y)
      BY <3>3, <3>5, <3>7, <3>10
    <3>12. \A x \in DOMAIN next2 : next2[x] \notin Q
      <4>1. \A x \in DOMAIN s.next : s.next[x] \notin Q
        BY <1>4 DEF SeenBy
      <4> QED
        BY <3>1, <3>3, <3>7, <3>10, <4>1
    <3>13. \A o \in Outputs : from2[o] # Nobody => m.outm[o] # Nobody
      <4>1. \A o \in Outputs : s.from[o] # Nobody => m.outm[o] # Nobody
        BY <1>4 DEF SeenBy
      <4> QED
        BY <2>6, <2>11, <4>1
    <3> QED
      BY <2>7, <2>8, <2>9, <3>8, <3>9, <3>11, <3>12, <3>13 DEF SeenBy, u
  <2> QED
    BY <2>10, <2>11
<1> QED
  BY <1>2, <1>3, <1>4

(* What was looked at before is forgotten.                                   *)
LEMMA SeenLess ==
  ASSUME NEW r, NEW m, NEW E, NEW F \in SUBSET E, NEW Q, NEW e
  PROVE  SeenBy(r, m, E, Q, e) \subseteq SeenBy(r, m, F, Q, e)
  BY DEF SeenBy

(* A look at all outputs from an input.                                      *)
LEMMA LookAllSees ==
  ASSUME kind \in Kinds, NEW r, NEW m \in Matchings(DOMAIN r), NEW E, NEW Q, NEW e,
         NEW u \in SeenBy(r, m, E, Q, e), NEW i \in Inputs
  PROVE  LookAll(r, m, u, i) \in SeenBy(r, m, E \cup ({i} \X Outputs), Q, e)
<1> DEFINE T == SeenBy(r, m, {}, Q, e)
           at(j) == E \cup ({i} \X Ports(j))
           W == [j \in 0 .. NO |-> SeenBy(r, m, at(j), Q, e)]
<1>1. NO \in Nat
  BY Sizes
<1>2. \A F : SeenBy(r, m, F, Q, e) \subseteq T
  BY SeenLess
<1>3. u \in SeenBy(r, m, at(0), Q, e)
  <2>1. at(0) = E
    BY DEF Ports
  <2> HIDE DEF at
  <2> QED
    BY <2>1
<1>4. \A j \in 1 .. NO : j - 1 \in Outputs
  BY <1>1 DEF Outputs, Ports
<1>5. \A x \in 1 .. NO, t \in T : Look(r, m, t, i, x - 1) \in T
  <2> HIDE DEF T
  <2>1. ASSUME NEW x \in 1 .. NO, NEW t \in T PROVE Look(r, m, t, i, x - 1) \in T
    <3>1. t \in SeenBy(r, m, {}, Q, e)
      BY DEF T
    <3>2. Look(r, m, t, i, x - 1) \in SeenBy(r, m, {} \cup {<<i, x - 1>>}, Q, e)
      BY <1>4, <3>1, LookSees
    <3> QED
      BY <1>2, <3>2
  <2> QED
    BY <2>1
<1>6. \A k \in 1 .. NO : \A t \in W[k - 1] : Look(r, m, t, i, k - 1) \in W[k]
  <2>1. ASSUME NEW k \in 1 .. NO, NEW t \in W[k - 1] PROVE Look(r, m, t, i, k - 1) \in W[k]
    <3>1. k - 1 \in 0 .. NO /\ k \in 0 .. NO
      BY <1>1
    <3>2. t \in SeenBy(r, m, at(k - 1), Q, e)
      BY <3>1
    <3>3. Look(r, m, t, i, k - 1) \in SeenBy(r, m, at(k - 1) \cup {<<i, k - 1>>}, Q, e)
      <4> HIDE DEF at
      <4> QED
        BY <1>4, <3>2, LookSees
    <3>4. at(k) \in SUBSET (at(k - 1) \cup {<<i, k - 1>>})
      BY <1>1 DEF Ports
    <3>5. Look(r, m, t, i, k - 1) \in SeenBy(r, m, at(k), Q, e)
      <4> HIDE DEF at
      <4> QED
        BY <3>3, <3>4, SeenLess
    <3> HIDE DEF at
    <3> QED
      BY <3>1, <3>5
  <2> QED
    BY <2>1
<1>7. Passes(W, T, u, NO)
  <2>1. W[0] = SeenBy(r, m, at(0), Q, e)
    BY <1>1
  <2>2. \A k \in 0 .. NO : W[k] \subseteq T
    <3> HIDE DEF T, at
    <3> QED
      BY <1>2
  <2> HIDE DEF W, T, at
  <2> QED
    BY <1>3, <2>1, <2>2 DEF Passes
<1>8. W[NO] = SeenBy(r, m, at(NO), Q, e)
  BY <1>1
<1> HIDE DEF W, T, at
<1>9. LookAll(r, m, u, i) \in W[NO]
  BY <1>1, <1>5, <1>6, <1>7, LookAllThrough
<1> QED
  BY <1>8, <1>9 DEF at, Outputs

(* A look at all outputs from all inputs of a layer, which if it is empty       *)
(* changes nothing.                                                        *)
LEMMA LookedSees ==
  ASSUME kind \in Kinds, NEW r, NEW m \in Matchings(DOMAIN r), NEW E, NEW Q, NEW e,
         NEW s \in SeenBy(r, m, E, Q, e), NEW q \in Seq(Inputs)
  PROVE  /\ Looked(r, m, s, q) \in SeenBy(r, m, E \cup ({q[x] : x \in DOMAIN q} \X Outputs), Q, e)
         /\ q = << >> => Looked(r, m, s, q) = s
<1> DEFINE n == Len(q)
           T == SeenBy(r, m, {}, Q, e)
           at(x) == E \cup ({q[y] : y \in 1 .. x} \X Outputs)
           W == [x \in 0 .. n |-> {u \in SeenBy(r, m, at(x), Q, e) : x = 0 => u = s}]
<1>1. n \in Nat /\ DOMAIN q = 1 .. n /\ \A x \in 1 .. n : q[x] \in Inputs
  OBVIOUS
<1>2. \A F : SeenBy(r, m, F, Q, e) \subseteq T
  BY SeenLess
<1>3. s \in SeenBy(r, m, at(0), Q, e)
  <2>1. at(0) = E
    OBVIOUS
  <2> HIDE DEF at
  <2> QED
    BY <2>1
<1> HIDE DEF n
<1>5. \A x \in 1 .. n, t \in T : LookAll(r, m, t, q[x]) \in T
  <2> HIDE DEF T
  <2>1. ASSUME NEW x \in 1 .. n, NEW t \in T PROVE LookAll(r, m, t, q[x]) \in T
    <3>1. t \in SeenBy(r, m, {}, Q, e)
      BY DEF T
    <3>2. LookAll(r, m, t, q[x]) \in SeenBy(r, m, {} \cup ({q[x]} \X Outputs), Q, e)
      BY <1>1, <3>1, LookAllSees
    <3> QED
      BY <1>2, <3>2
  <2> QED
    BY <2>1
<1>6. \A k \in 1 .. n : \A t \in W[k - 1] : LookAll(r, m, t, q[k]) \in W[k]
  <2>1. ASSUME NEW k \in 1 .. n, NEW t \in W[k - 1] PROVE LookAll(r, m, t, q[k]) \in W[k]
    <3>1. k - 1 \in 0 .. n /\ k \in 0 .. n /\ k # 0
      BY <1>1
    <3>2. t \in SeenBy(r, m, at(k - 1), Q, e)
      BY <3>1
    <3>3. LookAll(r, m, t, q[k]) \in SeenBy(r, m, at(k - 1) \cup ({q[k]} \X Outputs), Q, e)
      <4> HIDE DEF at
      <4> QED
        BY <1>1, <3>2, LookAllSees
    <3>4. at(k) \in SUBSET (at(k - 1) \cup ({q[k]} \X Outputs))
      <4>1. \A y \in 1 .. k : y = k \/ y \in 1 .. k - 1
        BY <1>1
      <4> QED
        BY <4>1
    <3>5. LookAll(r, m, t, q[k]) \in SeenBy(r, m, at(k), Q, e)
      <4> HIDE DEF at
      <4> QED
        BY <3>3, <3>4, SeenLess
    <3> HIDE DEF at
    <3> QED
      BY <3>1, <3>5
  <2> QED
    BY <2>1
<1>7. Passes(W, T, s, n)
  <2>1. s \in W[0]
    <3> HIDE DEF at
    <3> QED
      BY <1>1, <1>3
  <2>2. \A k \in 0 .. n : W[k] \subseteq T
    <3> HIDE DEF T, at
    <3> QED
      BY <1>2
  <2> HIDE DEF W, T, at
  <2> QED
    BY <2>1, <2>2 DEF Passes
<1>8. W[n] = {u \in SeenBy(r, m, at(n), Q, e) : n = 0 => u = s}
  BY <1>1
<1> HIDE DEF W, T, at
<1>9. Looked(r, m, s, q) \in W[n]
  BY <1>1, <1>5, <1>6, <1>7, LookedThrough
<1>10. q = << >> => n = 0
  BY DEF n
<1>11. at(n) = E \cup ({q[x] : x \in DOMAIN q} \X Outputs)
  BY <1>1 DEF at
<1> QED
  BY <1>8, <1>9, <1>10, <1>11

(* A search after k layers: unless it ended, of the inputs in the tree those    *)
(* not in this layer have been looked at from, whatever was reached is matched, *)
(* and the layer is empty or there were k such inputs.                        *)
Done(m, s) == {i \in Inputs : InTree(m, s.from, i) /\ \A x \in DOMAIN s.layer : s.layer[x] # i}
Explored(r, m, s, k) ==
  /\ \A i \in Done(m, s), j \in Outputs : <<i, j>> \in DOMAIN r => m.inm[i] = j \/ s.from[j] # Nobody
  /\ \A x \in DOMAIN s.layer : InTree(m, s.from, s.layer[x])
  /\ \A j \in Outputs : s.from[j] # Nobody => m.outm[j] # Nobody
  /\ s.layer = << >> \/ Cardinality(Done(m, s)) >= k
LayeredBy(r, m, k) == {s \in Searches : s.next = << >> /\ (s.end = Nobody => Explored(r, m, s, k))}

(* A layer looks at all outputs from the inputs of the one before.            *)
LEMMA LayerSees ==
  ASSUME kind \in Kinds, NEW r, NEW m \in Matchings(DOMAIN r), NEW k \in Nat, NEW s \in LayeredBy(r, m, k)
  PROVE  Layer(r, m, s) \in LayeredBy(r, m, k + 1)
<1> DEFINE e == s.end
           D == Done(m, s)
           Q == {i \in Inputs : InTree(m, s.from, i)}
           E == D \X Outputs
           t == Looked(r, m, s, s.layer)
           F == {s.layer[x] : x \in DOMAIN s.layer}
           v == [layer |-> t.next, next |-> << >>, from |-> t.from, end |-> t.end]
<1>1. s \in Searches /\ s.layer \in Seq(Inputs) /\ s.next = << >> /\ DOMAIN s.next = {}
  BY DEF LayeredBy, Searches
<1>2. s \in SeenBy(r, m, E, Q, e)
  <2>1. s.end = Nobody => Explored(r, m, s, k)
    BY DEF LayeredBy
  <2> QED
    BY <1>1, <2>1 DEF SeenBy, Explored
<1>3. t \in SeenBy(r, m, E \cup (F \X Outputs), Q, e) /\ (s.layer = << >> => t = s)
  <2> HIDE DEF E, Q, e
  <2> QED
    BY <1>1, <1>2, LookedSees
<1> HIDE DEF E, Q, e, D
<1>4. t \in Searches
  BY <1>3 DEF SeenBy
<1>5. Layer(r, m, s) = v
  BY <1>4, LayerIs
<1> HIDE DEF t
<1>6. v \in Searches /\ v.next = << >> /\ v.layer = t.next /\ v.from = t.from /\ v.end = t.end
  BY <1>4 DEF Searches
<1> HIDE DEF v
<1>7. CASE t.end # Nobody
  BY <1>5, <1>6, <1>7 DEF LayeredBy
<1>8. CASE t.end = Nobody
  <2>1. s.end = Nobody
    BY <1>3, <1>8 DEF SeenBy, e
  <2>0. Explored(r, m, s, k)
    BY <2>1 DEF LayeredBy
  <2>2. /\ \A i \in Inputs, j \in Outputs :
             <<i, j>> \in E \cup (F \X Outputs) /\ <<i, j>> \in DOMAIN r => m.inm[i] = j \/ t.from[j] # Nobody
        /\ \A i \in Inputs : InTree(m, t.from, i) => i \in Q \/ \E x \in DOMAIN t.next : t.next[x] = i
        /\ \A x \in DOMAIN t.next : t.next[x] \notin Q
        /\ \A j \in Outputs : t.from[j] # Nobody => m.outm[j] # Nobody
        /\ \A i \in Inputs : i \in Q \/ (\E x \in DOMAIN t.next : t.next[x] = i) => InTree(m, t.from, i)
    BY <1>3, <1>8 DEF SeenBy
  <2>3. Done(m, v) = Q
    BY <1>6, <2>2 DEF Done, Q
  <2>4. \A i \in Q : i \in D \/ i \in F
    BY DEF Q, D, Done
  <2>5. \A i \in Q, j \in Outputs : <<i, j>> \in DOMAIN r => m.inm[i] = j \/ t.from[j] # Nobody
    <3>1. \A i \in Q : i \in Inputs
      BY DEF Q
    <3> QED
      BY <2>2, <2>4, <3>1 DEF E
  <2>6. \A x \in DOMAIN t.next : InTree(m, t.from, t.next[x])
    <3>1. \A x \in DOMAIN t.next : t.next[x] \in Inputs
      BY <1>4 DEF Searches
    <3> QED
      BY <2>2, <3>1
  <2>7. t.next = << >> \/ Cardinality(Q) >= k + 1
    <3>1. CASE s.layer = << >>
      BY <1>1, <1>3, <3>1
    <3>2. CASE s.layer # << >>
      <4>1. Cardinality(D) >= k
        BY <2>0, <3>2 DEF Explored, D
      <4>2. s.layer[1] \in Q /\ s.layer[1] \notin D /\ D \in SUBSET Q
        <5>1. 1 \in DOMAIN s.layer
          BY <1>1, <3>2
        <5>2. s.layer[1] \in Inputs /\ InTree(m, s.from, s.layer[1])
          BY <1>1, <2>0, <5>1 DEF Explored
        <5> QED
          BY <5>1, <5>2 DEF D, Q, Done
      <4>3. IsFiniteSet(Q)
        <5>1. Q \in SUBSET Inputs
          BY DEF Q
        <5> QED
          BY <5>1, Sizes, FS_Subset
      <4>4. IsFiniteSet(D) /\ Cardinality(D) <= Cardinality(Q) /\ Cardinality(D) # Cardinality(Q)
        BY <4>2, <4>3, FS_Subset
      <4>5. Cardinality(D) \in Nat /\ Cardinality(Q) \in Nat
        BY <4>3, <4>4, FS_CardinalityType
      <4> QED
        BY <4>1, <4>4, <4>5
    <3> QED
      BY <3>1, <3>2
  <2> QED
    <3>1. Explored(r, m, v, k + 1)
      BY <1>6, <2>2, <2>3, <2>5, <2>6, <2>7 DEF Explored
    <3> QED
      BY <1>5, <1>6, <3>1 DEF LayeredBy
<1> QED
  BY <1>5, <1>7, <1>8

(* A search has as many layers as there are inputs.                          *)
LEMMA SearchSees ==
  ASSUME kind \in Kinds, NEW r, NEW m \in Matchings(DOMAIN r), turn \in Ports(NI)
  PROVE  Search(r, m) \in LayeredBy(r, m, NI)
<1> DEFINE T == UNION {LayeredBy(r, m, k) : k \in Nat}
           W == [k \in 0 .. NI |-> LayeredBy(r, m, k)]
           s == SearchStart(m)
           q == Unmatched(m, Order)
<1>1. NI \in Nat \ {0} /\ DOMAIN Order = 1 .. NI
  BY Sizes DEF Order
<1>2. s \in LayeredBy(r, m, 0)
  <2>1. \A k \in 1 .. NI : Order[k] \in Inputs
    BY EveryInput
  <2>2. /\ q \in Seq(Inputs) /\ \A x \in DOMAIN q : m.inm[q[x]] = Nobody
        /\ \A k \in 1 .. NI : m.inm[Order[k]] = Nobody => \E x \in DOMAIN q : q[x] = Order[k]
    <3>1. q \in Seq(Inputs) /\ Queues(m, Order, q, NI)
      BY <1>1, <2>1, UnmatchedOK
    <3> HIDE DEF q
    <3> QED
      BY <3>1 DEF Queues
  <2>3. \A i \in Inputs : m.inm[i] = Nobody => \E x \in DOMAIN q : q[x] = i
    BY <2>2, EveryInput
  <2>4. s \in Searches /\ s.next = << >> /\ s.layer = q /\ s.from = Free(NO) /\ s.end = Nobody
    BY <2>2 DEF Searches, SearchStart, Free, Outputs
  <2> HIDE DEF s, q
  <2>5. \A o \in Outputs : s.from[o] = Nobody
    BY <2>4 DEF Free, Outputs
  <2>6. \A i \in Inputs : InTree(m, s.from, i) => m.inm[i] = Nobody
    BY <2>5 DEF InTree, Matchings
  <2>7. Done(m, s) = {}
    BY <2>3, <2>4, <2>6 DEF Done
  <2>8. Cardinality({}) = 0
    BY FS_EmptySet
  <2>9. \A x \in DOMAIN s.layer : InTree(m, s.from, s.layer[x])
    BY <2>2, <2>4 DEF InTree
  <2>10. Explored(r, m, s, 0)
    BY <2>5, <2>7, <2>8, <2>9 DEF Explored
  <2> QED
    BY <2>4, <2>10 DEF LayeredBy
<1>3. \A k \in Nat : \A t \in LayeredBy(r, m, k) : Layer(r, m, t) \in LayeredBy(r, m, k + 1)
  BY LayerSees
<1>4. \A x \in 1 .. NI, t \in T : Layer(r, m, t) \in T
  <2>1. ASSUME NEW t \in T PROVE Layer(r, m, t) \in T
    <3>1. PICK k \in Nat : t \in LayeredBy(r, m, k)
      OBVIOUS
    <3>2. k + 1 \in Nat /\ Layer(r, m, t) \in LayeredBy(r, m, k + 1)
      BY <1>3, <3>1
    <3> QED
      BY <3>2
  <2> QED
    BY <2>1
<1>5. \A k \in 1 .. NI : \A t \in W[k - 1] : Layer(r, m, t) \in W[k]
  <2>1. ASSUME NEW k \in 1 .. NI, NEW t \in W[k - 1] PROVE Layer(r, m, t) \in W[k]
    <3>1. k - 1 \in Nat /\ k - 1 \in 0 .. NI /\ k - 1 + 1 = k /\ k \in 0 .. NI
      BY <1>1
    <3>2. Layer(r, m, t) \in LayeredBy(r, m, k - 1 + 1)
      BY <1>3, <3>1
    <3> QED
      BY <3>1, <3>2
  <2> QED
    BY <2>1
<1>6. Passes(W, T, s, NI)
  <2>1. s \in W[0]
    BY <1>1, <1>2
  <2>2. \A k \in 0 .. NI : W[k] \subseteq T
    OBVIOUS
  <2> HIDE DEF W, T, s
  <2> QED
    BY <2>1, <2>2 DEF Passes
<1>7. W[NI] = LayeredBy(r, m, NI)
  BY <1>1
<1> HIDE DEF W, T
<1>8. Search(r, m) \in W[NI]
  BY <1>1, <1>4, <1>5, <1>6, SearchThrough
<1> QED
  BY <1>7, <1>8

(* What a search without an end has reached: all that is asked from the tree,  *)
(* and nothing that is free.                                                *)
Closed(r, m, from) ==
  /\ \A i \in Inputs, j \in Outputs : InTree(m, from, i) /\ <<i, j>> \in DOMAIN r => from[j] # Nobody
  /\ \A j \in Outputs : from[j] # Nobody => m.outm[j] # Nobody

(* How many inputs there are.                                                *)
LEMMA InputsCounted ==
  ASSUME kind \in Kinds
  PROVE  IsFiniteSet(Inputs) /\ Cardinality(Inputs) = NI
<1>1. NI \in Nat \ {0} /\ Inputs = 0 .. NI - 1
  BY Sizes DEF Ports
<1>2. 0 \in Int /\ NI - 1 \in Int
  BY <1>1
<1>3. Cardinality(0 .. NI - 1) = IF 0 > NI - 1 THEN 0 ELSE NI - 1 - 0 + 1
  BY <1>2, FS_Interval
<1> QED
  BY <1>1, <1>3, Sizes

(* There are as many layers as can have somebody new.                         *)
LEMMA SearchCloses ==
  ASSUME kind \in Kinds, NEW r, NEW m \in Matchings(DOMAIN r), turn \in Ports(NI),
         Search(r, m).end = Nobody
  PROVE  Closed(r, m, Search(r, m).from)
<1> DEFINE s == Search(r, m)
<1>1. s \in Searches /\ Explored(r, m, s, NI)
  BY SearchSees DEF LayeredBy
<1> HIDE DEF s
<1>2. IsFiniteSet(Inputs) /\ Cardinality(Inputs) = NI
  BY InputsCounted
<1>3. \A i \in Inputs : InTree(m, s.from, i) => i \in Done(m, s)
  <2>1. CASE s.layer = << >>
    BY <2>1 DEF Done
  <2>2. CASE Cardinality(Done(m, s)) >= NI
    <3>1. Done(m, s) \in SUBSET Inputs
      BY DEF Done
    <3>2. Cardinality(Done(m, s)) \in Nat /\ Cardinality(Done(m, s)) <= NI
      BY <1>2, <3>1, FS_Subset, FS_CardinalityType
    <3>3. Cardinality(Done(m, s)) = Cardinality(Inputs)
      BY <1>2, <2>2, <3>2, Sizes
    <3>4. Done(m, s) = Inputs
      BY <1>2, <3>1, <3>3, FS_Subset
    <3> QED
      BY <3>4
  <2> QED
    BY <1>1, <2>1, <2>2 DEF Explored
<1>4. ASSUME NEW i \in Inputs, NEW j \in Outputs, InTree(m, s.from, i), <<i, j>> \in DOMAIN r
      PROVE  s.from[j] # Nobody
  <2>1. m.inm[i] = j \/ s.from[j] # Nobody
    BY <1>1, <1>3, <1>4 DEF Explored
  <2> QED
    BY <1>4, <2>1, Sizes DEF InTree
<1> QED
  BY <1>1, <1>4 DEF Closed, Explored, s

(* Who is matched, and in how many pairs.                                     *)
Busy(m)  == {i \in Inputs : m.inm[i] # Nobody}
Pairs(m) == {c \in Inputs \X Outputs : m.inm[c[1]] = c[2]}

(* A closed tree bounds every matching: of two that clash in nothing, each     *)
(* has an end of its own in the pairs of m, at a reached output or at an input *)
(* not in the tree.                                                         *)
LEMMA ClosedBounds ==
  ASSUME kind \in Kinds, NEW r, Asking2(r), NEW m \in Matchings(DOMAIN r), NEW from, Closed(r, m, from),
         NEW S \in SUBSET DOMAIN r, IsMatching(S)
  PROVE  Cardinality(S) <= Cardinality(Pairs(m))
<1> DEFINE end(c) == IF from[c[2]] # Nobody THEN <<m.outm[c[2]], c[2]>> ELSE <<c[1], m.inm[c[1]]>>
           f == [c \in S |-> end(c)]
<1>1. IsFiniteSet(Pairs(m))
  <2>1. IsFiniteSet(Inputs \X Outputs)
    BY Sizes, FS_Product
  <2>2. Pairs(m) \in SUBSET (Inputs \X Outputs)
    BY DEF Pairs
  <2> QED
    BY <2>1, <2>2, FS_Subset
<1>2. /\ m.inm \in [Inputs -> Outputs \cup {Nobody}] /\ m.outm \in [Outputs -> Inputs \cup {Nobody}]
      /\ \A i \in Inputs, o \in Outputs : m.inm[i] = o <=> m.outm[o] = i
  BY DEF Matchings
<1>3. ASSUME NEW c \in S
      PROVE  /\ c[1] \in Inputs /\ c[2] \in Outputs
             /\ from[c[2]] # Nobody => m.outm[c[2]] \in Inputs /\ m.inm[m.outm[c[2]]] = c[2]
             /\ from[c[2]] = Nobody => m.inm[c[1]] \in Outputs /\ from[m.inm[c[1]]] = Nobody
  <2>1. c \in DOMAIN r /\ c[1] \in Inputs /\ c[2] \in Outputs /\ c = <<c[1], c[2]>>
    BY DEF Asking2
  <2>2. from[c[2]] # Nobody => m.outm[c[2]] \in Inputs
    BY <1>2, <2>1 DEF Closed
  <2>3. from[c[2]] # Nobody => m.inm[m.outm[c[2]]] = c[2]
    BY <1>2, <2>1, <2>2
  <2>4. from[c[2]] = Nobody => ~InTree(m, from, c[1])
    BY <2>1 DEF Closed
  <2> QED
    BY <1>2, <2>1, <2>2, <2>3, <2>4 DEF InTree
<1>4. \A c \in S : end(c) \in Pairs(m)
  BY <1>3 DEF Pairs
<1>5. ASSUME NEW c \in S, NEW d \in S, end(c) = end(d)
      PROVE  c = d
  <2>1. from[c[2]] # Nobody /\ from[d[2]] # Nobody => c[2] = d[2]
    BY <1>5
  <2>2. from[c[2]] = Nobody /\ from[d[2]] = Nobody => c[1] = d[1]
    BY <1>5
  <2>3. ~(from[c[2]] # Nobody /\ from[d[2]] = Nobody)
    BY <1>3, <1>5
  <2>4. ~(from[c[2]] = Nobody /\ from[d[2]] # Nobody)
    BY <1>3, <1>5
  <2>5. Clash(c, d)
    BY <2>1, <2>2, <2>3, <2>4 DEF Clash
  <2> QED
    BY <2>5 DEF IsMatching
<1> HIDE DEF end
<1>6. f \in [S -> Pairs(m)] /\ IsInjective(f)
  BY <1>4, <1>5 DEF IsInjective
<1>7. f \in Injection(S, Pairs(m))
  BY <1>6 DEF Injection
<1> HIDE DEF f
<1> QED
  BY <1>1, <1>7, FS_Injection

-----------------------------------------------------------------------------
(* A swap of the path.  Between two, at output j the matching is undone,      *)
(* everywhere else both ends agree, and lower layers than that of j are as they *)
(* were.                                                                    *)
SwapStep(from, t) ==
  IF t.j = Nobody THEN t
  ELSE LET i == from[t.j]
       IN  [m |-> [inm |-> [t.m.inm EXCEPT ![i] = t.j], outm |-> [t.m.outm EXCEPT ![t.j] = i]],
            j |-> t.m.inm[i]]

(* Matches of which the two ends need not agree.                              *)
HalfMatchings == [inm : [Inputs -> Outputs \cup {Nobody}], outm : [Outputs -> Inputs \cup {Nobody}]]

(* After k swaps from the matching m.                                         *)
SwapAt(C, m, from, dep, k) ==
  {t \in [m : HalfMatchings, j : Outputs \cup {Nobody}] :
     /\ \A i \in Inputs, o \in Outputs :
          /\ t.m.inm[i] = o => t.m.outm[o] = i /\ <<i, o>> \in C /\ o # t.j
          /\ t.m.outm[o] = i /\ o # t.j => t.m.inm[i] = o
     /\ t.j # Nobody =>
          /\ from[t.j] # Nobody /\ dep[t.j] + k <= NI
          /\ \A i \in Inputs : Lev(m, dep, i) < dep[t.j] => t.m.inm[i] = m.inm[i]}

(* A swap goes to the output that the input was matched with, a layer lower. *)
LEMMA SwapStepOK ==
  ASSUME kind \in Kinds, NEW r, Asking2(r), NEW m \in Matchings(DOMAIN r), NEW s \in Searches,
         NEW dep \in [Outputs -> Nat], NEW a, NEW b, Reached(r, m, s, dep, a, b), NEW k \in Nat,
         NEW t \in SwapAt(DOMAIN r, m, s.from, dep, k)
  PROVE  SwapStep(s.from, t) \in SwapAt(DOMAIN r, m, s.from, dep, k + 1)
<1> DEFINE C == DOMAIN r
           i == s.from[t.j]
           j == t.j
           j2 == t.m.inm[i]
           inm2 == [t.m.inm EXCEPT ![i] = j]
           outm2 == [t.m.outm EXCEPT ![j] = i]
           v == [m |-> [inm |-> inm2, outm |-> outm2], j |-> j2]
<1>1. /\ t.m.inm \in [Inputs -> Outputs \cup {Nobody}] /\ t.m.outm \in [Outputs -> Inputs \cup {Nobody}]
      /\ t.j \in Outputs \cup {Nobody} /\ t \in [m : HalfMatchings, j : Outputs \cup {Nobody}]
  BY DEF SwapAt, HalfMatchings
<1>2. \A x \in Inputs, o \in Outputs :
        /\ t.m.inm[x] = o => t.m.outm[o] = x /\ <<x, o>> \in C /\ o # t.j
        /\ t.m.outm[o] = x /\ o # t.j => t.m.inm[x] = o
  BY DEF SwapAt
<1>3. t.j # Nobody =>
        /\ s.from[t.j] # Nobody /\ dep[t.j] + k <= NI
        /\ \A x \in Inputs : Lev(m, dep, x) < dep[t.j] => t.m.inm[x] = m.inm[x]
  BY DEF SwapAt
<1>4. CASE t.j = Nobody
  <2>1. SwapStep(s.from, t) = t
    BY <1>4 DEF SwapStep
  <2> QED
    BY <1>1, <1>2, <1>4, <2>1 DEF SwapAt
<1>5. CASE t.j # Nobody
  <2>1. SwapStep(s.from, t) = v
    BY <1>5 DEF SwapStep
  <2>2. j \in Outputs /\ i # Nobody /\ i \in Inputs
    <3>1. j \in Outputs
      BY <1>1, <1>5
    <3> QED
      BY <1>3, <1>5, <3>1 DEF Searches
  <2>3. <<i, j>> \in C /\ InTree(m, s.from, i) /\ Lev(m, dep, i) < dep[j]
    BY <2>2 DEF Reached
  <2>4. j2 = m.inm[i]
    BY <1>3, <1>5, <2>2, <2>3
  <2>5. j2 \in Outputs \cup {Nobody}
    BY <1>1, <2>2
  <2>6. inm2 \in [Inputs -> Outputs \cup {Nobody}] /\ outm2 \in [Outputs -> Inputs \cup {Nobody}]
    BY <1>1, <2>2
  <2>7. v \in [m : HalfMatchings, j : Outputs \cup {Nobody}]
    <3> HIDE DEF inm2, outm2, j2
    <3> QED
      BY <2>5, <2>6 DEF HalfMatchings
  <2>8. /\ inm2[i] = j /\ \A x \in Inputs : x # i => inm2[x] = t.m.inm[x]
        /\ outm2[j] = i /\ \A o \in Outputs : o # j => outm2[o] = t.m.outm[o]
    BY <1>1, <2>2
  <2>9. j2 \in Outputs => t.m.outm[j2] = i /\ j2 # j
    BY <1>2, <2>2
  <2> HIDE DEF inm2, outm2, j2, i, j
  <2>10. ASSUME NEW x \in Inputs, NEW o \in Outputs, inm2[x] = o
         PROVE  outm2[o] = x /\ <<x, o>> \in C /\ o # j2
    <3>1. CASE x = i
      BY <2>2, <2>3, <2>8, <2>9, <2>10, <3>1
    <3>2. CASE x # i
      <4>1. t.m.inm[x] = o
        BY <2>8, <2>10, <3>2
      <4>2. t.m.outm[o] = x /\ <<x, o>> \in C /\ o # j
        BY <1>2, <4>1 DEF j
      <4> QED
        BY <2>8, <2>9, <3>2, <4>2
    <3> QED
      BY <3>1, <3>2
  <2>11. ASSUME NEW x \in Inputs, NEW o \in Outputs, outm2[o] = x, o # j2
         PROVE  inm2[x] = o
    <3>1. CASE o = j
      BY <2>8, <2>11, <3>1
    <3>2. CASE o # j
      <4>1. t.m.outm[o] = x
        BY <2>8, <2>11, <3>2
      <4>2. t.m.inm[x] = o
        BY <1>2, <3>2, <4>1 DEF j
      <4>3. x # i
        BY <2>11, <4>2 DEF j2
      <4> QED
        BY <2>8, <4>2, <4>3
    <3> QED
      BY <3>1, <3>2
  <2>12. ASSUME j2 # Nobody
         PROVE  /\ s.from[j2] # Nobody /\ dep[j2] + (k + 1) <= NI
                /\ \A x \in Inputs : Lev(m, dep, x) < dep[j2] => inm2[x] = m.inm[x]
    <3>1. Lev(m, dep, i) = dep[j2] /\ s.from[j2] # Nobody
      BY <2>3, <2>4, <2>12 DEF Lev, InTree
    <3>2. dep[j2] < dep[j] /\ dep[j2] \in Nat /\ dep[j] \in Nat
      BY <2>2, <2>3, <2>5, <2>12, <3>1
    <3>3. dep[j] + k <= NI /\ NI \in Nat
      BY <1>3, <1>5, Sizes DEF j
    <3>4. ASSUME NEW x \in Inputs, Lev(m, dep, x) < dep[j2]
          PROVE  inm2[x] = m.inm[x]
      <4>1. Lev(m, dep, x) \in Nat
        BY DEF Lev, Matchings
      <4>2. Lev(m, dep, x) < dep[j] /\ x # i
        BY <3>1, <3>2, <3>4, <4>1
      <4>3. t.m.inm[x] = m.inm[x]
        BY <1>3, <1>5, <4>2 DEF j
      <4> QED
        BY <2>8, <4>2, <4>3
    <3>5. dep[j2] + (k + 1) <= NI
      BY <3>2, <3>3
    <3> QED
      BY <3>1, <3>4, <3>5
  <2>13. v.m.inm = inm2 /\ v.m.outm = outm2 /\ v.j = j2
    OBVIOUS
  <2> HIDE DEF v
  <2>14. v \in SwapAt(C, m, s.from, dep, k + 1)
    BY <2>7, <2>10, <2>11, <2>12, <2>13 DEF SwapAt
  <2> QED
    BY <2>1, <2>14
<1> QED
  BY <1>4, <1>5

(* Since the matching m nobody lost his match, and when no output is left to    *)
(* swap somebody has one who had none.                                      *)
Grown(m, t) ==
  /\ \A i \in Inputs : m.inm[i] # Nobody => t.m.inm[i] # Nobody
  /\ t.j = Nobody => \E i \in Inputs : m.inm[i] = Nobody /\ t.m.inm[i] # Nobody

(* A swap takes a match only from who gets another.                          *)
LEMMA SwapStepGrows ==
  ASSUME kind \in Kinds, NEW r, Asking2(r), NEW m \in Matchings(DOMAIN r), NEW s \in Searches,
         NEW dep \in [Outputs -> Nat], NEW a, NEW b, Reached(r, m, s, dep, a, b), NEW k \in Nat,
         NEW t \in SwapAt(DOMAIN r, m, s.from, dep, k), Grown(m, t)
  PROVE  Grown(m, SwapStep(s.from, t))
<1> DEFINE i == s.from[t.j]
           j == t.j
           inm2 == [t.m.inm EXCEPT ![i] = j]
           outm2 == [t.m.outm EXCEPT ![j] = i]
           v == [m |-> [inm |-> inm2, outm |-> outm2], j |-> t.m.inm[i]]
<1>1. CASE t.j = Nobody
  BY <1>1 DEF SwapStep
<1>2. CASE t.j # Nobody
  <2>1. SwapStep(s.from, t) = v
    BY <1>2 DEF SwapStep
  <2>2. /\ t.m.inm \in [Inputs -> Outputs \cup {Nobody}] /\ t.j \in Outputs
        /\ s.from[t.j] # Nobody
        /\ \A x \in Inputs : Lev(m, dep, x) < dep[t.j] => t.m.inm[x] = m.inm[x]
    BY <1>2 DEF SwapAt, HalfMatchings
  <2>3. i \in Inputs /\ Lev(m, dep, i) < dep[t.j]
    BY <2>2 DEF Searches, Reached
  <2>4. t.m.inm[i] = m.inm[i]
    BY <2>2, <2>3
  <2>5. inm2[i] = j /\ \A x \in Inputs : x # i => inm2[x] = t.m.inm[x]
    BY <2>2, <2>3
  <2>6. v.m.inm = inm2 /\ v.j = t.m.inm[i]
    OBVIOUS
  <2> HIDE DEF v, inm2, outm2, i
  <2>7. \A x \in Inputs : m.inm[x] # Nobody => inm2[x] # Nobody
    BY <1>2, <2>5 DEF Grown
  <2>8. m.inm[i] = Nobody => inm2[i] # Nobody
    BY <1>2, <2>5
  <2> QED
    BY <2>1, <2>3, <2>4, <2>6, <2>7, <2>8 DEF Grown
<1> QED
  BY <1>1, <1>2

(* As many swaps as there are inputs.                                        *)
Swaps(m, from, j) == FoldLeft(LAMBDA t, k : SwapStep(from, t), [m |-> m, j |-> j], [k \in 1 .. NI |-> k])

(* The swaps of a path.                                                       *)
LEMMA SwapsThrough ==
  ASSUME NEW m, NEW from, NEW e,
         NI \in Nat, NEW T, NEW W, Passes(W, T, [m |-> m, j |-> e], NI),
         \A x \in 1 .. NI, t \in T : SwapStep(from, t) \in T,
         \A k \in 1 .. NI : \A t \in W[k - 1] : SwapStep(from, t) \in W[k]
  PROVE  Swaps(m, from, e) \in W[NI]
<1> DEFINE seq == [k \in 1 .. NI |-> k]
           D == DOMAIN seq
           base == [m |-> m, j |-> e]
           step == [c \in D \X T |-> SwapStep(from, c[2])]
           R(g) == g = [s \in SUBSET D |-> IF s = {} THEN base
                                           ELSE SwapStep(from, g[s \ {Max(s)}])]
           h == CHOOSE g : R(g)
<1>1. Swaps(m, from, e) = h[D]
  BY DEF Swaps, FoldLeft, MapThenFoldSet
<1>2. IsFiniteSet(D) /\ Ints(D) /\ Upto(D, NI)
  <2>1. NI \in Int /\ D = 1 .. NI
    OBVIOUS
  <2> HIDE DEF D
  <2> QED
    BY <2>1, FS_Interval DEF Ints, Upto
<1>3. base \in T /\ base \in W[0]
  <2>1. 0 \in 0 .. NI
    OBVIOUS
  <2> QED
    BY <2>1 DEF Passes
<1>4. step \in [D \X T -> T]
  <2> HIDE DEF base
  <2> QED
    OBVIOUS
<1>5. \A x \in D, t \in T : step[<<x, t>>] = SwapStep(from, t)
  OBVIOUS
<1>6. \A s \in SUBSET D : s # {} => Max(s) \in D
  <2> HIDE DEF D
  <2> QED
    BY <1>2, MaxOf
<1>7. Through(W, base, step, NI)
  <2>1. ASSUME NEW k \in 1 .. NI, NEW t \in W[k - 1]
        PROVE  step[<<k, t>>] \in W[k]
    <3>1. k - 1 \in 0 .. NI /\ k \in D
      OBVIOUS
    <3>2. t \in T
      BY <3>1 DEF Passes
    <3>3. step[<<k, t>>] = SwapStep(from, t)
      BY <1>5, <3>1, <3>2
    <3> HIDE DEF step
    <3> QED
      BY <3>3
  <2> HIDE DEF step, base
  <2> QED
    BY <1>3, <2>1 DEF Through
<1> HIDE DEF D, base, step, seq
<1>8. PICK g : Solves(g, base, step, D, T)
  BY <1>2, <1>3, <1>4, Foldable DEF Has
<1>9. R(g)
  <2>1. ASSUME NEW s \in SUBSET D, s # {}
        PROVE  g[s] = SwapStep(from, g[s \ {Max(s)}])
    <3>1. g[s] = step[<<Max(s), g[s \ {Max(s)}]>>]
      BY <1>8, <2>1, UnfoldsAt DEF Solves
    <3>2. Max(s) \in D /\ g[s \ {Max(s)}] \in T
      BY <1>6, <1>8, <2>1 DEF Solves
    <3> QED
      BY <1>5, <3>1, <3>2
  <2>2. g[{}] = base
    BY <1>8, UnfoldsNone DEF Solves
  <2>3. g = [s \in SUBSET D |-> g[s]]
    BY <1>8 DEF Solves
  <2> QED
    BY <2>1, <2>2, <2>3
<1>10. R(h)
  <2> HIDE DEF R
  <2> QED
    BY <1>9
<1>11. Follows(h, base, step, D, T)
  <2> HIDE DEF h
  <2>1. h[{}] = base
    BY <1>10
  <2>2. \A s \in SUBSET D : s # {} => h[s] = SwapStep(from, h[s \ {Max(s)}])
    BY <1>10
  <2> QED
    BY <1>5, <1>6, <2>1, <2>2 DEF Follows
<1> HIDE DEF h
<1>12. h[D] = g[D]
  BY <1>2, <1>8, <1>11, FoldFollows
<1>13. g[D] \in W[NI]
  BY <1>2, <1>7, <1>8, FoldThrough DEF Solves
<1> QED
  BY <1>1, <1>12, <1>13

(* The swaps of a path lead to SwapAt after as many as there are inputs.     *)
LEMMA SwapsOK ==
  ASSUME kind \in Kinds, NEW r, Asking2(r), NEW m \in Matchings(DOMAIN r), NEW s \in Searches,
         NEW dep \in [Outputs -> Nat], Reached(r, m, s, dep, NI, NI), s.end # Nobody
  PROVE  /\ Swaps(m, s.from, s.end) \in SwapAt(DOMAIN r, m, s.from, dep, NI)
         /\ Grown(m, Swaps(m, s.from, s.end))
<1> DEFINE at(k) == SwapAt(DOMAIN r, m, s.from, dep, k)
           T == UNION {at(k) : k \in Nat}
           base == [m |-> m, j |-> s.end]
           W == [k \in 0 .. NI |-> {t \in at(k) : Grown(m, t)}]
<1>1. NI \in Nat
  BY Sizes
<1>2. base \in at(0)
  <2>1. base \in [m : HalfMatchings, j : Outputs \cup {Nobody}]
    BY DEF HalfMatchings, Matchings, Searches
  <2>2. base.m = m /\ base.j = s.end
    OBVIOUS
  <2>3. \A i \in Inputs, o \in Outputs : (m.inm[i] = o <=> m.outm[o] = i) /\ (m.inm[i] = o => <<i, o>> \in DOMAIN r)
    BY DEF Matchings
  <2>4. s.from[s.end] # Nobody /\ m.outm[s.end] = Nobody
    BY DEF Reached
  <2>5. s.end \in Outputs
    BY DEF Searches
  <2>6. dep[s.end] <= NI /\ dep[s.end] + 0 <= NI
    <3>1. dep[s.end] <= NI
      BY <2>4, <2>5 DEF Reached
    <3> QED
      BY <2>5, <3>1
  <2>7. \A i \in Inputs, o \in Outputs : m.outm[o] = i => o # s.end
    BY <2>4, Sizes
  <2> HIDE DEF base
  <2> QED
    BY <2>1, <2>2, <2>3, <2>4, <2>6, <2>7 DEF SwapAt
<1>3. Grown(m, base)
  BY DEF Grown
<1>4. \A k \in Nat : \A t \in at(k) : SwapStep(s.from, t) \in at(k + 1)
  BY SwapStepOK
<1>5. \A k \in Nat : \A t \in at(k) : Grown(m, t) => Grown(m, SwapStep(s.from, t))
  BY SwapStepGrows
<1> HIDE DEF at, base
<1>6. \A x \in 1 .. NI, t \in T : SwapStep(s.from, t) \in T
  <2>1. ASSUME NEW t \in T PROVE SwapStep(s.from, t) \in T
    <3>1. PICK k \in Nat : t \in at(k)
      OBVIOUS
    <3>2. k + 1 \in Nat /\ SwapStep(s.from, t) \in at(k + 1)
      BY <1>4, <3>1
    <3> QED
      BY <3>2
  <2> QED
    BY <2>1
<1>7. \A k \in 1 .. NI : \A t \in W[k - 1] : SwapStep(s.from, t) \in W[k]
  <2>1. ASSUME NEW k \in 1 .. NI, NEW t \in W[k - 1] PROVE SwapStep(s.from, t) \in W[k]
    <3>1. k - 1 \in Nat /\ k - 1 \in 0 .. NI /\ k - 1 + 1 = k /\ k \in 0 .. NI
      BY <1>1
    <3>2. SwapStep(s.from, t) \in at(k - 1 + 1) /\ Grown(m, SwapStep(s.from, t))
      BY <1>4, <1>5, <3>1
    <3> QED
      BY <3>1, <3>2
  <2> QED
    BY <2>1
<1>8. Passes(W, T, base, NI)
  <2>1. base \in W[0]
    BY <1>1, <1>2, <1>3
  <2>2. \A k \in 0 .. NI : W[k] \subseteq T
    OBVIOUS
  <2> HIDE DEF W, T
  <2> QED
    BY <2>1, <2>2 DEF Passes
<1>9. W[NI] = {t \in at(NI) : Grown(m, t)}
  BY <1>1
<1> HIDE DEF W, T
<1>10. Swaps(m, s.from, s.end) \in W[NI]
  BY <1>1, <1>6, <1>7, <1>8, SwapsThrough DEF base
<1> QED
  BY <1>9, <1>10 DEF at

(* The path has ended by then, so that the swaps give a matching, of one more.  *)
LEMMA SwapOK ==
  ASSUME kind \in Kinds, NEW r, Asking2(r), NEW m \in Matchings(DOMAIN r), NEW s \in Bounded(r, m, NI, NI),
         s.end # Nobody
  PROVE  /\ Swap(m, s.from, s.end) \in Matchings(DOMAIN r)
         /\ Busy(m) \subseteq Busy(Swap(m, s.from, s.end)) /\ Busy(m) # Busy(Swap(m, s.from, s.end))
<1> DEFINE C == DOMAIN r
           t == Swaps(m, s.from, s.end)
<1>1. Swap(m, s.from, s.end) = t.m
  BY DEF Swap, Swaps, SwapStep
<1>2. PICK dep \in [Outputs -> Nat] : Reached(r, m, s, dep, NI, NI)
  BY DEF Bounded
<1>3. s \in Searches
  BY DEF Bounded
<1>4. t \in SwapAt(C, m, s.from, dep, NI) /\ Grown(m, t)
  BY <1>2, <1>3, SwapsOK
<1> HIDE DEF t
<1>5. t.j = Nobody
  <2>1. SUFFICES ASSUME t.j # Nobody PROVE FALSE
    OBVIOUS
  <2>2. t.j \in Outputs /\ s.from[t.j] # Nobody /\ dep[t.j] + NI <= NI
    BY <1>4, <2>1 DEF SwapAt
  <2>3. Lev(m, dep, s.from[t.j]) < dep[t.j] /\ dep[t.j] \in Nat
    BY <1>2, <2>2 DEF Reached
  <2>4. Lev(m, dep, s.from[t.j]) \in Nat
    <3>1. s.from[t.j] \in Inputs
      BY <1>3, <2>2 DEF Searches
    <3> QED
      BY <3>1 DEF Lev, Matchings
  <2> QED
    BY <2>2, <2>3, <2>4, Sizes
<1>6. /\ t.m \in HalfMatchings
      /\ \A i \in Inputs, o \in Outputs :
          /\ t.m.inm[i] = o => t.m.outm[o] = i /\ <<i, o>> \in C /\ o # t.j
          /\ t.m.outm[o] = i /\ o # t.j => t.m.inm[i] = o
  BY <1>4 DEF SwapAt
<1>7. \A o \in Outputs : o # t.j
  BY <1>5, Sizes
<1>8. t.m \in Matchings(C)
  BY <1>6, <1>7 DEF Matchings, HalfMatchings
<1>9. Busy(m) \subseteq Busy(t.m) /\ Busy(m) # Busy(t.m)
  BY <1>4, <1>5 DEF Grown, Busy
<1> QED
  BY <1>1, <1>8, <1>9

(* A search and the swaps of the path it found leave a matching, of one more    *)
(* if there was a path.                                                     *)
LEMMA AugmentOK ==
  ASSUME kind \in Kinds, NEW r, Asking2(r), NEW m \in Matchings(DOMAIN r), turn \in Ports(NI)
  PROVE  /\ Augment(r, m) \in Matchings(DOMAIN r)
         /\ Search(r, m).end = Nobody => Augment(r, m) = m
         /\ Search(r, m).end # Nobody => Busy(m) \subseteq Busy(Augment(r, m)) /\ Busy(m) # Busy(Augment(r, m))
<1> DEFINE s == Search(r, m)
<1>1. s \in Bounded(r, m, NI, NI)
  BY SearchOK
<1>2. Augment(r, m) = IF s.end = Nobody THEN m ELSE Swap(m, s.from, s.end)
  BY DEF Augment
<1> HIDE DEF s
<1>3. s.end # Nobody =>
        /\ Swap(m, s.from, s.end) \in Matchings(DOMAIN r)
        /\ Busy(m) \subseteq Busy(Swap(m, s.from, s.end)) /\ Busy(m) # Busy(Swap(m, s.from, s.end))
  BY <1>1, SwapOK
<1> QED
  BY <1>2, <1>3 DEF s

(* The searches for the largest matching.                                     *)
LEMMA MaxSizeThrough ==
  ASSUME NEW r,
         NI \in Nat, NEW T, NEW W, Passes(W, T, NoMatch, NI),
         \A x \in 1 .. NI, t \in T : Augment(r, t) \in T,
         \A k \in 1 .. NI : \A t \in W[k - 1] : Augment(r, t) \in W[k]
  PROVE  MaxSize(r) \in W[NI]
<1> DEFINE seq == [k \in 1 .. NI |-> k]
           D == DOMAIN seq
           base == NoMatch
           step == [c \in D \X T |-> Augment(r, c[2])]
           R(g) == g = [s \in SUBSET D |-> IF s = {} THEN base
                                           ELSE Augment(r, g[s \ {Max(s)}])]
           h == CHOOSE g : R(g)
<1>1. MaxSize(r) = h[D]
  BY DEF MaxSize, FoldLeft, MapThenFoldSet
<1>2. IsFiniteSet(D) /\ Ints(D) /\ Upto(D, NI)
  <2>1. NI \in Int /\ D = 1 .. NI
    OBVIOUS
  <2> HIDE DEF D
  <2> QED
    BY <2>1, FS_Interval DEF Ints, Upto
<1>3. base \in T /\ base \in W[0]
  <2>1. 0 \in 0 .. NI
    OBVIOUS
  <2> QED
    BY <2>1 DEF Passes
<1>4. step \in [D \X T -> T]
  <2> HIDE DEF base
  <2> QED
    OBVIOUS
<1>5. \A x \in D, t \in T : step[<<x, t>>] = Augment(r, t)
  OBVIOUS
<1>6. \A s \in SUBSET D : s # {} => Max(s) \in D
  <2> HIDE DEF D
  <2> QED
    BY <1>2, MaxOf
<1>7. Through(W, base, step, NI)
  <2>1. ASSUME NEW k \in 1 .. NI, NEW t \in W[k - 1]
        PROVE  step[<<k, t>>] \in W[k]
    <3>1. k - 1 \in 0 .. NI /\ k \in D
      OBVIOUS
    <3>2. t \in T
      BY <3>1 DEF Passes
    <3>3. step[<<k, t>>] = Augment(r, t)
      BY <1>5, <3>1, <3>2
    <3> HIDE DEF step
    <3> QED
      BY <3>3
  <2> HIDE DEF step, base
  <2> QED
    BY <1>3, <2>1 DEF Through
<1> HIDE DEF D, base, step, seq
<1>8. PICK g : Solves(g, base, step, D, T)
  BY <1>2, <1>3, <1>4, Foldable DEF Has
<1>9. R(g)
  <2>1. ASSUME NEW s \in SUBSET D, s # {}
        PROVE  g[s] = Augment(r, g[s \ {Max(s)}])
    <3>1. g[s] = step[<<Max(s), g[s \ {Max(s)}]>>]
      BY <1>8, <2>1, UnfoldsAt DEF Solves
    <3>2. Max(s) \in D /\ g[s \ {Max(s)}] \in T
      BY <1>6, <1>8, <2>1 DEF Solves
    <3> QED
      BY <1>5, <3>1, <3>2
  <2>2. g[{}] = base
    BY <1>8, UnfoldsNone DEF Solves
  <2>3. g = [s \in SUBSET D |-> g[s]]
    BY <1>8 DEF Solves
  <2> QED
    BY <2>1, <2>2, <2>3
<1>10. R(h)
  <2> HIDE DEF R
  <2> QED
    BY <1>9
<1>11. Follows(h, base, step, D, T)
  <2> HIDE DEF h
  <2>1. h[{}] = base
    BY <1>10
  <2>2. \A s \in SUBSET D : s # {} => h[s] = Augment(r, h[s \ {Max(s)}])
    BY <1>10
  <2> QED
    BY <1>5, <1>6, <2>1, <2>2 DEF Follows
<1> HIDE DEF h
<1>12. h[D] = g[D]
  BY <1>2, <1>8, <1>11, FoldFollows
<1>13. g[D] \in W[NI]
  BY <1>2, <1>7, <1>8, FoldThrough DEF Solves
<1> QED
  BY <1>1, <1>12, <1>13

(* When all inputs are matched the tree is empty.                             *)
LEMMA AllBusy ==
  ASSUME kind \in Kinds, NEW r, NEW m \in Matchings(DOMAIN r), Busy(m) = Inputs
  PROVE  Closed(r, m, Free(NO))
<1>1. \A o \in Outputs : Free(NO)[o] = Nobody
  BY DEF Free, Outputs
<1>2. \A i \in Inputs : ~InTree(m, Free(NO), i)
  BY <1>1 DEF InTree, Busy, Matchings
<1> QED
  BY <1>1, <1>2 DEF Closed

(* The allocator of maximum size leaves a matching with a closed tree.        *)
LEMMA MaxSizeOK ==
  ASSUME kind \in Kinds, NEW r, Asking2(r), turn \in Ports(NI)
  PROVE  MaxSize(r) \in Matchings(DOMAIN r) /\ \E from : Closed(r, MaxSize(r), from)
<1> DEFINE T == Matchings(DOMAIN r)
           enough(m, k) == Search(r, m).end = Nobody \/ Cardinality(Busy(m)) >= k
           W == [k \in 0 .. NI |-> {m \in T : enough(m, k)}]
           u == MaxSize(r)
<1>1. NI \in Nat \ {0}
  BY Sizes DEF Ports
<1>2. IsFiniteSet(Inputs) /\ Cardinality(Inputs) = NI
  BY InputsCounted
<1>3. \A m : IsFiniteSet(Busy(m)) /\ Busy(m) \in SUBSET Inputs /\ Cardinality(Busy(m)) \in Nat
  <2>1. \A m : Busy(m) \in SUBSET Inputs
    BY DEF Busy
  <2> QED
    BY <1>2, <2>1, FS_Subset, FS_CardinalityType
<1>4. \A x \in 1 .. NI, m \in T : Augment(r, m) \in T
  BY <1>1, AugmentOK
<1>5. \A k \in 1 .. NI : \A m \in W[k - 1] : Augment(r, m) \in W[k]
  <2>1. ASSUME NEW k \in 1 .. NI, NEW m \in W[k - 1] PROVE Augment(r, m) \in W[k]
    <3>1. k - 1 \in 0 .. NI /\ k \in 0 .. NI
      BY <1>1
    <3>2. m \in T /\ enough(m, k - 1)
      BY <3>1
    <3> DEFINE v == Augment(r, m)
    <3>3. v \in T
      BY <1>4, <3>2
    <3>4. enough(v, k)
      <4>1. CASE Search(r, m).end = Nobody
        BY <1>1, <3>2, <4>1, AugmentOK
      <4>2. CASE Search(r, m).end # Nobody
        <5>1. Busy(m) \in SUBSET Busy(v) /\ Busy(m) # Busy(v)
          BY <1>1, <3>2, <4>2, AugmentOK
        <5> HIDE DEF v
        <5>2. Cardinality(Busy(m)) <= Cardinality(Busy(v)) /\ Cardinality(Busy(m)) # Cardinality(Busy(v))
          BY <1>3, <5>1, FS_Subset
        <5>3. Cardinality(Busy(m)) >= k - 1
          BY <3>2, <4>2
        <5>4. Cardinality(Busy(v)) >= k
          BY <1>3, <5>2, <5>3
        <5> QED
          BY <5>4
      <4> QED
        BY <4>1, <4>2
    <3> HIDE DEF v, enough
    <3> QED
      BY <3>1, <3>3, <3>4 DEF v
  <2> QED
    BY <2>1
<1>6. Passes(W, T, NoMatch, NI)
  <2>1. NoMatch \in T
    BY NoMatchOK
  <2>2. enough(NoMatch, 0)
    BY <1>3
  <2>3. NoMatch \in W[0]
    <3> HIDE DEF enough
    <3> QED
      BY <1>1, <2>1, <2>2
  <2>4. \A k \in 0 .. NI : W[k] \subseteq T
    OBVIOUS
  <2> HIDE DEF W, T
  <2> QED
    BY <2>3, <2>4 DEF Passes
<1>7. W[NI] = {m \in T : enough(m, NI)}
  BY <1>1
<1>8. u \in W[NI]
  <2> HIDE DEF W, T, enough
  <2> QED
    BY <1>1, <1>4, <1>5, <1>6, MaxSizeThrough
<1> HIDE DEF u, W
<1>9. u \in T /\ enough(u, NI)
  BY <1>7, <1>8
<1>10. CASE Search(r, u).end = Nobody
  BY <1>9, <1>10, SearchCloses DEF u
<1>11. CASE Cardinality(Busy(u)) >= NI
  <2>1. Cardinality(Busy(u)) <= NI
    BY <1>2, <1>3, FS_Subset
  <2>2. Cardinality(Busy(u)) = Cardinality(Inputs)
    BY <1>1, <1>2, <1>3, <1>11, <2>1
  <2>3. Busy(u) = Inputs
    BY <1>2, <1>3, <2>2, FS_Subset
  <2> QED
    BY <1>9, <2>3, AllBusy DEF u
<1> QED
  BY <1>9, <1>10, <1>11

-----------------------------------------------------------------------------
(* What the matching m leaves of the requests r: somebody is matched if anybody *)
(* asks, a closed tree where augmenting paths are searched, and for the       *)
(* wavefront each request served by one of at least its priority.             *)
NoneLeft(r, m) ==
  /\ Enough(r, m)
  /\ type = "max_size" => \E from : Closed(r, m, from)
  /\ type \in {"wavefront", "rr_wavefront"} =>
       \A i \in Inputs, o \in Outputs : <<i, o>> \in DOMAIN r => Served(r, m, i, o)

(* Most allocators promise only that somebody is granted.                     *)
LEMMA EnoughLeaves ==
  ASSUME NEW r, NEW m, Enough(r, m), type \notin {"max_size", "wavefront", "rr_wavefront"}
  PROVE  NoneLeft(r, m)
  BY DEF NoneLeft

(* If all requests are served somebody is matched.                            *)
LEMMA ServedLeaves ==
  ASSUME kind \in Kinds, NEW r, Asking2(r), NEW m \in Matchings(DOMAIN r), type # "max_size",
         \A i \in Inputs, o \in Outputs : <<i, o>> \in DOMAIN r => Served(r, m, i, o)
  PROVE  NoneLeft(r, m)
<1>1. ASSUME DOMAIN r # {} PROVE SomeMatched(m)
  <2>1. PICK c \in DOMAIN r : TRUE
    BY <1>1
  <2>2. c[1] \in Inputs /\ c[2] \in Outputs /\ c = <<c[1], c[2]>>
    BY <2>1 DEF Asking2
  <2>3. Served(r, m, c[1], c[2])
    BY <2>1, <2>2
  <2> QED
    BY <2>3, Sizes DEF Served, SomeMatched
<1> QED
  BY <1>1 DEF NoneLeft, Enough

(* If the tree is closed and anybody asks then somebody is matched: nobody      *)
(* matched would be all inputs in the tree.                                  *)
LEMMA ClosedLeaves ==
  ASSUME kind \in Kinds, NEW r, Asking2(r), NEW m \in Matchings(DOMAIN r), type = "max_size",
         NEW from, Closed(r, m, from)
  PROVE  NoneLeft(r, m)
<1>1. ASSUME DOMAIN r # {}, ~SomeMatched(m) PROVE FALSE
  <2>1. PICK c \in DOMAIN r : TRUE
    BY <1>1
  <2>2. c[1] \in Inputs /\ c[2] \in Outputs /\ c = <<c[1], c[2]>>
    BY <2>1 DEF Asking2
  <2>3. InTree(m, from, c[1])
    BY <1>1, <2>2 DEF InTree, SomeMatched
  <2>4. m.outm[c[2]] # Nobody
    BY <2>1, <2>2, <2>3 DEF Closed
  <2>5. m.outm[c[2]] \in Inputs
    BY <2>2, <2>4 DEF Matchings
  <2>6. m.inm[m.outm[c[2]]] = c[2]
    BY <2>2, <2>5 DEF Matchings
  <2> QED
    BY <1>1, <2>2, <2>5, <2>6, Sizes DEF SomeMatched
<1> QED
  BY <1>1 DEF NoneLeft, Enough

(* What is left of no requests.                                               *)
LEMMA NobodyLeaves ==
  ASSUME kind \in Kinds, NEW r, DOMAIN r = {}, NEW m
  PROVE  NoneLeft(r, m)
<1>1. \A o \in Outputs : Free(NO)[o] = Nobody
  BY DEF Free, Outputs
<1>2. Closed(r, m, Free(NO))
  BY <1>1 DEF Closed
<1> QED
  BY <1>2 DEF NoneLeft, Enough

(* A slot of a table, and the order in which two of different VCs go.         *)
Slots == [label : Ports(Vcs) \cup {Nobody}, pri : Int]
Real  == [label : Ports(Vcs), pri : Int]
Goes(a, b, offset) ==
  a.pri > b.pri \/ (a.pri = b.pri /\ Offset(a.label, offset, Vcs) < Offset(b.label, offset, Vcs))

(* The order in which _SWAllocAddReq has two VCs go is Goes.                 *)
LEMMA BeforeIs ==
  ASSUME NEW a, NEW b, a.label # b.label, NEW offset
  PROVE  Before(a, b, offset, Vcs) <=> Goes(a, b, offset)
<1> DEFINE r == [v \in {a.label, b.label} |-> IF v = a.label THEN a.pri ELSE b.pri]
<1>1. r[a.label] = a.pri /\ r[b.label] = b.pri
  OBVIOUS
<1>2. Before(a, b, offset, Vcs) <=> Supersedes(r, a.label, b.label, offset, Vcs)
  BY DEF Before
<1> HIDE DEF r
<1> QED
  BY <1>1, <1>2 DEF Supersedes, Goes

(* Goes orders the requests of different VCs.                                *)
LEMMA GoesOrders ==
  ASSUME NEW offset \in Ports(Vcs)
  PROVE  /\ \A a, b \in Real : a.label # b.label => Goes(a, b, offset) \/ Goes(b, a, offset)
         /\ \A a, b, c \in Real : Goes(a, b, offset) /\ Goes(b, c, offset) => Goes(a, c, offset)
         /\ \A a \in Real : ~Goes(a, a, offset)
<1>1. Vcs \in Nat \ {0}
  BY AllocAssumption
<1>2. /\ \A i \in Ports(Vcs) : Offset(i, offset, Vcs) \in Int
      /\ \A i, j \in Ports(Vcs) : Offset(i, offset, Vcs) = Offset(j, offset, Vcs) => i = j
  BY <1>1, OffsetTells
<1>3. \A a \in Real : a.label \in Ports(Vcs) /\ a.pri \in Int /\ Offset(a.label, offset, Vcs) \in Int
  BY <1>2 DEF Real
<1>4. \A a, b \in Real : a.label # b.label => Goes(a, b, offset) \/ Goes(b, a, offset)
  BY <1>2, <1>3 DEF Goes
<1>5. \A a, b, c \in Real : Goes(a, b, offset) /\ Goes(b, c, offset) => Goes(a, c, offset)
  BY <1>3 DEF Goes
<1>6. \A a \in Real : ~Goes(a, a, offset)
  BY <1>3 DEF Goes
<1> QED
  BY <1>4, <1>5, <1>6

(* What the VCs of an input asked an output for.                              *)
Offers(mk, i, o) == {Request(c[2], mk[c][2]) : c \in {d \in DOMAIN mk : d[1] = i /\ mk[d][1] = o}}

(* VCs of the inputs ask for outputs, with a priority.                        *)
MadeBy(mk) == /\ DOMAIN mk \subseteq Inputs \X Ports(Vcs)
              /\ \A c \in DOMAIN mk : mk[c] \in Outputs \X Int

(* A slot holds the best of the offers.                                       *)
BestOf(h, offers, offset) ==
  IF offers = {} THEN h = NoRequest
  ELSE h \in offers /\ \A a \in offers : a.label # h.label => Goes(h, a, offset)

(* The matrix holds the best of the offers for each pair.                     *)
DenseHolds(mk, dn, offset) ==
  /\ dn \in [Inputs -> [Outputs -> Slots]]
  /\ \A i \in Inputs, o \in Outputs : BestOf(dn[i][o], Offers(mk, i, o), offset)

(* The maps have what the matrix has.                                         *)
SparseHolds(dn, sp) ==
  /\ DOMAIN sp.in_req = Inputs /\ DOMAIN sp.out_req = Outputs
  /\ \A i \in Inputs, o \in Outputs :
       /\ o \in DOMAIN sp.in_req[i] <=> dn[i][o].label # Nobody
       /\ i \in DOMAIN sp.out_req[o] <=> dn[i][o].label # Nobody
       /\ dn[i][o].label # Nobody => sp.in_req[i][o] = dn[i][o] /\ sp.out_req[o][i] = dn[i][o]
  /\ \A i \in Inputs : i \in sp.in_occ <=> \E o \in Outputs : dn[i][o].label # Nobody
  /\ \A o \in Outputs : o \in sp.out_occ <=> \E i \in Inputs : dn[i][o].label # Nobody

(* The offers for a pair are of different VCs, which have asked.             *)
LEMMA OffersReal ==
  ASSUME NEW mk, MadeBy(mk), NEW i, NEW o
  PROVE  /\ Offers(mk, i, o) \subseteq Real
         /\ \A a, b \in Offers(mk, i, o) : a.label = b.label => a = b
         /\ \A a \in Offers(mk, i, o) : <<i, a.label>> \in DOMAIN mk
<1>1. \A c \in DOMAIN mk : c = <<c[1], c[2]>> /\ c[2] \in Ports(Vcs) /\ mk[c][2] \in Int
  BY DEF MadeBy
<1>2. ASSUME NEW a \in Offers(mk, i, o)
      PROVE  a \in Real /\ <<i, a.label>> \in DOMAIN mk /\ a = Request(a.label, mk[<<i, a.label>>][2])
  <2>1. PICK c \in DOMAIN mk : c[1] = i /\ mk[c][1] = o /\ a = Request(c[2], mk[c][2])
    BY DEF Offers
  <2>2. a.label = c[2] /\ a.pri = mk[c][2] /\ a \in Real
    BY <1>1, <2>1 DEF Request, Real
  <2>3. c = <<i, a.label>>
    BY <1>1, <2>1, <2>2
  <2> QED
    BY <2>1, <2>2, <2>3
<1> QED
  BY <1>2

(* Tables that are cleared hold nothing, as nothing was asked.               *)
LEMMA ClearHolds ==
  ASSUME kind \in Kinds, NEW offset
  PROVE  /\ MadeBy(<< >>) /\ DenseHolds(<< >>, DenseClear(NI, NO), offset)
         /\ SparseHolds(DenseClear(NI, NO), SparseClear(NI, NO))
<1> DEFINE dn == DenseClear(NI, NO)
           sp == SparseClear(NI, NO)
<1>1. \A i \in Inputs, o \in Outputs : dn[i][o] = NoRequest
  BY DEF DenseClear, Inputs, Outputs
<1>2. dn \in [Inputs -> [Outputs -> Slots]]
  BY DEF DenseClear, Inputs, Outputs, Slots, NoRequest, Request
<1>3. \A i, o : Offers(<< >>, i, o) = {}
  BY DEF Offers
<1>4. /\ DOMAIN sp.in_req = Inputs /\ DOMAIN sp.out_req = Outputs
      /\ \A i \in Inputs : DOMAIN sp.in_req[i] = {}
      /\ \A o \in Outputs : DOMAIN sp.out_req[o] = {}
      /\ sp.in_occ = {} /\ sp.out_occ = {}
  BY DEF SparseClear, Inputs, Outputs
<1>5. MadeBy(<< >>)
  BY DEF MadeBy
<1> HIDE DEF dn, sp
<1>6. DenseHolds(<< >>, dn, offset)
  BY <1>1, <1>2, <1>3 DEF DenseHolds, BestOf
<1>7. NoRequest.label = Nobody
  BY DEF NoRequest, Request
<1>8. SparseHolds(dn, sp)
  BY <1>1, <1>4, <1>7 DEF SparseHolds
<1> QED
  BY <1>5, <1>6, <1>8 DEF dn, sp
-----------------------------------------------------------------------------
(* What a VC asks is entered where it goes before what is held, or nothing is.*)
Enters(dn, i, o, rq, offset) == dn[i][o].label = Nobody \/ Before(rq, dn[i][o], offset, Vcs)

(* The matrix changes in the place of the request only, where that enters.   *)
LEMMA DenseAskIs ==
  ASSUME NEW dn \in [Inputs -> [Outputs -> Slots]], NEW i \in Inputs, NEW o \in Outputs,
         NEW rq \in Real, NEW offset
  PROVE  /\ DenseAsk(dn, i, o, rq, offset, Vcs) \in [Inputs -> [Outputs -> Slots]]
         /\ \A x \in Inputs, y \in Outputs :
              DenseAsk(dn, i, o, rq, offset, Vcs)[x][y] =
                IF x = i /\ y = o /\ Enters(dn, i, o, rq, offset) THEN rq ELSE dn[x][y]
<1> DEFINE one == [dn EXCEPT ![i] = [dn[i] EXCEPT ![o] = rq]]
           zero == [dn EXCEPT ![i] = [dn[i] EXCEPT ![o] = NoRequest]]
           two == [zero EXCEPT ![i] = [zero[i] EXCEPT ![o] = rq]]
<1>1. rq \in Slots /\ NoRequest \in Slots
  BY DEF Slots, Real, NoRequest, Request
<1>2. one \in [Inputs -> [Outputs -> Slots]] /\ zero \in [Inputs -> [Outputs -> Slots]]
  BY <1>1
<1>3. \A x \in Inputs, y \in Outputs : one[x][y] = IF x = i /\ y = o THEN rq ELSE dn[x][y]
  OBVIOUS
<1>4. \A x \in Inputs, y \in Outputs : zero[x][y] = IF x = i /\ y = o THEN NoRequest ELSE dn[x][y]
  OBVIOUS
<1>5. DenseAdd(dn, i, o, rq) = one /\ DenseAdd(DenseRemove(dn, i, o), i, o, rq) = two
  BY DEF DenseAdd, DenseRemove
<1> HIDE DEF zero
<1>6. two \in [Inputs -> [Outputs -> Slots]]
  BY <1>1, <1>2
<1>7. \A x \in Inputs, y \in Outputs : two[x][y] = IF x = i /\ y = o THEN rq ELSE zero[x][y]
  BY <1>2
<1> HIDE DEF one, two
<1> DEFINE new == DenseAsk(dn, i, o, rq, offset, Vcs)
<1>8. IF Enters(dn, i, o, rq, offset) THEN new = one \/ new = two ELSE new = dn
  BY <1>5 DEF DenseAsk, DenseRead, Enters
<1> HIDE DEF new
<1> QED
  BY <1>2, <1>3, <1>4, <1>6, <1>7, <1>8 DEF new

(* Maps sp2 are sp with one more request, which may take another's place.      *)
Entered(sp, sp2, i, o, rq) ==
  /\ DOMAIN sp2.in_req = DOMAIN sp.in_req /\ DOMAIN sp2.out_req = DOMAIN sp.out_req
  /\ \A x \in DOMAIN sp.in_req, y \in DOMAIN sp.out_req :
       /\ y \in DOMAIN sp2.in_req[x] <=> (x = i /\ y = o) \/ y \in DOMAIN sp.in_req[x]
       /\ x \in DOMAIN sp2.out_req[y] <=> (x = i /\ y = o) \/ x \in DOMAIN sp.out_req[y]
       /\ ~(x = i /\ y = o) /\ y \in DOMAIN sp.in_req[x] => sp2.in_req[x][y] = sp.in_req[x][y]
       /\ ~(x = i /\ y = o) /\ x \in DOMAIN sp.out_req[y] => sp2.out_req[y][x] = sp.out_req[y][x]
  /\ sp2.in_req[i][o] = rq /\ sp2.out_req[o][i] = rq
  /\ sp2.in_occ = sp.in_occ \cup {i} /\ sp2.out_occ = sp.out_occ \cup {o}

(* A request added to the maps has entered.                                  *)
LEMMA AddEnters ==
  ASSUME NEW sp, NEW i \in DOMAIN sp.in_req, NEW o \in DOMAIN sp.out_req, NEW rq
  PROVE  Entered(sp, SparseAdd(sp, i, o, rq), i, o, rq)
<1> DEFINE in2 == With(sp.in_req[i], o, rq)
           out2 == With(sp.out_req[o], i, rq)
           sp2 == SparseAdd(sp, i, o, rq)
<1>1. /\ sp2.in_req = [sp.in_req EXCEPT ![i] = in2] /\ sp2.out_req = [sp.out_req EXCEPT ![o] = out2]
      /\ sp2.in_occ = sp.in_occ \cup {i} /\ sp2.out_occ = sp.out_occ \cup {o}
  BY DEF SparseAdd
<1>2. /\ \A y : y \in DOMAIN in2 <=> y = o \/ y \in DOMAIN sp.in_req[i]
      /\ \A y \in DOMAIN in2 : in2[y] = IF y = o THEN rq ELSE sp.in_req[i][y]
      /\ in2[o] = rq
  BY DEF With
<1>3. /\ \A x : x \in DOMAIN out2 <=> x = i \/ x \in DOMAIN sp.out_req[o]
      /\ \A x \in DOMAIN out2 : out2[x] = IF x = i THEN rq ELSE sp.out_req[o][x]
      /\ out2[i] = rq
  BY DEF With
<1> HIDE DEF in2, out2, sp2
<1>4. /\ DOMAIN sp2.in_req = DOMAIN sp.in_req /\ DOMAIN sp2.out_req = DOMAIN sp.out_req
      /\ \A x \in DOMAIN sp.in_req : sp2.in_req[x] = IF x = i THEN in2 ELSE sp.in_req[x]
      /\ \A y \in DOMAIN sp.out_req : sp2.out_req[y] = IF y = o THEN out2 ELSE sp.out_req[y]
  BY <1>1
<1>5. \A x \in DOMAIN sp.in_req, y \in DOMAIN sp.out_req :
        /\ y \in DOMAIN sp2.in_req[x] <=> (x = i /\ y = o) \/ y \in DOMAIN sp.in_req[x]
        /\ x \in DOMAIN sp2.out_req[y] <=> (x = i /\ y = o) \/ x \in DOMAIN sp.out_req[y]
        /\ ~(x = i /\ y = o) /\ y \in DOMAIN sp.in_req[x] => sp2.in_req[x][y] = sp.in_req[x][y]
        /\ ~(x = i /\ y = o) /\ x \in DOMAIN sp.out_req[y] => sp2.out_req[y][x] = sp.out_req[y][x]
  BY <1>2, <1>3, <1>4
<1> QED
  BY <1>1, <1>2, <1>3, <1>4, <1>5 DEF Entered, sp2

(* A request added in the place of one removed has entered.                  *)
LEMMA ReplaceEnters ==
  ASSUME NEW sp, NEW i \in DOMAIN sp.in_req, NEW o \in DOMAIN sp.out_req, NEW rq
  PROVE  Entered(sp, SparseAdd(SparseRemove(sp, i, o), i, o, rq), i, o, rq)
<1> DEFINE in2 == Without(sp.in_req[i], o)
           out2 == Without(sp.out_req[o], i)
           mid == SparseRemove(sp, i, o)
           sp2 == SparseAdd(mid, i, o, rq)
<1>1. /\ mid.in_req = [sp.in_req EXCEPT ![i] = in2] /\ mid.out_req = [sp.out_req EXCEPT ![o] = out2]
      /\ mid.in_occ = (IF in2 = << >> THEN sp.in_occ \ {i} ELSE sp.in_occ)
      /\ mid.out_occ = (IF out2 = << >> THEN sp.out_occ \ {o} ELSE sp.out_occ)
  BY DEF SparseRemove
<1>2. /\ \A y : y \in DOMAIN in2 <=> y # o /\ y \in DOMAIN sp.in_req[i]
      /\ \A y \in DOMAIN in2 : in2[y] = sp.in_req[i][y]
  BY DEF Without
<1>3. /\ \A x : x \in DOMAIN out2 <=> x # i /\ x \in DOMAIN sp.out_req[o]
      /\ \A x \in DOMAIN out2 : out2[x] = sp.out_req[o][x]
  BY DEF Without
<1> HIDE DEF in2, out2, mid
<1>4. /\ DOMAIN mid.in_req = DOMAIN sp.in_req /\ DOMAIN mid.out_req = DOMAIN sp.out_req
      /\ \A x \in DOMAIN sp.in_req : mid.in_req[x] = IF x = i THEN in2 ELSE sp.in_req[x]
      /\ \A y \in DOMAIN sp.out_req : mid.out_req[y] = IF y = o THEN out2 ELSE sp.out_req[y]
      /\ mid.in_occ \cup {i} = sp.in_occ \cup {i} /\ mid.out_occ \cup {o} = sp.out_occ \cup {o}
  BY <1>1
<1>5. Entered(mid, sp2, i, o, rq)
  BY <1>4, AddEnters
<1> HIDE DEF sp2
<1>6. ASSUME NEW x \in DOMAIN sp.in_req, NEW y \in DOMAIN sp.out_req
      PROVE  /\ y \in DOMAIN sp2.in_req[x] <=> (x = i /\ y = o) \/ y \in DOMAIN sp.in_req[x]
             /\ x \in DOMAIN sp2.out_req[y] <=> (x = i /\ y = o) \/ x \in DOMAIN sp.out_req[y]
             /\ ~(x = i /\ y = o) /\ y \in DOMAIN sp.in_req[x] => sp2.in_req[x][y] = sp.in_req[x][y]
             /\ ~(x = i /\ y = o) /\ x \in DOMAIN sp.out_req[y] => sp2.out_req[y][x] = sp.out_req[y][x]
  <2>1. /\ y \in DOMAIN sp2.in_req[x] <=> (x = i /\ y = o) \/ y \in DOMAIN mid.in_req[x]
        /\ x \in DOMAIN sp2.out_req[y] <=> (x = i /\ y = o) \/ x \in DOMAIN mid.out_req[y]
        /\ ~(x = i /\ y = o) /\ y \in DOMAIN mid.in_req[x] => sp2.in_req[x][y] = mid.in_req[x][y]
        /\ ~(x = i /\ y = o) /\ x \in DOMAIN mid.out_req[y] => sp2.out_req[y][x] = mid.out_req[y][x]
    BY <1>4, <1>5 DEF Entered
  <2>2. /\ mid.in_req[x] = IF x = i THEN in2 ELSE sp.in_req[x]
        /\ mid.out_req[y] = IF y = o THEN out2 ELSE sp.out_req[y]
    BY <1>4
  <2>3. /\ y \in DOMAIN mid.in_req[x] <=> ~(x = i /\ y = o) /\ y \in DOMAIN sp.in_req[x]
        /\ x \in DOMAIN mid.out_req[y] <=> ~(x = i /\ y = o) /\ x \in DOMAIN sp.out_req[y]
    BY <1>2, <1>3, <2>2
  <2>4. /\ y \in DOMAIN mid.in_req[x] => mid.in_req[x][y] = sp.in_req[x][y]
        /\ x \in DOMAIN mid.out_req[y] => mid.out_req[y][x] = sp.out_req[y][x]
    BY <1>2, <1>3, <2>2
  <2> QED
    BY <2>1, <2>3, <2>4
<1>7. /\ sp2.in_req[i][o] = rq /\ sp2.out_req[o][i] = rq
      /\ sp2.in_occ = sp.in_occ \cup {i} /\ sp2.out_occ = sp.out_occ \cup {o}
      /\ DOMAIN sp2.in_req = DOMAIN sp.in_req /\ DOMAIN sp2.out_req = DOMAIN sp.out_req
  BY <1>4, <1>5 DEF Entered
<1>8. Entered(sp, sp2, i, o, rq)
  BY <1>6, <1>7 DEF Entered
<1> QED
  BY <1>8 DEF sp2, mid

(* The maps follow the matrix.                                                *)
LEMMA SparseAskOK ==
  ASSUME NEW dn, NEW dn2, NEW sp, SparseHolds(dn, sp), NEW i \in Inputs, NEW o \in Outputs,
         NEW rq \in Real, NEW offset,
         \A x \in Inputs, y \in Outputs :
           dn2[x][y] = IF x = i /\ y = o /\ Enters(dn, i, o, rq, offset) THEN rq ELSE dn[x][y]
  PROVE  SparseHolds(dn2, SparseAsk(sp, i, o, rq, offset, Vcs))
<1> DEFINE sp2 == SparseAsk(sp, i, o, rq, offset, Vcs)
           old == SparseRead(sp, i, o)
<1>1. /\ DOMAIN sp.in_req = Inputs /\ DOMAIN sp.out_req = Outputs
      /\ \A x \in Inputs, y \in Outputs :
           /\ y \in DOMAIN sp.in_req[x] <=> dn[x][y].label # Nobody
           /\ x \in DOMAIN sp.out_req[y] <=> dn[x][y].label # Nobody
           /\ dn[x][y].label # Nobody => sp.in_req[x][y] = dn[x][y] /\ sp.out_req[y][x] = dn[x][y]
      /\ \A x \in Inputs : x \in sp.in_occ <=> \E y \in Outputs : dn[x][y].label # Nobody
      /\ \A y \in Outputs : y \in sp.out_occ <=> \E x \in Inputs : dn[x][y].label # Nobody
  BY DEF SparseHolds
<1>2. IF dn[i][o].label = Nobody THEN old.label = Nobody ELSE old = dn[i][o]
  BY <1>1 DEF SparseRead, NoRequest, Request
<1>3. rq.label # Nobody
  BY DEF Real, Ports, Nobody
<1>4. sp2 = (CASE old.label = Nobody -> SparseAdd(sp, i, o, rq)
               [] old.label # Nobody /\ Before(rq, old, offset, Vcs) ->
                    SparseAdd(SparseRemove(sp, i, o), i, o, rq)
               [] OTHER -> sp)
  BY DEF SparseAsk
<1> HIDE DEF sp2, old
<1>5. CASE Enters(dn, i, o, rq, offset)
  <2>1. Entered(sp, sp2, i, o, rq)
    <3>1. CASE dn[i][o].label = Nobody
      BY <1>1, <1>2, <1>4, <3>1, AddEnters
    <3>2. CASE dn[i][o].label # Nobody
      <4>1. sp2 = SparseAdd(SparseRemove(sp, i, o), i, o, rq)
        BY <1>2, <1>4, <1>5, <3>2 DEF Enters
      <4> QED
        BY <1>1, <3>2, <4>1, ReplaceEnters
    <3> QED
      BY <3>1, <3>2
  <2>2. DOMAIN sp2.in_req = Inputs /\ DOMAIN sp2.out_req = Outputs
    BY <1>1, <2>1 DEF Entered
  <2>3. ASSUME NEW x \in Inputs, NEW y \in Outputs
        PROVE  /\ y \in DOMAIN sp2.in_req[x] <=> dn2[x][y].label # Nobody
               /\ x \in DOMAIN sp2.out_req[y] <=> dn2[x][y].label # Nobody
               /\ dn2[x][y].label # Nobody => sp2.in_req[x][y] = dn2[x][y] /\ sp2.out_req[y][x] = dn2[x][y]
    <3>1. CASE x = i /\ y = o
      BY <1>1, <1>3, <1>5, <2>1, <3>1 DEF Entered
    <3>2. CASE ~(x = i /\ y = o)
      <4>1. dn2[x][y] = dn[x][y]
        BY <3>2
      <4>2. /\ y \in DOMAIN sp2.in_req[x] <=> y \in DOMAIN sp.in_req[x]
            /\ x \in DOMAIN sp2.out_req[y] <=> x \in DOMAIN sp.out_req[y]
            /\ y \in DOMAIN sp.in_req[x] => sp2.in_req[x][y] = sp.in_req[x][y]
            /\ x \in DOMAIN sp.out_req[y] => sp2.out_req[y][x] = sp.out_req[y][x]
        BY <1>1, <2>1, <3>2 DEF Entered
      <4> QED
        BY <1>1, <4>1, <4>2
    <3> QED
      BY <3>1, <3>2
  <2>4. \A x \in Inputs, y \in Outputs : dn2[x][y].label # Nobody <=> (x = i /\ y = o) \/ dn[x][y].label # Nobody
    BY <1>3, <1>5
  <2>5. sp2.in_occ = sp.in_occ \cup {i} /\ sp2.out_occ = sp.out_occ \cup {o}
    BY <2>1 DEF Entered
  <2>6. \A x \in Inputs : x \in sp2.in_occ <=> \E y \in Outputs : dn2[x][y].label # Nobody
    BY <1>1, <2>4, <2>5
  <2>7. \A y \in Outputs : y \in sp2.out_occ <=> \E x \in Inputs : dn2[x][y].label # Nobody
    BY <1>1, <2>4, <2>5
  <2> QED
    BY <2>2, <2>3, <2>6, <2>7 DEF SparseHolds, sp2
<1>6. CASE ~Enters(dn, i, o, rq, offset)
  <2>1. sp2 = sp
    BY <1>2, <1>4, <1>6 DEF Enters
  <2>2. \A x \in Inputs, y \in Outputs : dn2[x][y] = dn[x][y]
    BY <1>6
  <2>3. \A x \in Inputs, y \in Outputs :
           /\ y \in DOMAIN sp.in_req[x] <=> dn2[x][y].label # Nobody
           /\ x \in DOMAIN sp.out_req[y] <=> dn2[x][y].label # Nobody
           /\ dn2[x][y].label # Nobody => sp.in_req[x][y] = dn2[x][y] /\ sp.out_req[y][x] = dn2[x][y]
    BY <1>1, <2>2
  <2>4. /\ \A x \in Inputs : x \in sp.in_occ <=> \E y \in Outputs : dn2[x][y].label # Nobody
        /\ \A y \in Outputs : y \in sp.out_occ <=> \E x \in Inputs : dn2[x][y].label # Nobody
    BY <1>1, <2>2
  <2>5. SparseHolds(dn2, sp)
    BY <1>1, <2>3, <2>4 DEF SparseHolds
  <2> QED
    BY <2>1, <2>5 DEF sp2
<1> QED
  BY <1>5, <1>6

(* After another VC has asked the matrix holds the best of what was asked.     *)
LEMMA AskHolds ==
  ASSUME kind \in Kinds, NEW mk, NEW dn, NEW offset \in Ports(Vcs), MadeBy(mk), DenseHolds(mk, dn, offset),
         NEW i \in Inputs, NEW vc \in Ports(Vcs), NEW o \in Outputs, NEW pri \in Int, <<i, vc>> \notin DOMAIN mk
  PROVE  /\ MadeBy(With(mk, <<i, vc>>, <<o, pri>>))
         /\ DenseHolds(With(mk, <<i, vc>>, <<o, pri>>), DenseAsk(dn, i, o, Request(vc, pri), offset, Vcs), offset)
<1> DEFINE mk2 == With(mk, <<i, vc>>, <<o, pri>>)
           rq == Request(vc, pri)
           dn2 == DenseAsk(dn, i, o, rq, offset, Vcs)
<1>1. /\ \A c : c \in DOMAIN mk2 <=> c = <<i, vc>> \/ c \in DOMAIN mk
      /\ mk2[<<i, vc>>] = <<o, pri>>
      /\ \A c \in DOMAIN mk : mk2[c] = mk[c]
  BY DEF With
<1>2. rq \in Real /\ rq.label = vc /\ rq.pri = pri
  BY DEF Real, Request
<1>3. MadeBy(mk2)
  <2> HIDE DEF mk2
  <2>1. ASSUME NEW c \in DOMAIN mk2 PROVE c \in Inputs \X Ports(Vcs) /\ mk2[c] \in Outputs \X Int
    <3>1. CASE c = <<i, vc>>
      BY <1>1, <3>1
    <3>2. CASE c # <<i, vc>>
      BY <1>1, <3>2 DEF MadeBy
    <3> QED
      BY <3>1, <3>2
  <2>2. DOMAIN mk2 \subseteq Inputs \X Ports(Vcs)
    BY <2>1
  <2>3. \A c \in DOMAIN mk2 : mk2[c] \in Outputs \X Int
    BY <2>1
  <2> QED
    BY <2>2, <2>3 DEF MadeBy
<1>4. Offers(mk2, i, o) = Offers(mk, i, o) \cup {rq}
  <2>1. ASSUME NEW a \in Offers(mk2, i, o) PROVE a \in Offers(mk, i, o) \cup {rq}
    <3>1. PICK c \in DOMAIN mk2 : c[1] = i /\ mk2[c][1] = o /\ a = Request(c[2], mk2[c][2])
      BY DEF Offers
    <3> HIDE DEF mk2
    <3> QED
      BY <1>1, <3>1 DEF Offers
  <2>2. ASSUME NEW a \in Offers(mk, i, o) PROVE a \in Offers(mk2, i, o)
    <3>1. PICK c \in DOMAIN mk : c[1] = i /\ mk[c][1] = o /\ a = Request(c[2], mk[c][2])
      BY DEF Offers
    <3> HIDE DEF mk2
    <3> QED
      BY <1>1, <3>1 DEF Offers
  <2>3. rq \in Offers(mk2, i, o)
    <3> HIDE DEF mk2
    <3>1. <<i, vc>> \in DOMAIN mk2 /\ <<i, vc>>[1] = i /\ mk2[<<i, vc>>][1] = o
          /\ rq = Request(<<i, vc>>[2], mk2[<<i, vc>>][2])
      BY <1>1
    <3> HIDE DEF rq
    <3> QED
      BY <3>1 DEF Offers
  <2> QED
    BY <2>1, <2>2, <2>3
<1>5. ASSUME NEW x \in Inputs, NEW y \in Outputs, ~(x = i /\ y = o)
      PROVE  Offers(mk2, x, y) = Offers(mk, x, y)
  <2>1. ASSUME NEW a \in Offers(mk2, x, y) PROVE a \in Offers(mk, x, y)
    <3>1. PICK c \in DOMAIN mk2 : c[1] = x /\ mk2[c][1] = y /\ a = Request(c[2], mk2[c][2])
      BY DEF Offers
    <3> HIDE DEF mk2
    <3>2. c # <<i, vc>>
      BY <1>1, <1>5, <3>1
    <3> QED
      BY <1>1, <3>1, <3>2 DEF Offers
  <2>2. ASSUME NEW a \in Offers(mk, x, y) PROVE a \in Offers(mk2, x, y)
    <3>1. PICK c \in DOMAIN mk : c[1] = x /\ mk[c][1] = y /\ a = Request(c[2], mk[c][2])
      BY DEF Offers
    <3> HIDE DEF mk2
    <3> QED
      BY <1>1, <3>1 DEF Offers
  <2> QED
    BY <2>1, <2>2
<1>6. /\ dn \in [Inputs -> [Outputs -> Slots]]
      /\ \A x \in Inputs, y \in Outputs : BestOf(dn[x][y], Offers(mk, x, y), offset)
  BY DEF DenseHolds
<1>7. /\ dn2 \in [Inputs -> [Outputs -> Slots]]
      /\ \A x \in Inputs, y \in Outputs :
           dn2[x][y] = IF x = i /\ y = o /\ Enters(dn, i, o, rq, offset) THEN rq ELSE dn[x][y]
  BY <1>2, <1>6, DenseAskIs
<1> HIDE DEF mk2, dn2, rq
<1> DEFINE old == dn[i][o]
           S == Offers(mk, i, o)
<1>8. /\ S \subseteq Real
      /\ \A a, b \in S : a.label = b.label => a = b
      /\ \A a \in S : <<i, a.label>> \in DOMAIN mk
  BY OffersReal
<1>9. \A a \in S : a.label # rq.label
  BY <1>2, <1>8
<1>10. BestOf(old, S, offset)
  BY <1>6
<1>11. \A a \in Real : a.label # Nobody
  BY DEF Real, Ports, Nobody
<1>12. NoRequest.label = Nobody
  BY DEF NoRequest, Request
<1>13. dn2[i][o] = (IF Enters(dn, i, o, rq, offset) THEN rq ELSE old)
  BY <1>7
<1>14. S # {} => (Enters(dn, i, o, rq, offset) <=> Goes(rq, old, offset))
  <2>1. SUFFICES ASSUME S # {} PROVE Enters(dn, i, o, rq, offset) <=> Goes(rq, old, offset)
    OBVIOUS
  <2>2. old \in S /\ old.label # rq.label /\ old.label # Nobody
    BY <1>8, <1>9, <1>10, <1>11, <2>1 DEF BestOf
  <2>3. Before(rq, old, offset, Vcs) <=> Goes(rq, old, offset)
    BY <2>2, BeforeIs
  <2> QED
    BY <2>2, <2>3 DEF Enters
<1>15. S = {} => Enters(dn, i, o, rq, offset)
  BY <1>10, <1>12 DEF BestOf, Enters
<1>16. /\ \A a, b \in Real : a.label # b.label => Goes(a, b, offset) \/ Goes(b, a, offset)
       /\ \A a, b, c \in Real : Goes(a, b, offset) /\ Goes(b, c, offset) => Goes(a, c, offset)
  BY GoesOrders
<1>17. BestOf(dn2[i][o], S \cup {rq}, offset)
  <2>1. CASE S = {}
    <3>1. dn2[i][o] = rq
      BY <1>13, <1>15, <2>1
    <3> QED
      BY <2>1, <3>1 DEF BestOf
  <2>2. CASE S # {} /\ Goes(rq, old, offset)
    <3>1. dn2[i][o] = rq
      BY <1>13, <1>14, <2>2
    <3>2. old \in S /\ \A a \in S : a.label # old.label => Goes(old, a, offset)
      BY <1>10, <2>2 DEF BestOf
    <3>3. ASSUME NEW a \in S PROVE Goes(rq, a, offset)
      <4>1. CASE a = old
        BY <2>2, <4>1
      <4>2. CASE a # old
        <5>1. Goes(old, a, offset)
          BY <1>8, <3>2, <4>2
        <5> QED
          BY <1>2, <1>8, <1>16, <2>2, <3>2, <5>1
      <4> QED
        BY <4>1, <4>2
    <3> QED
      BY <3>1, <3>3 DEF BestOf
  <2>3. CASE S # {} /\ ~Goes(rq, old, offset)
    <3>1. dn2[i][o] = old
      BY <1>13, <1>14, <2>3
    <3>2. old \in S /\ \A a \in S : a.label # old.label => Goes(old, a, offset)
      BY <1>10, <2>3 DEF BestOf
    <3>3. Goes(old, rq, offset)
      BY <1>2, <1>8, <1>9, <1>16, <2>3, <3>2
    <3> QED
      BY <3>1, <3>2, <3>3 DEF BestOf
  <2> QED
    BY <2>1, <2>2, <2>3
<1>18. ASSUME NEW x \in Inputs, NEW y \in Outputs
       PROVE  BestOf(dn2[x][y], Offers(mk2, x, y), offset)
  <2>1. CASE x = i /\ y = o
    BY <1>4, <1>17, <2>1
  <2>2. CASE ~(x = i /\ y = o)
    BY <1>5, <1>6, <1>7, <2>2
  <2> QED
    BY <2>1, <2>2
<1>19. DenseHolds(mk2, dn2, offset)
  BY <1>7, <1>18 DEF DenseHolds
<1> QED
  BY <1>3, <1>19 DEF mk2, dn2, rq

(* Tables that hold the best of what was asked agree.                         *)
LEMMA HeldAgree ==
  ASSUME kind \in Kinds, MadeBy(made), DenseHolds(made, dense, turn), SparseHolds(dense, sparse),
         turn \in Ports(Vcs) \/ made = << >>
  PROVE  TablesAgree
<1>1. SUFFICES ASSUME NEW i \in Inputs, NEW o \in Outputs
      PROVE  LET offers == Offers(made, i, o)
                 held == DenseRead(dense, i, o)
             IN  /\ IF offers = {} THEN held = NoRequest
                    ELSE held \in offers /\ \A a \in offers \ {held} : Before(held, a, turn, Vcs)
                 /\ SparseRead(sparse, i, o) = held
                 /\ i \in DOMAIN sparse.out_req[o] <=> o \in DOMAIN sparse.in_req[i]
                 /\ i \in DOMAIN sparse.out_req[o] => sparse.out_req[o][i] = held
                 /\ SparseInputHas(sparse, i) <=> DenseOfInput(dense, i) # {}
                 /\ SparseOutputHas(sparse, o) <=> DenseOfOutput(dense, o) # {}
  BY DEF TablesAgree, Offers
<1> DEFINE S == Offers(made, i, o)
           held == dense[i][o]
<1>2. DenseRead(dense, i, o) = held
  BY DEF DenseRead
<1>3. dense \in [Inputs -> [Outputs -> Slots]] /\ BestOf(held, S, turn)
  BY DEF DenseHolds
<1>4. /\ S \subseteq Real
      /\ \A a, b \in S : a.label = b.label => a = b
  BY OffersReal
<1>5. /\ \A a \in Real : a.label # Nobody
      /\ NoRequest.label = Nobody
      /\ \A a \in Slots : a.label # Nobody <=> a.label >= 0
  BY DEF Real, Slots, Ports, Nobody, NoRequest, Request
<1>6. /\ o \in DOMAIN sparse.in_req[i] <=> held.label # Nobody
      /\ i \in DOMAIN sparse.out_req[o] <=> held.label # Nobody
      /\ held.label # Nobody => sparse.in_req[i][o] = held /\ sparse.out_req[o][i] = held
      /\ i \in sparse.in_occ <=> \E y \in Outputs : dense[i][y].label # Nobody
      /\ o \in sparse.out_occ <=> \E x \in Inputs : dense[x][o].label # Nobody
  BY DEF SparseHolds
<1>7. \A x \in Inputs, y \in Outputs : dense[x][y] \in Slots
  BY <1>3
<1>8. DenseOfInput(dense, i) # {} <=> \E y \in Outputs : dense[i][y].label # Nobody
  BY <1>3, <1>5, <1>7 DEF DenseOfInput
<1>9. DenseOfOutput(dense, o) # {} <=> \E x \in Inputs : dense[x][o].label # Nobody
  BY <1>3, <1>5, <1>7 DEF DenseOfOutput
<1> HIDE DEF S, held
<1>10. IF S = {} THEN held = NoRequest
       ELSE held \in S /\ \A a \in S \ {held} : Before(held, a, turn, Vcs)
  <2>1. ASSUME S # {}, NEW a \in S \ {held}
        PROVE  Before(held, a, turn, Vcs)
    <3>1. held \in S /\ held.label # a.label
      BY <1>3, <1>4, <2>1 DEF BestOf
    <3>2. Goes(held, a, turn)
      BY <1>3, <2>1, <3>1 DEF BestOf
    <3> QED
      BY <3>1, <3>2, BeforeIs
  <2> QED
    BY <1>3, <2>1 DEF BestOf
<1>11. SparseRead(sparse, i, o) = held
  <2>1. CASE held.label = Nobody
    <3>1. held = NoRequest
      BY <1>3, <1>4, <1>5, <2>1 DEF BestOf
    <3> QED
      BY <1>6, <2>1, <3>1 DEF SparseRead
  <2>2. CASE held.label # Nobody
    BY <1>6, <2>2 DEF SparseRead
  <2> QED
    BY <2>1, <2>2
<1> QED
  BY <1>2, <1>6, <1>8, <1>9, <1>10, <1>11 DEF S, SparseInputHas, SparseOutputHas
-----------------------------------------------------------------------------
(* The types of the allocators with an arbiter at every port.                 *)
Separable == {"separable_input_first", "separable_output_first"}

(* The pointers or arbiters of the ports are fit for use.                      *)
PortsKeep ==
  /\ type \in Separable => ArbsOK
  /\ type = "tree" => DOMAIN outarb = Outputs /\ TreeOK(arb, outarb[0], NI \div 2)
  /\ type \notin Separable \cup {"tree"} =>
       inarb \in [Inputs -> Outputs] /\ outarb \in [Outputs -> Inputs]

(* The matches there are.                                                    *)
Now == [inm |-> inmatch, outm |-> outmatch]

(* The inductive invariant.  The matches are a matching of the requests, the    *)
(* pointers fit the kind, the matrix holds the best of what the VCs made, and  *)
(* the maps what the matrix has.                                            *)
IInv ==
  /\ kind \in Kinds /\ turn \in Ports(IF type = "tables" THEN Vcs ELSE Square)
  /\ PortsKeep
  /\ Asking2(req) /\ Now \in Matchings(DOMAIN req) /\ NoneLeft(req, Now)
  /\ (type # "tables" => made = << >>)
  /\ MadeBy(made) /\ DenseHolds(made, dense, turn) /\ SparseHolds(dense, sparse)

(* The invariant includes what is to be shown.                               *)
LEMMA InvSound ==
  ASSUME IInv
  PROVE  GrantsSound
<1>1. kind \in Kinds /\ PortsKeep /\ turn \in Ports(IF type = "tables" THEN Vcs ELSE Square)
  BY DEF IInv
<1>2. /\ inmatch \in [Inputs -> Outputs \cup {Nobody}] /\ outmatch \in [Outputs -> Inputs \cup {Nobody}]
      /\ \A i \in Inputs, o \in Outputs :
           (inmatch[i] = o <=> outmatch[o] = i) /\ (inmatch[i] = o => <<i, o>> \in DOMAIN req)
  BY DEF IInv, Matchings, Now
<1>3. Matching
  <2>1. \A i \in Inputs, o \in Outputs : inmatch[i] = o <=> outmatch[o] = i
    BY <1>2
  <2>2. ASSUME NEW c \in Matched PROVE c \in Asked
    <3>1. c \in Inputs \X Outputs /\ inmatch[c[1]] = c[2]
      BY DEF Matched
    <3>2. c[1] \in Inputs /\ c[2] \in Outputs /\ c = <<c[1], c[2]>>
      BY <3>1
    <3> QED
      BY <1>2, <3>1, <3>2 DEF Asked
  <2> QED
    BY <2>1, <2>2 DEF Matching
<1>4. TablesAgree
  <2>1. turn \in Ports(Vcs) \/ made = << >>
    BY <1>1 DEF IInv
  <2> QED
    BY <1>1, <2>1, HeldAgree DEF IInv
<1>5. ASSUME type # "tree"
      PROVE  /\ \A i \in Inputs : ArbTypes(inarb[i], NO)
             /\ \A o \in Outputs : ArbTypes(outarb[o], NI)
  <2>1. CASE type \in Separable
    <3>1. ArbsOK
      BY <1>1, <2>1 DEF PortsKeep
    <3> QED
      BY <2>1, <3>1 DEF ArbsOK, ArbOK, OrderOn, ArbTypes, Separable
  <2>2. CASE type \notin Separable
    <3>1. inarb \in [Inputs -> Outputs] /\ outarb \in [Outputs -> Inputs]
      BY <1>1, <1>5, <2>2 DEF PortsKeep
    <3> QED
      BY <2>2, <3>1 DEF ArbTypes, Separable, Inputs, Outputs
  <2> QED
    BY <2>1, <2>2
<1>6. TypeOK
  BY <1>1, <1>2, <1>5 DEF TypeOK
<1>7. MatricesOrdered
  BY <1>1 DEF PortsKeep, Separable, ArbsOK, ArbOK, OrderOn, MatricesOrdered
<1> QED
  BY <1>3, <1>4, <1>6, <1>7 DEF GrantsSound

(* Nor is anything left (NothingLeft).                                        *)
LEMMA InvLeaves ==
  ASSUME IInv
  PROVE  NothingLeft
<1>1. kind \in Kinds /\ Now \in Matchings(Asked) /\ NoneLeft(req, Now) /\ Asking2(req)
  BY DEF IInv, Asked
<1>2. Now.inm = inmatch
  BY DEF Now
<1>3. Pairs(Now) = Matched
  BY <1>2 DEF Pairs, Matched
<1>4. \A i \in Inputs, o \in Outputs : inmatch[i] = o => <<i, o>> \in Matched
  BY DEF Matched
<1>5. SomebodyGranted
  <2>1. ASSUME Asked # {} PROVE Matched # {}
    <3>1. SomeMatched(Now)
      BY <1>1, <2>1 DEF NoneLeft, Enough, Asked
    <3>2. PICK i \in Inputs : inmatch[i] # Nobody
      BY <1>2, <3>1 DEF SomeMatched
    <3>3. inmatch[i] \in Outputs
      BY <1>1, <1>2, <3>2 DEF Matchings
    <3> QED
      BY <1>4, <3>3
  <2> QED
    BY <2>1 DEF SomebodyGranted
<1>6. LargestMatching
  <2>1. ASSUME type = "max_size", NEW S \in SUBSET Asked, IsMatching(S)
        PROVE  Cardinality(S) <= Cardinality(Matched)
    <3>1. PICK from : Closed(req, Now, from)
      BY <1>1, <2>1 DEF NoneLeft
    <3> QED
      BY <1>1, <1>3, <2>1, <3>1, ClosedBounds DEF Asked
  <2> QED
    BY <2>1 DEF LargestMatching
<1>7. Stable
  <2>1. ASSUME type \in {"wavefront", "rr_wavefront"}, NEW c \in Asked
        PROVE  \E d \in Matched : Clash(c, d) /\ ~Higher(req[c], req[d])
    <3>1. c[1] \in Inputs /\ c[2] \in Outputs /\ c = <<c[1], c[2]>>
      BY <1>1 DEF Asking2, Asked
    <3>2. Served(req, Now, c[1], c[2])
      BY <1>1, <2>1, <3>1 DEF NoneLeft, Asked
    <3>3. PICK x \in Inputs, y \in Outputs :
            inmatch[x] = y /\ (x = c[1] \/ y = c[2]) /\ ~Higher(req[c], req[<<x, y>>])
      BY <1>2, <3>1, <3>2 DEF Served
    <3> DEFINE d == <<x, y>>
    <3>4. d \in Matched /\ Clash(c, d) /\ ~Higher(req[c], req[d])
      BY <1>4, <3>3 DEF Clash
    <3> QED
      BY <3>4
  <2> QED
    BY <2>1 DEF Stable
<1> QED
  BY <1>5, <1>6, <1>7 DEF NothingLeft

(* The allocator stays the one it is.                                         *)
LEMMA SamePorts ==
  ASSUME kind' = kind
  PROVE  /\ NI' = NI /\ NO' = NO /\ Inputs' = Inputs /\ Outputs' = Outputs
         /\ type' = type /\ arb' = arb /\ Square' = Square
<1>1. NI' = NI /\ NO' = NO /\ type' = type /\ arb' = arb
  BY DEF NI, NO, type, arb
<1> QED
  BY <1>1 DEF Inputs, Outputs, Square

(* What is left in the next state, told in this one.                          *)
LEMMA LeavesNext ==
  ASSUME kind' = kind, NEW m, Matches(m), NoneLeft(req', m)
  PROVE  NoneLeft(req, Now)'
<1>1. NI' = NI /\ NO' = NO /\ Inputs' = Inputs /\ Outputs' = Outputs /\ type' = type
  BY SamePorts
<1>2. Now'.inm = m.inm /\ Now'.outm = m.outm
  BY DEF Now, Matches
<1>3. Enough(req, Now)'
  BY <1>1, <1>2 DEF NoneLeft, Enough, SomeMatched
<1>4. ASSUME type = "max_size" PROVE \E from : Closed(req, Now, from)'
  <2>1. PICK from : Closed(req', m, from)
    BY <1>4 DEF NoneLeft
  <2>2. Closed(req, Now, from)'
    BY <1>1, <1>2, <2>1 DEF Closed, InTree
  <2> QED
    BY <2>2
<1>5. ASSUME type \in {"wavefront", "rr_wavefront"}, NEW i \in Inputs, NEW o \in Outputs, <<i, o>> \in DOMAIN req'
      PROVE  Served(req, Now, i, o)'
  <2>1. Served(req', m, i, o)
    BY <1>5 DEF NoneLeft
  <2> QED
    BY <1>1, <1>2, <2>1 DEF Served
<1> QED
  BY <1>1, <1>3, <1>4, <1>5 DEF NoneLeft

(* A cycle of allocation keeps the invariant if its matching is one of what was *)
(* asked and its pointers are fit for use.                                  *)
LEMMA CycleKeeps ==
  ASSUME IInv, kind' = kind, UNCHANGED tables, type # "tables", turn' \in Ports(Square), PortsKeep',
         NEW m \in Matchings(DOMAIN req'), Matches(m), NoneLeft(req', m), Asking2(req')
  PROVE  IInv'
<1>1. /\ NI' = NI /\ NO' = NO /\ Inputs' = Inputs /\ Outputs' = Outputs
      /\ type' = type /\ arb' = arb /\ Square' = Square
  BY SamePorts
<1>2. made = << >> /\ made' = made /\ dense' = dense /\ sparse' = sparse /\ kind \in Kinds
  BY DEF IInv, tables
<1>3. MadeBy(made)'
  BY <1>1, <1>2 DEF IInv, MadeBy
<1>4. DenseHolds(made, dense, turn)'
  <2>1. dense \in [Inputs -> [Outputs -> Slots]]
    BY DEF IInv, DenseHolds
  <2>2. \A i, o : Offers(made, i, o) = {} /\ Offers(made, i, o)' = {}
    BY <1>2 DEF Offers
  <2>3. \A i \in Inputs, o \in Outputs : dense[i][o] = NoRequest
    BY <2>2 DEF IInv, DenseHolds, BestOf
  <2> QED
    BY <1>1, <1>2, <2>1, <2>2, <2>3 DEF DenseHolds, BestOf
<1>5. SparseHolds(dense, sparse)'
  BY <1>1, <1>2 DEF IInv, SparseHolds
<1>6. (Now \in Matchings(DOMAIN req))' /\ NoneLeft(req, Now)'
  <2>1. inmatch' = m.inm /\ outmatch' = m.outm
    BY DEF Matches
  <2> QED
    BY <1>1, <2>1, LeavesNext DEF Matchings, Now
<1>7. Asking2(req)'
  BY <1>1 DEF Asking2
<1> QED
  BY <1>1, <1>2, <1>3, <1>4, <1>5, <1>6, <1>7 DEF IInv

(* The invariant holds at first.                                             *)
LEMMA InitHolds ==
  ASSUME Init
  PROVE  IInv
<1>1. kind \in Kinds /\ turn = 0 /\ req = << >> /\ made = << >>
      /\ dense = DenseClear(NI, NO) /\ sparse = SparseClear(NI, NO)
  BY DEF Init
<1>2. turn \in Ports(IF type = "tables" THEN Vcs ELSE Square)
  BY <1>1, SquareIs, AllocAssumption DEF Ports
<1>3. Asking2(req) /\ Now \in Matchings(DOMAIN req) /\ NoneLeft(req, Now)
  <2>1. Now = NoMatch
    BY DEF Init, NoMatch, Now
  <2>2. DOMAIN req = {}
    BY <1>1
  <2> QED
    BY <1>1, <2>1, <2>2, NoMatchOK, NobodyLeaves DEF Asking2
<1>4. MadeBy(made) /\ DenseHolds(made, dense, turn) /\ SparseHolds(dense, sparse)
  BY <1>1, ClearHolds
<1>5. NI \in Nat \ {0} /\ NO \in Nat \ {0} /\ 0 \in Inputs /\ 0 \in Outputs
  BY <1>1, Sizes DEF Ports
<1>6. inarb = [i \in Inputs |-> InitArb(NO)]
      /\ outarb = [o \in Outputs |-> IF type = "tree" THEN TreeInit(arb, NI, NI \div 2) ELSE InitArb(NI)]
  BY DEF Init
<1>7. ASSUME type \in Separable PROVE ArbsOK
  <2>1. InitArb(NO) = ArbInit(arb, NO) /\ InitArb(NI) = ArbInit(arb, NI) /\ type # "tree"
    BY <1>7 DEF InitArb, Separable
  <2> QED
    BY <1>5, <1>6, <2>1, ArbInitOK DEF ArbsOK
<1>8. ASSUME type = "tree" PROVE DOMAIN outarb = Outputs /\ TreeOK(arb, outarb[0], NI \div 2)
  <2>1. NI % 2 = 0
    BY <1>1, <1>8, AllocAssumption DEF NI, type
  <2>2. outarb[0] = TreeInit(arb, NI, NI \div 2) /\ DOMAIN outarb = Outputs
    BY <1>5, <1>6, <1>8
  <2> QED
    BY <1>5, <2>1, <2>2, TreeInitOK
<1>9. ASSUME type \notin Separable \cup {"tree"}
      PROVE  inarb \in [Inputs -> Outputs] /\ outarb \in [Outputs -> Inputs]
  <2>1. InitArb(NO) = 0 /\ InitArb(NI) = 0 /\ type # "tree"
    BY <1>9 DEF InitArb, Separable
  <2> QED
    BY <1>5, <1>6, <2>1
<1> QED
  BY <1>1, <1>2, <1>3, <1>4, <1>7, <1>8, <1>9 DEF IInv, PortsKeep

(* What a step of the iterative allocators leaves.                            *)
LEMMA PointersMove ==
  ASSUME IInv, kind' = kind, UNCHANGED tables, turn' = turn, type \notin Separable \cup {"tree", "tables"},
         NEW t, t.m \in Matchings(DOMAIN req'), Matches(t.m), NoneLeft(req', t.m), Asking2(req'), inarb' = t.in, outarb' = t.out,
         t.in \in [Inputs -> Outputs], t.out \in [Outputs -> Inputs]
  PROVE  IInv'
<1>1. Inputs' = Inputs /\ Outputs' = Outputs /\ type' = type
  BY SamePorts
<1>2. type # "tables" /\ turn' \in Ports(Square)
  BY DEF IInv
<1>3. PortsKeep'
  BY <1>1 DEF PortsKeep
<1> QED
  BY <1>2, <1>3, CycleKeeps

(* The pointers that such an allocator has.                                  *)
LEMMA PointersOf ==
  ASSUME IInv, type \notin Separable \cup {"tree"}
  PROVE  kind \in Kinds /\ inarb \in [Inputs -> Outputs] /\ outarb \in [Outputs -> Inputs]
  BY DEF IInv, PortsKeep

(* A cycle of iSLIP (AllocateISlip).                                         *)
LEMMA ISlipStep ==
  ASSUME IInv, kind' = kind, UNCHANGED tables, NEW r, Asking2(r), req' = r, AllocateISlip(r)
  PROVE  IInv'
<1>1. type = "islip" /\ type \notin Separable \cup {"tree", "tables"}
  BY DEF AllocateISlip, Separable
<1> DEFINE t == ISlip(r)
<1>2. Matches(t.m) /\ inarb' = t.in /\ outarb' = t.out /\ turn' = turn
  BY DEF AllocateISlip
<1>3. t \in Rounds(r) /\ Enough(r, t.m)
  BY <1>1, PointersOf, ISlipOK
<1> HIDE DEF t
<1>4. NoneLeft(r, t.m)
  BY <1>1, <1>3, EnoughLeaves
<1> QED
  BY <1>1, <1>2, <1>3, <1>4, PointersMove DEF Rounds

(* A cycle of Select (AllocateSelect).                                       *)
LEMMA SelectStep ==
  ASSUME IInv, kind' = kind, UNCHANGED tables, NEW r, Asking2(r), req' = r, AllocateSelect(r)
  PROVE  IInv'
<1>1. type = "select" /\ type \notin Separable \cup {"tree", "tables"}
  BY DEF AllocateSelect, Separable
<1> DEFINE t == Select(r)
<1>2. Matches(t.m) /\ inarb' = t.in /\ outarb' = t.out /\ turn' = turn
  BY DEF AllocateSelect
<1>3. t.m \in Matchings(DOMAIN r) /\ Enough(r, t.m) /\ t.in \in [Inputs -> Outputs] /\ t.out \in [Outputs -> Inputs]
  BY <1>1, PointersOf, SelectOK
<1> HIDE DEF t
<1>4. NoneLeft(r, t.m)
  BY <1>1, <1>3, EnoughLeaves
<1> QED
  BY <1>1, <1>2, <1>3, <1>4, PointersMove

(* A cycle of LOA (AllocateLoa).                                             *)
LEMMA LoaStep ==
  ASSUME IInv, kind' = kind, UNCHANGED tables, NEW r, Asking2(r), req' = r, AllocateLoa(r)
  PROVE  IInv'
<1>1. type = "loa" /\ type \notin Separable \cup {"tree", "tables"}
  BY DEF AllocateLoa, Separable
<1> DEFINE t == Loa(r)
<1>2. Matches(t.m) /\ inarb' = t.in /\ outarb' = t.out /\ turn' = turn
  BY DEF AllocateLoa
<1>3. t \in Rounds(r) /\ Enough(r, t.m)
  BY <1>1, PointersOf, LoaOK
<1> HIDE DEF t
<1>4. NoneLeft(r, t.m)
  BY <1>1, <1>3, EnoughLeaves
<1> QED
  BY <1>1, <1>2, <1>3, <1>4, PointersMove DEF Rounds

(* What a step of those leaves that have no pointers of the ports.            *)
LEMMA PointersStay ==
  ASSUME IInv, kind' = kind, UNCHANGED tables, UNCHANGED <<inarb, outarb>>, turn' \in Ports(Square),
         type \notin Separable \cup {"tree", "tables"}, NEW m \in Matchings(DOMAIN req'), Matches(m),
         NoneLeft(req', m), Asking2(req')
  PROVE  IInv'
<1>1. Inputs' = Inputs /\ Outputs' = Outputs /\ type' = type
  BY SamePorts
<1>2. PortsKeep'
  BY <1>1, PointersOf DEF PortsKeep
<1> QED
  BY <1>2, CycleKeeps

(* A cycle of PIM (AllocatePim).                                             *)
LEMMA PimStep ==
  ASSUME IInv, kind' = kind, UNCHANGED tables, NEW r, Asking2(r), req' = r, AllocatePim(r)
  PROVE  IInv'
<1>1. type = "pim" /\ type \notin Separable \cup {"tree", "tables"}
  BY DEF AllocatePim, Separable
<1>2. PICK m \in Pim(r) : Matches(m)
  BY DEF AllocatePim
<1>3. m \in Matchings(DOMAIN r) /\ Enough(r, m)
  BY <1>1, PointersOf, PimOK
<1>4. turn' \in Ports(Square) /\ UNCHANGED <<inarb, outarb>>
  BY <1>1 DEF AllocatePim, IInv
<1>5. NoneLeft(r, m)
  BY <1>1, <1>3, EnoughLeaves
<1> QED
  BY <1>1, <1>2, <1>3, <1>4, <1>5, PointersStay

(* A cycle of the wavefronts (AllocateWavefront).                            *)
LEMMA WavefrontStep ==
  ASSUME IInv, kind' = kind, UNCHANGED tables, NEW r, Asking2(r), req' = r, AllocateWavefront(r)
  PROVE  IInv'
<1>1. type # "max_size" /\ type \notin Separable \cup {"tree", "tables"}
  BY DEF AllocateWavefront, Separable
<1>2. kind \in Kinds /\ turn \in Ports(Square)
  BY <1>1 DEF IInv
<1>3. Square \in Nat \ {0}
  BY <1>2, SquareIs
<1>4. turn \in Nat
  BY <1>2 DEF Ports
<1> DEFINE w == Wavefront(r)
<1>5. /\ w \in Waves(r)
      /\ \A i \in Inputs, o \in Outputs : <<i, o>> \in DOMAIN r => Served(r, w.m, i, o)
  BY <1>2, WavefrontOK
<1>6. /\ Matches(w.m)
      /\ turn' = CASE r = << >> -> turn
                   [] r # << >> /\ type = "wavefront" -> After(turn, Square)
                   [] r # << >> /\ type # "wavefront" -> After(w.first, Square)
      /\ UNCHANGED <<inarb, outarb>>
  BY DEF AllocateWavefront
<1> HIDE DEF w
<1>7. w.m \in Matchings(DOMAIN r) /\ w.first \in Ports(Square) \cup {Nobody}
  BY <1>5 DEF Waves
<1>8. After(turn, Square) \in Ports(Square) /\ After(w.first, Square) \in Ports(Square)
  <2>1. \A i \in Ports(Square) \cup {Nobody} : i \in Int /\ i >= -1
    BY <1>3 DEF Ports, Nobody
  <2> QED
    BY <1>2, <1>3, <1>7, <2>1, AfterIn
<1>9. turn' \in Ports(Square)
  BY <1>2, <1>6, <1>8
<1>10. NoneLeft(r, w.m)
  BY <1>1, <1>2, <1>5, <1>7, ServedLeaves
<1> QED
  BY <1>1, <1>6, <1>7, <1>9, <1>10, PointersStay

(* A cycle of the maximum matching (AllocateMaxSize).                        *)
LEMMA MaxSizeStep ==
  ASSUME IInv, kind' = kind, UNCHANGED tables, NEW r, Asking2(r), req' = r, AllocateMaxSize(r)
  PROVE  IInv'
<1>1. type = "max_size" /\ type \notin Separable \cup {"tree", "tables"}
  BY DEF AllocateMaxSize, Separable
<1>2. kind \in Kinds /\ turn \in Ports(Square)
  BY <1>1 DEF IInv
<1>3. turn \in Ports(NI) /\ turn \in Nat
  <2>1. NO <= NI
    BY <1>2, AllocAssumption DEF NO, NI, AllocateMaxSize, type
  <2>2. Square \in {NI, NO} /\ NI <= Square
    BY <1>2, SquareIs
  <2>3. Square = NI
    BY <1>2, <2>1, <2>2, Sizes
  <2> QED
    BY <1>2, <2>3 DEF Ports
<1>4. PICK m \in {MaxSize(r)} : Matches(m)
  BY DEF AllocateMaxSize
<1>5. m \in Matchings(DOMAIN r) /\ NoneLeft(r, m)
  <2>1. m \in Matchings(DOMAIN r) /\ \E from : Closed(r, m, from)
    BY <1>2, <1>3, <1>4, MaxSizeOK
  <2> QED
    BY <1>1, <1>2, <2>1, ClosedLeaves
<1>6. turn' \in Ports(Square)
  <2>1. turn' = After(turn, NI)
    BY DEF AllocateMaxSize
  <2>2. After(turn, NI) \in Ports(NI)
    BY <1>2, <1>3, Sizes, AfterIn
  <2>3. NI <= Square /\ Square \in Nat /\ NI \in Nat
    BY <1>2, SquareIs, Sizes
  <2> QED
    BY <2>1, <2>2, <2>3 DEF Ports
<1>7. UNCHANGED <<inarb, outarb>>
  BY DEF AllocateMaxSize
<1> QED
  BY <1>1, <1>4, <1>5, <1>6, <1>7, PointersStay

(* A cycle of the separable allocators (AllocateSeparable).                  *)
LEMMA SeparableStep ==
  ASSUME IInv, kind' = kind, UNCHANGED tables, NEW r, Asking2(r), req' = r, AllocateSeparable(r)
  PROVE  IInv'
<1>1. type \in Separable /\ type \notin {"tables", "tree", "max_size", "wavefront", "rr_wavefront"}
  BY DEF AllocateSeparable, Separable
<1>2. kind \in Kinds /\ ArbsOK /\ turn' \in Ports(Square)
  BY <1>1 DEF IInv, PortsKeep, AllocateSeparable
<1> DEFINE accept == IF type = "separable_input_first" THEN InputFirst(r) ELSE OutputFirst(r)
<1>3. Matches(Accepted(NoMatch, accept)) /\ inarb' = UpdatedIn(accept) /\ outarb' = UpdatedOut(accept)
  BY DEF AllocateSeparable
<1>4. Fits(accept, NoMatch, DOMAIN r) /\ (DOMAIN r # {} => DOMAIN accept # {})
  BY <1>2, InputFirstOK, OutputFirstOK
<1> HIDE DEF accept
<1>5. Accepted(NoMatch, accept) \in Matchings(DOMAIN r)
  <2>1. NoMatch \in Matchings(DOMAIN r)
    BY <1>2, NoMatchOK
  <2> QED
    BY <1>2, <1>4, <2>1, AcceptedOK
<1>6. /\ \A i \in Inputs : ArbOK(arb, UpdatedIn(accept)[i], NO)
      /\ \A o \in Outputs : ArbOK(arb, UpdatedOut(accept)[o], NI)
  BY <1>2, <1>4, UpdatedOK
<1>7. /\ NI' = NI /\ NO' = NO /\ Inputs' = Inputs /\ Outputs' = Outputs
      /\ type' = type /\ arb' = arb
  BY SamePorts
<1>8. PortsKeep'
  <2>1. ArbsOK'
    BY <1>3, <1>6, <1>7 DEF ArbsOK
  <2> QED
    BY <1>1, <1>7, <2>1 DEF PortsKeep, Separable
<1>9. NoneLeft(r, Accepted(NoMatch, accept))
  <2>1. Enough(r, Accepted(NoMatch, accept))
    BY <1>2, <1>4, AcceptedSome DEF Enough
  <2> QED
    BY <1>1, <2>1, EnoughLeaves
<1> QED
  BY <1>1, <1>2, <1>3, <1>5, <1>8, <1>9, CycleKeeps

(* Matches left alone leave what they left.                                   *)
LEMMA LeftAlone ==
  ASSUME IInv, UNCHANGED <<kind, req, inmatch, outmatch>>
  PROVE  (Asking2(req) /\ Now \in Matchings(DOMAIN req) /\ NoneLeft(req, Now))'
<1>1. Inputs' = Inputs /\ Outputs' = Outputs
  BY SamePorts
<1>2. Asking2(req) /\ Now \in Matchings(DOMAIN req) /\ NoneLeft(req, Now)
  BY DEF IInv
<1>3. Asking2(req)'
  BY <1>1, <1>2 DEF Asking2
<1>4. (Now \in Matchings(DOMAIN req))'
  BY <1>1, <1>2 DEF Now, Matchings
<1>5. Matches(Now)
  BY DEF Matches, Now
<1>6. NoneLeft(req, Now)'
  BY <1>2, <1>5, LeavesNext
<1> QED
  BY <1>3, <1>4, <1>6

(* A selection of the tree arbiter (ArbitrateTree).                          *)
LEMMA TreeStep ==
  ASSUME IInv, kind' = kind, UNCHANGED tables, NEW r, Asking2(r), req' = r, ArbitrateTree(r)
  PROVE  IInv'
<1>1. type \notin Separable /\ type # "tables" /\ type = "tree"
  BY DEF ArbitrateTree, Separable
<1>2. kind \in Kinds /\ turn' \in Ports(Square) /\ DOMAIN outarb = Outputs /\ TreeOK(arb, outarb[0], NI \div 2)
  BY <1>1 DEF IInv, PortsKeep, ArbitrateTree
<1>3. NI % 2 = 0 /\ NI \in Nat \ {0} /\ NO \in Nat \ {0} /\ Outputs = {0} /\ Inputs = Ports(NI)
  <2>1. NI % 2 = 0 /\ NO = 1
    BY <1>1, <1>2, AllocAssumption DEF NI, NO, type
  <2>2. NI \in Nat \ {0} /\ NO \in Nat \ {0} /\ Outputs = Ports(NO) /\ Inputs = Ports(NI)
    BY <1>2, Sizes
  <2> QED
    BY <2>1, <2>2 DEF Ports
<1> DEFINE asks == [i \in OutReq(r, 0) |-> r[<<i, 0>>][2]]
           w == Tree(arb, outarb[0], asks, NI, NI \div 2)
           accept == IF w = Nobody THEN << >> ELSE [i \in {w} |-> 0]
<1>4. /\ Matches(Accepted(NoMatch, accept))
      /\ outarb' = IF w = Nobody THEN outarb
                   ELSE [outarb EXCEPT ![0] = TreeUpdate(arb, outarb[0], w, NI, NI \div 2)]
  BY DEF ArbitrateTree
<1>5. (w = Nobody /\ OutReq(r, 0) = {}) \/ w \in OutReq(r, 0)
  <2>1. CASE OutReq(r, 0) = {}
    <3>1. asks = << >>
      BY <2>1
    <3> HIDE DEF asks
    <3> QED
      BY <2>1, <3>1 DEF Tree
  <2>2. CASE OutReq(r, 0) # {}
    <3>1. \A i \in OutReq(r, 0) : r[<<i, 0>>][2] \in Int
      BY ReqPorts DEF Asking2
    <3>2. OutReq(r, 0) \subseteq Ports(NI)
      BY <1>3, ReqPorts
    <3>3. Asks(asks, NI)
      BY <2>2, <3>1, <3>2 DEF Asks
    <3>4. DOMAIN asks = OutReq(r, 0)
      OBVIOUS
    <3> HIDE DEF asks
    <3> QED
      BY <1>2, <1>3, <3>3, <3>4, TreeIn
  <2> QED
    BY <2>1, <2>2
<1> HIDE DEF w
<1>6. w # Nobody => w \in Inputs /\ <<w, 0>> \in DOMAIN r
  BY <1>5, ReqPorts
<1>7. Fits(accept, NoMatch, DOMAIN r)
  <2>1. NoMatch.outm[0] = Nobody /\ \A i \in Inputs : NoMatch.inm[i] = Nobody
    BY <1>3 DEF NoMatch, Free, Inputs, Outputs
  <2> QED
    BY <1>3, <1>6, <2>1 DEF Fits
<1>12. DOMAIN r # {} => DOMAIN accept # {}
  <2>1. ASSUME NEW c \in DOMAIN r PROVE w # Nobody
    <3>1. c[1] \in OutReq(r, 0)
      BY <1>3 DEF Asking2, OutReq
    <3> QED
      BY <1>2, <1>5, <3>1, ReqPorts, Sizes
  <2> QED
    BY <2>1
<1> HIDE DEF accept
<1>8. Accepted(NoMatch, accept) \in Matchings(DOMAIN r)
  <2>1. NoMatch \in Matchings(DOMAIN r)
    BY <1>2, NoMatchOK
  <2> QED
    BY <1>2, <1>7, <2>1, AcceptedOK
<1>9. /\ NI' = NI /\ NO' = NO /\ Inputs' = Inputs /\ Outputs' = Outputs
      /\ type' = type /\ arb' = arb
  BY SamePorts
<1>10. DOMAIN outarb' = Outputs /\ TreeOK(arb, outarb'[0], NI \div 2)
  <2>1. CASE w = Nobody
    BY <1>2, <1>4, <2>1
  <2>2. CASE w # Nobody
    <3>1. TreeOK(arb, TreeUpdate(arb, outarb[0], w, NI, NI \div 2), NI \div 2)
      BY <1>2, <1>3, <1>6, <2>2, TreeUpdateOK
    <3>2. DOMAIN outarb' = Outputs /\ outarb'[0] = TreeUpdate(arb, outarb[0], w, NI, NI \div 2)
      BY <1>2, <1>3, <1>4, <2>2
    <3> QED
      BY <3>1, <3>2
  <2> QED
    BY <2>1, <2>2
<1>11. PortsKeep'
  BY <1>1, <1>9, <1>10 DEF PortsKeep, Separable
<1>13. NoneLeft(r, Accepted(NoMatch, accept))
  <2>1. Enough(r, Accepted(NoMatch, accept))
    BY <1>2, <1>7, <1>12, AcceptedSome DEF Enough
  <2> QED
    BY <1>1, <2>1, EnoughLeaves
<1> QED
  BY <1>1, <1>2, <1>4, <1>8, <1>11, <1>13, CycleKeeps
-----------------------------------------------------------------------------
(* What the steps of the tables leave alone.                                       *)
LEMMA TablesStep ==
  ASSUME IInv, type = "tables", UNCHANGED <<kind, inarb, outarb, req, inmatch, outmatch>>, turn' \in Ports(Vcs),
         MadeBy(made'), DenseHolds(made', dense', turn'), SparseHolds(dense', sparse')
  PROVE  IInv'
<1>1. /\ NI' = NI /\ NO' = NO /\ Inputs' = Inputs /\ Outputs' = Outputs
      /\ type' = type /\ arb' = arb /\ Square' = Square
  BY SamePorts
<1>2. PortsKeep'
  <2>1. PortsKeep
    BY DEF IInv
  <2> QED
    BY <1>1, <2>1 DEF PortsKeep, Separable
<1>3. (Asking2(req) /\ Now \in Matchings(DOMAIN req) /\ NoneLeft(req, Now))'
  BY LeftAlone
<1>4. MadeBy(made)' /\ DenseHolds(made, dense, turn)' /\ SparseHolds(dense, sparse)'
  BY <1>1 DEF MadeBy, DenseHolds, SparseHolds
<1> QED
  BY <1>1, <1>2, <1>3, <1>4 DEF IInv

(* A VC asks (Ask).                                                          *)
LEMMA AskStep ==
  ASSUME IInv, NEW i \in Inputs, NEW vc \in Ports(Vcs), NEW o \in Outputs, NEW pri \in Int, Ask(i, vc, o, pri)
  PROVE  IInv'
<1>1. /\ type = "tables" /\ <<i, vc>> \notin DOMAIN made
      /\ made' = With(made, <<i, vc>>, <<o, pri>>)
      /\ dense' = DenseAsk(dense, i, o, Request(vc, pri), turn, Vcs)
      /\ sparse' = SparseAsk(sparse, i, o, Request(vc, pri), turn, Vcs)
      /\ UNCHANGED <<kind, inarb, outarb, req, inmatch, outmatch>> /\ turn' = turn
  BY DEF Ask
<1>2. /\ kind \in Kinds /\ turn \in Ports(Vcs)
      /\ MadeBy(made) /\ DenseHolds(made, dense, turn) /\ SparseHolds(dense, sparse)
  BY <1>1 DEF IInv
<1>3. MadeBy(made') /\ DenseHolds(made', dense', turn')
  BY <1>1, <1>2, AskHolds
<1>4. Request(vc, pri) \in Real
  BY DEF Request, Real
<1>5. \A x \in Inputs, y \in Outputs :
        dense'[x][y] = IF x = i /\ y = o /\ Enters(dense, i, o, Request(vc, pri), turn)
                       THEN Request(vc, pri) ELSE dense[x][y]
  <2>1. dense \in [Inputs -> [Outputs -> Slots]]
    BY <1>2 DEF DenseHolds
  <2> QED
    BY <1>1, <1>4, <2>1, DenseAskIs
<1>6. SparseHolds(dense', sparse')
  BY <1>1, <1>2, <1>4, <1>5, SparseAskOK
<1> QED
  BY <1>1, <1>2, <1>3, <1>6, TablesStep

(* The end of a cycle (ClearRequests).                                       *)
LEMMA ClearStep ==
  ASSUME IInv, NEW vc \in Ports(Vcs), ClearRequests(vc)
  PROVE  IInv'
<1>1. /\ type = "tables"
      /\ made' = << >> /\ dense' = DenseClear(NI, NO) /\ sparse' = SparseClear(NI, NO)
      /\ turn' = After(vc, Vcs) /\ UNCHANGED <<kind, inarb, outarb, req, inmatch, outmatch>>
  BY DEF ClearRequests
<1>2. kind \in Kinds
  BY DEF IInv
<1>3. turn' \in Ports(Vcs)
  <2>1. vc \in Int /\ vc >= -1
    BY DEF Ports
  <2> QED
    BY <1>1, <2>1, AfterIn, AllocAssumption
<1>4. MadeBy(made') /\ DenseHolds(made', dense', turn') /\ SparseHolds(dense', sparse')
  BY <1>1, <1>2, ClearHolds
<1> QED
  BY <1>1, <1>3, <1>4, TablesStep

(* Every step keeps the invariant.                                           *)
LEMMA NextHolds ==
  ASSUME IInv, [Next]_vars
  PROVE  IInv'
<1>1. kind \in Kinds
  BY DEF IInv
<1>2. ASSUME Cycle PROVE IInv'
  <2>1. PICK r \in Requests :
          /\ req' = r
          /\ \/ AllocateISlip(r) \/ AllocateSelect(r) \/ AllocatePim(r) \/ AllocateLoa(r)
             \/ AllocateWavefront(r) \/ AllocateMaxSize(r) \/ AllocateSeparable(r) \/ ArbitrateTree(r)
    BY <1>2 DEF Cycle
  <2>2. kind' = kind /\ UNCHANGED tables
    BY <1>2 DEF Cycle
  <2>3. Asking2(r)
    BY <1>1, RequestsAsk
  <2>4. CASE AllocateISlip(r)
    BY <2>1, <2>2, <2>3, <2>4, ISlipStep
  <2>5. CASE AllocateSelect(r)
    BY <2>1, <2>2, <2>3, <2>5, SelectStep
  <2>6. CASE AllocatePim(r)
    BY <2>1, <2>2, <2>3, <2>6, PimStep
  <2>7. CASE AllocateLoa(r)
    BY <2>1, <2>2, <2>3, <2>7, LoaStep
  <2>8. CASE AllocateWavefront(r)
    BY <2>1, <2>2, <2>3, <2>8, WavefrontStep
  <2>9. CASE AllocateMaxSize(r)
    BY <2>1, <2>2, <2>3, <2>9, MaxSizeStep
  <2>10. CASE AllocateSeparable(r)
    BY <2>1, <2>2, <2>3, <2>10, SeparableStep
  <2>11. CASE ArbitrateTree(r)
    BY <2>1, <2>2, <2>3, <2>11, TreeStep
  <2> QED
    BY <2>1, <2>4, <2>5, <2>6, <2>7, <2>8, <2>9, <2>10, <2>11
<1>3. ASSUME NEW i \in Inputs, NEW vc \in Ports(Vcs), NEW o \in Outputs,
             NEW pri \in PrisOf[kind][i], Ask(i, vc, o, pri)
      PROVE  IInv'
  <2>1. pri \in Int
    BY <1>1, AllocAssumption DEF Inputs, NI
  <2> QED
    BY <1>3, <2>1, AskStep
<1>4. ASSUME NEW vc \in Ports(Vcs), ClearRequests(vc)
      PROVE  IInv'
  BY <1>4, ClearStep
<1>5. ASSUME UNCHANGED vars PROVE IInv'
  <2>1. /\ kind' = kind /\ inarb' = inarb /\ outarb' = outarb /\ turn' = turn /\ req' = req
        /\ inmatch' = inmatch /\ outmatch' = outmatch /\ made' = made /\ dense' = dense /\ sparse' = sparse
    BY <1>5 DEF vars, tables
  <2>2. /\ NI' = NI /\ NO' = NO /\ Inputs' = Inputs /\ Outputs' = Outputs
        /\ type' = type /\ arb' = arb /\ Square' = Square
    BY <2>1, SamePorts
  <2>3. PortsKeep'
    <3>1. PortsKeep
      BY DEF IInv
    <3> QED
      BY <2>1, <2>2, <3>1 DEF PortsKeep, ArbsOK
  <2>4. (Asking2(req) /\ Now \in Matchings(DOMAIN req) /\ NoneLeft(req, Now))'
    BY <2>1, LeftAlone
  <2>5. MadeBy(made)' /\ DenseHolds(made, dense, turn)' /\ SparseHolds(dense, sparse)'
    <3>1. MadeBy(made)'
      BY <2>1, <2>2 DEF IInv, MadeBy
    <3>2. DenseHolds(made, dense, turn)'
      BY <2>1, <2>2 DEF IInv, DenseHolds
    <3>3. SparseHolds(dense, sparse)'
      BY <2>1, <2>2 DEF IInv, SparseHolds
    <3> QED
      BY <3>1, <3>2, <3>3
  <2> QED
    BY <2>1, <2>2, <2>3, <2>4, <2>5 DEF IInv
<1> QED
  BY <1>2, <1>3, <1>4, <1>5 DEF Next

(* GrantsSound of Allocators.tla, for every allocator with any numbers of     *)
(* ports and any requests: what is granted is a matching of what was asked    *)
(* that both ends know, the pointers and matrices of the arbiters stay fit to *)
(* decide between any requests, and the best of the VCs of an input that ask   *)
(* for an output is the request that both tables hold.                       *)
THEOREM GrantsStaySound == Spec => []GrantsSound
<1>1. Init => IInv
  BY InitHolds
<1>2. IInv /\ [Next]_vars => IInv'
  BY NextHolds
<1>3. IInv => GrantsSound
  BY InvSound
<1> QED
  BY <1>1, <1>2, <1>3, PTL DEF Spec

(* NothingLeft of Allocators.tla, for every allocator with any numbers of ports *)
(* and any requests: somebody is granted whenever somebody asks, the searches   *)
(* of MaxSizeMatch end in a matching of the largest size there is, and what the *)
(* wavefront leaves ungranted lost to one of at least its priority.             *)
THEOREM NothingStaysLeft == Spec => []NothingLeft
<1>1. Init => IInv
  BY InitHolds
<1>2. IInv /\ [Next]_vars => IInv'
  BY NextHolds
<1>3. IInv => NothingLeft
  BY InvLeaves
<1> QED
  BY <1>1, <1>2, <1>3, PTL DEF Spec
=============================================================================
