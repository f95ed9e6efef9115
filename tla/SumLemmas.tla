------------------------------ MODULE SumLemmas ------------------------------
(***************************************************************************)
(* Sums over a finite set, for the proofs that count.  SumFunctionOnSet of    *)
(* the community modules is a recursive function that takes the elements in  *)
(* an order of its own; here it is shown that the order does not matter and  *)
(* how a sum changes when the function or the set does.  Induction over a    *)
(* finite set is by a smallest counterexample (Smallest), because the        *)
(* induction theorems of the library take an operator.                      *)
(***************************************************************************)
EXTENDS Integers, FiniteSets, FiniteSetsExt, Functions, FiniteSetTheorems, WellFoundedInduction, TLAPS

(* A set of subsets of a finite set that has an element has a smallest one.  *)
LEMMA Smallest ==
  ASSUME NEW S, IsFiniteSet(S), NEW B \in SUBSET (SUBSET S), B # {}
  PROVE  \E m \in B : \A s \in B : s \subseteq m => s = m
<1>1. IsWellFoundedOn(StrictSubsetOrdering(S), FiniteSubsetsOf(S))
  BY FS_StrictSubsetOrderingWellFounded
<1>2. FiniteSubsetsOf(S) = SUBSET S
  BY FS_FiniteSubsetsOfFinite
<1>3. PICK m \in B : \A s \in B : ~ (<<s, m>> \in StrictSubsetOrdering(S))
  BY <1>1, <1>2, WFMin
<1>4. ASSUME NEW s \in B, s \subseteq m PROVE s = m
  BY <1>2, <1>3, <1>4 DEF StrictSubsetOrdering
<1> QED
  BY <1>4

-----------------------------------------------------------------------------
(* A set of indices.                                                        *)
Ints(D) == D \subseteq Int

(* A finite set with a total and transitive relation has an element that goes *)
(* before all others.                                                       *)
Orders(R, D) ==
  /\ \A i, j \in D : i # j => <<i, j>> \in R \/ <<j, i>> \in R
  /\ \A i, j, k \in D : <<i, j>> \in R /\ <<j, k>> \in R => <<i, k>> \in R

(* A finite set with an order has an element before all others.              *)
LEMMA HasTop ==
  ASSUME NEW D, IsFiniteSet(D), D # {}, NEW R, Orders(R, D)
  PROVE  \E i \in D : \A j \in D \ {i} : <<i, j>> \in R
<1> DEFINE Top(s) == \E i \in s : \A j \in s \ {i} : <<i, j>> \in R
           B == {s \in SUBSET D : s # {} /\ ~Top(s)}
<1>1. SUFFICES ASSUME B # {} PROVE FALSE
  OBVIOUS
<1>2. PICK m \in B : \A s \in B : s \subseteq m => s = m
  <2>1. B \in SUBSET (SUBSET D)
    OBVIOUS
  <2> HIDE DEF B
  <2> QED
    BY <1>1, <2>1, Smallest
<1>3. m \in SUBSET D /\ m # {} /\ ~Top(m)
  BY <1>2
<1>4. PICK x \in m : TRUE
  BY <1>3
<1>5. CASE m \ {x} = {}
  BY <1>3, <1>4, <1>5
<1>6. CASE m \ {x} # {}
  <2>1. m \ {x} \in SUBSET D /\ m \ {x} # m /\ m \ {x} \subseteq m
    BY <1>3, <1>4
  <2>2. Top(m \ {x})
    <3>1. m \ {x} \notin B
      <4> HIDE DEF B
      <4> QED
        BY <1>2, <2>1
    <3> QED
      BY <1>6, <2>1, <3>1
  <2>3. PICK i \in m \ {x} : \A j \in (m \ {x}) \ {i} : <<i, j>> \in R
    BY <2>2
  <2>4. <<i, x>> \in R \/ <<x, i>> \in R
    BY <1>3, <1>4, <2>3 DEF Orders
  <2>5. CASE <<i, x>> \in R
    <3>1. \A j \in m \ {i} : <<i, j>> \in R
      BY <2>3, <2>5
    <3> QED
      BY <1>3, <2>3, <3>1
  <2>6. CASE <<x, i>> \in R
    <3>1. \A j \in m \ {x} : <<x, j>> \in R
      BY <1>3, <1>4, <2>3, <2>6 DEF Orders
    <3> QED
      BY <1>3, <1>4, <3>1
  <2> QED
    BY <2>4, <2>5, <2>6
<1> QED
  BY <1>5, <1>6

(* The largest and the smallest element of a finite set of integers.         *)
LEMMA MaxIn ==
  ASSUME NEW S, IsFiniteSet(S), S # {}, S \subseteq Int
  PROVE  Max(S) \in S /\ \A y \in S : Max(S) >= y
<1> DEFINE R == {c \in S \X S : c[1] >= c[2]}
<1>1. \A i, j \in S : <<i, j>> \in R <=> i >= j
  OBVIOUS
<1>2. \E i \in S : \A j \in S \ {i} : <<i, j>> \in R
  <2>1. \A i, j \in S : i # j => <<i, j>> \in R \/ <<j, i>> \in R
    BY <1>1
  <2>2. \A i, j, k \in S : <<i, j>> \in R /\ <<j, k>> \in R => <<i, k>> \in R
    BY <1>1
  <2>3. Orders(R, S)
    BY <2>1, <2>2 DEF Orders
  <2> HIDE DEF R
  <2> QED
    BY <2>3, HasTop
<1>3. \E i \in S : \A j \in S : i >= j
  <2>1. PICK i \in S : \A j \in S \ {i} : <<i, j>> \in R
    BY <1>2
  <2>2. i >= i
    OBVIOUS
  <2>3. \A j \in S : j # i => i >= j
    BY <1>1, <2>1
  <2> QED
    BY <2>2, <2>3
<1> QED
  BY <1>3 DEF Max

(* The least likewise.                                                       *)
LEMMA MinIn ==
  ASSUME NEW S, IsFiniteSet(S), S # {}, S \subseteq Int
  PROVE  Min(S) \in S /\ \A y \in S : Min(S) <= y
<1> DEFINE R == {c \in S \X S : c[1] <= c[2]}
<1>1. \A i, j \in S : <<i, j>> \in R <=> i <= j
  OBVIOUS
<1>2. \E i \in S : \A j \in S \ {i} : <<i, j>> \in R
  <2>1. \A i, j \in S : i # j => <<i, j>> \in R \/ <<j, i>> \in R
    BY <1>1
  <2>2. \A i, j, k \in S : <<i, j>> \in R /\ <<j, k>> \in R => <<i, k>> \in R
    BY <1>1
  <2>3. Orders(R, S)
    BY <2>1, <2>2 DEF Orders
  <2> HIDE DEF R
  <2> QED
    BY <2>3, HasTop
<1>3. \E i \in S : \A j \in S : i <= j
  <2>1. PICK i \in S : \A j \in S \ {i} : <<i, j>> \in R
    BY <1>2
  <2>2. i <= i
    OBVIOUS
  <2>3. \A j \in S : j # i => i <= j
    BY <1>1, <2>1
  <2> QED
    BY <2>2, <2>3
<1> QED
  BY <1>3 DEF Min

-----------------------------------------------------------------------------
(* The recursion behind SumFunctionOnSet.                                   *)
Pick(s) == CHOOSE x \in s : TRUE
Rest(s) == s \ {Pick(s)}
Adds(g, f, S) == g = [s \in SUBSET S |-> IF s = {} THEN 0 ELSE f[Pick(s)] + g[Rest(s)]]
Adder(f, S) == CHOOSE g : Adds(g, f, S)

(* The sum is the solution that CHOOSE takes, at the whole set.               *)
LEMMA SumAdder ==
  ASSUME NEW f, NEW S
  PROVE  SumFunctionOnSet(f, S) = Adder(f, S)[S]
  BY DEF SumFunctionOnSet, FoldFunctionOnSet, MapThenFoldSet, Adder, Adds, Pick, Rest

(* The element taken first is of the set, which is smaller without it.       *)
LEMMA PickIn ==
  ASSUME NEW s, s # {}
  PROVE  Pick(s) \in s /\ Rest(s) \subseteq s /\ Rest(s) # s
  BY DEF Pick, Rest

(* A solution obeys the recursion at every subset.                           *)
LEMMA AddsAt ==
  ASSUME NEW f, NEW S, NEW g, Adds(g, f, S), NEW s \in SUBSET S
  PROVE  g[s] = IF s = {} THEN 0 ELSE f[Pick(s)] + g[Rest(s)]
<1> DEFINE h == [r \in SUBSET S |-> IF r = {} THEN 0 ELSE f[Pick(r)] + g[Rest(r)]]
<1>1. g = h
  BY DEF Adds
<1>2. h[s] = IF s = {} THEN 0 ELSE f[Pick(s)] + g[Rest(s)]
  OBVIOUS
<1> QED
  BY <1>1, <1>2

(* Two functions that obey the recursion agree where both are defined.       *)
LEMMA AddsUnique ==
  ASSUME NEW S, IsFiniteSet(S), NEW T \in SUBSET S, NEW f, NEW e,
         \A x \in T : e[x] = f[x], NEW g, Adds(g, f, S), NEW h, Adds(h, e, T)
  PROVE  \A s \in SUBSET T : g[s] = h[s]
<1> DEFINE B == {s \in SUBSET T : g[s] # h[s]}
<1>1. SUFFICES ASSUME B # {} PROVE FALSE
  OBVIOUS
<1>2. IsFiniteSet(T)
  BY FS_Subset
<1>3. PICK m \in B : \A s \in B : s \subseteq m => s = m
  <2>1. B \in SUBSET (SUBSET T)
    OBVIOUS
  <2> HIDE DEF B
  <2> QED
    BY <1>1, <1>2, <2>1, Smallest
<1>4. m # {}
  BY <1>3, AddsAt
<1>5. Rest(m) \notin B /\ Rest(m) \in SUBSET T /\ Pick(m) \in T
  BY <1>3, <1>4, PickIn
<1>6. g[Rest(m)] = h[Rest(m)] /\ e[Pick(m)] = f[Pick(m)]
  BY <1>5
<1>7. g[m] = f[Pick(m)] + g[Rest(m)] /\ h[m] = e[Pick(m)] + h[Rest(m)]
  BY <1>3, <1>4, AddsAt
<1> QED
  BY <1>3, <1>6, <1>7

(* The recursion has a solution, which CHOOSE therefore is.                  *)
LEMMA AdderAdds ==
  ASSUME NEW S, IsFiniteSet(S), NEW f
  PROVE  \A T \in SUBSET S : Adds(Adder(f, T), f, T)
<1> DEFINE B == {T \in SUBSET S : ~Adds(Adder(f, T), f, T)}
<1>1. SUFFICES ASSUME B # {} PROVE FALSE
  OBVIOUS
<1>2. PICK m \in B : \A s \in B : s \subseteq m => s = m
  <2>1. B \in SUBSET (SUBSET S)
    OBVIOUS
  <2> HIDE DEF B
  <2> QED
    BY <1>1, <2>1, Smallest
<1>3. \A s \in SUBSET m : s # m => Adds(Adder(f, s), f, s) /\ IsFiniteSet(s)
  BY <1>2, FS_Subset
<1> DEFINE g == [s \in SUBSET m |-> IF s = {} THEN 0
                                    ELSE f[Pick(s)] + Adder(f, Rest(s))[Rest(s)]]
<1>4. ASSUME NEW s \in SUBSET m, s # m
      PROVE  g[s] = Adder(f, s)[s]
  <2>1. CASE s = {}
    BY <1>3, <1>4, <2>1, AddsAt
  <2>2. CASE s # {}
    <3>1. Rest(s) \in SUBSET s /\ Rest(s) # m /\ Rest(s) \in SUBSET m
      BY <1>4, <2>2, PickIn
    <3>2. Adds(Adder(f, s), f, s) /\ IsFiniteSet(s) /\ Adds(Adder(f, Rest(s)), f, Rest(s))
      BY <1>3, <1>4, <3>1
    <3>3. Adder(f, s)[Rest(s)] = Adder(f, Rest(s))[Rest(s)]
      BY <3>1, <3>2, AddsUnique
    <3>4. Adder(f, s)[s] = f[Pick(s)] + Adder(f, s)[Rest(s)]
      BY <2>2, <3>2, AddsAt
    <3> QED
      BY <2>2, <3>3, <3>4
  <2> QED
    BY <2>1, <2>2
<1>5. ASSUME NEW s \in SUBSET m
      PROVE  g[s] = IF s = {} THEN 0 ELSE f[Pick(s)] + g[Rest(s)]
  <2>1. CASE s = {}
    BY <2>1
  <2>2. CASE s # {}
    <3>1. Rest(s) \in SUBSET m /\ Rest(s) # m
      BY <2>2, PickIn
    <3>2. g[Rest(s)] = Adder(f, Rest(s))[Rest(s)]
      BY <1>4, <3>1
    <3> QED
      BY <2>2, <3>2
  <2> QED
    BY <2>1, <2>2
<1>6. Adds(g, f, m)
  <2>1. g = [s \in SUBSET m |-> g[s]]
    OBVIOUS
  <2> HIDE DEF g
  <2> QED
    BY <1>5, <2>1 DEF Adds
<1>7. Adds(Adder(f, m), f, m)
  <2> HIDE DEF g
  <2> QED
    BY <1>6 DEF Adder
<1> QED
  BY <1>2, <1>7

-----------------------------------------------------------------------------
(* The sum of nothing.                                                      *)
LEMMA SumEmpty ==
  ASSUME NEW f
  PROVE  SumFunctionOnSet(f, {}) = 0
<1>1. Adds(Adder(f, {}), f, {})
  BY AdderAdds, FS_EmptySet
<1> QED
  BY <1>1, AddsAt, SumAdder

(* The element the recursion takes first.                                   *)
LEMMA SumPick ==
  ASSUME NEW S, IsFiniteSet(S), S # {}, NEW f
  PROVE  SumFunctionOnSet(f, S) = f[Pick(S)] + SumFunctionOnSet(f, Rest(S))
<1>1. Rest(S) \in SUBSET S /\ IsFiniteSet(Rest(S))
  BY PickIn, FS_Subset
<1>2. Adds(Adder(f, S), f, S) /\ Adds(Adder(f, Rest(S)), f, Rest(S))
  BY <1>1, AdderAdds
<1>3. Adder(f, S)[S] = f[Pick(S)] + Adder(f, S)[Rest(S)]
  BY <1>2, AddsAt
<1>4. Adder(f, S)[Rest(S)] = Adder(f, Rest(S))[Rest(S)]
  BY <1>1, <1>2, AddsUnique
<1> QED
  BY <1>3, <1>4, SumAdder

(* Only the values on the set count.                                        *)
LEMMA SumSame ==
  ASSUME NEW S, IsFiniteSet(S), NEW f, NEW e, \A x \in S : e[x] = f[x]
  PROVE  SumFunctionOnSet(e, S) = SumFunctionOnSet(f, S)
<1>1. Adds(Adder(f, S), f, S) /\ Adds(Adder(e, S), e, S)
  BY AdderAdds
<1>2. Adder(f, S)[S] = Adder(e, S)[S]
  <2>1. \A s \in SUBSET S : Adder(f, S)[s] = Adder(e, S)[s]
    BY <1>1, AddsUnique
  <2> QED
    BY <2>1
<1> QED
  BY <1>2, SumAdder

(* A sum of integers is an integer.                                         *)
LEMMA SumInt ==
  ASSUME NEW S, IsFiniteSet(S), NEW f, \A x \in S : f[x] \in Int
  PROVE  SumFunctionOnSet(f, S) \in Int
<1> DEFINE B == {T \in SUBSET S : SumFunctionOnSet(f, T) \notin Int}
<1>1. SUFFICES ASSUME B # {} PROVE FALSE
  OBVIOUS
<1>2. PICK m \in B : \A s \in B : s \subseteq m => s = m
  <2>1. B \in SUBSET (SUBSET S)
    OBVIOUS
  <2> HIDE DEF B
  <2> QED
    BY <1>1, <2>1, Smallest
<1>3. m # {} /\ IsFiniteSet(m)
  <2>1. IsFiniteSet(m)
    BY <1>2, FS_Subset
  <2>2. m # {}
    BY <1>2, SumEmpty
  <2> QED
    BY <2>1, <2>2
<1>4. SumFunctionOnSet(f, Rest(m)) \in Int
  BY <1>2, <1>3, PickIn
<1>5. f[Pick(m)] \in Int
  BY <1>2, <1>3, PickIn
<1> QED
  BY <1>2, <1>3, <1>4, <1>5, SumPick

(* Any element can be taken out first.                                      *)
LEMMA SumSplit ==
  ASSUME NEW S, IsFiniteSet(S), NEW f, \A x \in S : f[x] \in Int, NEW a \in S
  PROVE  SumFunctionOnSet(f, S) = f[a] + SumFunctionOnSet(f, S \ {a})
<1> DEFINE B == {T \in SUBSET S :
                   \E x \in T : SumFunctionOnSet(f, T) # f[x] + SumFunctionOnSet(f, T \ {x})}
<1>1. SUFFICES ASSUME B # {} PROVE FALSE
  OBVIOUS
<1>2. PICK m \in B : \A s \in B : s \subseteq m => s = m
  <2>1. B \in SUBSET (SUBSET S)
    OBVIOUS
  <2> HIDE DEF B
  <2> QED
    BY <1>1, <2>1, Smallest
<1>3. m \in SUBSET S
  BY <1>2
<1>4. PICK b \in m : SumFunctionOnSet(f, m) # f[b] + SumFunctionOnSet(f, m \ {b})
  BY <1>2
<1> DEFINE p == Pick(m)
           both == (m \ {b}) \ {p}
<1>5. p \in m /\ IsFiniteSet(m) /\ m # {} /\ IsFiniteSet(m \ {b}) /\ IsFiniteSet(m \ {p})
  BY <1>3, <1>4, PickIn, FS_Subset
<1>6. SumFunctionOnSet(f, m) = f[p] + SumFunctionOnSet(f, m \ {p})
  BY <1>5, SumPick DEF Rest
<1>7. p # b
  BY <1>4, <1>6
<1>8. SumFunctionOnSet(f, m \ {p}) = f[b] + SumFunctionOnSet(f, (m \ {p}) \ {b})
  <2>1. m \ {p} \notin B /\ m \ {p} \in SUBSET S /\ b \in m \ {p}
    BY <1>2, <1>3, <1>5, <1>7
  <2> HIDE DEF p
  <2> QED
    BY <2>1
<1>9. SumFunctionOnSet(f, m \ {b}) = f[p] + SumFunctionOnSet(f, both)
  <2>1. m \ {b} \notin B /\ m \ {b} \in SUBSET S /\ p \in m \ {b}
    BY <1>2, <1>3, <1>4, <1>5, <1>7
  <2> HIDE DEF p
  <2> QED
    BY <2>1
<1>10. (m \ {p}) \ {b} = both
  OBVIOUS
<1>11. f[p] \in Int /\ f[b] \in Int /\ SumFunctionOnSet(f, both) \in Int
  <2>1. IsFiniteSet(both) /\ both \in SUBSET S
    BY <1>3, <1>5, FS_Subset
  <2> QED
    BY <1>3, <1>4, <1>5, <2>1, SumInt
<1>12. SumFunctionOnSet(f, m \ {p}) = f[b] + SumFunctionOnSet(f, both)
  BY <1>8, <1>10
<1> HIDE DEF p, both, B
<1> QED
  BY <1>4, <1>6, <1>9, <1>11, <1>12

(* What changes at one element changes the sum by as much.                   *)
LEMMA SumChange ==
  ASSUME NEW S, IsFiniteSet(S), NEW f, NEW e, NEW a \in S,
         \A x \in S : f[x] \in Int, e[a] \in Int, \A x \in S \ {a} : e[x] = f[x]
  PROVE  SumFunctionOnSet(e, S) = SumFunctionOnSet(f, S) + e[a] - f[a]
<1>1. IsFiniteSet(S \ {a})
  BY FS_Subset
<1>2. SumFunctionOnSet(e, S \ {a}) = SumFunctionOnSet(f, S \ {a})
  BY <1>1, SumSame
<1>3. \A x \in S : e[x] \in Int
  OBVIOUS
<1>4. /\ SumFunctionOnSet(e, S) = e[a] + SumFunctionOnSet(e, S \ {a})
      /\ SumFunctionOnSet(f, S) = f[a] + SumFunctionOnSet(f, S \ {a})
  BY <1>3, SumSplit
<1>5. SumFunctionOnSet(f, S \ {a}) \in Int
  BY <1>1, SumInt
<1> QED
  BY <1>2, <1>4, <1>5

(* An element more.                                                         *)
LEMMA SumAdd ==
  ASSUME NEW S, IsFiniteSet(S), NEW f, NEW a, a \notin S, \A x \in S \cup {a} : f[x] \in Int
  PROVE  SumFunctionOnSet(f, S \cup {a}) = SumFunctionOnSet(f, S) + f[a]
<1>1. IsFiniteSet(S \cup {a}) /\ (S \cup {a}) \ {a} = S
  BY FS_AddElement
<1>2. SumFunctionOnSet(f, S \cup {a}) = f[a] + SumFunctionOnSet(f, S)
  BY <1>1, SumSplit
<1>3. SumFunctionOnSet(f, S) \in Int
  BY SumInt
<1> QED
  BY <1>2, <1>3

(* The sum of one function is at most that of another that is nowhere less.  *)
LEMMA SumMonotone ==
  ASSUME NEW S, IsFiniteSet(S), NEW f, NEW e,
         \A x \in S : f[x] \in Int /\ e[x] \in Int /\ f[x] <= e[x]
  PROVE  SumFunctionOnSet(f, S) <= SumFunctionOnSet(e, S)
<1> DEFINE B == {T \in SUBSET S : ~(SumFunctionOnSet(f, T) <= SumFunctionOnSet(e, T))}
<1>1. SUFFICES ASSUME B # {} PROVE FALSE
  OBVIOUS
<1>2. PICK m \in B : \A s \in B : s \subseteq m => s = m
  <2>1. B \in SUBSET (SUBSET S)
    OBVIOUS
  <2> HIDE DEF B
  <2> QED
    BY <1>1, <2>1, Smallest
<1>3. m # {} /\ IsFiniteSet(m)
  <2>1. IsFiniteSet(m)
    BY <1>2, FS_Subset
  <2>2. m # {}
    <3>1. SumFunctionOnSet(f, {}) = 0 /\ SumFunctionOnSet(e, {}) = 0
      BY SumEmpty
    <3>2. {} \notin B
      BY <3>1
    <3> HIDE DEF B
    <3> QED
      BY <1>2, <3>2
  <2> QED
    BY <2>1, <2>2
<1>4. Rest(m) \in SUBSET S /\ IsFiniteSet(Rest(m)) /\ Rest(m) \notin B /\ Pick(m) \in S
  BY <1>2, <1>3, PickIn, FS_Subset
<1>5. SumFunctionOnSet(f, Rest(m)) <= SumFunctionOnSet(e, Rest(m))
  BY <1>4
<1>6. SumFunctionOnSet(f, Rest(m)) \in Int /\ SumFunctionOnSet(e, Rest(m)) \in Int
  BY <1>4, SumInt
<1>7. /\ SumFunctionOnSet(f, m) = f[Pick(m)] + SumFunctionOnSet(f, Rest(m))
      /\ SumFunctionOnSet(e, m) = e[Pick(m)] + SumFunctionOnSet(e, Rest(m))
  BY <1>3, SumPick
<1>8. f[Pick(m)] \in Int /\ e[Pick(m)] \in Int /\ f[Pick(m)] <= e[Pick(m)]
  BY <1>4
<1>9. SumFunctionOnSet(f, m) <= SumFunctionOnSet(e, m)
  BY <1>5, <1>6, <1>7, <1>8
<1> QED
  BY <1>2, <1>9

(* Sums add up pointwise.                                                   *)
LEMMA SumPlus ==
  ASSUME NEW S, IsFiniteSet(S), NEW f, NEW e, NEW h,
         \A x \in S : f[x] \in Int /\ e[x] \in Int /\ h[x] = f[x] + e[x]
  PROVE  SumFunctionOnSet(h, S) = SumFunctionOnSet(f, S) + SumFunctionOnSet(e, S)
<1> DEFINE B == {T \in SUBSET S : SumFunctionOnSet(h, T)
                                    # SumFunctionOnSet(f, T) + SumFunctionOnSet(e, T)}
<1>1. SUFFICES ASSUME B # {} PROVE FALSE
  OBVIOUS
<1>2. PICK m \in B : \A s \in B : s \subseteq m => s = m
  <2>1. B \in SUBSET (SUBSET S)
    OBVIOUS
  <2> HIDE DEF B
  <2> QED
    BY <1>1, <2>1, Smallest
<1>3. m # {} /\ IsFiniteSet(m)
  <2>1. IsFiniteSet(m)
    BY <1>2, FS_Subset
  <2>2. m # {}
    <3>1. SumFunctionOnSet(f, {}) = 0 /\ SumFunctionOnSet(e, {}) = 0 /\ SumFunctionOnSet(h, {}) = 0
      BY SumEmpty
    <3>2. {} \notin B
      BY <3>1
    <3> HIDE DEF B
    <3> QED
      BY <1>2, <3>2
  <2> QED
    BY <2>1, <2>2
<1>4. Rest(m) \in SUBSET S /\ IsFiniteSet(Rest(m)) /\ Rest(m) \notin B /\ Pick(m) \in S
  BY <1>2, <1>3, PickIn, FS_Subset
<1>5. SumFunctionOnSet(h, Rest(m)) = SumFunctionOnSet(f, Rest(m)) + SumFunctionOnSet(e, Rest(m))
  BY <1>4
<1>6. SumFunctionOnSet(f, Rest(m)) \in Int /\ SumFunctionOnSet(e, Rest(m)) \in Int
  BY <1>4, SumInt
<1>7. /\ SumFunctionOnSet(f, m) = f[Pick(m)] + SumFunctionOnSet(f, Rest(m))
      /\ SumFunctionOnSet(e, m) = e[Pick(m)] + SumFunctionOnSet(e, Rest(m))
      /\ SumFunctionOnSet(h, m) = h[Pick(m)] + SumFunctionOnSet(h, Rest(m))
  BY <1>3, SumPick
<1>8. f[Pick(m)] \in Int /\ e[Pick(m)] \in Int /\ h[Pick(m)] = f[Pick(m)] + e[Pick(m)]
  BY <1>4
<1>9. SumFunctionOnSet(h, m) = SumFunctionOnSet(f, m) + SumFunctionOnSet(e, m)
  BY <1>5, <1>6, <1>7, <1>8
<1> QED
  BY <1>2, <1>9

(* The sum of a constant.                                                   *)
LEMMA SumConstant ==
  ASSUME NEW S, IsFiniteSet(S), NEW c \in Int, NEW f, \A x \in S : f[x] = c
  PROVE  SumFunctionOnSet(f, S) = Cardinality(S) * c
<1> DEFINE B == {T \in SUBSET S : SumFunctionOnSet(f, T) # Cardinality(T) * c}
<1>1. SUFFICES ASSUME B # {} PROVE FALSE
  OBVIOUS
<1>2. PICK m \in B : \A s \in B : s \subseteq m => s = m
  <2>1. B \in SUBSET (SUBSET S)
    OBVIOUS
  <2> HIDE DEF B
  <2> QED
    BY <1>1, <2>1, Smallest
<1>3. m # {} /\ IsFiniteSet(m)
  BY <1>2, SumEmpty, FS_Subset, FS_EmptySet
<1>4. Rest(m) \notin B /\ Rest(m) \in SUBSET S /\ Pick(m) \in m /\ Pick(m) \in S
  BY <1>2, <1>3, PickIn
<1>5. SumFunctionOnSet(f, Rest(m)) = Cardinality(Rest(m)) * c
  BY <1>4
<1>6. Cardinality(m) \in Nat /\ Cardinality(Rest(m)) = Cardinality(m) - 1
  BY <1>3, <1>4, FS_RemoveElement, FS_CardinalityType DEF Rest
<1>7. SumFunctionOnSet(f, m) = c + SumFunctionOnSet(f, Rest(m))
  BY <1>3, <1>4, SumPick
<1>8. SumFunctionOnSet(f, m) = Cardinality(m) * c
  BY <1>5, <1>6, <1>7
<1> QED
  BY <1>2, <1>8

(* A sum of naturals is a natural, and no part of it is larger.              *)
LEMMA SumNat ==
  ASSUME NEW S, IsFiniteSet(S), NEW f, \A x \in S : f[x] \in Nat
  PROVE  /\ SumFunctionOnSet(f, S) \in Nat
         /\ \A a \in S : f[a] <= SumFunctionOnSet(f, S)
<1>1. \A T \in SUBSET S : SumFunctionOnSet(f, T) \in Nat
  <2> TAKE T \in SUBSET S
  <2> DEFINE z == [x \in S |-> 0]
  <2>1. IsFiniteSet(T) /\ \A x \in T : z[x] = 0
    BY FS_Subset
  <2>2. \A x \in T : z[x] \in Int /\ f[x] \in Int /\ z[x] <= f[x]
    OBVIOUS
  <2> HIDE DEF z
  <2>3. SumFunctionOnSet(z, T) = Cardinality(T) * 0 /\ Cardinality(T) \in Nat
    BY <2>1, SumConstant, FS_CardinalityType
  <2>4. SumFunctionOnSet(z, T) = 0
    BY <2>3
  <2>5. SumFunctionOnSet(z, T) <= SumFunctionOnSet(f, T)
    BY <2>1, <2>2, SumMonotone
  <2>6. SumFunctionOnSet(f, T) \in Int
    BY <2>1, <2>2, SumInt
  <2> QED
    BY <2>4, <2>5, <2>6
<1>2. ASSUME NEW a \in S PROVE f[a] <= SumFunctionOnSet(f, S)
  <2>1. SumFunctionOnSet(f, S) = f[a] + SumFunctionOnSet(f, S \ {a})
    BY SumSplit
  <2> QED
    BY <1>1, <2>1
<1> QED
  BY <1>1, <1>2

(* A sum over parts: every element of S counts once, in its group.           *)
LEMMA SumGroups ==
  ASSUME NEW S, IsFiniteSet(S), NEW f, \A x \in S : f[x] \in Int,
         NEW G, IsFiniteSet(G), NEW of \in [S -> G]
  PROVE  SumFunctionOnSet([g \in G |-> SumFunctionOnSet(f, {x \in S : of[x] = g})], G)
           = SumFunctionOnSet(f, S)
<1> DEFINE Part(T, g) == {x \in T : of[x] = g}
           Parts(T) == [g \in G |-> SumFunctionOnSet(f, Part(T, g))]
           B == {T \in SUBSET S : SumFunctionOnSet(Parts(T), G) # SumFunctionOnSet(f, T)}
<1>1. SUFFICES ASSUME B # {} PROVE FALSE
  OBVIOUS
<1>2. PICK m \in B : \A s \in B : s \subseteq m => s = m
  <2>1. B \in SUBSET (SUBSET S)
    OBVIOUS
  <2> HIDE DEF B
  <2> QED
    BY <1>1, <2>1, Smallest
<1>3. m \in SUBSET S
  BY <1>2
<1>4. m # {}
  <2>1. SUFFICES ASSUME m = {} PROVE FALSE
    OBVIOUS
  <2>2. \A g \in G : Part(m, g) = {}
    BY <2>1
  <2>3. \A g \in G : Parts(m)[g] = 0
    BY <2>2, SumEmpty
  <2>4. SumFunctionOnSet(Parts(m), G) = Cardinality(G) * 0 /\ Cardinality(G) \in Nat
    <3> HIDE DEF Parts
    <3> QED
      BY <2>3, SumConstant, FS_CardinalityType
  <2>5. SumFunctionOnSet(Parts(m), G) = 0 /\ SumFunctionOnSet(f, m) = 0
    BY <2>1, <2>4, SumEmpty
  <2> QED
    BY <1>2, <2>5
<1> DEFINE p == Pick(m)
           h == of[p]
           r == Rest(m)
<1>5. p \in m /\ p \in S /\ h \in G /\ r \in SUBSET S /\ r \subseteq m /\ r # m
  BY <1>3, <1>4, PickIn
<1>6. SumFunctionOnSet(Parts(r), G) = SumFunctionOnSet(f, r)
  <2>1. r \notin B
    BY <1>2, <1>5
  <2> QED
    BY <1>5, <2>1
<1>7. SumFunctionOnSet(f, m) = f[p] + SumFunctionOnSet(f, r)
  BY <1>3, <1>4, SumPick, FS_Subset
<1>8. \A T \in SUBSET S : \A g \in G : /\ IsFiniteSet(Part(T, g))
                                       /\ SumFunctionOnSet(f, Part(T, g)) \in Int
  <2> TAKE T \in SUBSET S
  <2> TAKE g \in G
  <2>1. Part(T, g) \in SUBSET S
    OBVIOUS
  <2> HIDE DEF Part
  <2> QED
    BY <2>1, FS_Subset, SumInt
<1>9. \A g \in G \ {h} : Parts(m)[g] = Parts(r)[g]
  <2>1. \A g \in G \ {h} : Part(m, g) = Part(r, g)
    BY DEF Rest
  <2> HIDE DEF Part
  <2> QED
    BY <2>1
<1>10. Parts(m)[h] = f[p] + Parts(r)[h]
  <2>1. Part(r, h) = Part(m, h) \ {p} /\ p \in Part(m, h) /\ Part(m, h) \in SUBSET S
    BY <1>3, <1>5 DEF Rest
  <2>2. Parts(m)[h] = SumFunctionOnSet(f, Part(m, h)) /\ Parts(r)[h] = SumFunctionOnSet(f, Part(r, h))
    BY <1>5
  <2>3. IsFiniteSet(Part(m, h))
    BY <1>3, <1>5, <1>8
  <2> HIDE DEF Part, Parts, p, h, r
  <2>4. SumFunctionOnSet(f, Part(m, h)) = f[p] + SumFunctionOnSet(f, Part(m, h) \ {p})
    BY <2>1, <2>3, SumSplit
  <2> QED
    BY <2>1, <2>2, <2>4
<1>11. \A g \in G : Parts(r)[g] \in Int
  <2> HIDE DEF Part
  <2> QED
    BY <1>5, <1>8
<1>12. f[p] \in Int /\ SumFunctionOnSet(f, r) \in Int
  <2>1. IsFiniteSet(r)
    BY <1>5, FS_Subset
  <2> QED
    BY <1>5, <2>1, SumInt
<1>13. SumFunctionOnSet(Parts(m), G) = SumFunctionOnSet(Parts(r), G) + Parts(m)[h] - Parts(r)[h]
  <2>1. Parts(m)[h] \in Int
    BY <1>5, <1>10, <1>11, <1>12
  <2> HIDE DEF Parts, h, r, p
  <2> QED
    BY <1>5, <1>9, <1>11, <2>1, SumChange
<1>14. SumFunctionOnSet(Parts(m), G) = SumFunctionOnSet(f, m)
  <2>1. Parts(r)[h] \in Int
    BY <1>5, <1>11
  <2> HIDE DEF Parts, h, r, p
  <2> QED
    BY <1>6, <1>7, <1>10, <1>12, <1>13, <2>1
<1> QED
  BY <1>2, <1>14

(* A sum of zeros.                                                          *)
LEMMA SumZero ==
  ASSUME NEW S, IsFiniteSet(S), NEW f, \A x \in S : f[x] = 0
  PROVE  SumFunctionOnSet(f, S) = 0
<1>1. SumFunctionOnSet(f, S) = Cardinality(S) * 0 /\ Cardinality(S) \in Nat
  BY SumConstant, FS_CardinalityType
<1> QED
  BY <1>1

(* A sum with one element that counts.                                      *)
LEMMA SumOnly ==
  ASSUME NEW S, IsFiniteSet(S), NEW f, NEW a \in S, f[a] \in Int,
         \A x \in S \ {a} : f[x] = 0
  PROVE  SumFunctionOnSet(f, S) = f[a]
<1>1. IsFiniteSet(S \ {a})
  BY FS_Subset
<1>2. SumFunctionOnSet(f, S \ {a}) = 0
  BY <1>1, SumZero
<1>3. SumFunctionOnSet(f, S) = f[a] + SumFunctionOnSet(f, S \ {a})
  <2>1. \A x \in S : f[x] \in Int
    OBVIOUS
  <2> QED
    BY <2>1, SumSplit
<1> QED
  BY <1>2, <1>3

(* A sum does not depend on the names of the elements.                       *)
LEMMA SumRenamed ==
  ASSUME NEW S, IsFiniteSet(S), NEW f, \A x \in S : f[x] \in Int,
         NEW T, NEW r \in [S -> T], \A x, y \in S : r[x] = r[y] => x = y,
         \A y \in T : \E x \in S : r[x] = y,
         NEW e, \A x \in S : e[r[x]] = f[x]
  PROVE  SumFunctionOnSet(e, T) = SumFunctionOnSet(f, S)
<1>1. IsFiniteSet(T)
  <2>1. r \in Surjection(S, T)
    BY DEF Surjection
  <2> QED
    BY <2>1, FS_Surjection
<1> DEFINE part == [g \in T |-> SumFunctionOnSet(f, {x \in S : r[x] = g})]
<1>2. SumFunctionOnSet(part, T) = SumFunctionOnSet(f, S)
  BY <1>1, SumGroups
<1>3. \A g \in T : part[g] = e[g]
  <2> TAKE g \in T
  <2>1. PICK x \in S : r[x] = g
    OBVIOUS
  <2>2. {y \in S : r[y] = g} = {x}
    BY <2>1
  <2>3. SumFunctionOnSet(f, {x}) = f[x]
    <3> DEFINE one == {x}
    <3>1. IsFiniteSet(one) /\ x \in one /\ f[x] \in Int /\ \A y \in one \ {x} : f[y] = 0
      BY FS_Singleton
    <3> HIDE DEF one
    <3>2. SumFunctionOnSet(f, one) = f[x]
      BY <3>1, SumOnly
    <3> QED
      BY <3>2 DEF one
  <2> QED
    BY <2>1, <2>2, <2>3
<1> HIDE DEF part
<1>4. SumFunctionOnSet(part, T) = SumFunctionOnSet(e, T)
  BY <1>1, <1>3, SumSame
<1> QED
  BY <1>2, <1>4

(* The elements of a sequence behind the first.                             *)
LEMMA SumTail ==
  ASSUME NEW n \in Nat, NEW f, \A i \in 1 .. n + 1 : f[i] \in Int,
         NEW g, \A i \in 1 .. n : g[i] = f[i + 1]
  PROVE  SumFunctionOnSet(f, 1 .. n + 1) = f[1] + SumFunctionOnSet(g, 1 .. n)
<1> DEFINE S == (1 .. n + 1) \ {1}
           T == 1 .. n
           r == [i \in S |-> i - 1]
<1>1. IsFiniteSet(1 .. n + 1) /\ 1 \in 1 .. n + 1
  BY FS_Interval
<1>2. IsFiniteSet(S)
  BY <1>1, FS_Subset
<1>3. r \in [S -> T] /\ \A x, y \in S : r[x] = r[y] => x = y
  OBVIOUS
<1>4. \A y \in T : \E x \in S : r[x] = y
  <2> TAKE y \in T
  <2>1. y + 1 \in S /\ r[y + 1] = y
    OBVIOUS
  <2> QED
    BY <2>1
<1>5. \A x \in S : g[r[x]] = f[x] /\ f[x] \in Int
  <2> TAKE x \in S
  <2>1. r[x] \in 1 .. n /\ r[x] + 1 = x
    OBVIOUS
  <2> QED
    BY <2>1
<1>6. SumFunctionOnSet(f, 1 .. n + 1) = f[1] + SumFunctionOnSet(f, (1 .. n + 1) \ {1})
  BY <1>1, SumSplit
<1> HIDE DEF r, T
<1>7. SumFunctionOnSet(g, T) = SumFunctionOnSet(f, S)
  <2> HIDE DEF S
  <2> QED
    BY <1>2, <1>3, <1>4, <1>5, SumRenamed
<1> QED
  BY <1>6, <1>7 DEF T

(* Elements that count nothing may be left out of a sum.                     *)
LEMMA SumWithin ==
  ASSUME NEW S, IsFiniteSet(S), NEW T \in SUBSET S, NEW f,
         \A x \in T : f[x] \in Int, \A x \in S \ T : f[x] = 0
  PROVE  SumFunctionOnSet(f, S) = SumFunctionOnSet(f, T)
<1> DEFINE G == {1, 2}
           of == [x \in S |-> IF x \in T THEN 1 ELSE 2]
           part == [g \in G |-> SumFunctionOnSet(f, {x \in S : of[x] = g})]
<1>1. \A x \in S : f[x] \in Int
  OBVIOUS
<1>2. IsFiniteSet(G) /\ of \in [S -> G]
  <2>1. IsFiniteSet({1}) /\ G = {1} \cup {2}
    BY FS_Singleton
  <2> QED
    BY <2>1, FS_AddElement
<1>3. SumFunctionOnSet(part, G) = SumFunctionOnSet(f, S)
  BY <1>1, <1>2, SumGroups
<1>4. {x \in S : of[x] = 1} = T /\ {x \in S : of[x] = 2} = S \ T
  OBVIOUS
<1>5. IsFiniteSet(T) /\ IsFiniteSet(S \ T)
  BY FS_Subset
<1>6. part[1] = SumFunctionOnSet(f, T) /\ part[2] = SumFunctionOnSet(f, S \ T)
  BY <1>4
<1>7. part[1] \in Int /\ part[2] = 0
  BY <1>5, <1>6, SumInt, SumZero
<1> HIDE DEF part
<1>8. SumFunctionOnSet(part, G) = part[1]
  <2>1. 1 \in G /\ \A x \in G \ {1} : part[x] = 0
    BY <1>7
  <2> HIDE DEF G
  <2> QED
    BY <1>2, <1>7, <2>1, SumOnly
<1> QED
  BY <1>3, <1>6, <1>8

-----------------------------------------------------------------------------
(* The numbers in order of a finite set of numbers.                           *)
LEMMA Ranked ==
  ASSUME NEW S, IsFiniteSet(S), S \subseteq Nat
  PROVE  /\ Cardinality(S) \in Nat
         /\ \A i, j \in S : Cardinality({h \in S : h <= i}) = Cardinality({h \in S : h <= j}) => i = j
         /\ \A i \in S : Cardinality({h \in S : h <= i}) \in 1 .. Cardinality(S)
         /\ \A k \in 1 .. Cardinality(S) : \E i \in S : Cardinality({h \in S : h <= i}) = k
<1> DEFINE upto(i) == {h \in S : h <= i}
           n == Cardinality(S)
           rank == [i \in S |-> Cardinality(upto(i))]
<1>1. \A i \in S : IsFiniteSet(upto(i)) /\ Cardinality(upto(i)) \in Nat /\ Cardinality(upto(i)) <= n
  <2> TAKE i \in S
  <2>1. upto(i) \in SUBSET S
    OBVIOUS
  <2> HIDE DEF upto
  <2> QED
    BY <2>1, FS_Subset, FS_CardinalityType
<1>2. n \in Nat
  BY FS_CardinalityType
<1>3. ASSUME NEW i \in S, NEW j \in S, i < j
      PROVE  Cardinality(upto(i)) # Cardinality(upto(j))
  <2>1. upto(i) \in SUBSET upto(j)
    <3>1. \A h \in S : h <= i => h <= j
      BY <1>3
    <3> QED
      BY <3>1
  <2>2. upto(i) # upto(j)
    <3>1. j \in upto(j) /\ j \notin upto(i)
      BY <1>3
    <3> QED
      BY <3>1
  <2> HIDE DEF upto
  <2> QED
    BY <1>1, <2>1, <2>2, FS_Subset
<1>4. \A i, j \in S : Cardinality(upto(i)) = Cardinality(upto(j)) => i = j
  <2> SUFFICES ASSUME NEW i \in S, NEW j \in S, i # j
               PROVE  Cardinality(upto(i)) # Cardinality(upto(j))
    OBVIOUS
  <2>1. i < j \/ j < i
    OBVIOUS
  <2> HIDE DEF upto
  <2> QED
    BY <1>3, <2>1
<1>5. \A i \in S : Cardinality(upto(i)) \in 1 .. n
  <2> TAKE i \in S
  <2>1. i \in upto(i)
    OBVIOUS
  <2> HIDE DEF upto
  <2>2. Cardinality(upto(i)) # 0
    BY <1>1, <2>1, FS_EmptySet
  <2> HIDE DEF n
  <2> QED
    BY <1>1, <1>2, <2>2
<1> HIDE DEF upto
<1>6. rank \in Injection(S, 1 .. n)
  BY <1>4, <1>5 DEF Injection, IsInjective
<1>7. IsFiniteSet(1 .. n) /\ Cardinality(1 .. n) = n
  BY <1>2, FS_Interval
<1>8. rank \in Surjection(S, 1 .. n)
  <2> HIDE DEF rank
  <2> QED
    BY <1>6, <1>7, FS_Injection
<1>9. \A k \in 1 .. n : \E i \in S : rank[i] = k
  BY <1>8 DEF Surjection
<1> QED
  BY <1>2, <1>4, <1>5, <1>9 DEF upto
=============================================================================
