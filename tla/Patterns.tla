------------------------------ MODULE Patterns ------------------------------
(* The traffic patterns (traffic.cpp) and injection processes (injection.cpp): *)
(* where a packet made by node s goes, as the set of nodes that may be drawn,   *)
(* and when one is made.  A setting t has the pattern's name, the number of     *)
(* nodes, k, n and xr of the network, the nodes a background excludes, the hot *)
(* spots and their rates; fields a pattern does not use may be missing.       *)
EXTENDS Integers, Sequences, SequencesExt, FiniteSets, FiniteSetsExt

PatternNodes(t) == 0 .. t.nodes - 1
Unset == -1

BitPatterns == {"bitcomp", "transpose", "bitrev", "shuffle"}
PermutationPatterns == BitPatterns \cup {"tornado", "neighbor"}

(* How many bits a node has, if the number of nodes is a power of two.        *)
Powers  == {2^e : e \in 0 .. 20}
Log2(x) == CHOOSE e \in 0 .. 20 : x = 2^e

(* The program ends at once with a setting that does not pass.                *)
Accepted(t) ==
  /\ t.nodes > 0
  /\ t.name \in BitPatterns => t.nodes \in Powers
  /\ t.name = "transpose"   => Log2(t.nodes) % 2 = 0
  /\ t.name = "taper64"     => t.nodes = 64
  /\ t.name = "background"  => t.excluded \subseteq PatternNodes(t)
  /\ t.name = "hotspot"     => /\ t.hotspots # << >> /\ DOMAIN t.rates = DOMAIN t.hotspots
                               /\ \A i \in DOMAIN t.rates :
                                    t.hotspots[i] \in PatternNodes(t) /\ t.rates[i] > 0

-----------------------------------------------------------------------------
(* The bits of the node complemented, in two halves exchanged, in reverse, and *)
(* turned by one.                                                          *)
BitComp(t, s) == t.nodes - 1 - s

Transpose(t, s) ==
  LET half == 2^(Log2(t.nodes) \div 2) IN s \div half + (s % half) * half

BitRev(t, s) ==
  LET Step(x, i) == <<2 * x[1] + (x[2] % 2), x[2] \div 2>>
  IN  FoldLeft(Step, <<0, s>>, [i \in 1 .. Log2(t.nodes) |-> i])[1]

ShuffleLost(t, s) == (2 * s) % t.nodes      \* mutant: the highest bit is lost
Shuffle(t, s) == ((2 * s) % t.nodes) + (IF 2 * s >= t.nodes THEN 1 ELSE 0)

(* The same way forward in every dimension of a torus of radix xr * k: nearly  *)
(* half the ring, and one step.                                            *)
Radix(t) == t.xr * t.k
Moved(t, s, by) ==
  LET m == Radix(t) IN MapThenSumSet(LAMBDA d : m^d * ((((s \div m^d) % m) + by) % m), 0 .. t.n - 1)
Tornado(t, s)  == Moved(t, s, (Radix(t) + 1) \div 2 - 1)
Neighbor(t, s) == Moved(t, s, 1)

(* A permutation drawn at the start: node i goes to the place that ind of the  *)
(* free ones precede.                                                      *)
Free(dest) == {j \in DOMAIN dest : dest[j] = Unset}
Place(dest, i, ind) ==
  [dest EXCEPT ![CHOOSE j \in Free(dest) : Cardinality({l \in Free(dest) : l < j}) = ind] = i]
Randomized(t) ==
  LET Draw(S, i) == {Place(dest, i - 1, ind) : dest \in S, ind \in 0 .. t.nodes - i}
  IN  FoldLeft(Draw, {[j \in PatternNodes(t) |-> Unset]}, [i \in 1 .. t.nodes |-> i])

-----------------------------------------------------------------------------
(* Patterns that draw a node for every packet.                              *)
Diagonal(t, s)   == {(s + 1) % t.nodes, s}
Asymmetric(t, s) == LET half == t.nodes \div 2 IN {s % half, (s % half) + half}
Taper64(t, s)    == {(64 + s + 8 * (a - 1) + (b - 1)) % 64 : a \in 0 .. 2, b \in 0 .. 2} \cup PatternNodes(t)
BadPermDFly(t, s) ==
  LET group == 2 * t.k * t.k IN {(x + (s \div group + 1) * group) % t.nodes : x \in 0 .. group - 1}
BadPermYarc(t, s) == {x * Radix(t) + s \div Radix(t) : x \in 0 .. Radix(t) - 1}

(* The hot spot for the number pct drawn: the rates are taken off one by one.   *)
MaxVal(t) == MapThenSumSet(LAMBDA i : t.rates[i], DOMAIN t.rates) - 1
Before(t, i) == MapThenSumSet(LAMBDA j : t.rates[j], 1 .. i - 1)
HotSpotAt(t, pct) ==
  t.hotspots[Min({i \in DOMAIN t.hotspots : i = Len(t.hotspots) \/ t.rates[i] > pct - Before(t, i)})]
HotSpot(t) == {HotSpotAt(t, pct) : pct \in 0 .. MaxVal(t)}

Dests(t, s) ==
  CASE t.name = "bitcomp"     -> {BitComp(t, s)}
    [] t.name = "transpose"   -> {Transpose(t, s)}
    [] t.name = "bitrev"      -> {BitRev(t, s)}
    [] t.name = "shuffle"     -> {Shuffle(t, s)}
    [] t.name = "tornado"     -> {Tornado(t, s)}
    [] t.name = "neighbor"    -> {Neighbor(t, s)}
    [] t.name = "randperm"    -> {dest[s] : dest \in Randomized(t)}
    [] t.name = "uniform"     -> PatternNodes(t)
    [] t.name = "background"  -> PatternNodes(t) \ t.excluded
    [] t.name = "diagonal"    -> Diagonal(t, s)
    [] t.name = "asymmetric"  -> Asymmetric(t, s)
    [] t.name = "taper64"     -> Taper64(t, s)
    [] t.name = "bad_dragon"  -> BadPermDFly(t, s)
    [] t.name = "badperm_yarc" -> BadPermYarc(t, s)
    [] t.name = "hotspot"     -> HotSpot(t)

-----------------------------------------------------------------------------
(* What a pattern promises: nodes, and of a permutation each node once, if its  *)
(* radix is that of the network; a hot spot has its share of the numbers.     *)
Fits(t) == t.name \in {"tornado", "neighbor"} => t.nodes = Radix(t)^t.n
Promises(t) ==
  /\ Accepted(t)
  /\ \A s \in PatternNodes(t) : Dests(t, s) # {} /\ Dests(t, s) \subseteq PatternNodes(t)
  /\ t.name \in PermutationPatterns /\ Fits(t) =>
       UNION {Dests(t, s) : s \in PatternNodes(t)} = PatternNodes(t)
  /\ t.name \in {"bitcomp", "transpose", "bitrev"} =>
       \A s \in PatternNodes(t) : \A d \in Dests(t, s) : s \in Dests(t, d)
  /\ t.name = "randperm" => \A dest \in Randomized(t) : {dest[s] : s \in PatternNodes(t)} = PatternNodes(t)
  /\ t.name = "hotspot" =>
       \A i \in DOMAIN t.rates :
         Cardinality({pct \in 0 .. MaxVal(t) : HotSpotAt(t, pct) = t.hotspots[i]}) = t.rates[i]
=============================================================================
