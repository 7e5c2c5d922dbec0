------------------------- MODULE PlannerSearchProofs -------------------------
(***************************************************************************)
(* Proofs about PlannerSearch, for all ports, registries and requests.     *)
(* There are two inductive invariants.  SearchInv: a combination ever      *)
(* pushed either waits in the frontier or is settled, its outputs          *)
(* dominated by labels that are there, and no candidate is cheaper than a  *)
(* label.  BackedInv: every label, input and winner is known or is what a  *)
(* committed and admitted node gave.                                       *)
(***************************************************************************)
EXTENDS PlannerSearch, FiniteSetTheorems, WellFoundedInduction, TLAPS

----------------------------------------------------------------------------
(* Sums over finite functions.                                             *)

\* A non-empty set of naturals has a least member.
LEMMA NatHasLeast ==
  ASSUME NEW S \in SUBSET Nat, S # {}
  PROVE  \E x \in S : \A y \in S : x <= y
<1>1. \E R : /\ IsWellFoundedOn(R, Nat)
             /\ \A x, y \in Nat : x < y => <<x, y>> \in R
  <2> DEFINE R == OpToRel(<, Nat)
  <2>1. \A x, y \in Nat : x < y => <<x, y>> \in R
    BY DEF OpToRel
  <2> QED BY <2>1, NatLessThanWellFounded
<1>2. PICK R : /\ IsWellFoundedOn(R, Nat)
               /\ \A x, y \in Nat : x < y => <<x, y>> \in R
  BY <1>1
<1>a. IsWellFoundedOn(R, Nat) /\ S \subseteq Nat
  BY <1>2
<1>3. \E x \in S : \A y \in S : ~ (<<y, x>> \in R)
  BY <1>a, WFMin, Zenon
<1>4. PICK x \in S : \A y \in S : ~ (<<y, x>> \in R)
  BY <1>3
<1>5. ASSUME NEW y \in S PROVE ~ (y < x)
  BY <1>2, <1>4, Zenon
<1>6. \A y \in S : x <= y
  BY <1>5
<1> QED BY <1>6

\* Some bad subsets of a finite set have only good strict subsets.
LEMMA SmallestBad ==
  ASSUME NEW D, IsFiniteSet(D), NEW Q \in SUBSET (SUBSET D), Q # {}
  PROVE  \E t \in Q : \A s \in SUBSET t : s # t => s \notin Q
<1> DEFINE Sizes == {Cardinality(s) : s \in Q}
<1>1. \A s \in SUBSET D : IsFiniteSet(s) /\ Cardinality(s) \in Nat
  BY FS_Subset, FS_CardinalityType
<1>2. PICK t \in Q : \A s \in Q : Cardinality(t) <= Cardinality(s)
  <2>1. Sizes \in SUBSET Nat /\ Sizes # {}
    BY <1>1
  <2>2. PICK n \in Sizes : \A m \in Sizes : n <= m
    <3> HIDE DEF Sizes
    <3> QED BY <2>1, NatHasLeast
  <2> QED BY <2>2
<1>3. ASSUME NEW s \in SUBSET t, s # t PROVE s \notin Q
  <2>1. IsFiniteSet(t) /\ Cardinality(t) \in Nat /\ Cardinality(s) \in Nat
    BY <1>1, <1>3
  <2>2. Cardinality(s) <= Cardinality(t) /\ Cardinality(t) # Cardinality(s)
    BY <1>3, <2>1, FS_Subset
  <2> QED BY <1>2, <2>1, <2>2
<1> QED BY <1>3

PickOf(s) == CHOOSE x \in s : TRUE
Rest(s) == s \ {PickOf(s)}

\* What holds of {} and of a set whenever it holds without the member picked
\* from it holds of every subset of a finite set: P is the set of those it
\* holds of.
LEMMA SubsetInduction ==
  ASSUME NEW D, IsFiniteSet(D), NEW P, {} \in P,
         \A s \in SUBSET D : s # {} /\ Rest(s) \in P => s \in P
  PROVE  \A s \in SUBSET D : s \in P
<1> DEFINE Q == {s \in SUBSET D : s \notin P}
<1>1. SUFFICES ASSUME Q # {} PROVE FALSE
  OBVIOUS
<1>2. PICK t \in Q : \A s \in SUBSET t : s # t => s \notin Q
  <2>1. Q \in SUBSET (SUBSET D)
    OBVIOUS
  <2> HIDE DEF Q
  <2> QED BY <1>1, <2>1, SmallestBad
<1>3. t # {} /\ t \in SUBSET D /\ t \notin P
  BY <1>2
<1>4. PickOf(t) \in t
  BY <1>3 DEF PickOf
<1>5. Rest(t) \in SUBSET t /\ Rest(t) # t
  BY <1>4 DEF Rest
<1> QED BY <1>2, <1>3, <1>5

\* g holds the sums of f over the subsets of D.
Sums(f, g, D) ==
  g = [s \in SUBSET D |-> IF s = {} THEN 0
                          ELSE f[PickOf(s)] + g[Rest(s)]]

LEMMA SumsAt ==
  ASSUME NEW f, NEW g, NEW D, Sums(f, g, D)
  PROVE  /\ g[{}] = 0
         /\ \A s \in SUBSET D :
              s # {} => g[s] = f[PickOf(s)] + g[Rest(s)]
<1>1. \A s \in SUBSET D :
        g[s] = IF s = {} THEN 0 ELSE f[PickOf(s)] + g[Rest(s)]
  <2> DEFINE h == [s \in SUBSET D |-> IF s = {} THEN 0
                      ELSE f[PickOf(s)] + g[Rest(s)]]
  <2>1. g = h
    BY DEF Sums
  <2>2. \A s \in SUBSET D :
          h[s] = IF s = {} THEN 0 ELSE f[PickOf(s)] + g[Rest(s)]
    OBVIOUS
  <2> HIDE DEF h
  <2> QED BY <2>1, <2>2
<1> QED BY <1>1

\* Sums over a set and over a larger one agree.
LEMMA SumsAgree ==
  ASSUME NEW f, NEW D, NEW E, IsFiniteSet(E), D \subseteq E, NEW g, NEW h,
         Sums(f, g, D), Sums(f, h, E)
  PROVE  \A s \in SUBSET D : g[s] = h[s]
<1> DEFINE P == {s \in SUBSET D : g[s] = h[s]}
<1>1. {} \in P
  BY SumsAt
<1>2. ASSUME NEW s \in SUBSET D, s # {}, Rest(s) \in P
      PROVE  s \in P
  <2>1. g[s] = f[PickOf(s)] + g[Rest(s)]
    BY <1>2, SumsAt
  <2>2. h[s] = f[PickOf(s)] + h[Rest(s)]
    BY <1>2, SumsAt
  <2> QED BY <1>2, <2>1, <2>2
<1>3. IsFiniteSet(D)
  BY FS_Subset
<1>4. \A s \in SUBSET D : s \in P
  <2> HIDE DEF P
  <2> QED BY <1>1, <1>2, <1>3, SubsetInduction
<1> QED BY <1>4

\* Every finite set has its sums: were t a smallest one without, the sums of
\* its strict subsets, which agree, would extend to it.
LEMMA SumsExist ==
  ASSUME NEW f, NEW D, IsFiniteSet(D) PROVE \E g : Sums(f, g, D)
<1> DEFINE Q == {s \in SUBSET D : ~ \E g : Sums(f, g, s)}
<1>1. SUFFICES ASSUME Q # {} PROVE FALSE
  <2>1. D \in SUBSET D
    OBVIOUS
  <2> QED BY <2>1
<1>2. PICK t \in Q : \A s \in SUBSET t : s # t => s \notin Q
  <2>1. Q \in SUBSET (SUBSET D)
    OBVIOUS
  <2> HIDE DEF Q
  <2> QED BY <1>1, <2>1, SmallestBad
<1>3. t \in SUBSET D /\ ~ \E g : Sums(f, g, t)
  BY <1>2
<1>4. \A s \in SUBSET t : s # t => s \in SUBSET D /\ \E g : Sums(f, g, s)
  BY <1>2, <1>3
<1> HIDE DEF Q
<1> DEFINE G(s) == CHOOSE g : Sums(f, g, s)
           F(s) == G(s)[s]
           value(s) == IF s = {} THEN 0 ELSE f[PickOf(s)] + F(Rest(s))
           h == [s \in SUBSET t |-> value(s)]
<1>5. \A s \in SUBSET t : s # t => Sums(f, G(s), s)
  BY <1>4
<1>6. \A s \in SUBSET t : s # {} => Rest(s) \in SUBSET t /\ Rest(s) # t
                                   /\ Rest(s) \in SUBSET s /\ Rest(s) # s
  <2>1. \A s : s # {} => PickOf(s) \in s
    BY DEF PickOf
  <2> QED BY <2>1 DEF Rest
<1>7. ASSUME NEW s \in SUBSET t, s # t PROVE F(s) = value(s)
  <2>1. CASE s = {}
    <3>1. G(s)[{}] = 0
      <4>1. Sums(f, G(s), s)
        BY <1>5, <1>7
      <4> HIDE DEF G
      <4> QED BY <4>1, SumsAt
    <3> HIDE DEF G
    <3> QED BY <2>1, <3>1
  <2>2. CASE s # {}
    <3>1. Sums(f, G(s), s) /\ Sums(f, G(Rest(s)), Rest(s))
      BY <1>5, <1>6, <1>7, <2>2
    <3>2. IsFiniteSet(s)
      BY <1>3, FS_Subset
    <3> HIDE DEF G
    <3>3. G(s)[s] = f[PickOf(s)] + G(s)[Rest(s)]
      <4>1. s \in SUBSET s
        OBVIOUS
      <4> QED BY <2>2, <3>1, <4>1, SumsAt
    <3>4. G(Rest(s))[Rest(s)] = G(s)[Rest(s)]
      <4>1. Rest(s) \subseteq s /\ Rest(s) \in SUBSET Rest(s)
        BY <1>6, <2>2
      <4> QED BY <3>1, <3>2, <4>1, SumsAgree
    <3> QED BY <2>2, <3>3, <3>4
  <2> QED BY <2>1, <2>2
<1> HIDE DEF F, G
<1>8. ASSUME NEW s \in SUBSET t
      PROVE  value(s) = IF s = {} THEN 0 ELSE f[PickOf(s)] + h[Rest(s)]
  <2>1. CASE s # {}
    <3>1. h[Rest(s)] = value(Rest(s)) /\ value(Rest(s)) = F(Rest(s))
      BY <1>6, <1>7, <2>1
    <3> QED BY <2>1, <3>1
  <2> QED BY <2>1
<1>9. h = [s \in SUBSET t |-> IF s = {} THEN 0 ELSE f[PickOf(s)] + h[Rest(s)]]
  <2> HIDE DEF value
  <2> QED BY <1>8
<1>10. Sums(f, h, t)
  <2> HIDE DEF h
  <2> QED BY <1>9 DEF Sums
<1> QED BY <1>3, <1>10

\* Total adds the values up.
LEMMA TotalIsSum ==
  ASSUME NEW f, IsFiniteSet(DOMAIN f)
  PROVE  \E g : Sums(f, g, DOMAIN f) /\ Total(f) = g[DOMAIN f]
<1> DEFINE g == CHOOSE g : Sums(f, g, DOMAIN f)
<1>1. Sums(f, g, DOMAIN f)
  BY SumsExist
<1>2. Total(f) = g[DOMAIN f]
  BY DEF Total, FoldFunction, FoldFunctionOnSet, MapThenFoldSet, Sums,
         PickOf, Rest
<1> QED BY <1>1, <1>2

LEMMA PickIn ==
  ASSUME NEW D, NEW s \in SUBSET D, s # {}
  PROVE  /\ PickOf(s) \in s /\ Rest(s) \in SUBSET D
         /\ s = Rest(s) \cup {PickOf(s)}
BY DEF PickOf, Rest

\* A sum of integers is an integer.
LEMMA TotalInt ==
  ASSUME NEW D, IsFiniteSet(D), NEW f \in [D -> Int] PROVE Total(f) \in Int
<1>1. PICK g : Sums(f, g, D) /\ Total(f) = g[D]
  BY TotalIsSum
<1> DEFINE P == {s \in SUBSET D : g[s] \in Int}
<1>2. {} \in P
  BY <1>1, SumsAt
<1>3. ASSUME NEW s \in SUBSET D, s # {}, Rest(s) \in P PROVE s \in P
  <2>1. g[s] = f[PickOf(s)] + g[Rest(s)]
    BY <1>1, <1>3, SumsAt
  <2>2. f[PickOf(s)] \in Int
    BY <1>3, PickIn
  <2> QED BY <1>3, <2>1, <2>2
<1>4. D \in P
  <2>1. D \in SUBSET D
    OBVIOUS
  <2> HIDE DEF P
  <2> QED BY <1>2, <1>3, <2>1, SubsetInduction
<1> QED BY <1>1, <1>4

\* A sum of naturals is a natural, and no summand exceeds it.
LEMMA TotalNat ==
  ASSUME NEW D, IsFiniteSet(D), NEW f \in [D -> Nat]
  PROVE  Total(f) \in Nat /\ \A x \in D : f[x] <= Total(f)
<1>1. PICK g : Sums(f, g, D) /\ Total(f) = g[D]
  BY TotalIsSum
<1> DEFINE P == {s \in SUBSET D : g[s] \in Nat /\ \A x \in s : f[x] <= g[s]}
<1>2. {} \in P
  BY <1>1, SumsAt
<1>3. ASSUME NEW s \in SUBSET D, s # {}, Rest(s) \in P PROVE s \in P
  <2>1. g[s] = f[PickOf(s)] + g[Rest(s)]
    BY <1>1, <1>3, SumsAt
  <2>2. PickOf(s) \in D /\ s = Rest(s) \cup {PickOf(s)}
    BY <1>3, PickIn
  <2>3. f[PickOf(s)] \in Nat /\ g[Rest(s)] \in Nat
    BY <1>3, <2>2
  <2>4. ASSUME NEW x \in s PROVE f[x] <= g[s]
    <3>1. CASE x = PickOf(s)
      BY <2>1, <2>3, <3>1
    <3>2. CASE x \in Rest(s)
      <4>1. f[x] <= g[Rest(s)] /\ f[x] \in Nat
        BY <1>3, <3>2
      <4> QED BY <2>1, <2>3, <4>1
    <3> QED BY <2>2, <3>1, <3>2
  <2> QED BY <2>1, <2>3, <2>4
<1>4. D \in P
  <2>1. D \in SUBSET D
    OBVIOUS
  <2> HIDE DEF P
  <2> QED BY <1>2, <1>3, <2>1, SubsetInduction
<1> QED BY <1>1, <1>4

\* Larger summands, larger sum.
LEMMA TotalMonotone ==
  ASSUME NEW D, IsFiniteSet(D), NEW f \in [D -> Int], NEW h \in [D -> Int],
         \A x \in D : f[x] <= h[x]
  PROVE  Total(f) <= Total(h)
<1>1. PICK g : Sums(f, g, D) /\ Total(f) = g[D]
  BY TotalIsSum
<1>2. PICK k : Sums(h, k, D) /\ Total(h) = k[D]
  BY TotalIsSum
<1> DEFINE P == {s \in SUBSET D : /\ g[s] \in Int /\ k[s] \in Int
                                  /\ g[s] <= k[s]}
<1>3. {} \in P
  BY <1>1, <1>2, SumsAt
<1>4. ASSUME NEW s \in SUBSET D, s # {}, Rest(s) \in P PROVE s \in P
  <2>1. g[s] = f[PickOf(s)] + g[Rest(s)]
    BY <1>1, <1>4, SumsAt
  <2>2. k[s] = h[PickOf(s)] + k[Rest(s)]
    BY <1>2, <1>4, SumsAt
  <2>3. /\ f[PickOf(s)] \in Int /\ h[PickOf(s)] \in Int
        /\ f[PickOf(s)] <= h[PickOf(s)]
    BY <1>4, PickIn
  <2>4. /\ g[Rest(s)] \in Int /\ k[Rest(s)] \in Int /\ g[Rest(s)] <= k[Rest(s)]
    BY <1>4
  <2> QED BY <2>1, <2>2, <2>3, <2>4
<1>5. D \in P
  <2>1. D \in SUBSET D
    OBVIOUS
  <2> HIDE DEF P
  <2> QED BY <1>3, <1>4, <2>1, SubsetInduction
<1> QED BY <1>1, <1>2, <1>5

----------------------------------------------------------------------------
(* Error arithmetic.                                                       *)

LEMMA Products ==
  ASSUME NEW a \in Nat, NEW b \in Nat, NEW c \in Nat, b <= c
  PROVE  a * b \in Nat /\ a * b <= a * c
<1>1. a * b \in Nat
  BY SMT
<1>2. PICK d \in Nat : c = b + d
  BY c - b \in Nat
<1>3. a * c = a * b + a * d /\ a * d \in Nat
  BY <1>2, SMT
<1> QED BY <1>1, <1>3

\* The magnitude worst_over multiplies the relative accuracy by.
LEMMA Magnitude ==
  ASSUME NEW v \in Interval
  PROVE  Max2(Abs(v[1]), Abs(v[2])) \in Nat
BY DEF Interval, Max2, Abs

\* A wider interval has the larger magnitude.
LEMMA MagnitudeGrows ==
  ASSUME NEW v \in Interval, NEW w \in Interval, Subset(v, w)
  PROVE  Max2(Abs(v[1]), Abs(v[2])) <= Max2(Abs(w[1]), Abs(w[2]))
BY DEF Interval, Max2, Abs, Subset

LEMMA WorstOverFacts ==
  ASSUME NEW acc \in [abs : Nat, rel : Nat], NEW v \in Interval
  PROVE  /\ WorstOver(acc, v) \in Nat
         /\ \A w \in Interval : Subset(v, w) =>
              WorstOver(acc, v) <= WorstOver(acc, w)
<1>1. acc.abs \in Nat /\ acc.rel \in Nat
  OBVIOUS
<1>2. acc.rel * Max2(Abs(v[1]), Abs(v[2])) \in Nat
  BY <1>1, Magnitude, Products
<1>3. ASSUME NEW w \in Interval, Subset(v, w)
      PROVE  WorstOver(acc, v) <= WorstOver(acc, w)
  <2> DEFINE x == Max2(Abs(v[1]), Abs(v[2]))
             y == Max2(Abs(w[1]), Abs(w[2]))
  <2>1. x \in Nat /\ y \in Nat /\ x <= y
    BY <1>3, Magnitude, MagnitudeGrows
  <2>2. WorstOver(acc, v) = acc.abs + acc.rel * x
        /\ WorstOver(acc, w) = acc.abs + acc.rel * y
    BY DEF WorstOver
  <2> HIDE DEF x, y
  <2>3. acc.rel * x \in Nat /\ acc.rel * y \in Nat
        /\ acc.rel * x <= acc.rel * y
    BY <1>1, <2>1, Products
  <2> QED BY <1>1, <2>2, <2>3
<1> QED BY <1>1, <1>2, <1>3 DEF WorstOver

\* A label's interval inflated by its eps is an interval.
LEMMA InflatedInterval ==
  ASSUME NEW l \in Label
  PROVE  /\ Inflated(l) \in Interval
         /\ Inflated(l)[1] = l.iv[1] - l.eps
         /\ Inflated(l)[2] = l.iv[2] + l.eps
BY DEF Label, Interval, Inflated, Inflate

\* The surrogate of a box of intervals is an interval, and shrinks with it.
LEMMA SurrogateFacts ==
  ASSUME NEW D, IsFiniteSet(D), NEW b \in [D -> Interval]
  PROVE  /\ SumSurrogate(b) \in Interval
         /\ \A a \in [D -> Interval] :
              (\A p \in D : Subset(a[p], b[p]))
                => Subset(SumSurrogate(a), SumSurrogate(b))
<1> DEFINE low(a) == [p \in D |-> a[p][1]]
           high(a) == [p \in D |-> a[p][2]]
<1>1. ASSUME NEW a \in [D -> Interval]
      PROVE  /\ low(a) \in [D -> Int] /\ high(a) \in [D -> Int]
             /\ SumSurrogate(a) = <<Total(low(a)), Total(high(a))>>
  BY DEF SumSurrogate, Interval
<1>2. \A a \in [D -> Interval] : \A p \in D :
        low(a)[p] = a[p][1] /\ high(a)[p] = a[p][2]
  OBVIOUS
<1> HIDE DEF low, high
<1>3. Total(low(b)) \in Int /\ Total(high(b)) \in Int
  BY <1>1, TotalInt
<1>4. Total(low(b)) <= Total(high(b))
  <2>1. \A p \in D : low(b)[p] <= high(b)[p]
    BY <1>2 DEF Interval
  <2> QED BY <1>1, <2>1, TotalMonotone
<1>5. ASSUME NEW a \in [D -> Interval], \A p \in D : Subset(a[p], b[p])
      PROVE  Subset(SumSurrogate(a), SumSurrogate(b))
  <2>1. \A p \in D : low(b)[p] <= low(a)[p] /\ high(a)[p] <= high(b)[p]
    BY <1>2, <1>5 DEF Subset
  <2>2. Total(low(b)) <= Total(low(a))
    BY <1>1, <2>1, TotalMonotone
  <2>3. Total(high(a)) <= Total(high(b))
    BY <1>1, <2>1, TotalMonotone
  <2> QED BY <1>1, <2>2, <2>3 DEF Subset
<1> QED BY <1>1, <1>3, <1>4, <1>5 DEF Interval

----------------------------------------------------------------------------
(* Candidates.                                                             *)

\* What a search may combine for solver n.
Inputs(n) == [InputPorts(Solver(n)) -> Label]

LEMMA SolverFacts ==
  ASSUME inst \in Instances, NEW n \in DOMAIN inst.solvers
  PROVE  /\ ValidSolver(Solver(n))
         /\ InputPorts(Solver(n)) \subseteq Ports
         /\ IsFiniteSet(InputPorts(Solver(n)))
<1>1. ValidSolver(Solver(n))
  BY InstancesAssumption DEF Solver
<1> DEFINE ins == Solver(n).inputs
<1>2. ins \in Seq(Ports) /\ InputPorts(Solver(n)) = {ins[i] : i \in DOMAIN ins}
  BY <1>1 DEF ValidSolver, InputPorts
<1> HIDE DEF ins
<1>3. Len(ins) \in Nat /\ DOMAIN ins = 1..Len(ins)
      /\ \A i \in DOMAIN ins : ins[i] \in Ports
  BY <1>2
<1>4. IsFiniteSet(1..Len(ins))
  BY <1>3, FS_Interval
<1> DEFINE T == {ins[i] : i \in DOMAIN ins}
<1>5. ins \in [1..Len(ins) -> T]
  BY <1>2, <1>3
<1>6. ins \in Surjection(1..Len(ins), T)
  BY <1>3, <1>5 DEF Surjection
<1>7. IsFiniteSet(T)
  BY <1>4, <1>6, FS_Surjection
<1> QED BY <1>1, <1>2, <1>3, <1>7

\* A candidate costs more than each of its inputs, and its output labels are
\* labels.
LEMMA CandidateFacts ==
  ASSUME inst \in Instances, NEW n \in DOMAIN inst.solvers, NEW f \in Inputs(n)
  PROVE  /\ Candidate(n, f).cost \in Nat \ {0}
         /\ Candidate(n, f).cost = Solver(n).cost + InputCost(f)
         /\ InputCost(f) \in Nat
         /\ \A p \in InputPorts(Solver(n)) :
              /\ f[p].cost \in Nat /\ f[p].cost < Candidate(n, f).cost
         /\ Box(Candidate(n, f)) \in [InputPorts(Solver(n)) -> Interval]
         /\ \A p \in Solver(n).outputs : \A k \in Nat :
              OutputLabel(Candidate(n, f), p, k) \in Label
<1> DEFINE D == InputPorts(Solver(n))
           costs == [p \in D |-> f[p].cost]
<1>1. ValidSolver(Solver(n)) /\ IsFiniteSet(D) /\ Solver(n).cost \in Nat \ {0}
  BY SolverFacts DEF ValidSolver
<1>2. costs \in [D -> Nat]
  BY DEF Inputs, Label
<1>3. InputCost(f) = Total(costs)
  BY DEF InputCost, Inputs
<1>4. Total(costs) \in Nat /\ \A p \in D : costs[p] <= Total(costs)
  <2> HIDE DEF costs, D
  <2> QED BY <1>1, <1>2, TotalNat
<1>5. Candidate(n, f).cost = Solver(n).cost + InputCost(f)
      /\ Candidate(n, f).solver = n /\ Candidate(n, f).inputs = f
  BY DEF Candidate
<1>6. \A p \in D : f[p].cost \in Nat /\ f[p].cost < Candidate(n, f).cost
  <2>1. \A p \in D : costs[p] = f[p].cost /\ costs[p] \in Nat
    BY <1>2
  <2> HIDE DEF costs, D
  <2> QED BY <1>1, <1>3, <1>4, <1>5, <2>1
<1>7. Box(Candidate(n, f)) \in [D -> Interval]
  <2>1. \A p \in D : Inflated(f[p]) \in Interval
    BY InflatedInterval DEF Inputs
  <2> QED BY <1>5, <2>1 DEF Box, Inputs
<1>8. ASSUME NEW p \in Solver(n).outputs, NEW k \in Nat
      PROVE  OutputLabel(Candidate(n, f), p, k) \in Label
  <2> DEFINE iv == SumSurrogate(Box(Candidate(n, f)))
             acc == Solver(n).accuracy[p]
  <2>1. iv \in Interval
    <3> HIDE DEF D
    <3> QED BY <1>1, <1>7, SurrogateFacts
  <2>2. acc \in [abs : Nat, rel : Nat]
    BY <1>1 DEF ValidSolver
  <2>3. WorstOver(acc, iv) \in Nat
    <3> HIDE DEF iv, acc
    <3> QED BY <2>1, <2>2, WorstOverFacts
  <2>4. OutputLabel(Candidate(n, f), p, k)
          = [iv |-> iv, eps |-> WorstOver(acc, iv),
             cost |-> Candidate(n, f).cost, node |-> k]
    BY <1>5 DEF OutputLabel
  <2>5. Candidate(n, f).cost \in Nat
    BY <1>1, <1>3, <1>4, <1>5
  <2> HIDE DEF iv, acc
  <2> QED BY <2>1, <2>3, <2>4, <2>5 DEF Label
<1> QED BY <1>1, <1>3, <1>4, <1>5, <1>6, <1>7, <1>8

----------------------------------------------------------------------------
(* Dominance.                                                              *)

LEMMA DominanceOrders ==
  /\ \A a \in Label : Dominates(a, a)
  /\ \A a, b, c \in Label : Dominates(a, b) /\ Dominates(b, c)
                              => Dominates(a, c)
<1>1. \A a \in Label : /\ a.cost \in Nat /\ Inflated(a)[1] \in Int
                       /\ Inflated(a)[2] \in Int
  BY InflatedInterval DEF Label, Interval
<1>2. \A a \in Label : Dominates(a, a)
  BY <1>1 DEF Dominates, Subset
<1>3. ASSUME NEW a \in Label, NEW b \in Label, NEW c \in Label,
             Dominates(a, b), Dominates(b, c)
      PROVE  Dominates(a, c)
  <2>1. a.cost <= b.cost /\ b.cost <= c.cost
    BY <1>3 DEF Dominates
  <2>2. /\ Inflated(b)[1] <= Inflated(a)[1] /\ Inflated(a)[2] <= Inflated(b)[2]
        /\ Inflated(c)[1] <= Inflated(b)[1] /\ Inflated(b)[2] <= Inflated(c)[2]
    BY <1>3 DEF Dominates, Subset
  <2>3. a.cost <= c.cost
    BY <1>1, <2>1
  <2>4. Inflated(c)[1] <= Inflated(a)[1] /\ Inflated(a)[2] <= Inflated(c)[2]
    BY <1>1, <2>2
  <2> QED BY <2>3, <2>4 DEF Dominates, Subset
<1> QED BY <1>2, <1>3

\* insert_with_dominance: the new label, and each old one, is dominated by
\* one that stays.
LEMMA InsertFacts ==
  ASSUME NEW S \in SUBSET Label, NEW l \in Label
  PROVE  /\ Insert(S, l) \subseteq S \cup {l}
         /\ \E m \in Insert(S, l) : Dominates(m, l)
         /\ \A s \in S : \E m \in Insert(S, l) : Dominates(m, s)
         /\ Insert(S, l) # S => l \in Insert(S, l)
<1>1. CASE \E m \in S : Dominates(m, l)
  <2>1. Insert(S, l) = S
    BY <1>1 DEF Insert
  <2> QED BY <1>1, <2>1, DominanceOrders
<1>2. CASE ~ \E m \in S : Dominates(m, l)
  <2>1. Insert(S, l) = {m \in S : ~ Dominates(l, m)} \cup {l}
    BY <1>2 DEF Insert
  <2>2. Dominates(l, l) /\ \A s \in S : Dominates(s, s)
    BY DominanceOrders
  <2>3. \A s \in S : \E m \in Insert(S, l) : Dominates(m, s)
    BY <2>1, <2>2
  <2> QED BY <2>1, <2>2, <2>3
<1> QED BY <1>1, <1>2

\* A set of labels none of which dominates another.
Antichain(S) ==
  \A l, m \in S : l # m => ~ (l.cost <= m.cost
                                /\ Subset(Inflated(l), Inflated(m)))

LEMMA InsertAntichain ==
  ASSUME NEW S, NEW l, Antichain(S) PROVE Antichain(Insert(S, l))
BY DEF Antichain, Insert, Dominates

----------------------------------------------------------------------------
(* The inductive invariant.                                                *)

LabelsOK ==
  /\ labels \in [Ports -> SUBSET Label]
  /\ \A p \in Ports : \A l \in labels[p] : l.node <= Len(nodes)

Node == [solver : DOMAIN inst.solvers,
         inputs : UNION {Inputs(n) : n \in DOMAIN inst.solvers}]

\* A candidate of the search.
IsCandidate(c) ==
  /\ c.solver \in DOMAIN inst.solvers /\ c.inputs \in Inputs(c.solver)
  /\ c = Candidate(c.solver, c.inputs)

FrontierOK == \A c \in frontier : IsCandidate(c)

\* Candidate (n, f) has been popped and done with: if it was admitted, each
\* of its outputs has a label that dominates the one it gave.
Settled(n, f) ==
  Admitted(Candidate(n, f)) =>
    \A p \in Solver(n).outputs :
      \E m \in labels[p] : Dominates(m, OutputLabel(Candidate(n, f), p, 0))

\* What has ever been pushed waits in the frontier or is settled.
PushedOK ==
  \A key \in pushed :
    \E n \in DOMAIN inst.solvers : \E f \in Inputs(n) :
      /\ key = <<n, TieKey(f)>>
      /\ Candidate(n, f) \in frontier \/ Settled(n, f)

\* No candidate, waiting or still to be pushed, is cheaper than a label.
InCostOrder ==
  \A c \in Regenerated : \A q \in Ports : \A l \in labels[q] : l.cost <= c.cost

\* The known labels are there, or labels that dominate them.
KnownsKept ==
  \A p \in DOMAIN inst.known :
    \E m \in labels[p] : Dominates(m, KnownLabel(inst.known[p]))

SearchInv ==
  /\ inst \in Instances
  /\ phase \in {"start", "search", "done"}
  /\ LabelsOK /\ nodes \in Seq(Node) /\ FrontierOK
  /\ phase = "start" => /\ labels = [p \in Ports |-> {}]
                        /\ frontier = {} /\ pushed = {}
  /\ phase = "search" => PushedOK /\ InCostOrder /\ KnownsKept
  /\ phase # "done" => result.kind = "none"

LEMMA InitInv == Init => SearchInv
BY DEF Init, SearchInv, LabelsOK, FrontierOK, Err

LEMMA KnownLabels ==
  ASSUME inst \in Instances, NEW p \in DOMAIN inst.known
  PROVE  KnownLabel(inst.known[p]) \in Label /\ p \in Ports
BY InstancesAssumption DEF KnownLabel, Label

\* Regenerated holds candidates of the search.
LEMMA RegeneratedOK ==
  ASSUME SearchInv, NEW c \in Regenerated PROVE IsCandidate(c)
<1>1. CASE c \in frontier
  BY <1>1 DEF SearchInv, FrontierOK
<1>2. CASE c \notin frontier
  <2>1. PICK nf \in Fresh : c = Candidate(nf[1], nf[2])
    BY <1>2 DEF Regenerated
  <2>2. PICK n \in DOMAIN inst.solvers :
          nf[1] = n /\ nf[2] \in Combos(Solver(n))
    BY DEF Fresh
  <2> DEFINE f == nf[2]
  <2>3. InputPorts(Solver(n)) \subseteq Ports
    BY SolverFacts DEF SearchInv
  <2>4. f \in Inputs(n)
    BY <2>2, <2>3 DEF Combos, Inputs, SearchInv, LabelsOK
  <2>5. c = Candidate(n, f) /\ c.solver = n /\ c.inputs = f
    BY <2>1, <2>2 DEF Candidate
  <2> QED BY <2>4, <2>5 DEF IsCandidate
<1> QED BY <1>1, <1>2

\* plan() up to the loop.
LEMMA StartInv ==
  ASSUME SearchInv, Start PROVE SearchInv'
<1>1. phase = "start" /\ UNCHANGED <<inst, nodes, frontier, pushed>>
      /\ inst \in Instances /\ frontier = {} /\ pushed = {}
  BY DEF Start, SearchInv
<1>2. CASE phase' = "done" /\ UNCHANGED labels
  BY <1>1, <1>2 DEF SearchInv, LabelsOK, FrontierOK, Node, Inputs, Solver
<1>3. CASE /\ phase' = "search" /\ UNCHANGED result
           /\ labels' = [p \in Ports |->
                IF p \in DOMAIN inst.known THEN {KnownLabel(inst.known[p])}
                ELSE {}]
  <2>1. /\ labels' \in [Ports -> SUBSET Label]
        /\ \A p \in Ports : \A l \in labels'[p] : l.cost = 0 /\ l.node = 0
    BY <1>1, <1>3, KnownLabels DEF KnownLabel
  <2>2. LabelsOK'
    BY <1>1, <2>1 DEF LabelsOK, SearchInv
  <2>3. KnownsKept'
    <3>1. \A p \in DOMAIN inst.known :
            /\ KnownLabel(inst.known[p]) \in labels'[p]
            /\ Dominates(KnownLabel(inst.known[p]), KnownLabel(inst.known[p]))
      BY <1>1, <1>3, KnownLabels, DominanceOrders
    <3> QED BY <1>1, <3>1 DEF KnownsKept, Dominates, KnownLabel
  <2>4. SearchInv' \/ ~ InCostOrder'
    BY <1>1, <1>3, <2>2, <2>3
       DEF SearchInv, FrontierOK, PushedOK, Node, Inputs, Solver
  <2>5. ASSUME NEW c \in Regenerated' PROVE c.cost \in Nat
    <3>1. PICK nf \in Fresh' : c = Candidate(nf[1], nf[2])'
      BY <1>1 DEF Regenerated
    <3>2. PICK n \in DOMAIN inst.solvers :
            nf[1] = n /\ nf[2] \in Combos(Solver(n))'
      BY <1>1 DEF Fresh, Solver
    <3> DEFINE f == nf[2]
    <3>3. InputPorts(Solver(n)) \subseteq Ports
      BY <1>1, SolverFacts
    <3>4. f \in Inputs(n)
      BY <1>1, <2>1, <3>2, <3>3 DEF Combos, Inputs, Solver, InputPorts
    <3>5. c = Candidate(n, f)
      BY <1>1, <3>1, <3>2 DEF Candidate, Solver, InputCost
    <3> QED BY <1>1, <3>4, <3>5, CandidateFacts
  <2>6. InCostOrder'
    BY <2>1, <2>5 DEF InCostOrder
  <2> QED BY <2>4, <2>6
<1> QED BY <1>2, <1>3 DEF Start, Finish

----------------------------------------------------------------------------
(* One iteration.                                                          *)

\* What a candidate is does not depend on the labels.
LEMMA SameCandidate ==
  ASSUME inst' = inst
  PROVE  /\ \A n : Solver(n)' = Solver(n) /\ Inputs(n)' = Inputs(n)
         /\ \A n, f : /\ Candidate(n, f)' = Candidate(n, f)
                      /\ Admitted(Candidate(n, f))' = Admitted(Candidate(n, f))
                      /\ TieKey(f)' = TieKey(f)
         /\ \A n, f, p : OutputLabel(Candidate(n, f), p, 0)'
                           = OutputLabel(Candidate(n, f), p, 0)
         /\ \A c : IsCandidate(c)' = IsCandidate(c)
<1>1. \A n : Solver(n)' = Solver(n) /\ Inputs(n)' = Inputs(n)
  BY DEF Solver, Inputs
<1>2. \A n, f : Candidate(n, f)' = Candidate(n, f) /\ TieKey(f)' = TieKey(f)
  BY <1>1 DEF Candidate, InputCost, TieKey
<1>3. \A c : Admitted(c)' = Admitted(c)
  BY <1>1 DEF Admitted, Box
<1>4. \A c, p : OutputLabel(c, p, 0)' = OutputLabel(c, p, 0)
  BY <1>1 DEF OutputLabel, Box
<1>5. \A c : IsCandidate(c)' = IsCandidate(c)
  BY <1>1, <1>2 DEF IsCandidate
<1> QED BY <1>1, <1>2, <1>3, <1>4, <1>5
        DEF Candidate, Admitted, OutputLabel, Box, Solver, InputCost

\* Only the commit of candidate c changes labels.
LabelsKept ==
  \A p \in Ports : \A l \in labels[p] :
    \E m \in labels'[p] : Dominates(m, l)
LabelsFrom(c) ==
  \A p \in Ports : \A l \in labels'[p] :
    l \in labels[p] \/ (l.cost = c.cost /\ l.node = Len(nodes) + 1)

LEMMA CommittedFacts ==
  ASSUME SearchInv, NEW c, IsCandidate(c), Admitted(c), labels' = Committed(c)
  PROVE  /\ labels' \in [Ports -> SUBSET Label] /\ LabelsKept /\ LabelsFrom(c)
         /\ \A p \in Solver(c.solver).outputs :
              \E m \in labels'[p] : Dominates(m, OutputLabel(c, p, 0))
         /\ labels' # labels =>
              \E p \in Ports : \E l \in labels'[p] : l.cost = c.cost
<1> DEFINE k == Len(nodes) + 1
           outs == Solver(c.solver).outputs
           new(p) == OutputLabel(c, p, k)
<1>1. k \in Nat /\ outs \subseteq Ports
  BY SolverFacts DEF SearchInv, IsCandidate, ValidSolver
<1>2. ASSUME NEW p \in outs
      PROVE  /\ new(p) \in Label /\ new(p).cost = c.cost /\ new(p).node = k
             /\ OutputLabel(c, p, 0) \in Label
             /\ Dominates(new(p), OutputLabel(c, p, 0))
  <2>1. new(p) \in Label /\ OutputLabel(c, p, 0) \in Label
    <3> HIDE DEF k
    <3> QED BY <1>1, <1>2, CandidateFacts DEF SearchInv, IsCandidate
  <2>2. /\ new(p).cost = c.cost /\ new(p).node = k
        /\ OutputLabel(c, p, 0).cost = c.cost
        /\ OutputLabel(c, p, 0).iv = new(p).iv
        /\ OutputLabel(c, p, 0).eps = new(p).eps
    BY DEF OutputLabel
  <2>3. Inflated(new(p)) = Inflated(OutputLabel(c, p, 0))
    <3> HIDE DEF new
    <3> QED BY <2>2 DEF Inflated
  <2>4. Dominates(OutputLabel(c, p, 0), OutputLabel(c, p, 0))
    BY <2>1, DominanceOrders
  <2> HIDE DEF new
  <2>5. Dominates(new(p), OutputLabel(c, p, 0))
    BY <2>2, <2>3, <2>4 DEF Dominates
  <2> QED BY <2>1, <2>2, <2>5
<1>3. \A p \in Ports : labels[p] \in SUBSET Label
  BY DEF SearchInv, LabelsOK
<1>4. \A p \in outs : labels'[p] = Insert(labels[p], new(p))
  BY <1>1 DEF Committed
<1>5. \A p \in Ports : p \notin outs => labels'[p] = labels[p]
  BY DEF Committed
<1>6. DOMAIN labels' = Ports /\ labels' = [p \in Ports |-> labels'[p]]
  BY DEF Committed
<1>10. labels = [p \in Ports |-> labels[p]]
  BY DEF SearchInv, LabelsOK
<1> HIDE DEF new, k, outs
<1>7. ASSUME NEW p \in outs
      PROVE  /\ labels'[p] \subseteq labels[p] \cup {new(p)}
             /\ \E m \in labels'[p] : Dominates(m, new(p))
             /\ \A s \in labels[p] : \E m \in labels'[p] : Dominates(m, s)
             /\ labels'[p] # labels[p] => new(p) \in labels'[p]
  BY <1>1, <1>2, <1>3, <1>4, InsertFacts
<1>8. \A p \in Ports : labels'[p] \in SUBSET Label
  BY <1>2, <1>3, <1>5, <1>7
<1>9. labels' \in [Ports -> SUBSET Label]
  BY <1>6, <1>8
<1>11. LabelsKept
  <2>1. \A p \in Ports : \A l \in labels[p] : Dominates(l, l)
    BY <1>3, DominanceOrders
  <2> QED BY <1>5, <1>7, <2>1 DEF LabelsKept
<1>12. LabelsFrom(c)
  BY <1>2, <1>5, <1>7 DEF LabelsFrom, k
<1>13. ASSUME NEW p \in outs
       PROVE  \E m \in labels'[p] : Dominates(m, OutputLabel(c, p, 0))
  <2>1. PICK m \in labels'[p] : Dominates(m, new(p))
    BY <1>7
  <2>2. m \in Label
    BY <1>1, <1>8
  <2> QED BY <1>2, <2>1, <2>2, DominanceOrders
<1>14. ASSUME labels' # labels
       PROVE  \E p \in Ports : \E l \in labels'[p] : l.cost = c.cost
  <2>1. PICK p \in Ports : labels'[p] # labels[p]
    BY <1>6, <1>10, <1>14
  <2>2. p \in outs /\ new(p) \in labels'[p]
    BY <1>5, <1>7, <2>1
  <2> QED BY <1>2, <2>1, <2>2
<1> QED BY <1>9, <1>11, <1>12, <1>13, <1>14 DEF outs

\* No candidate is cheaper than the one popped, then or later.
LEMMA CostsAfter ==
  ASSUME SearchInv, NEW c, Pop(c), inst' = inst,
         labels' \in [Ports -> SUBSET Label],
         \A p \in Ports : \A l \in labels'[p] :
           l \in labels[p] \/ l.cost = c.cost
  PROVE  /\ IsCandidate(c) /\ c.cost \in Nat
         /\ \A d \in Regenerated' : c.cost <= d.cost
<1>1. /\ c \in Regenerated /\ First(c, Regenerated)
      /\ frontier' = Regenerated \ {c} /\ pushed' = Pushed
  BY DEF Pop
<1>2. \A d \in Regenerated : IsCandidate(d) /\ d.cost \in Nat
  BY RegeneratedOK, CandidateFacts DEF SearchInv, IsCandidate
<1>3. ASSUME NEW d \in frontier' PROVE c.cost <= d.cost
  BY <1>1, <1>2 DEF First
<1>4. ASSUME NEW nf \in Fresh' PROVE c.cost <= Candidate(nf[1], nf[2])'.cost
  <2>1. PICK n \in DOMAIN inst.solvers :
          /\ Usable(Solver(n))' /\ nf \in {n} \X Combos(Solver(n))'
          /\ <<n, TieKey(nf[2])'>> \notin pushed'
    BY DEF Fresh, Solver
  <2> DEFINE f == nf[2]
  <2>2. nf[1] = n /\ nf = <<n, f>> /\ f \in Combos(Solver(n))'
    BY <2>1
  <2>3. InputPorts(Solver(n)) \subseteq Ports
    BY SolverFacts DEF SearchInv
  <2>4. f \in Inputs(n) /\ \A p \in InputPorts(Solver(n)) : f[p] \in labels'[p]
    BY <2>2, <2>3 DEF Combos, Inputs, Solver, InputPorts
  <2>5. Candidate(nf[1], nf[2])' = Candidate(n, f)
    BY <2>2, SameCandidate
  <2> HIDE DEF f
  <2>6. CASE \A p \in InputPorts(Solver(n)) : f[p] \in labels[p]
    <3>1. f \in Combos(Solver(n))
      BY <2>4, <2>6 DEF Combos, Inputs
    <3>2. Usable(Solver(n))
      BY <2>1 DEF Usable, Solver
    <3>3. <<n, f>> \in Fresh \/ <<n, TieKey(f)>> \in pushed
      BY <3>1, <3>2 DEF Fresh
    <3>4. <<n, TieKey(f)>> \in Pushed
      BY <3>3 DEF Pushed
    <3>5. TieKey(nf[2])' = TieKey(f)
      BY SameCandidate DEF f
    <3> QED BY <1>1, <2>1, <3>4, <3>5
  <2>7. CASE \E p \in InputPorts(Solver(n)) : f[p] \notin labels[p]
    <3>1. PICK p \in InputPorts(Solver(n)) : f[p] \notin labels[p]
      BY <2>7
    <3>2. f[p].cost = c.cost
      BY <2>3, <2>4, <3>1
    <3>3. f[p].cost \in Nat /\ f[p].cost < Candidate(n, f).cost
          /\ Candidate(n, f).cost \in Nat
      BY <2>4, CandidateFacts DEF SearchInv
    <3> QED BY <2>5, <3>2, <3>3
  <2> QED BY <2>6, <2>7
<1>5. ASSUME NEW d \in Regenerated' PROVE c.cost <= d.cost
  BY <1>3, <1>4 DEF Regenerated
<1> QED BY <1>1, <1>2, <1>5

\* Once the popped candidate is settled, and every label stays or is
\* dominated, whatever has been pushed waits or is settled.
LEMMA PushedKept ==
  ASSUME SearchInv, phase = "search", NEW c, Pop(c), inst' = inst,
         LabelsOK', LabelsKept, Settled(c.solver, c.inputs)'
  PROVE  PushedOK' /\ FrontierOK'
<1>1. /\ c \in Regenerated /\ frontier' = Regenerated \ {c}
      /\ pushed' = Pushed
  BY DEF Pop
<1>2. FrontierOK'
  BY <1>1, RegeneratedOK, SameCandidate DEF FrontierOK
<1>3. ASSUME NEW n \in DOMAIN inst.solvers, NEW f \in Inputs(n),
             Candidate(n, f) \in Regenerated \/ Settled(n, f)
      PROVE  Candidate(n, f)' \in frontier' \/ Settled(n, f)'
  <2>1. CASE Candidate(n, f) = c
    <3>1. n = c.solver /\ f = c.inputs
      BY <2>1 DEF Candidate
    <3> QED BY <3>1
  <2>2. CASE Candidate(n, f) \in Regenerated /\ Candidate(n, f) # c
    BY <1>1, <2>2, SameCandidate
  <2>3. CASE Settled(n, f)
    <3>1. ASSUME Admitted(Candidate(n, f)), NEW p \in Solver(n).outputs
          PROVE  \E m \in labels'[p] :
                   Dominates(m, OutputLabel(Candidate(n, f), p, 0))
      <4>1. p \in Ports
        BY SolverFacts DEF SearchInv, ValidSolver
      <4>2. PICK l \in labels[p] :
              Dominates(l, OutputLabel(Candidate(n, f), p, 0))
        BY <2>3, <3>1 DEF Settled
      <4>3. PICK m \in labels'[p] : Dominates(m, l)
        BY <4>1 DEF LabelsKept
      <4>4. m \in Label /\ l \in Label
        BY <4>1 DEF SearchInv, LabelsOK
      <4>5. OutputLabel(Candidate(n, f), p, 0) \in Label
        BY CandidateFacts DEF SearchInv
      <4> QED BY <4>2, <4>3, <4>4, <4>5, DominanceOrders
    <3>2. \A m, l : Dominates(m, l)' = Dominates(m, l)
      BY DEF Dominates, Inflated
    <3> QED BY <3>1, <3>2, SameCandidate DEF Settled
  <2> QED BY <1>3, <2>1, <2>2, <2>3
<1>4. ASSUME NEW key \in pushed'
      PROVE  \E n \in DOMAIN inst.solvers : \E f \in Inputs(n) :
               /\ key = <<n, TieKey(f)>>
               /\ Candidate(n, f) \in Regenerated \/ Settled(n, f)
  <2>1. CASE key \in pushed
    <3>1. \E n \in DOMAIN inst.solvers : \E f \in Inputs(n) :
            /\ key = <<n, TieKey(f)>>
            /\ Candidate(n, f) \in frontier \/ Settled(n, f)
      BY <2>1 DEF SearchInv, PushedOK
    <3> QED BY <3>1 DEF Regenerated
  <2>2. CASE key \notin pushed
    <3>1. PICK nf \in Fresh : key = <<nf[1], TieKey(nf[2])>>
      BY <1>1, <2>2 DEF Pushed
    <3>2. Candidate(nf[1], nf[2]) \in Regenerated
      BY DEF Regenerated
    <3>3. IsCandidate(Candidate(nf[1], nf[2]))
      BY <3>2, RegeneratedOK
    <3>4. nf[1] \in DOMAIN inst.solvers /\ nf[2] \in Inputs(nf[1])
      BY <3>3 DEF IsCandidate, Candidate
    <3> QED BY <3>1, <3>2, <3>4
  <2> QED BY <2>1, <2>2
<1>5. PushedOK'
  <2>1. \A n : Inputs(n)' = Inputs(n) /\ \A f : TieKey(f)' = TieKey(f)
    BY SameCandidate
  <2> QED BY <1>3, <1>4, <2>1 DEF PushedOK
<1> QED BY <1>2, <1>5

\* An iteration that pops c and leaves labels that come from c's commit.
LEMMA IterationInv ==
  ASSUME SearchInv, phase = "search", NEW c, Pop(c), inst' = inst,
         LabelsOK', LabelsKept,
         \A p \in Ports : \A l \in labels'[p] :
           l \in labels[p] \/ l.cost = c.cost,
         Settled(c.solver, c.inputs)'
  PROVE  PushedOK' /\ FrontierOK' /\ InCostOrder' /\ KnownsKept'
<1>1. PushedOK' /\ FrontierOK'
  BY PushedKept
<1>2. labels' \in [Ports -> SUBSET Label]
  BY DEF LabelsOK
<1>3. /\ IsCandidate(c) /\ c.cost \in Nat
      /\ \A d \in Regenerated' : c.cost <= d.cost
  BY <1>2, CostsAfter
<1>4. InCostOrder'
  <2> SUFFICES ASSUME NEW d \in Regenerated', NEW q \in Ports,
                      NEW l \in labels'[q]
               PROVE  l.cost <= d.cost
    BY DEF InCostOrder
  <2>1. l.cost <= c.cost /\ l.cost \in Nat
    <3>1. c \in Regenerated
      BY DEF Pop
    <3>2. l.cost \in Nat
      BY <1>2 DEF Label
    <3> QED BY <1>3, <3>1, <3>2 DEF SearchInv, InCostOrder
  <2>2. d.cost \in Nat
    <3>1. d \in frontier' \/ \E nf \in Fresh' : d = Candidate(nf[1], nf[2])'
      BY DEF Regenerated
    <3>2. CASE d \in frontier'
      BY <1>1, <3>2, SameCandidate, CandidateFacts
         DEF FrontierOK, IsCandidate, SearchInv
    <3>3. CASE \E nf \in Fresh' : d = Candidate(nf[1], nf[2])'
      <4>1. PICK nf \in Fresh' : d = Candidate(nf[1], nf[2])'
        BY <3>3
      <4>2. PICK n \in DOMAIN inst.solvers : nf \in {n} \X Combos(Solver(n))'
        BY DEF Fresh, Solver
      <4> DEFINE f == nf[2]
      <4>3. nf[1] = n /\ f \in Combos(Solver(n))'
        BY <4>2
      <4>4. InputPorts(Solver(n)) \subseteq Ports
        BY SolverFacts DEF SearchInv
      <4>5. f \in Inputs(n)
        BY <1>2, <4>3, <4>4 DEF Combos, Inputs, Solver, InputPorts
      <4>6. d = Candidate(n, f)
        BY <4>1, <4>3, SameCandidate
      <4> HIDE DEF f
      <4> QED BY <4>5, <4>6, CandidateFacts DEF SearchInv
    <3> QED BY <3>1, <3>2, <3>3
  <2> QED BY <1>3, <2>1, <2>2
<1>5. KnownsKept'
  <2> SUFFICES ASSUME NEW p \in DOMAIN inst.known
               PROVE  \E m \in labels'[p] :
                        Dominates(m, KnownLabel(inst.known[p]))
    BY DEF KnownsKept, Dominates, Inflated, KnownLabel
  <2>1. KnownLabel(inst.known[p]) \in Label /\ p \in Ports
    BY KnownLabels DEF SearchInv
  <2>2. PICK l \in labels[p] : Dominates(l, KnownLabel(inst.known[p]))
    BY DEF SearchInv, KnownsKept
  <2>3. PICK m \in labels'[p] : Dominates(m, l)
    BY <2>1 DEF LabelsKept
  <2>4. m \in Label /\ l \in Label
    BY <1>2, <2>1 DEF SearchInv, LabelsOK
  <2> QED BY <2>1, <2>2, <2>3, <2>4, DominanceOrders
<1> QED BY <1>1, <1>4, <1>5

\* The popped candidate is not admitted, or adds nothing.
LEMMA PassInv ==
  ASSUME SearchInv, NEW c, Reject(c) \/ Prune(c) PROVE SearchInv'
<1>1. phase = "search" /\ Pop(c)
      /\ UNCHANGED <<inst, phase, labels, nodes, result>>
  BY DEF Reject, Prune, Pop
<1>2. LabelsOK' /\ LabelsKept
  <2>1. \A p \in Ports : \A l \in labels[p] : Dominates(l, l)
    BY DominanceOrders DEF SearchInv, LabelsOK
  <2> QED BY <1>1, <2>1 DEF SearchInv, LabelsOK, LabelsKept
<1>3. Settled(c.solver, c.inputs)'
  <2>1. IsCandidate(c)
    BY <1>1, RegeneratedOK DEF Pop
  <2>2. c = Candidate(c.solver, c.inputs)
    BY <2>1 DEF IsCandidate
  <2>3. Settled(c.solver, c.inputs)
    <3>1. CASE ~ Admitted(c)
      BY <2>2, <3>1 DEF Settled
    <3>2. CASE Admitted(c)
      <4>1. labels' = Committed(c)
        BY <1>1, <3>2 DEF Reject, Prune
      <4>2. \A p \in Solver(c.solver).outputs :
              \E m \in labels'[p] : Dominates(m, OutputLabel(c, p, 0))
        BY <2>1, <3>2, <4>1, CommittedFacts
      <4> QED BY <1>1, <2>2, <4>2 DEF Settled
    <3> QED BY <3>1, <3>2
  <2>4. \A m, l : Dominates(m, l)' = Dominates(m, l)
    BY DEF Dominates, Inflated
  <2> QED BY <1>1, <2>3, <2>4, SameCandidate DEF Settled
<1>4. PushedOK' /\ FrontierOK' /\ InCostOrder' /\ KnownsKept'
  BY <1>1, <1>2, <1>3, IterationInv
<1>5. Node' = Node
  BY <1>1, SameCandidate DEF Node
<1> QED BY <1>1, <1>2, <1>4, <1>5 DEF SearchInv

\* What a commit leaves, whether or not the target is then in budget.
LEMMA CommitFacts ==
  ASSUME SearchInv, NEW c, Commit(c)
  PROVE  /\ phase = "search" /\ Pop(c) /\ IsCandidate(c) /\ Admitted(c)
         /\ LabelsOK' /\ LabelsKept /\ LabelsFrom(c)
         /\ nodes' \in Seq(Node') /\ Len(nodes') = Len(nodes) + 1
         /\ DOMAIN nodes' = 1..Len(nodes') /\ DOMAIN nodes = 1..Len(nodes)
         /\ \E p \in Ports : \E l \in labels'[p] : l.cost = c.cost
         /\ PushedOK' /\ FrontierOK' /\ InCostOrder' /\ KnownsKept'
<1>1. /\ phase = "search" /\ Pop(c) /\ Admitted(c) /\ inst' = inst
      /\ labels' = Committed(c) /\ labels' # labels
      /\ nodes' = Append(nodes, [solver |-> c.solver, inputs |-> c.inputs])
  BY DEF Commit, Pop
<1>2. IsCandidate(c)
  BY <1>1, RegeneratedOK DEF Pop
<1>3. /\ labels' \in [Ports -> SUBSET Label] /\ LabelsKept /\ LabelsFrom(c)
      /\ \A p \in Solver(c.solver).outputs :
           \E m \in labels'[p] : Dominates(m, OutputLabel(c, p, 0))
      /\ \E p \in Ports : \E l \in labels'[p] : l.cost = c.cost
  BY <1>1, <1>2, CommittedFacts
<1>4. /\ nodes' \in Seq(Node) /\ Len(nodes') = Len(nodes) + 1
      /\ DOMAIN nodes' = 1..Len(nodes') /\ DOMAIN nodes = 1..Len(nodes)
      /\ Len(nodes) \in Nat /\ Node' = Node
  <2>1. [solver |-> c.solver, inputs |-> c.inputs] \in Node
    BY <1>2 DEF IsCandidate, Node
  <2>2. nodes \in Seq(Node)
    BY DEF SearchInv
  <2>3. Node' = Node
    BY <1>1, SameCandidate DEF Node
  <2> QED BY <1>1, <2>1, <2>2, <2>3
<1>5. LabelsOK'
  <2>1. \A p \in Ports : \A l \in labels'[p] : l.node <= Len(nodes')
    <3>1. \A p \in Ports : \A l \in labels'[p] : l.node \in Nat
      BY <1>3 DEF Label
    <3> QED BY <1>3, <1>4, <3>1 DEF LabelsFrom, SearchInv, LabelsOK
  <2> QED BY <1>3, <2>1 DEF LabelsOK
<1>6. Settled(c.solver, c.inputs)'
  <2>1. c = Candidate(c.solver, c.inputs)
    BY <1>2 DEF IsCandidate
  <2>2. \A m, l : Dominates(m, l)' = Dominates(m, l)
    BY DEF Dominates, Inflated
  <2> QED BY <1>1, <1>3, <2>1, <2>2, SameCandidate DEF Settled
<1>7. PushedOK' /\ FrontierOK' /\ InCostOrder' /\ KnownsKept'
  BY <1>1, <1>3, <1>5, <1>6, IterationInv DEF LabelsFrom
<1> QED BY <1>1, <1>2, <1>3, <1>4, <1>5, <1>7

LEMMA CommitInv ==
  ASSUME SearchInv, NEW c, Win(c) \/ Extend(c) PROVE SearchInv'
<1>1. Commit(c) /\ inst' = inst
  BY DEF Win, Extend, Commit
<1>2. phase' = "done" \/ (phase' = phase /\ result' = result)
  BY DEF Win, Extend
<1> QED BY <1>1, <1>2, CommitFacts DEF SearchInv

LEMMA ExhaustInv ==
  ASSUME SearchInv, Exhaust PROVE SearchInv'
<1>1. phase' = "done" /\ UNCHANGED <<inst, labels, nodes, frontier>>
  BY DEF Exhaust, Finish
<1>2. Node' = Node
  BY <1>1, SameCandidate DEF Node
<1> QED BY <1>1, <1>2, SameCandidate DEF SearchInv, LabelsOK, FrontierOK

LEMMA NextInv ==
  ASSUME SearchInv, [Next]_vars PROVE SearchInv'
<1>1. CASE UNCHANGED vars
  <2>1. UNCHANGED <<inst, phase, labels, nodes, frontier, pushed, result>>
    BY <1>1 DEF vars
  <2>2. LabelsOK' = LabelsOK /\ KnownsKept' = KnownsKept /\ Node' = Node
    BY <2>1, SameCandidate
       DEF LabelsOK, KnownsKept, KnownLabel, Dominates, Inflated, Node
  <2>3. FrontierOK' = FrontierOK
    BY <2>1, SameCandidate DEF FrontierOK
  <2>4. PushedOK' = PushedOK
    <3>1. \A m, l : Dominates(m, l)' = Dominates(m, l)
      BY DEF Dominates, Inflated
    <3>2. \A n, g : Settled(n, g)' = Settled(n, g)
      BY <2>1, <3>1, SameCandidate DEF Settled
    <3> QED BY <2>1, <3>2, SameCandidate DEF PushedOK
  <2>5. InCostOrder' = InCostOrder
    <3>1. Regenerated' = Regenerated
      BY <2>1 DEF Regenerated, Fresh, Combos, Usable, Solver, InputPorts,
                  Candidate, InputCost, TieKey, Inflated
    <3> QED BY <2>1, <3>1 DEF InCostOrder
  <2> QED BY <2>1, <2>2, <2>3, <2>4, <2>5 DEF SearchInv
<1>2. ASSUME NEW c, Reject(c) \/ Prune(c) \/ Win(c) \/ Extend(c)
      PROVE  SearchInv'
  BY <1>2, PassInv, CommitInv
<1> QED BY <1>1, <1>2, StartInv, ExhaustInv DEF Next, Iterate

\* The search keeps its types: every label is an interval with an eps and a
\* cost, of a node already committed, and every candidate and node names a
\* solver of the registry.
THEOREM SearchTypes == Spec => []TypeOK
<1>1. SearchInv => TypeOK
  <2> SUFFICES ASSUME SearchInv PROVE TypeOK
    OBVIOUS
  <2>1. \A c \in frontier : c.solver \in DOMAIN inst.solvers /\ c.cost \in Nat
    BY CandidateFacts DEF SearchInv, FrontierOK, IsCandidate
  <2>2. \A n \in DOMAIN nodes : nodes[n].solver \in DOMAIN inst.solvers
    <3>1. \A n \in DOMAIN nodes : nodes[n] \in Node
      BY DEF SearchInv
    <3> QED BY <3>1 DEF Node
  <2> QED BY <2>1, <2>2 DEF SearchInv, LabelsOK, TypeOK
<1>2. SearchInv /\ [Next]_vars => SearchInv'
  BY NextInv
<1> QED BY InitInv, <1>1, <1>2, PTL DEF Spec

----------------------------------------------------------------------------
(* Antichains, and the order of the commits.                               *)

\* insert_with_dominance leaves no label of a port that another label of it
\* dominates, in whatever order labels arrive and replace one another.
THEOREM LabelsStayAntichain == Spec => []LabelsAntichain
<1> DEFINE I == DOMAIN labels = Ports /\ \A p \in Ports : Antichain(labels[p])
<1>1. Init => I
  BY DEF Init, Antichain
<1>2. I /\ [Next]_vars => I'
  <2> SUFFICES ASSUME I, [Next]_vars PROVE I'
    OBVIOUS
  <2>1. CASE labels' = labels
    BY <2>1 DEF Antichain
  <2>2. CASE Start
    <3>1. labels' = labels
          \/ labels' = [p \in Ports |-> IF p \in DOMAIN inst.known
                           THEN {KnownLabel(inst.known[p])} ELSE {}]
      BY <2>2 DEF Start
    <3>2. CASE labels' = [p \in Ports |-> IF p \in DOMAIN inst.known
                             THEN {KnownLabel(inst.known[p])} ELSE {}]
      <4>1. \A x : Antichain({x}) /\ Antichain({})
        BY DEF Antichain
      <4>2. \A p \in Ports : labels'[p] = {}
                          \/ labels'[p] = {KnownLabel(inst.known[p])}
        BY <3>2
      <4>3. \A p \in Ports : Antichain(labels'[p])
        BY <4>1, <4>2
      <4> QED BY <3>2, <4>3 DEF Antichain
    <3> QED BY <2>1, <3>1, <3>2
  <2>3. ASSUME NEW c, labels' = Committed(c) PROVE I'
    <3>1. DOMAIN labels' = Ports
          /\ \A p \in Ports : \/ labels'[p] = labels[p]
                              \/ \E l : labels'[p] = Insert(labels[p], l)
      BY <2>3 DEF Committed
    <3>2. \A p \in Ports : Antichain(labels'[p])
      BY <3>1, InsertAntichain
    <3> QED BY <3>1, <3>2 DEF Antichain
  <2> QED BY <2>1, <2>2, <2>3 DEF Next, Iterate, Reject, Prune, Win, Extend,
                                  Commit, Exhaust, vars
<1>3. I => LabelsAntichain
  BY DEF Antichain, LabelsAntichain
<1> HIDE DEF I
<1> QED BY <1>1, <1>2, <1>3, PTL DEF Spec

\* A commit's labels are the dearest there are.
LEMMA NewestDearest ==
  ASSUME SearchInv, [Next]_vars,
         NEW n \in DOMAIN nodes' \ DOMAIN nodes, NEW p \in Ports,
         NEW new \in labels'[p], new.node = n,
         NEW q \in Ports, NEW l \in labels[q]
  PROVE  l.cost <= new.cost
<1>1. nodes' # nodes
  OBVIOUS
<1>2. PICK c : Commit(c)
  BY <1>1 DEF Next, Iterate, Start, Reject, Prune, Win, Extend, Exhaust, vars
<1>3. /\ LabelsFrom(c) /\ Len(nodes') = Len(nodes) + 1 /\ Pop(c)
      /\ DOMAIN nodes' = 1..Len(nodes') /\ DOMAIN nodes = 1..Len(nodes)
      /\ phase = "search"
  BY <1>2, CommitFacts
<1>4. Len(nodes) \in Nat
  BY DEF SearchInv
<1>5. ~ (n <= Len(nodes))
  BY <1>3, <1>4
<1>6. new \notin labels[p]
  BY <1>5 DEF SearchInv, LabelsOK
<1>7. new.cost = c.cost
  BY <1>3, <1>6 DEF LabelsFrom
<1>8. c \in Regenerated
  BY <1>3 DEF Pop
<1> QED BY <1>3, <1>7, <1>8 DEF SearchInv, InCostOrder

\* The search corrects labels in the order of their cost, so the first label
\* of the target inside the budget is the cheapest: a candidate pushed later
\* has an input label committed later, and costs more than it.
THEOREM CommitsOrdered == Spec => CommitsInCostOrder
<1>1. SearchInv /\ [Next]_vars => SearchInv'
  BY NextInv
<1>2. SearchInv /\ [Next]_vars =>
        [\A n \in DOMAIN nodes' \ DOMAIN nodes : \A p \in Ports :
           \A new \in labels'[p] : new.node = n =>
             \A q \in Ports : \A l \in labels[q] : l.cost <= new.cost]_vars
  BY NewestDearest
<1> QED BY InitInv, <1>1, <1>2, PTL DEF Spec, CommitsInCostOrder

----------------------------------------------------------------------------
(* Pruning loses nothing.                                                  *)

\* Better inputs make a candidate that is no dearer, is admitted wherever
\* the other is, and gives better outputs.
LEMMA BetterInputs ==
  ASSUME inst \in Instances, NEW n \in DOMAIN inst.solvers,
         NEW f \in Inputs(n), NEW g \in Inputs(n),
         \A q \in InputPorts(Solver(n)) : Dominates(g[q], f[q])
  PROVE  /\ Candidate(n, g).cost <= Candidate(n, f).cost
         /\ Admitted(Candidate(n, f)) => Admitted(Candidate(n, g))
         /\ \A p \in Solver(n).outputs :
              Dominates(OutputLabel(Candidate(n, g), p, 0),
                        OutputLabel(Candidate(n, f), p, 0))
<1> DEFINE D == InputPorts(Solver(n))
           c == Candidate(n, f)
           d == Candidate(n, g)
           costs(h) == [q \in D |-> h[q].cost]
<1>1. IsFiniteSet(D) /\ ValidSolver(Solver(n)) /\ Solver(n).cost \in Nat
  BY SolverFacts DEF ValidSolver
<1>2. \A h \in Inputs(n) : costs(h) \in [D -> Int] /\ DOMAIN h = D
                         /\ InputCost(h) = Total(costs(h))
                         /\ \A q \in D : costs(h)[q] = h[q].cost
  BY DEF InputCost, Inputs, Label
<1>3. Total(costs(g)) <= Total(costs(f))
  <2>1. \A q \in D : costs(g)[q] <= costs(f)[q]
    BY <1>2 DEF Dominates
  <2> HIDE DEF costs, D
  <2> QED BY <1>1, <1>2, <2>1, TotalMonotone
<1>4. d.cost <= c.cost
  <2>1. /\ d.cost = Solver(n).cost + InputCost(g) /\ InputCost(g) \in Nat
        /\ c.cost = Solver(n).cost + InputCost(f) /\ InputCost(f) \in Nat
    BY CandidateFacts
  <2> HIDE DEF c, d, costs
  <2> QED BY <1>1, <1>2, <1>3, <2>1
<1>5. /\ c.solver = n /\ c.inputs = f /\ d.solver = n /\ d.inputs = g
  BY DEF Candidate
<1>6. Box(c) \in [D -> Interval] /\ Box(d) \in [D -> Interval]
  BY CandidateFacts
<1>7. \A q \in D : Subset(Box(d)[q], Box(c)[q])
  BY <1>2, <1>5 DEF Box, Dominates
<1>8. SumSurrogate(Box(c)) \in Interval /\ SumSurrogate(Box(d)) \in Interval
      /\ Subset(SumSurrogate(Box(d)), SumSurrogate(Box(c)))
  <2> HIDE DEF c, d, D
  <2> QED BY <1>1, <1>6, <1>7, SurrogateFacts
<1>9. ASSUME Admitted(c) PROVE Admitted(d)
  <2>1. \A q \in DOMAIN Solver(n).box \cap D :
          Subset(Box(c)[q], Solver(n).box[q])
    BY <1>2, <1>5, <1>9 DEF Admitted
  <2>2. \A q \in DOMAIN Solver(n).box \cap D :
          /\ Box(c)[q] \in Interval /\ Box(d)[q] \in Interval
          /\ Solver(n).box[q] \in Interval
    BY <1>1, <1>6 DEF ValidSolver
  <2>3. \A q \in DOMAIN Solver(n).box \cap D :
          Subset(Box(d)[q], Solver(n).box[q])
    <3> HIDE DEF c, d, D
    <3> QED BY <1>7, <2>1, <2>2 DEF Subset, Interval
  <2>4. Solver(n).tags \subseteq inst.tags
    BY <1>5, <1>9 DEF Admitted
  <2> HIDE DEF c, d
  <2> QED BY <1>2, <1>5, <2>3, <2>4 DEF Admitted
<1>10. ASSUME NEW p \in Solver(n).outputs
       PROVE  Dominates(OutputLabel(d, p, 0), OutputLabel(c, p, 0))
  <2> DEFINE acc == Solver(n).accuracy[p]
             iv == SumSurrogate(Box(c))
             jv == SumSurrogate(Box(d))
  <2>1. acc \in [abs : Nat, rel : Nat]
    BY <1>1 DEF ValidSolver
  <2>2. /\ OutputLabel(c, p, 0) = [iv |-> iv, eps |-> WorstOver(acc, iv),
                                   cost |-> c.cost, node |-> 0]
        /\ OutputLabel(d, p, 0) = [iv |-> jv, eps |-> WorstOver(acc, jv),
                                   cost |-> d.cost, node |-> 0]
    BY <1>5 DEF OutputLabel
  <2>3. iv \in Interval /\ jv \in Interval /\ Subset(jv, iv)
    BY <1>8
  <2> HIDE DEF iv, jv, acc, c, d
  <2>4. /\ WorstOver(acc, iv) \in Nat /\ WorstOver(acc, jv) \in Nat
        /\ WorstOver(acc, jv) <= WorstOver(acc, iv)
    BY <2>1, <2>3, WorstOverFacts
  <2>5. /\ Inflated(OutputLabel(c, p, 0))
             = <<iv[1] - WorstOver(acc, iv), iv[2] + WorstOver(acc, iv)>>
        /\ Inflated(OutputLabel(d, p, 0))
             = <<jv[1] - WorstOver(acc, jv), jv[2] + WorstOver(acc, jv)>>
        /\ OutputLabel(c, p, 0).cost = c.cost
        /\ OutputLabel(d, p, 0).cost = d.cost
    BY <2>2 DEF Inflated, Inflate
  <2>6. iv[1] \in Int /\ iv[2] \in Int /\ jv[1] \in Int /\ jv[2] \in Int
        /\ iv[1] <= jv[1] /\ jv[2] <= iv[2]
    BY <2>3 DEF Interval, Subset
  <2> QED BY <1>4, <2>4, <2>5, <2>6 DEF Dominates, Subset
<1> QED BY <1>4, <1>9, <1>10

KnownPairs == {<<p, KnownLabel(inst.known[p])>> : p \in DOMAIN inst.known}

Rounds(R, k, max) ==
  R = [j \in 0..k |-> IF j = 0 THEN KnownPairs ELSE Derived(R[j - 1], max)]

LEMMA RoundsExist ==
  ASSUME NEW max, NEW k \in Nat PROVE \E R : Rounds(R, k, max)
<1> DEFINE Q == {j \in Nat : ~ \E R : Rounds(R, j, max)}
<1>1. SUFFICES ASSUME Q # {} PROVE FALSE
  OBVIOUS
<1>2. PICK n \in Q : \A j \in Q : n <= j
  <2>1. Q \in SUBSET Nat
    OBVIOUS
  <2> HIDE DEF Q
  <2> QED BY <1>1, <2>1, NatHasLeast
<1>3. n \in Nat /\ ~ \E R : Rounds(R, n, max)
  BY <1>2
<1>4. n # 0
  <2> DEFINE R == [j \in 0..0 |-> KnownPairs]
  <2>1. R = [j \in 0..0 |-> IF j = 0 THEN KnownPairs
                            ELSE Derived(R[j - 1], max)]
    OBVIOUS
  <2>2. Rounds(R, 0, max)
    <3> HIDE DEF R
    <3> QED BY <2>1 DEF Rounds
  <2> QED BY <1>3, <2>2
<1>5. PICK R : Rounds(R, n - 1, max)
  <2>1. n - 1 \in Nat /\ ~ (n <= n - 1)
    BY <1>3, <1>4
  <2> QED BY <1>2, <2>1
<1> HIDE DEF Q
<1> DEFINE S == [j \in 0..n |-> IF j = n THEN Derived(R[n - 1], max) ELSE R[j]]
<1>6. \A j \in 0..(n - 1) :
        R[j] = IF j = 0 THEN KnownPairs ELSE Derived(R[j - 1], max)
  <2> DEFINE T == [j \in 0..(n - 1) |->
                     IF j = 0 THEN KnownPairs ELSE Derived(R[j - 1], max)]
  <2>1. R = T
    BY <1>5 DEF Rounds
  <2>2. \A j \in 0..(n - 1) :
          T[j] = IF j = 0 THEN KnownPairs ELSE Derived(R[j - 1], max)
    OBVIOUS
  <2> HIDE DEF T
  <2> QED BY <2>1, <2>2
<1>7. \A j \in 0..(n - 1) : S[j] = R[j] /\ S[n] = Derived(R[n - 1], max)
  BY <1>3, <1>4
<1>8. ASSUME NEW j \in 0..n
      PROVE  S[j] = IF j = 0 THEN KnownPairs ELSE Derived(S[j - 1], max)
  <2>1. CASE j = n
    <3>1. n - 1 \in 0..(n - 1)
      BY <1>3, <1>4
    <3>2. S[n] = Derived(R[n - 1], max) /\ S[n - 1] = R[n - 1]
      BY <1>7, <3>1
    <3> HIDE DEF S
    <3> QED BY <1>4, <2>1, <3>2
  <2>2. CASE j # n
    <3>1. j \in 0..(n - 1) /\ (j # 0 => j - 1 \in 0..(n - 1))
      BY <1>3, <2>2
    <3>2. S[j] = R[j] /\ (j # 0 => S[j - 1] = R[j - 1])
      BY <1>7, <3>1
    <3> HIDE DEF S
    <3> QED BY <1>6, <3>1, <3>2
  <2> QED BY <2>1, <2>2
<1>9. S = [j \in 0..n |-> IF j = 0 THEN KnownPairs ELSE Derived(S[j - 1], max)]
  <2>1. S = [j \in 0..n |-> S[j]]
    OBVIOUS
  <2> HIDE DEF S
  <2> QED BY <1>8, <2>1
<1>10. Rounds(S, n, max)
  <2> HIDE DEF S
  <2> QED BY <1>9 DEF Rounds
<1> QED BY <1>3, <1>10

\* Unpruned is what max rounds come to.
LEMMA UnprunedIs ==
  ASSUME NEW max \in Nat
  PROVE  \E R : /\ Unpruned(max) = R[max] /\ R[0] = KnownPairs
                /\ \A k \in 1..max : R[k] = Derived(R[k - 1], max)
<1> DEFINE R == CHOOSE R : Rounds(R, max, max)
<1>1. Rounds(R, max, max)
  BY RoundsExist
<1>2. Unpruned(max) = R[max]
  BY DEF Unpruned, Rounds, KnownPairs
<1> HIDE DEF R
<1> DEFINE T == [j \in 0..max |->
                   IF j = 0 THEN KnownPairs ELSE Derived(R[j - 1], max)]
<1>3. R = T
  BY <1>1 DEF Rounds
<1>4. T[0] = KnownPairs /\ \A k \in 1..max : T[k] = Derived(R[k - 1], max)
  OBVIOUS
<1> HIDE DEF T
<1> QED BY <1>2, <1>3, <1>4

\* A derivation some label of its port dominates.
Matched(x, max) ==
  /\ x[1] \in Ports /\ x[2] \in Label /\ x[2].cost <= max
  /\ \E m \in labels[x[1]] : Dominates(m, x[2])

\* One round derives nothing that the labels do not dominate, as long as
\* every candidate that waits, or is still to be pushed, is dearer than max:
\* the combination of the dominating labels has been pushed, is settled, and
\* its outputs dominate what the round derives.
LEMMA RoundMatched ==
  ASSUME SearchInv, phase = "search", NEW max \in Nat,
         \A d \in Regenerated : ~ (d.cost <= max),
         NEW L, \A x \in L : Matched(x, max),
         NEW y \in Derived(L, max)
  PROVE  Matched(y, max)
<1>1. CASE y \in L
  BY <1>1
<1>2. CASE y \notin L
  <2>1. PICK n \in DOMAIN inst.solvers :
          /\ Usable(Solver(n))
          /\ \E p \in Solver(n).outputs : \E f :
               /\ f \in [InputPorts(Solver(n)) ->
                           {x[2] : x \in {z \in L :
                                            z[1] \in InputPorts(Solver(n))}}]
               /\ \A q \in InputPorts(Solver(n)) : <<q, f[q]>> \in L
               /\ Candidate(n, f).cost <= max /\ Admitted(Candidate(n, f))
               /\ y = <<p, OutputLabel(Candidate(n, f), p, 0)>>
    <3> DEFINE combos(s) ==
                 {f \in [InputPorts(s) ->
                            {x[2] : x \in {z \in L :
                                             z[1] \in InputPorts(s)}}] :
                    \A q \in InputPorts(s) : <<q, f[q]>> \in L}
               candidate(n, f) ==
                 [solver |-> n, inputs |-> f,
                  cost |-> Solver(n).cost
                             + Total([q \in DOMAIN f |-> f[q].cost])]
               open == {n \in DOMAIN inst.solvers :
                          \/ Solver(n).conservative_for = "both"
                          \/ Solver(n).conservative_for = inst.sense
                               /\ inst.target \in Solver(n).outputs}
               admitted(n) ==
                 {c \in {candidate(n, f) : f \in combos(Solver(n))} :
                    c.cost <= max /\ Admitted(c)}
               derived(n) == {<<p, OutputLabel(c, p, 0)>> :
                                c \in admitted(n), p \in Solver(n).outputs}
    <3>1. Derived(L, max) = L \cup UNION {derived(n) : n \in open}
      BY DEF Derived
    <3>2. \A n, f : candidate(n, f) = Candidate(n, f)
      BY DEF Candidate, InputCost
    <3>3. \A n \in open : n \in DOMAIN inst.solvers /\ Usable(Solver(n))
      BY DEF Usable
    <3> HIDE DEF open, candidate
    <3>4. PICK n \in open : y \in derived(n)
      <4> HIDE DEF derived
      <4> QED BY <1>2, <3>1
    <3>5. PICK c \in admitted(n), p \in Solver(n).outputs :
            y = <<p, OutputLabel(c, p, 0)>>
      BY <3>4
    <3>6. PICK f \in combos(Solver(n)) : c = candidate(n, f)
      BY <3>5
    <3>7. c.cost <= max /\ Admitted(c)
      BY <3>5
    <3> HIDE DEF admitted, derived
    <3>8. c = Candidate(n, f)
      BY <3>2, <3>6
    <3>9. /\ f \in [InputPorts(Solver(n)) ->
                      {x[2] : x \in {z \in L :
                                       z[1] \in InputPorts(Solver(n))}}]
          /\ \A q \in InputPorts(Solver(n)) : <<q, f[q]>> \in L
      BY <3>6
    <3> HIDE DEF combos
    <3> QED BY <3>3, <3>5, <3>7, <3>8, <3>9
  <2>2. PICK p \in Solver(n).outputs : \E f :
               /\ f \in [InputPorts(Solver(n)) ->
                           {x[2] : x \in {z \in L :
                                            z[1] \in InputPorts(Solver(n))}}]
               /\ \A q \in InputPorts(Solver(n)) : <<q, f[q]>> \in L
               /\ Candidate(n, f).cost <= max /\ Admitted(Candidate(n, f))
               /\ y = <<p, OutputLabel(Candidate(n, f), p, 0)>>
    BY <2>1
  <2>3. PICK f :
          /\ f \in [InputPorts(Solver(n)) ->
                      {x[2] : x \in {z \in L :
                                       z[1] \in InputPorts(Solver(n))}}]
          /\ \A q \in InputPorts(Solver(n)) : <<q, f[q]>> \in L
          /\ Candidate(n, f).cost <= max /\ Admitted(Candidate(n, f))
          /\ y = <<p, OutputLabel(Candidate(n, f), p, 0)>>
    BY <2>2
  <2> DEFINE D == InputPorts(Solver(n))
  <2>4. /\ inst \in Instances /\ D \subseteq Ports
        /\ Solver(n).outputs \subseteq Ports
        /\ \A q \in Ports : labels[q] \in SUBSET Label
    BY SolverFacts DEF SearchInv, ValidSolver, LabelsOK
  <2>5. \A q \in D : /\ f[q] \in Label
                     /\ \E m \in labels[q] : Dominates(m, f[q])
    <3>1. \A q \in D : Matched(<<q, f[q]>>, max)
      BY <2>3
    <3> HIDE DEF D
    <3> QED BY <3>1 DEF Matched
  <2>6. f \in Inputs(n)
    BY <2>3, <2>5 DEF Inputs
  <2> DEFINE g == [q \in D |-> CHOOSE m \in labels[q] : Dominates(m, f[q])]
  <2>7. \A q \in D : g[q] \in labels[q] /\ Dominates(g[q], f[q])
    BY <2>5
  <2>8. g \in Inputs(n) /\ g \in Combos(Solver(n))
    <3>1. DOMAIN g = D /\ g = [q \in D |-> g[q]]
      OBVIOUS
    <3> HIDE DEF g
    <3> QED BY <2>4, <2>7, <3>1 DEF Inputs, Combos
  <2> HIDE DEF g
  <2>9. Candidate(n, g).cost <= max
    <3>1. Candidate(n, g).cost <= Candidate(n, f).cost
      BY <2>4, <2>6, <2>7, <2>8, BetterInputs
    <3>2. Candidate(n, g).cost \in Nat /\ Candidate(n, f).cost \in Nat
      BY <2>4, <2>6, <2>8, CandidateFacts
    <3> QED BY <2>3, <3>1, <3>2
  <2>10. <<n, TieKey(g)>> \in pushed
    <3> SUFFICES ASSUME <<n, TieKey(g)>> \notin pushed PROVE FALSE
      OBVIOUS
    <3>1. <<n, g>> \in Fresh
      BY <2>1, <2>8 DEF Fresh
    <3>2. Candidate(n, g) \in Regenerated
      BY <3>1 DEF Regenerated
    <3> QED BY <2>9, <3>2
  <2>11. PICK h \in Inputs(n) :
           /\ TieKey(h) = TieKey(g)
           /\ Candidate(n, h) \in frontier \/ Settled(n, h)
    <3>1. PICK k \in DOMAIN inst.solvers : \E h \in Inputs(k) :
            /\ <<n, TieKey(g)>> = <<k, TieKey(h)>>
            /\ Candidate(k, h) \in frontier \/ Settled(k, h)
      BY <2>10 DEF SearchInv, PushedOK
    <3>2. k = n
      BY <3>1
    <3> QED BY <3>1, <3>2
  <2>12. \A q \in D : /\ Inflated(h[q]) = Inflated(g[q])
                      /\ h[q].cost = g[q].cost
    <3>1. DOMAIN g = D /\ DOMAIN h = D
      BY <2>8 DEF Inputs
    <3>2. \A q \in D : /\ TieKey(g)[q] = <<Inflated(g[q]), g[q].cost>>
                       /\ TieKey(h)[q] = <<Inflated(h[q]), h[q].cost>>
      BY <3>1 DEF TieKey
    <3> QED BY <2>11, <3>2
  <2>13. \A q \in D : Dominates(h[q], f[q])
    BY <2>7, <2>12 DEF Dominates
  <2>14. /\ Candidate(n, h).cost <= Candidate(n, f).cost
         /\ Admitted(Candidate(n, h))
         /\ Dominates(OutputLabel(Candidate(n, h), p, 0),
                      OutputLabel(Candidate(n, f), p, 0))
    BY <2>3, <2>4, <2>6, <2>13, BetterInputs
  <2>15. Candidate(n, h) \notin frontier
    <3>1. Candidate(n, h).cost \in Nat /\ Candidate(n, f).cost \in Nat
      BY <2>4, <2>6, CandidateFacts
    <3>2. Candidate(n, h).cost <= max
      BY <2>3, <2>14, <3>1
    <3> QED BY <3>2 DEF Regenerated
  <2>16. PICK m \in labels[p] :
           Dominates(m, OutputLabel(Candidate(n, h), p, 0))
    BY <2>11, <2>14, <2>15 DEF Settled
  <2>17. /\ OutputLabel(Candidate(n, h), p, 0) \in Label
         /\ OutputLabel(Candidate(n, f), p, 0) \in Label
    BY <2>4, <2>6, CandidateFacts
  <2>18. Dominates(m, OutputLabel(Candidate(n, f), p, 0))
    BY <2>4, <2>14, <2>16, <2>17, DominanceOrders
  <2>19. OutputLabel(Candidate(n, f), p, 0).cost = Candidate(n, f).cost
    BY DEF OutputLabel
  <2>20. y[1] = p /\ y[2] = OutputLabel(Candidate(n, f), p, 0) /\ p \in Ports
    BY <2>3, <2>4
  <2> QED BY <2>3, <2>17, <2>18, <2>19, <2>20 DEF Matched
<1> QED BY <1>1, <1>2

\* So every derivation up to max is dominated by a label.
LEMMA AllMatched ==
  ASSUME SearchInv, phase = "search", NEW max \in Nat,
         \A d \in Regenerated : ~ (d.cost <= max)
  PROVE  \A x \in Unpruned(max) : Matched(x, max)
<1>1. PICK R : /\ Unpruned(max) = R[max] /\ R[0] = KnownPairs
               /\ \A k \in 1..max : R[k] = Derived(R[k - 1], max)
  BY UnprunedIs
<1> DEFINE Q == {k \in 0..max : ~ \A x \in R[k] : Matched(x, max)}
<1>2. SUFFICES ASSUME Q # {} PROVE FALSE
  BY <1>1
<1>3. PICK k \in Q : \A j \in Q : k <= j
  <2>1. Q \in SUBSET Nat
    OBVIOUS
  <2> HIDE DEF Q
  <2> QED BY <1>2, <2>1, NatHasLeast
<1>4. k \in 0..max /\ ~ \A x \in R[k] : Matched(x, max)
  BY <1>3
<1>5. CASE k = 0
  <2>1. ASSUME NEW p \in DOMAIN inst.known
        PROVE  Matched(<<p, KnownLabel(inst.known[p])>>, max)
    <3> DEFINE l == KnownLabel(inst.known[p])
    <3>1. l \in Label /\ p \in Ports /\ l.cost = 0
      BY KnownLabels DEF SearchInv, KnownLabel
    <3>2. \E m \in labels[p] : Dominates(m, l)
      BY DEF SearchInv, KnownsKept
    <3> HIDE DEF l
    <3>3. Matched(<<p, l>>, max)
      BY <3>1, <3>2 DEF Matched
    <3> QED BY <3>3 DEF l
  <2> QED BY <1>1, <1>4, <1>5, <2>1 DEF KnownPairs
<1>6. CASE k # 0
  <2>1. k - 1 \in 0..max /\ ~ (k <= k - 1) /\ k \in 1..max
    BY <1>4, <1>6
  <2>2. \A x \in R[k - 1] : Matched(x, max)
    BY <1>3, <2>1
  <2>3. R[k] = Derived(R[k - 1], max)
    BY <1>1, <2>1
  <2> HIDE DEF Q
  <2>4. \A y \in Derived(R[k - 1], max) : Matched(y, max)
    BY <2>2, RoundMatched
  <2> QED BY <1>4, <2>3, <2>4
<1> QED BY <1>5, <1>6

\* A label that dominates another has the smaller total error.
LEMMA DominatesError ==
  ASSUME NEW m \in Label, NEW l \in Label, Dominates(m, l)
  PROVE  /\ TotalError(m.iv, m.eps) \in Nat /\ TotalError(l.iv, l.eps) \in Nat
         /\ TotalError(m.iv, m.eps) <= TotalError(l.iv, l.eps)
<1>1. /\ m.iv[1] \in Int /\ m.iv[2] \in Int /\ m.eps \in Nat
      /\ m.iv[1] <= m.iv[2]
      /\ l.iv[1] \in Int /\ l.iv[2] \in Int /\ l.eps \in Nat
      /\ l.iv[1] <= l.iv[2]
  BY DEF Label, Interval
<1>2. /\ l.iv[1] - l.eps <= m.iv[1] - m.eps
      /\ m.iv[2] + m.eps <= l.iv[2] + l.eps
  BY InflatedInterval DEF Dominates, Subset
<1> QED BY <1>1, <1>2 DEF TotalError

\* What PruningLosesNothing says, of the derivations up to max of port t.
NothingLost(t, max) ==
  /\ result.kind = "Ok" /\ result.label.cost > 0 /\ t = inst.target
       /\ max = Min2(MaxCost, result.label.cost - 1)
     => \A l \in UnprunedFor(t, max) : ~ WithinBudget(l)
  /\ result.kind \in {"BudgetUnreachable", "NoApplicableSolver"}
       /\ t = inst.target /\ max = MaxCost
     => \A l \in UnprunedFor(t, max) :
          result.kind = "BudgetUnreachable"
            /\ TotalError(l.iv, l.eps) >= result.best

\* The derivations are those of the request.
LEMMA SameUnpruned ==
  ASSUME inst' = inst
  PROVE  \A t, max : UnprunedFor(t, max)' = UnprunedFor(t, max)
BY DEF UnprunedFor, Unpruned, Derived, InputPorts, Solver, Admitted, Box,
       OutputLabel, KnownLabel

\* The cheapest label in budget is cheaper than every derivation in budget:
\* such a derivation, cheaper than the candidate just popped, was dominated
\* by a label before, and still is.
LEMMA WinLosesNothing ==
  ASSUME SearchInv, NEW c, Win(c), NEW t, NEW max PROVE NothingLost(t, max)'
<1>1. /\ Commit(c) /\ inst' = inst /\ inst \in Instances
      /\ phase = "search" /\ Pop(c) /\ LabelsKept /\ LabelsFrom(c)
      /\ LabelsOK' /\ IsCandidate(c)
  BY CommitFacts DEF Win, Commit, SearchInv
<1>2. PICK w \in labels'[inst.target] :
        /\ \A m \in labels'[inst.target] : WithinBudget(m)' => w.cost <= m.cost
        /\ result'.kind = "Ok" /\ result'.label = w
  BY <1>1 DEF Win, Ok, Cheapest, WithinBudget
<1> SUFFICES ASSUME t = inst.target, result'.label.cost > 0,
                    max = Min2(MaxCost, result'.label.cost - 1),
                    NEW l \in UnprunedFor(t, max), WithinBudget(l)
             PROVE  FALSE
  <2>1. \A l \in UnprunedFor(t, max) : WithinBudget(l)' = WithinBudget(l)
    BY <1>1 DEF WithinBudget
  <2> QED BY <1>1, <1>2, <2>1, SameUnpruned DEF NothingLost
<1>3. inst.target \in Ports /\ MaxCost \in Nat
  BY <1>1, InstancesAssumption
<1>4. \A m \in labels'[inst.target] : m \in Label
  BY <1>1, <1>3 DEF LabelsOK
<1>5. w.cost \in Nat \ {0} /\ c.cost \in Nat
  BY <1>1, <1>2, <1>4, CandidateFacts DEF Label, IsCandidate
<1>6. max \in Nat /\ max < w.cost
  BY <1>2, <1>3, <1>5 DEF Min2
<1>7. w.cost <= c.cost
  BY <1>1, <1>3, <1>5 DEF LabelsFrom, SearchInv, InCostOrder, Pop
<1>8. \A d \in Regenerated : ~ (d.cost <= max)
  <2>1. \A d \in Regenerated : d.cost \in Nat
    BY <1>1, RegeneratedOK, CandidateFacts DEF IsCandidate
  <2>2. \A d \in Regenerated : c.cost <= d.cost
    BY <1>1, <1>5, <2>1 DEF Pop, First
  <2> QED BY <1>5, <1>6, <1>7, <2>1, <2>2
<1>9. l \in Label /\ l.cost <= max /\ \E m \in labels[t] : Dominates(m, l)
  <2>1. PICK x \in Unpruned(max) : x[1] = t /\ x[2] = l
    BY DEF UnprunedFor
  <2> QED BY <1>1, <1>6, <1>8, <2>1, AllMatched DEF Matched
<1>10. PICK m \in labels[t] : Dominates(m, l)
  BY <1>9
<1>11. PICK k \in labels'[t] : Dominates(k, m)
  BY <1>1, <1>3 DEF LabelsKept
<1>12. k \in Label /\ m \in Label
  BY <1>3, <1>4 DEF SearchInv, LabelsOK
<1>13. Dominates(k, l)
  BY <1>9, <1>10, <1>11, <1>12, DominanceOrders
<1>14. inst.budget \in Int
  BY <1>1, InstancesAssumption
<1>15. WithinBudget(k)'
  BY <1>1, <1>9, <1>12, <1>13, <1>14, DominatesError DEF WithinBudget
<1>16. w.cost <= k.cost
  BY <1>2, <1>11, <1>15
<1>17. k.cost <= l.cost /\ k.cost \in Nat /\ l.cost \in Nat
  BY <1>9, <1>12, <1>13 DEF Dominates, Label
<1> QED BY <1>5, <1>6, <1>9, <1>16, <1>17

\* When nothing is left to pop, every derivation is dominated by a label, so
\* the least error of the target's labels is the least there is.
LEMMA ExhaustLosesNothing ==
  ASSUME SearchInv, Exhaust, NEW t, NEW max PROVE NothingLost(t, max)'
<1>1. /\ phase = "search" /\ Regenerated = {} /\ inst' = inst
      /\ inst \in Instances
  BY DEF Exhaust, SearchInv
<1> DEFINE errors == {TotalError(l.iv, l.eps) : l \in labels[inst.target]}
<1>2. result' = IF errors = {} THEN Err("NoApplicableSolver", 0)
                ELSE Err("BudgetUnreachable",
                         CHOOSE e \in errors : \A f \in errors : e <= f)
  BY DEF Exhaust, Finish
<1>3. inst.target \in Ports /\ MaxCost \in Nat
  BY <1>1, InstancesAssumption
<1>4. labels[inst.target] \in SUBSET Label
  BY <1>3 DEF SearchInv, LabelsOK
<1>5. errors \in SUBSET Nat
  BY <1>4, DominatesError, DominanceOrders
<1> HIDE DEF errors
<1>6. errors # {} => /\ result'.kind = "BudgetUnreachable"
                     /\ result'.best \in errors
                     /\ \A e \in errors : result'.best <= e
  <2>1. errors # {} => \E e \in errors : \A f \in errors : e <= f
    BY <1>5, NatHasLeast
  <2> QED BY <1>2, <2>1 DEF Err
<1>7. result'.kind # "Ok"
  BY <1>2 DEF Err
<1> SUFFICES ASSUME t = inst.target, max = MaxCost,
                    NEW l \in UnprunedFor(t, max)
             PROVE  /\ result'.kind = "BudgetUnreachable"
                    /\ TotalError(l.iv, l.eps) >= result'.best
  BY <1>1, <1>7, SameUnpruned DEF NothingLost
<1>8. l \in Label /\ \E m \in labels[t] : Dominates(m, l)
  <2>1. PICK x \in Unpruned(max) : x[1] = t /\ x[2] = l
    BY DEF UnprunedFor
  <2> QED BY <1>1, <1>3, <2>1, AllMatched DEF Matched
<1>9. PICK m \in labels[t] : Dominates(m, l)
  BY <1>8
<1>10. /\ TotalError(m.iv, m.eps) <= TotalError(l.iv, l.eps)
       /\ TotalError(m.iv, m.eps) \in Nat /\ TotalError(l.iv, l.eps) \in Nat
  BY <1>4, <1>8, <1>9, DominatesError
<1>11. TotalError(m.iv, m.eps) \in errors
  BY DEF errors
<1>12. result'.kind = "BudgetUnreachable" /\ result'.best \in Nat
       /\ result'.best <= TotalError(m.iv, m.eps)
  BY <1>5, <1>6, <1>11
<1> DEFINE em == TotalError(m.iv, m.eps)
           el == TotalError(l.iv, l.eps)
<1>13. em <= el /\ em \in Nat /\ el \in Nat /\ result'.best <= em
  BY <1>10, <1>12
<1> HIDE DEF em, el
<1>14. el >= result'.best
  BY <1>12, <1>13
<1> QED BY <1>12, <1>14 DEF el

LEMMA NothingLostKept ==
  ASSUME SearchInv, [Next]_vars, NEW t, NEW max, NothingLost(t, max)
  PROVE  NothingLost(t, max)'
<1>1. inst' = inst
  BY DEF Next, Start, Iterate, Reject, Prune, Win, Extend, Commit, Exhaust,
         vars
<1>2. CASE result' = result
  BY <1>1, <1>2, SameUnpruned DEF NothingLost, WithinBudget
<1>3. CASE Start
  <2>1. \/ result' = result
        \/ result'.kind \in {"InvalidBudget", "UnknownTarget",
                             "CyclicPortEquivalence"}
        \/ result'.kind = "Ok" /\ result'.label.cost = 0
    BY <1>3 DEF Start, Finish, Ok, Err, KnownLabel
  <2>2. CASE result' # result
    BY <2>1, <2>2 DEF NothingLost
  <2> QED BY <1>2, <2>2
<1>4. ASSUME NEW c, Reject(c) \/ Prune(c) \/ Extend(c) PROVE result' = result
  BY <1>4 DEF Reject, Prune, Extend
<1> QED BY <1>2, <1>3, <1>4, WinLosesNothing, ExhaustLosesNothing
        DEF Next, Iterate, vars

\* Pareto pruning, tie keys, candidates never pushed twice and the return at
\* the first label in budget lose nothing: no derivation of the target up to
\* MaxCost, for any MaxCost, would have met the budget at a lower cost than
\* the Route's label, and when the budget is called unreachable none has a
\* smaller error than the best_eps reported.
THEOREM NothingIsLost == Spec => []PruningLosesNothing
<1> DEFINE I == SearchInv /\ \A t, max : NothingLost(t, max)
<1>1. Init => I
  <2>1. Init => \A t, max : NothingLost(t, max)
    BY DEF Init, Err, NothingLost
  <2> QED BY <2>1, InitInv
<1>2. I /\ [Next]_vars => I'
  BY NextInv, NothingLostKept
<1>3. I => PruningLosesNothing
  BY DEF NothingLost, PruningLosesNothing
<1> HIDE DEF I
<1> QED BY <1>1, <1>2, <1>3, PTL DEF Spec

----------------------------------------------------------------------------
(* A Route replays.                                                        *)

\* Label l of port q is the one that node n, made of `node`, gave it.
Given(q, l, node, n) ==
  /\ q \in Solver(node.solver).outputs
  /\ l = OutputLabel(Candidate(node.solver, node.inputs), q, n)

\* Label l of port q is known, or one of the first k nodes gave it.
Backed(q, l, k) ==
  \/ q \in DOMAIN inst.known /\ l = KnownLabel(inst.known[q])
  \/ \E n \in 1..k : l.node = n /\ Given(q, l, nodes[n], n)

BackedInputs(s, f, k) == \A p \in InputPorts(Solver(s)) : Backed(p, f[p], k)

\* A node was admitted with inputs that were there before it.
NodeBacked(n) ==
  /\ nodes[n].inputs \in Inputs(nodes[n].solver)
  /\ Admitted(Candidate(nodes[n].solver, nodes[n].inputs))
  /\ BackedInputs(nodes[n].solver, nodes[n].inputs, n - 1)

\* Each step comes after the nodes that gave it its inputs.
InOrder(steps) ==
  /\ steps \in Seq(1..Len(nodes))
  /\ \A j \in 1..Len(steps) : \A i \in DOMAIN Children(steps[j]) :
       Children(steps[j])[i] # 0 =>
         \E h \in 1..Len(steps) : h < j /\ steps[h] = Children(steps[j])[i]

\* The Route holds the node of the winning label, which is in the budget.
RouteBacked ==
  result.kind = "Ok" /\ inst.target \notin DOMAIN inst.known =>
    /\ InOrder(result.steps)
    /\ Backed(inst.target, result.label, Len(nodes)) /\ WithinBudget(result.label)
    /\ \E j \in 1..Len(result.steps) : result.steps[j] = result.label.node

BackedInv ==
  /\ \A n \in 1..Len(nodes) : NodeBacked(n)
  /\ \A q \in Ports : \A l \in labels[q] : Backed(q, l, Len(nodes))
  /\ \A c \in frontier : BackedInputs(c.solver, c.inputs, Len(nodes))
  /\ RouteBacked

Afters(v, child, seen, a) ==
  a = [i \in 0..Len(child) |->
         IF i = 0 THEN seen
         ELSE IF child[i] = 0 THEN a[i - 1] ELSE v[child[i]][a[i - 1]]]
After(v, child, seen) == (CHOOSE a : Afters(v, child, seen, a))[Len(child)]

Visit(v, N, m) ==
  [seen \in Seq(1..N) |->
     IF m \in Range(seen) THEN seen ELSE Append(After(v, Children(m), seen), m)]
Visits(N, k, v) == v = [m \in 1..k |-> Visit(v, N, m)]

LEMMA WalkIs ==
  ASSUME NEW n
  PROVE  Walk(n) = (CHOOSE v : Visits(Len(nodes), Len(nodes), v))[n][<<>>]
BY DEF Walk, Visits, Visit, After, Afters

LEMMA AfterAgree ==
  ASSUME NEW v, NEW w, NEW child, NEW seen, Len(child) \in Nat,
         \A i \in 1..Len(child) : child[i] # 0 => v[child[i]] = w[child[i]]
  PROVE  After(v, child, seen) = After(w, child, seen)
<1>1. ASSUME NEW a PROVE Afters(v, child, seen, a) <=> Afters(w, child, seen, a)
  <2> DEFINE F(u) == [i \in 0..Len(child) |->
         IF i = 0 THEN seen
         ELSE IF child[i] = 0 THEN a[i - 1] ELSE u[child[i]][a[i - 1]]]
  <2>1. F(v) = F(w)
    OBVIOUS
  <2> QED BY <2>1 DEF Afters
<1> HIDE DEF Afters
<1>2. (CHOOSE a : Afters(v, child, seen, a)) = (CHOOSE a : Afters(w, child, seen, a))
  BY <1>1
<1> QED BY <1>2 DEF After

\* What holds of 0, and of k + 1 whenever it holds of k below n, holds up to n:
\* S is the set of those it holds of.
LEMMA UpTo ==
  ASSUME NEW n \in Nat, NEW S, 0 \in S,
         \A k \in Nat : k < n /\ k \in S => k + 1 \in S
  PROVE  \A k \in 0..n : k \in S
<1> DEFINE Bad == {k \in 0..n : k \notin S}
<1>1. SUFFICES ASSUME Bad # {} PROVE FALSE
  OBVIOUS
<1>2. PICK k \in Bad : \A j \in Bad : k <= j
  <2>1. Bad \in SUBSET Nat
    OBVIOUS
  <2> HIDE DEF Bad
  <2> QED BY <1>1, <2>1, NatHasLeast
<1>3. k \in Nat /\ k # 0 /\ k - 1 \in Nat /\ k - 1 < n /\ k - 1 \notin Bad
  BY <1>2
<1>4. k - 1 \in S
  BY <1>2, <1>3
<1> QED BY <1>2, <1>3, <1>4

\* There is the sequence of what is seen after each child, and it is as defined.
LEMMA AftersExist ==
  ASSUME NEW v, NEW child, NEW seen, Len(child) \in Nat
  PROVE  \E a : Afters(v, child, seen, a)
<1> DEFINE F(k, a) == [i \in 0..k |->
             IF i = 0 THEN seen
             ELSE IF child[i] = 0 THEN a[i - 1] ELSE v[child[i]][a[i - 1]]]
           S == {k \in Nat : \E a : a = F(k, a)}
<1>1. 0 \in S
  <2>1. [i \in 0..0 |-> seen] = F(0, [i \in 0..0 |-> seen])
    OBVIOUS
  <2> QED BY <2>1
<1>2. ASSUME NEW k \in Nat, k \in S PROVE k + 1 \in S
  <2>1. PICK a : a = F(k, a)
    BY <1>2
  <2> DEFINE b == [i \in 0..k + 1 |->
                     IF i <= k THEN a[i]
                     ELSE IF child[i] = 0 THEN a[i - 1] ELSE v[child[i]][a[i - 1]]]
  <2>2. \A i \in 0..k : a[i] = IF i = 0 THEN seen
             ELSE IF child[i] = 0 THEN a[i - 1] ELSE v[child[i]][a[i - 1]]
    <3> DEFINE h == F(k, a)
    <3>1. \A i \in 0..k : h[i] = IF i = 0 THEN seen
             ELSE IF child[i] = 0 THEN a[i - 1] ELSE v[child[i]][a[i - 1]]
      OBVIOUS
    <3> HIDE DEF h
    <3> QED BY <2>1, <3>1 DEF h
  <2>3. \A i \in 0..k + 1 : b[i] = IF i <= k THEN a[i]
                     ELSE IF child[i] = 0 THEN a[i - 1] ELSE v[child[i]][a[i - 1]]
    OBVIOUS
  <2>4. DOMAIN b = 0..k + 1 /\ b = [i \in 0..k + 1 |-> b[i]]
    OBVIOUS
  <2> HIDE DEF b, F
  <2>5. \A i \in 0..k + 1 : b[i] = IF i = 0 THEN seen
             ELSE IF child[i] = 0 THEN b[i - 1] ELSE v[child[i]][b[i - 1]]
    <3> SUFFICES ASSUME NEW i \in 0..k + 1
                 PROVE  b[i] = IF i = 0 THEN seen
                   ELSE IF child[i] = 0 THEN b[i - 1] ELSE v[child[i]][b[i - 1]]
      OBVIOUS
    <3>1. CASE i = 0
      BY <2>2, <2>3, <3>1
    <3>2. CASE i # 0
      <4>1. i - 1 \in 0..k /\ i - 1 \in 0..k + 1 /\ i - 1 <= k
        BY <3>2
      <4>2. b[i - 1] = a[i - 1]
        BY <2>3, <4>1
      <4>3. CASE i <= k
        BY <2>2, <2>3, <3>2, <4>2, <4>3
      <4>4. CASE ~ (i <= k)
        BY <2>3, <3>2, <4>2, <4>4
      <4> QED BY <4>3, <4>4
    <3> QED BY <3>1, <3>2
  <2>6. b = F(k + 1, b)
    BY <2>4, <2>5 DEF F
  <2> QED BY <2>6
<1>3. Len(child) \in S
  <2> HIDE DEF S
  <2>1. \A k \in Nat : k < Len(child) /\ k \in S => k + 1 \in S
    BY <1>2
  <2>2. \A k \in 0..Len(child) : k \in S
    BY <1>1, <2>1, UpTo
  <2> QED BY <2>2
<1> QED BY <1>3 DEF Afters

\* after[0] is what was seen before, after[i] what the i-th child leaves.
LEMMA AfterAt ==
  ASSUME NEW v, NEW child, NEW seen, Len(child) \in Nat
  PROVE  \E a : /\ a[0] = seen /\ a[Len(child)] = After(v, child, seen)
                /\ \A i \in 1..Len(child) :
                     a[i] = IF child[i] = 0 THEN a[i - 1]
                            ELSE v[child[i]][a[i - 1]]
<1> DEFINE a == CHOOSE a : Afters(v, child, seen, a)
           h == [i \in 0..Len(child) |->
             IF i = 0 THEN seen
             ELSE IF child[i] = 0 THEN a[i - 1] ELSE v[child[i]][a[i - 1]]]
<1>1. Afters(v, child, seen, a)
  BY AftersExist
<1>2. a[Len(child)] = After(v, child, seen)
  BY DEF After
<1> HIDE DEF a
<1>3. a = h
  BY <1>1 DEF Afters
<1>4. \A i \in 0..Len(child) : h[i] = IF i = 0 THEN seen
             ELSE IF child[i] = 0 THEN a[i - 1] ELSE v[child[i]][a[i - 1]]
  OBVIOUS
<1> HIDE DEF h
<1>5. /\ a[0] = seen
      /\ \A i \in 1..Len(child) :
           a[i] = IF child[i] = 0 THEN a[i - 1] ELSE v[child[i]][a[i - 1]]
  <2>1. \A i \in 0..Len(child) : a[i] = IF i = 0 THEN seen
             ELSE IF child[i] = 0 THEN a[i - 1] ELSE v[child[i]][a[i - 1]]
    BY <1>3, <1>4
  <2> QED BY <2>1
<1> QED BY <1>2, <1>5

\* The children of a node are nodes before it, or known values.
ChildrenOK ==
  \A m \in 1..Len(nodes) :
    /\ Len(Children(m)) \in Nat /\ DOMAIN Children(m) = 1..Len(Children(m))
    /\ \A i \in 1..Len(Children(m)) : Children(m)[i] \in 0..m - 1

\* The visits of the first k nodes exist: a visit looks at earlier nodes only.
LEMMA VisitsExist ==
  ASSUME ChildrenOK, Len(nodes) \in Nat
  PROVE  \E v : Visits(Len(nodes), Len(nodes), v)
<1> DEFINE N == Len(nodes)
           S == {k \in Nat : \E v : Visits(N, k, v)}
<1>1. 0 \in S
  <2> DEFINE v == [m \in 1..0 |-> 0]
  <2>1. v = [m \in 1..0 |-> Visit(v, N, m)]
    <3> DEFINE h == [m \in 1..0 |-> Visit(v, N, m)]
    <3>1. DOMAIN h = 1..0 /\ DOMAIN v = 1..0 /\ 1..0 = {}
      OBVIOUS
    <3>2. h = [m \in 1..0 |-> h[m]] /\ v = [m \in 1..0 |-> v[m]]
      OBVIOUS
    <3> HIDE DEF h, v
    <3>3. h = v
      BY <3>1, <3>2
    <3> QED BY <3>3 DEF h
  <2> HIDE DEF v, N
  <2>2. Visits(N, 0, v)
    BY <2>1 DEF Visits
  <2> QED BY <2>2
<1>2. ASSUME NEW k \in Nat, k < N, k \in S PROVE k + 1 \in S
  <2>1. PICK v : Visits(N, k, v)
    BY <1>2
  <2> DEFINE w == [m \in 1..k + 1 |-> IF m <= k THEN v[m] ELSE Visit(v, N, m)]
  <2>2. \A m \in 1..k : v[m] = Visit(v, N, m)
    <3> DEFINE h == [m \in 1..k |-> Visit(v, N, m)]
    <3>1. v = h
      BY <2>1 DEF Visits
    <3>2. \A m \in 1..k : h[m] = Visit(v, N, m)
      OBVIOUS
    <3> HIDE DEF h
    <3> QED BY <3>1, <3>2
  <2>3. \A m \in 1..k + 1 : w[m] = IF m <= k THEN v[m] ELSE Visit(v, N, m)
    OBVIOUS
  <2>4. w = [m \in 1..k + 1 |-> w[m]]
    OBVIOUS
  <2> HIDE DEF w, N
  <2>5. ASSUME NEW m \in 1..k + 1 PROVE Visit(w, N, m) = Visit(v, N, m)
    <3>1. m \in 1..Len(nodes) /\ m - 1 \in 0..k
      BY <1>2, <2>5 DEF N
    <3>2. /\ Len(Children(m)) \in Nat
          /\ \A i \in 1..Len(Children(m)) : Children(m)[i] \in 0..m - 1
      BY <3>1 DEF ChildrenOK
    <3>3. \A i \in 1..Len(Children(m)) :
            Children(m)[i] # 0 => w[Children(m)[i]] = v[Children(m)[i]]
      <4>1. \A j \in 0..m - 1 : j # 0 => j \in 1..k + 1 /\ j <= k
        BY <3>1
      <4>2. \A j \in 0..m - 1 : j # 0 => w[j] = v[j]
        BY <2>3, <4>1
      <4> QED BY <3>2, <4>2
    <3>4. \A seen : After(w, Children(m), seen) = After(v, Children(m), seen)
      BY <3>2, <3>3, AfterAgree
    <3> QED BY <3>4 DEF Visit
  <2>6. \A m \in 1..k + 1 : w[m] = Visit(w, N, m)
    <3> SUFFICES ASSUME NEW m \in 1..k + 1 PROVE w[m] = Visit(w, N, m)
      OBVIOUS
    <3>1. CASE m <= k
      <4>1. m \in 1..k
        BY <3>1
      <4> QED BY <2>2, <2>3, <2>5, <3>1, <4>1
    <3>2. CASE ~ (m <= k)
      BY <2>3, <2>5, <3>2
    <3> QED BY <3>1, <3>2
  <2>7. Visits(N, k + 1, w)
    BY <2>4, <2>6 DEF Visits
  <2> QED BY <2>7
<1>3. N \in S
  <2> HIDE DEF S
  <2>1. \A k \in Nat : k < N /\ k \in S => k + 1 \in S
    BY <1>2
  <2>2. \A k \in 0..N : k \in S
    BY <1>1, <2>1, UpTo
  <2> QED BY <2>2
<1> QED BY <1>3

LEMMA VisitAt ==
  ASSUME NEW N, NEW k, NEW v, Visits(N, k, v)
  PROVE  \A m \in 1..k : \A seen \in Seq(1..N) :
           v[m][seen] = IF m \in Range(seen) THEN seen
                        ELSE Append(After(v, Children(m), seen), m)
<1>1. ASSUME NEW m \in 1..k PROVE v[m] = Visit(v, N, m)
  <2> DEFINE h == [i \in 1..k |-> Visit(v, N, i)]
  <2>1. v = h
    BY DEF Visits
  <2>2. h[m] = Visit(v, N, m)
    OBVIOUS
  <2> HIDE DEF h
  <2> QED BY <2>1, <2>2
<1>2. ASSUME NEW m \in 1..k, NEW seen \in Seq(1..N)
      PROVE  v[m][seen] = IF m \in Range(seen) THEN seen
                          ELSE Append(After(v, Children(m), seen), m)
  <2>1. Visit(v, N, m)[seen] = IF m \in Range(seen) THEN seen
                               ELSE Append(After(v, Children(m), seen), m)
    BY DEF Visit
  <2> QED BY <1>1, <2>1
<1> QED BY <1>2

\* A visit of node m keeps the order, and what was seen, and adds m.
Visited(m, seen, r) ==
  InOrder(r) /\ Range(seen) \subseteq Range(r) /\ m \in Range(r)

\* After visits of all its children, a node may be added.
LEMMA AfterVisits ==
  ASSUME NEW v, NEW child, NEW seen, InOrder(seen), Len(child) \in Nat,
         \A i \in 1..Len(child) : child[i] # 0 =>
           \A s : InOrder(s) => Visited(child[i], s, v[child[i]][s])
  PROVE  /\ InOrder(After(v, child, seen))
         /\ Range(seen) \subseteq Range(After(v, child, seen))
         /\ \A i \in 1..Len(child) :
              child[i] # 0 => child[i] \in Range(After(v, child, seen))
<1>1. PICK a : /\ a[0] = seen /\ a[Len(child)] = After(v, child, seen)
               /\ \A i \in 1..Len(child) :
                    a[i] = IF child[i] = 0 THEN a[i - 1]
                           ELSE v[child[i]][a[i - 1]]
  BY AfterAt
<1> DEFINE Done(k) == /\ InOrder(a[k]) /\ Range(seen) \subseteq Range(a[k])
                      /\ \A i \in 1..k : child[i] # 0 => child[i] \in Range(a[k])
           S == {k \in Nat : Done(k)}
<1>2. 0 \in S
  BY <1>1
<1>3. ASSUME NEW k \in Nat, k < Len(child), k \in S PROVE k + 1 \in S
  <2>1. k + 1 \in 1..Len(child) /\ (k + 1) - 1 = k
    BY <1>3
  <2>2. a[k + 1] = IF child[k + 1] = 0 THEN a[k] ELSE v[child[k + 1]][a[k]]
    BY <1>1, <2>1
  <2>3. Done(k)
    BY <1>3
  <2>4. /\ InOrder(a[k + 1]) /\ Range(a[k]) \subseteq Range(a[k + 1])
        /\ child[k + 1] # 0 => child[k + 1] \in Range(a[k + 1])
    <3>1. CASE child[k + 1] = 0
      BY <2>2, <2>3, <3>1
    <3>2. CASE child[k + 1] # 0
      <4>1. Visited(child[k + 1], a[k], v[child[k + 1]][a[k]])
        BY <2>1, <2>3, <3>2
      <4> QED BY <2>2, <3>2, <4>1 DEF Visited
    <3> QED BY <3>1, <3>2
  <2>5. \A i \in 1..k + 1 : i \in 1..k \/ i = k + 1
    OBVIOUS
  <2> QED BY <2>3, <2>4, <2>5
<1>4. Done(Len(child))
  <2> HIDE DEF S
  <2>1. \A k \in Nat : k < Len(child) /\ k \in S => k + 1 \in S
    BY <1>3
  <2>2. \A k \in 0..Len(child) : k \in S
    BY <1>2, <2>1, UpTo
  <2>3. Len(child) \in S
    BY <2>2
  <2> QED BY <2>3 DEF S
<1> QED BY <1>1, <1>4

\* A node whose children are there may be added.
LEMMA AppendInOrder ==
  ASSUME NEW s, InOrder(s), NEW m \in 1..Len(nodes),
         \A i \in DOMAIN Children(m) :
           Children(m)[i] # 0 => Children(m)[i] \in Range(s)
  PROVE  /\ InOrder(Append(s, m)) /\ Range(s) \subseteq Range(Append(s, m))
         /\ m \in Range(Append(s, m))
<1> DEFINE r == Append(s, m)
<1>1. s \in Seq(1..Len(nodes))
  BY DEF InOrder
<1>2. /\ r \in Seq(1..Len(nodes)) /\ Len(r) = Len(s) + 1 /\ Len(s) \in Nat
      /\ r[Len(s) + 1] = m /\ \A j \in 1..Len(s) : r[j] = s[j]
      /\ DOMAIN r = 1..Len(r) /\ DOMAIN s = 1..Len(s)
  BY <1>1
<1> HIDE DEF r
<1>3. Range(s) \subseteq Range(r) /\ m \in Range(r)
  <2>1. \A j \in DOMAIN s : j \in DOMAIN r /\ r[j] = s[j]
    BY <1>2
  <2>2. Len(s) + 1 \in DOMAIN r
    BY <1>2
  <2> QED BY <1>2, <2>1, <2>2 DEF Range
<1>4. ASSUME NEW j \in 1..Len(r), NEW i \in DOMAIN Children(r[j]),
             Children(r[j])[i] # 0
      PROVE  \E h \in 1..Len(r) : h < j /\ r[h] = Children(r[j])[i]
  <2>1. CASE j \in 1..Len(s)
    <3>1. r[j] = s[j]
      BY <1>2, <2>1
    <3>2. PICK h \in 1..Len(s) : h < j /\ s[h] = Children(s[j])[i]
      BY <1>4, <2>1, <3>1 DEF InOrder
    <3>3. h \in 1..Len(r) /\ r[h] = s[h]
      BY <1>2
    <3> QED BY <3>1, <3>2, <3>3
  <2>2. CASE j \notin 1..Len(s)
    <3>1. j = Len(s) + 1 /\ r[j] = m
      BY <1>2, <2>2
    <3>2. Children(m)[i] \in Range(s)
      BY <1>4, <3>1
    <3>3. PICK h \in 1..Len(s) : s[h] = Children(m)[i]
      BY <1>2, <3>2 DEF Range
    <3>4. h \in 1..Len(r) /\ r[h] = s[h] /\ h < j
      BY <1>2, <3>1
    <3> QED BY <3>1, <3>3, <3>4
  <2> QED BY <2>1, <2>2
<1>5. InOrder(r)
  BY <1>2, <1>4 DEF InOrder
<1> QED BY <1>3, <1>5 DEF r

\* Every visit of walk_route does what it should.
LEMMA VisitsKeepOrder ==
  ASSUME ChildrenOK, Len(nodes) \in Nat, NEW v, Visits(Len(nodes), Len(nodes), v),
         NEW n \in 1..Len(nodes), NEW seen, InOrder(seen)
  PROVE  Visited(n, seen, v[n][seen])
<1> DEFINE N == Len(nodes)
           Good(m) == \A s : InOrder(s) => Visited(m, s, v[m][s])
           Bad == {m \in 1..N : ~ Good(m)}
<1>1. SUFFICES ASSUME Bad # {} PROVE FALSE
  OBVIOUS
<1>2. PICK m \in Bad : \A k \in Bad : m <= k
  <2>1. Bad \in SUBSET Nat
    OBVIOUS
  <2> HIDE DEF Bad
  <2> QED BY <1>1, <2>1, NatHasLeast
<1> HIDE DEF Good
<1>3. m \in 1..N /\ ~ Good(m) /\ \A k \in 1..m - 1 : Good(k)
  BY <1>2
<1> HIDE DEF Bad
<1>4. PICK s : InOrder(s) /\ ~ Visited(m, s, v[m][s])
  BY <1>3 DEF Good
<1>5. s \in Seq(1..N)
  BY <1>4 DEF InOrder
<1>6. v[m][s] = IF m \in Range(s) THEN s
                ELSE Append(After(v, Children(m), s), m)
  BY <1>3, <1>5, VisitAt
<1>7. CASE m \in Range(s)
  BY <1>4, <1>6, <1>7 DEF Visited
<1>8. CASE m \notin Range(s)
  <2>1. /\ Len(Children(m)) \in Nat
        /\ DOMAIN Children(m) = 1..Len(Children(m))
        /\ \A i \in 1..Len(Children(m)) : Children(m)[i] \in 0..m - 1
    BY <1>3 DEF ChildrenOK
  <2>2. \A i \in 1..Len(Children(m)) : Children(m)[i] # 0 =>
          \A t : InOrder(t) => Visited(Children(m)[i], t, v[Children(m)[i]][t])
    <3>1. \A j \in 0..m - 1 : j # 0 => Good(j)
      BY <1>3
    <3> QED BY <2>1, <3>1 DEF Good
  <2> DEFINE r == After(v, Children(m), s)
  <2>3. /\ InOrder(r) /\ Range(s) \subseteq Range(r)
        /\ \A i \in 1..Len(Children(m)) :
             Children(m)[i] # 0 => Children(m)[i] \in Range(r)
    BY <1>4, <2>1, <2>2, AfterVisits
  <2> HIDE DEF r
  <2>4. /\ InOrder(Append(r, m)) /\ Range(r) \subseteq Range(Append(r, m))
        /\ m \in Range(Append(r, m))
    BY <1>3, <2>1, <2>3, AppendInOrder
  <2>5. v[m][s] = Append(r, m)
    BY <1>6, <1>8 DEF r
  <2> QED BY <1>4, <2>3, <2>4, <2>5 DEF Visited
<1> QED BY <1>7, <1>8

\* walk_route lists node n, and before each node the ones it needs.
LEMMA WalkInOrder ==
  ASSUME ChildrenOK, Len(nodes) \in Nat, NEW n \in 1..Len(nodes)
  PROVE  InOrder(Walk(n)) /\ n \in Range(Walk(n))
<1> DEFINE v == CHOOSE v : Visits(Len(nodes), Len(nodes), v)
<1>1. Visits(Len(nodes), Len(nodes), v)
  BY VisitsExist
<1>2. Walk(n) = v[n][<<>>]
  BY WalkIs
<1>3. InOrder(<<>>)
  BY DEF InOrder
<1> HIDE DEF v
<1>4. Visited(n, <<>>, v[n][<<>>])
  BY <1>1, <1>3, VisitsKeepOrder
<1> QED BY <1>2, <1>4 DEF Visited

\* What the executor holds of a label.
Held(l) == [iv |-> l.iv, eps |-> l.eps]

Environment ==
  [ok |-> TRUE, port |-> [p \in Ports |->
     IF p \in DOMAIN inst.known THEN {[iv |-> inst.known[p], eps |-> 0]} ELSE {}]]

Runs(steps, m, env) ==
  env = [k \in 0..m |-> IF k = 0 THEN Environment
                        ELSE RunStep(env[k - 1], steps[k])]

LEMMA RunsExist ==
  ASSUME NEW steps, NEW m \in Nat PROVE \E env : Runs(steps, m, env)
<1> DEFINE S == {k \in Nat : \E e : Runs(steps, k, e)}
           F(k, e) == [i \in 0..k |-> IF i = 0 THEN Environment
                                      ELSE RunStep(e[i - 1], steps[i])]
<1>1. 0 \in S
  <2>1. [i \in 0..0 |-> Environment] = F(0, [i \in 0..0 |-> Environment])
    OBVIOUS
  <2> QED BY <2>1 DEF Runs
<1>2. ASSUME NEW k \in Nat, k \in S PROVE k + 1 \in S
  <2>1. PICK e : Runs(steps, k, e)
    BY <1>2
  <2> DEFINE b == [i \in 0..k + 1 |-> IF i <= k THEN e[i]
                                      ELSE RunStep(e[i - 1], steps[i])]
  <2>2. \A i \in 0..k : e[i] = IF i = 0 THEN Environment
                               ELSE RunStep(e[i - 1], steps[i])
    <3> DEFINE h == F(k, e)
    <3>1. \A i \in 0..k : h[i] = IF i = 0 THEN Environment
                                 ELSE RunStep(e[i - 1], steps[i])
      OBVIOUS
    <3>2. e = h
      BY <2>1 DEF Runs
    <3> HIDE DEF h
    <3> QED BY <3>1, <3>2
  <2>3. \A i \in 0..k + 1 : b[i] = IF i <= k THEN e[i]
                                   ELSE RunStep(e[i - 1], steps[i])
    OBVIOUS
  <2>4. b = [i \in 0..k + 1 |-> b[i]]
    OBVIOUS
  <2> HIDE DEF b, F
  <2>5. ASSUME NEW i \in 0..k + 1
        PROVE  b[i] = IF i = 0 THEN Environment ELSE RunStep(b[i - 1], steps[i])
    <3>1. CASE i = 0
      BY <2>2, <2>3, <3>1
    <3>2. CASE i # 0
      <4>1. i - 1 \in 0..k + 1 /\ i - 1 <= k /\ (i <= k => i \in 0..k)
        BY <3>2
      <4>2. b[i - 1] = e[i - 1]
        BY <2>3, <4>1
      <4>3. b[i] = RunStep(e[i - 1], steps[i])
        BY <2>2, <2>3, <3>2, <4>1
      <4> QED BY <3>2, <4>2, <4>3
    <3> QED BY <3>1, <3>2
  <2>6. Runs(steps, k + 1, b)
    BY <2>4, <2>5 DEF Runs
  <2> QED BY <2>6
<1>3. m \in S
  <2> HIDE DEF S
  <2>1. \A k \in Nat : k < m /\ k \in S => k + 1 \in S
    BY <1>2
  <2>2. \A k \in 0..m : k \in S
    BY <1>1, <2>1, UpTo
  <2> QED BY <2>2
<1> QED BY <1>3

\* Replay runs the steps one after the other.
LEMMA ReplayAt ==
  ASSUME NEW steps, Len(steps) \in Nat
  PROVE  \E env : /\ env[0] = Environment /\ env[Len(steps)] = Replay(steps)
                  /\ \A k \in 1..Len(steps) : env[k] = RunStep(env[k - 1], steps[k])
<1> DEFINE e == CHOOSE e : Runs(steps, Len(steps), e)
           h == [k \in 0..Len(steps) |-> IF k = 0 THEN Environment
                                         ELSE RunStep(e[k - 1], steps[k])]
<1>1. Runs(steps, Len(steps), e)
  BY RunsExist
<1>2. e[Len(steps)] = Replay(steps)
  BY DEF Replay, Runs, Environment
<1> HIDE DEF e
<1>3. e = h
  BY <1>1 DEF Runs
<1>4. \A k \in 0..Len(steps) : h[k] = IF k = 0 THEN Environment
                                      ELSE RunStep(e[k - 1], steps[k])
  OBVIOUS
<1> HIDE DEF h
<1>5. e[0] = Environment
      /\ \A k \in 1..Len(steps) : e[k] = RunStep(e[k - 1], steps[k])
  BY <1>3, <1>4
<1> QED BY <1>2, <1>5

\* A step that finds what the planner fed it stays in its box and gives its
\* outputs what the planner expected.
LEMMA StepRuns ==
  ASSUME NEW n, NEW f, NEW env, f \in Inputs(n), Admitted(Candidate(n, f)),
         env.ok,
         \A p \in InputPorts(Solver(n)) : env.port[p] = {Held(f[p])}
  PROVE  /\ RunStep(env, n).ok
         /\ \A p \in Ports : p \notin Solver(n).outputs =>
              RunStep(env, n).port[p] = env.port[p]
         /\ \A p \in Ports, k \in Nat : p \in Solver(n).outputs =>
              RunStep(env, n).port[p] = {Held(OutputLabel(Candidate(n, f), p, k))}
<1> DEFINE D == InputPorts(Solver(n))
           c == Candidate(n, f)
           box == [p \in D |-> LET l == CHOOSE l \in env.port[p] : TRUE
                               IN  <<l.iv[1] - l.eps, l.iv[2] + l.eps>>]
<1>1. \A p \in D : env.port[p] # {}
  OBVIOUS
<1>2. box = Box(c)
  <2>1. DOMAIN f = D /\ c.inputs = f
    BY DEF Inputs, Candidate
  <2>2. ASSUME NEW p \in D
        PROVE  LET l == CHOOSE l \in env.port[p] : TRUE
               IN  <<l.iv[1] - l.eps, l.iv[2] + l.eps>> = Inflated(f[p])
    <3>1. (CHOOSE l \in env.port[p] : TRUE) = Held(f[p])
      OBVIOUS
    <3> QED BY <3>1 DEF Held, Inflated, Inflate
  <2> QED BY <2>1, <2>2 DEF Box
<1>3. c.solver = n /\ DOMAIN Box(c) = D
  BY DEF Box, Inputs, Candidate
<1>4. RunStep(env, n) =
        [ok |-> \A p \in DOMAIN Solver(n).box \cap D :
                  Subset(Box(c)[p], Solver(n).box[p]),
         port |-> [p \in Ports |->
           IF p \in Solver(n).outputs
             THEN {[iv |-> SumSurrogate(Box(c)),
                    eps |-> WorstOver(Solver(n).accuracy[p], SumSurrogate(Box(c)))]}
             ELSE env.port[p]]]
  <2>1. RunStep(env, n) =
        [ok |-> \A p \in DOMAIN Solver(n).box \cap DOMAIN box :
                  Subset(box[p], Solver(n).box[p]),
         port |-> [p \in Ports |->
           IF p \in Solver(n).outputs
             THEN {[iv |-> SumSurrogate(box),
                    eps |-> WorstOver(Solver(n).accuracy[p], SumSurrogate(box))]}
             ELSE env.port[p]]]
    BY <1>1 DEF RunStep
  <2> HIDE DEF box, c, D
  <2> QED BY <1>2, <1>3, <2>1
<1>5. \A p \in DOMAIN Solver(n).box \cap D : Subset(Box(c)[p], Solver(n).box[p])
  <2>1. c.inputs = f /\ DOMAIN f = D
    BY DEF Inputs, Candidate
  <2> HIDE DEF c, D
  <2> QED BY <1>3, <2>1 DEF Admitted, c
<1>6. \A p, k : Held(OutputLabel(c, p, k)) =
        [iv |-> SumSurrogate(Box(c)),
         eps |-> WorstOver(Solver(n).accuracy[p], SumSurrogate(Box(c)))]
  <2> HIDE DEF c
  <2> QED BY <1>3 DEF Held, OutputLabel
<1> HIDE DEF c, box, D
<1>7. RunStep(env, n).ok
  BY <1>4, <1>5
<1>8. ASSUME NEW p \in Ports
      PROVE  RunStep(env, n).port[p] =
               IF p \in Solver(n).outputs
                 THEN {[iv |-> SumSurrogate(Box(c)),
                        eps |-> WorstOver(Solver(n).accuracy[p],
                                          SumSurrogate(Box(c)))]}
                 ELSE env.port[p]
  BY <1>4
<1>9. \A p \in Ports, k \in Nat : p \in Solver(n).outputs =>
        RunStep(env, n).port[p] = {Held(OutputLabel(c, p, k))}
  BY <1>6, <1>8
<1> QED BY <1>7, <1>8, <1>9 DEF c

LEMMA SequenceLen ==
  ASSUME NEW n \in Nat, NEW f, NEW S, f \in [1..n -> S]
  PROVE  f \in Seq(S) /\ Len(f) = n /\ DOMAIN f = 1..n
OBVIOUS

\* Each port the first steps of the Route set holds what its node gave it, and
\* each known port what it was.
HoldsAfter(env, k) ==
  /\ env.ok
  /\ \A p \in DOMAIN inst.known : env.port[p] = {Held(KnownLabel(inst.known[p]))}
  /\ \A j \in 1..k : \A p \in Ports : \A l :
       Given(p, l, nodes[result.steps[j]], result.steps[j]) =>
         env.port[p] = {Held(l)}

LEMMA RouteSolversFacts ==
  ASSUME SearchInv, InOrder(result.steps)
  PROVE  /\ Len(result.steps) \in Nat /\ Len(RouteSolvers) = Len(result.steps)
         /\ DOMAIN RouteSolvers = 1..Len(result.steps)
         /\ \A k \in 1..Len(result.steps) :
              /\ result.steps[k] \in 1..Len(nodes)
              /\ RouteSolvers[k] = nodes[result.steps[k]].solver
              /\ RouteSolvers[k] \in DOMAIN inst.solvers
<1> DEFINE s == result.steps
           m == Len(s)
<1>1. /\ s \in Seq(1..Len(nodes)) /\ m \in Nat /\ DOMAIN s = 1..m
      /\ \A k \in 1..m : s[k] \in 1..Len(nodes)
  BY DEF InOrder
<1>2. \A n \in 1..Len(nodes) : nodes[n].solver \in DOMAIN inst.solvers
  <2>1. nodes \in Seq(Node)
    BY DEF SearchInv
  <2>2. \A n \in 1..Len(nodes) : nodes[n] \in Node
    BY <2>1
  <2> QED BY <2>2 DEF Node
<1> HIDE DEF m
<1>3. /\ RouteSolvers = [k \in 1..m |-> nodes[s[k]].solver]
      /\ RouteSolvers \in [1..m -> DOMAIN inst.solvers]
  BY <1>1, <1>2 DEF RouteSolvers
<1>4. Len(RouteSolvers) = m /\ DOMAIN RouteSolvers = 1..m
  <2> DEFINE R == RouteSolvers
             D == DOMAIN inst.solvers
  <2>1. R \in [1..m -> D]
    BY <1>3
  <2> HIDE DEF R, D
  <2>2. Len(R) = m /\ DOMAIN R = 1..m
    BY <1>1, <2>1, SequenceLen
  <2> QED BY <2>2 DEF R
<1>5. \A k \in 1..m : RouteSolvers[k] = nodes[s[k]].solver
  BY <1>3
<1> QED BY <1>1, <1>2, <1>4, <1>5 DEF m

\* One more step of the Route.
LEMMA RouteStep ==
  ASSUME SearchInv, BackedInv, InOrder(result.steps), OneProducer,
         NEW k \in Nat, k + 1 \in 1..Len(result.steps), NEW env, HoldsAfter(env, k)
  PROVE  HoldsAfter(RunStep(env, RouteSolvers[k + 1]), k + 1)
<1> DEFINE s == result.steps
           m == s[k + 1]
           n == nodes[m].solver
           f == nodes[m].inputs
           next == RunStep(env, n)
<1>1. /\ Len(s) \in Nat /\ DOMAIN RouteSolvers = 1..Len(s)
      /\ \A j \in 1..Len(s) : /\ s[j] \in 1..Len(nodes)
                              /\ RouteSolvers[j] = nodes[s[j]].solver
                              /\ RouteSolvers[j] \in DOMAIN inst.solvers
  BY RouteSolversFacts
<1>2. /\ m \in 1..Len(nodes) /\ n \in DOMAIN inst.solvers /\ RouteSolvers[k + 1] = n
      /\ \A j \in 1..k : j \in 1..Len(s) /\ j # k + 1
  BY <1>1
<1>3. /\ f \in Inputs(n) /\ Admitted(Candidate(n, f)) /\ BackedInputs(n, f, m - 1)
  BY <1>2 DEF BackedInv, NodeBacked
<1>4. \A p \in InputPorts(Solver(n)) :
        f[p].node # 0 => \E j \in 1..k : s[j] = f[p].node
  <2> SUFFICES ASSUME NEW p \in InputPorts(Solver(n)), f[p].node # 0
               PROVE  \E j \in 1..k : s[j] = f[p].node
    OBVIOUS
  <2>1. PICK i \in DOMAIN Solver(n).inputs : p = Solver(n).inputs[i]
    BY DEF InputPorts
  <2>2. i \in DOMAIN Children(m) /\ Children(m)[i] = f[p].node
    BY <2>1 DEF Children
  <2>3. PICK h \in 1..Len(s) : h < k + 1 /\ s[h] = Children(m)[i]
    BY <2>2 DEF InOrder
  <2>4. h \in 1..k
    BY <2>3
  <2> QED BY <2>2, <2>3, <2>4
<1>5. \A p \in InputPorts(Solver(n)) : env.port[p] = {Held(f[p])}
  <2> SUFFICES ASSUME NEW p \in InputPorts(Solver(n))
               PROVE  env.port[p] = {Held(f[p])}
    OBVIOUS
  <2> HIDE DEF f, n
  <2>1. Backed(p, f[p], m - 1) /\ p \in Ports
    BY <1>2, <1>3, SolverFacts DEF BackedInputs, SearchInv
  <2>2. CASE p \in DOMAIN inst.known /\ f[p] = KnownLabel(inst.known[p])
    BY <2>2 DEF HoldsAfter
  <2>3. CASE \E h \in 1..m - 1 : f[p].node = h /\ Given(p, f[p], nodes[h], h)
    <3>1. PICK h \in 1..m - 1 : f[p].node = h /\ Given(p, f[p], nodes[h], h)
      BY <2>3
    <3>2. PICK j \in 1..k : s[j] = h
      BY <1>2, <1>4, <3>1
    <3> QED BY <2>1, <3>1, <3>2 DEF HoldsAfter
  <2> QED BY <2>1, <2>2, <2>3 DEF Backed
<1> HIDE DEF f, n, m
<1>6. /\ next.ok
      /\ \A p \in Ports : p \notin Solver(n).outputs => next.port[p] = env.port[p]
      /\ \A p \in Ports, i \in Nat : p \in Solver(n).outputs =>
           next.port[p] = {Held(OutputLabel(Candidate(n, f), p, i))}
  <2>1. env.ok
    BY DEF HoldsAfter
  <2>2. f \in Inputs(n) /\ Admitted(Candidate(n, f))
    BY <1>3
  <2> QED BY <1>5, <2>1, <2>2, StepRuns
<1> HIDE DEF next
<1>7. ASSUME NEW p \in DOMAIN inst.known
      PROVE  next.port[p] = {Held(KnownLabel(inst.known[p]))}
  <2>1. p \in Ports
    BY KnownLabels DEF SearchInv
  <2>2. p \notin Solver(n).outputs
    BY <1>1, <1>2 DEF OneProducer
  <2> QED BY <1>6, <2>1, <2>2 DEF HoldsAfter
<1>8. ASSUME NEW j \in 1..k + 1, NEW p \in Ports, NEW l,
             Given(p, l, nodes[s[j]], s[j])
      PROVE  next.port[p] = {Held(l)}
  <2>1. CASE j = k + 1
    <3>1. /\ nodes[s[j]].solver = n /\ nodes[s[j]].inputs = f
          /\ p \in Solver(n).outputs
          /\ l = OutputLabel(Candidate(n, f), p, s[j]) /\ s[j] \in Nat
      BY <1>1, <1>2, <1>8, <2>1 DEF Given, n, f, m
    <3> QED BY <1>6, <3>1
  <2>2. CASE j # k + 1
    <3>1. j \in 1..k
      BY <2>2
    <3>2. env.port[p] = {Held(l)}
      BY <1>8, <3>1 DEF HoldsAfter
    <3>3. p \in Solver(RouteSolvers[j]).outputs
      BY <1>1, <1>2, <1>8, <3>1 DEF Given
    <3>4. p \notin Solver(n).outputs
      BY <1>1, <1>2, <3>1, <3>3 DEF OneProducer
    <3> QED BY <1>6, <3>2, <3>4
  <2> QED BY <2>1, <2>2
<1>9. HoldsAfter(next, k + 1)
  BY <1>6, <1>7, <1>8 DEF HoldsAfter
<1>10. next = RunStep(env, RouteSolvers[k + 1])
  BY <1>2 DEF next
<1> QED BY <1>9, <1>10

\* The Route of a backed result takes the executor to the target.
LEMMA BackedReplays ==
  ASSUME SearchInv, BackedInv PROVE RouteReplays
<1> SUFFICES ASSUME result.kind = "Ok", inst.target \notin DOMAIN inst.known,
                    OneProducer
             PROVE  ReachesTarget(RouteSolvers)
  BY DEF RouteReplays
<1> DEFINE s == result.steps
<1>1. /\ InOrder(s) /\ Backed(inst.target, result.label, Len(nodes))
      /\ WithinBudget(result.label)
      /\ \E j \in 1..Len(s) : s[j] = result.label.node
  BY DEF BackedInv, RouteBacked
<1>2. Len(s) \in Nat /\ Len(RouteSolvers) = Len(s)
  BY <1>1, RouteSolversFacts
<1>3. PICK env : /\ env[0] = Environment /\ env[Len(s)] = Replay(RouteSolvers)
                 /\ \A k \in 1..Len(s) : env[k] = RunStep(env[k - 1], RouteSolvers[k])
  <2> DEFINE R == RouteSolvers
  <2>1. Len(R) = Len(s)
    BY <1>2
  <2> HIDE DEF R
  <2>2. \E env : /\ env[0] = Environment /\ env[Len(R)] = Replay(R)
                 /\ \A k \in 1..Len(R) : env[k] = RunStep(env[k - 1], R[k])
    BY <1>2, <2>1, ReplayAt
  <2> QED BY <2>1, <2>2 DEF R
<1> DEFINE S == {k \in Nat : HoldsAfter(env[k], k)}
<1>4. 0 \in S
  <2>1. \A p \in DOMAIN inst.known : p \in Ports
    BY KnownLabels DEF SearchInv
  <2>2. HoldsAfter(Environment, 0)
    BY <2>1 DEF HoldsAfter, Environment, Held, KnownLabel
  <2> QED BY <1>3, <2>2
<1>5. ASSUME NEW k \in Nat, k < Len(s), k \in S PROVE k + 1 \in S
  <2>1. k + 1 \in 1..Len(s) /\ (k + 1) - 1 = k
    BY <1>2, <1>5
  <2>2. env[k + 1] = RunStep(env[k], RouteSolvers[k + 1])
    BY <1>3, <2>1
  <2>3. HoldsAfter(env[k], k)
    BY <1>5
  <2>4. HoldsAfter(RunStep(env[k], RouteSolvers[k + 1]), k + 1)
    BY <1>1, <2>1, <2>3, RouteStep
  <2> QED BY <2>2, <2>4
<1>6. HoldsAfter(Replay(RouteSolvers), Len(s))
  <2> HIDE DEF S
  <2>1. \A k \in Nat : k < Len(s) /\ k \in S => k + 1 \in S
    BY <1>5
  <2>2. \A k \in 0..Len(s) : k \in S
    BY <1>2, <1>4, <2>1, UpTo
  <2>3. Len(s) \in S
    BY <1>2, <2>2
  <2> QED BY <1>3, <2>3 DEF S
<1>7. PICK n \in 1..Len(nodes) :
        result.label.node = n /\ Given(inst.target, result.label, nodes[n], n)
  BY <1>1 DEF Backed
<1>8. PICK j \in 1..Len(s) : s[j] = n
  BY <1>1, <1>7
<1>9. inst.target \in Ports
  BY InstancesAssumption DEF SearchInv
<1>10. Replay(RouteSolvers).ok
       /\ Replay(RouteSolvers).port[inst.target] = {Held(result.label)}
  BY <1>6, <1>7, <1>8, <1>9 DEF HoldsAfter
<1> QED BY <1>1, <1>10 DEF ReachesTarget, WithinBudget, TotalError, Held

LEMMA ChildrenBacked ==
  SearchInv /\ (\A n \in 1..Len(nodes) : NodeBacked(n)) => ChildrenOK
<1> SUFFICES ASSUME SearchInv, \A n \in 1..Len(nodes) : NodeBacked(n),
                    NEW m \in 1..Len(nodes)
             PROVE  /\ Len(Children(m)) \in Nat
                    /\ DOMAIN Children(m) = 1..Len(Children(m))
                    /\ \A i \in 1..Len(Children(m)) : Children(m)[i] \in 0..m - 1
  BY DEF ChildrenOK
<1> DEFINE n == nodes[m].solver
           f == nodes[m].inputs
           ports == Solver(n).inputs
           C == Children(m)
<1>1. n \in DOMAIN inst.solvers /\ Len(nodes) \in Nat
  <2>1. nodes \in Seq(Node)
    BY DEF SearchInv
  <2>2. nodes[m] \in Node
    BY <2>1
  <2> QED BY <2>1, <2>2 DEF Node
<1>2. ports \in Seq(Ports)
  BY <1>1, SolverFacts DEF SearchInv, ValidSolver
<1>3. Len(ports) \in Nat /\ DOMAIN ports = 1..Len(ports)
  BY <1>2
<1>4. C = [i \in 1..Len(ports) |-> f[ports[i]].node]
  BY <1>3 DEF Children
<1>5. \A i \in 1..Len(ports) : f[ports[i]].node \in 0..m - 1
  <2> SUFFICES ASSUME NEW i \in 1..Len(ports) PROVE f[ports[i]].node \in 0..m - 1
    OBVIOUS
  <2>1. ports[i] \in InputPorts(Solver(n))
    BY <1>3 DEF InputPorts
  <2>2. Backed(ports[i], f[ports[i]], m - 1)
    BY <2>1 DEF NodeBacked, BackedInputs
  <2> HIDE DEF f, ports, n
  <2> QED BY <2>2 DEF Backed, KnownLabel
<1> HIDE DEF C, f
<1>6. C \in [1..Len(ports) -> 0..m - 1]
  BY <1>4, <1>5
<1>7. Len(C) = Len(ports) /\ DOMAIN C = 1..Len(ports)
  <2> HIDE DEF ports
  <2> QED BY <1>3, <1>6, SequenceLen
<1> QED BY <1>3, <1>6, <1>7 DEF C

\* Nodes that are there stay, and so does what they gave.
LEMMA GivenKept ==
  ASSUME inst' = inst
  PROVE  \A q, l, node, n : Given(q, l, node, n)' = Given(q, l, node, n)
BY DEF Given, OutputLabel, Candidate, InputCost, Box, Inflated, Solver

LEMMA BackedKept ==
  ASSUME inst' = inst, NEW k, NEW i, k \in Nat, i \in Nat, k <= i,
         \A n \in 1..k : nodes'[n] = nodes[n]
  PROVE  /\ \A q, l : Backed(q, l, k) => Backed(q, l, i)'
         /\ \A s, f : BackedInputs(s, f, k) => BackedInputs(s, f, i)'
<1>1. ASSUME NEW q, NEW l, Backed(q, l, k) PROVE Backed(q, l, i)'
  <2>1. CASE q \in DOMAIN inst.known /\ l = KnownLabel(inst.known[q])
    BY <2>1 DEF Backed, KnownLabel
  <2>2. CASE \E n \in 1..k : l.node = n /\ Given(q, l, nodes[n], n)
    <3>1. PICK n \in 1..k : l.node = n /\ Given(q, l, nodes[n], n)
      BY <2>2
    <3>2. Given(q, l, nodes[n], n)'
      BY <3>1 DEF Given, OutputLabel, Candidate, InputCost, Box, Inflated, Solver
    <3>3. n \in 1..i
      OBVIOUS
    <3> QED BY <3>1, <3>2, <3>3 DEF Backed
  <2> QED BY <1>1, <2>1, <2>2 DEF Backed
<1>2. ASSUME NEW s, NEW f, BackedInputs(s, f, k) PROVE BackedInputs(s, f, i)'
  BY <1>1, <1>2 DEF BackedInputs, Solver, InputPorts
<1> QED BY <1>1, <1>2

\* Nodes that stay were admitted with inputs that were there before them.
LEMMA NodesBackedKept ==
  ASSUME SearchInv, BackedInv, inst' = inst, Len(nodes) \in Nat,
         \A n \in 1..Len(nodes) : nodes'[n] = nodes[n]
  PROVE  \A n \in 1..Len(nodes) : NodeBacked(n)'
<1> SUFFICES ASSUME NEW n \in 1..Len(nodes) PROVE NodeBacked(n)'
  OBVIOUS
<1>1. NodeBacked(n) /\ n - 1 \in Nat /\ nodes'[n] = nodes[n]
  BY DEF BackedInv
<1>2. nodes'[n].inputs \in Inputs(nodes[n].solver)'
  BY <1>1 DEF NodeBacked, Inputs, InputPorts, Solver
<1>3. Admitted(Candidate(nodes[n].solver, nodes[n].inputs))'
  BY <1>1 DEF NodeBacked, Admitted, Candidate, InputCost, Box, Inflated, Solver
<1>4. ASSUME NEW p \in InputPorts(Solver(nodes[n].solver))'
      PROVE  Backed(p, nodes[n].inputs[p], n - 1)'
  <2>1. p \in InputPorts(Solver(nodes[n].solver))
    BY <1>1 DEF InputPorts, Solver
  <2>2. Backed(p, nodes[n].inputs[p], n - 1)
    BY <1>1, <2>1 DEF NodeBacked, BackedInputs
  <2>3. \A i \in 1..n - 1 : nodes'[i] = nodes[i]
    OBVIOUS
  <2>4. PICK l : l = nodes[n].inputs[p]
    OBVIOUS
  <2>5. PICK k \in Nat : k = n - 1
    BY <1>1
  <2>6. Backed(p, l, k)
    BY <2>2, <2>4, <2>5
  <2>7. Backed(p, l, k)'
    <3>1. k <= k /\ \A i \in 1..k : nodes'[i] = nodes[i]
      BY <2>3, <2>5
    <3> QED BY <2>6, <3>1, BackedKept
  <2>8. Backed(p, l, n - 1)'
    BY <2>5, <2>7
  <2>9. l = nodes'[n].inputs[p]
    BY <1>1, <2>4
  <2> QED BY <2>8, <2>9
<1> QED BY <1>2, <1>3, <1>4 DEF NodeBacked, BackedInputs

\* So did the labels and the inputs of the candidates.
LEMMA RestBackedKept ==
  ASSUME inst' = inst, Len(nodes) \in Nat, Len(nodes') \in Nat,
         Len(nodes) <= Len(nodes'),
         \A n \in 1..Len(nodes) : nodes'[n] = nodes[n]
  PROVE  /\ \A q, l : Backed(q, l, Len(nodes)) => Backed(q, l, Len(nodes))'
         /\ \A s, f : BackedInputs(s, f, Len(nodes))
                        => BackedInputs(s, f, Len(nodes))'
<1>1. PICK k, i : k = Len(nodes) /\ i = Len(nodes')
  OBVIOUS
<1>2. \A q, l : Backed(q, l, k) => Backed(q, l, i)'
  BY <1>1, BackedKept
<1>3. \A q, l : Backed(q, l, i)' => Backed(q, l, Len(nodes))'
  BY <1>1 DEF Backed
<1>4. \A q, l : Backed(q, l, Len(nodes)) => Backed(q, l, Len(nodes))'
  BY <1>1, <1>2, <1>3
<1> QED BY <1>4 DEF BackedInputs, InputPorts, Solver

LEMMA InitBacked == Init => BackedInv
BY DEF Init, BackedInv, RouteBacked, Err

LEMMA StartBacked ==
  ASSUME SearchInv, BackedInv, Start PROVE BackedInv'
<1>1. /\ UNCHANGED <<inst, nodes, frontier>>
      /\ frontier = {} /\ \A p \in Ports : labels[p] = {}
      /\ Len(nodes) \in Nat /\ result.kind = "none"
  BY DEF Start, SearchInv
<1>2. \A n \in 1..Len(nodes) : NodeBacked(n)'
  BY <1>1, NodesBackedKept
<1>3. ASSUME NEW q \in Ports, NEW l \in labels'[q]
      PROVE  Backed(q, l, Len(nodes))'
  BY <1>1, <1>3 DEF Start, Backed, KnownLabel
<1>4. RouteBacked'
  BY <1>1 DEF Start, Finish, RouteBacked, Ok, Err
<1> QED BY <1>1, <1>2, <1>3, <1>4 DEF BackedInv

\* A candidate combines labels that are there.
LEMMA RegeneratedBacked ==
  ASSUME SearchInv, BackedInv, NEW c \in Regenerated
  PROVE  BackedInputs(c.solver, c.inputs, Len(nodes))
<1>1. CASE c \in frontier
  BY <1>1 DEF BackedInv
<1>2. CASE c \notin frontier
  <2>1. PICK nf \in Fresh : c = Candidate(nf[1], nf[2])
    BY <1>2 DEF Regenerated
  <2>2. PICK n \in DOMAIN inst.solvers :
          nf[1] = n /\ nf[2] \in Combos(Solver(n))
    BY DEF Fresh
  <2> DEFINE f == nf[2]
  <2>3. \A p \in InputPorts(Solver(n)) : p \in Ports /\ f[p] \in labels[p]
    BY <2>2, SolverFacts DEF Combos, SearchInv
  <2>4. c.solver = n /\ c.inputs = f
    BY <2>1, <2>2 DEF Candidate
  <2> HIDE DEF f
  <2> QED BY <2>3, <2>4 DEF BackedInputs, BackedInv
<1> QED BY <1>1, <1>2

LEMMA PassBacked ==
  ASSUME SearchInv, BackedInv, NEW c, Reject(c) \/ Prune(c) PROVE BackedInv'
<1>1. /\ UNCHANGED <<inst, phase, labels, nodes, result>>
      /\ frontier' = Regenerated \ {c} /\ phase = "search"
      /\ Len(nodes) \in Nat /\ result.kind = "none"
  BY DEF Reject, Prune, Pop, SearchInv
<1>2. \A n \in 1..Len(nodes) : NodeBacked(n)'
  BY <1>1, NodesBackedKept
<1>3. /\ \A q, l : Backed(q, l, Len(nodes)) => Backed(q, l, Len(nodes))'
      /\ \A s, f : BackedInputs(s, f, Len(nodes))
                     => BackedInputs(s, f, Len(nodes))'
  BY <1>1, RestBackedKept
<1>4. RouteBacked'
  BY <1>1 DEF RouteBacked
<1> QED BY <1>1, <1>2, <1>3, <1>4, RegeneratedBacked DEF BackedInv

\* walk_route lists any node of a backed search after the nodes it needs.
WalksInOrder ==
  SearchInv /\ (\A n \in 1..Len(nodes) : NodeBacked(n)) =>
    \A n \in 1..Len(nodes) : InOrder(Walk(n)) /\ n \in Range(Walk(n))

LEMMA WalkBacked == WalksInOrder
<1> SUFFICES ASSUME SearchInv, \A n \in 1..Len(nodes) : NodeBacked(n),
                    NEW n \in 1..Len(nodes)
             PROVE  InOrder(Walk(n)) /\ n \in Range(Walk(n))
  BY DEF WalksInOrder
<1>1. ChildrenOK
  BY ChildrenBacked
<1>2. Len(nodes) \in Nat
  BY DEF SearchInv
<1> QED BY <1>1, <1>2, WalkInOrder

\* A commit's node was admitted, and its labels are the ones it gives.
LEMMA CommitBacked ==
  ASSUME SearchInv, BackedInv, NEW c, Commit(c)
  PROVE  /\ Len(nodes') = Len(nodes) + 1 /\ Len(nodes) \in Nat
         /\ \A n \in 1..Len(nodes') : NodeBacked(n)'
         /\ \A q \in Ports : \A l \in labels'[q] : Backed(q, l, Len(nodes))'
         /\ \A d \in frontier' : BackedInputs(d.solver, d.inputs, Len(nodes))'
<1> DEFINE new == Len(nodes) + 1
<1>1. /\ Pop(c) /\ Admitted(c) /\ inst' = inst /\ labels' = Committed(c)
      /\ nodes' = Append(nodes, [solver |-> c.solver, inputs |-> c.inputs])
  BY DEF Commit
<1>2. c \in Regenerated /\ frontier' = Regenerated \ {c}
  BY <1>1 DEF Pop
<1>3. /\ IsCandidate(c) /\ c = Candidate(c.solver, c.inputs)
      /\ c.solver \in DOMAIN inst.solvers /\ c.inputs \in Inputs(c.solver)
  BY <1>2, RegeneratedOK DEF IsCandidate
<1>4. /\ Len(nodes) \in Nat /\ Len(nodes') = new
      /\ \A n \in 1..Len(nodes) : nodes'[n] = nodes[n]
      /\ nodes'[new] = [solver |-> c.solver, inputs |-> c.inputs]
  BY <1>1 DEF SearchInv
<1>5. /\ \A q, l : Backed(q, l, Len(nodes)) => Backed(q, l, Len(nodes))'
      /\ \A s, f : BackedInputs(s, f, Len(nodes))
                     => BackedInputs(s, f, Len(nodes))'
  BY <1>1, <1>4, RestBackedKept
<1>6. \A n \in 1..Len(nodes) : NodeBacked(n)'
  BY <1>1, <1>4, NodesBackedKept
<1>7. \A n : n = new => NodeBacked(n)'
  <2>1. PICK k \in Nat : k = Len(nodes)
    BY <1>4
  <2>2. BackedInputs(c.solver, c.inputs, k)'
    <3>1. BackedInputs(c.solver, c.inputs, k)
      BY <1>2, <2>1, RegeneratedBacked
    <3>2. k <= k /\ \A n \in 1..k : nodes'[n] = nodes[n]
      BY <1>4, <2>1
    <3> QED BY <1>1, <3>1, <3>2, BackedKept
  <2>3. NodeBacked(k + 1)'
    <3>1. nodes'[k + 1] = [solver |-> c.solver, inputs |-> c.inputs]
      BY <1>4, <2>1
    <3>2. nodes'[k + 1].solver = c.solver /\ nodes'[k + 1].inputs = c.inputs
      BY <3>1
    <3>3. (k + 1) - 1 = k
      OBVIOUS
    <3>4. c.inputs \in Inputs(c.solver)' /\ Admitted(Candidate(c.solver, c.inputs))'
      BY <1>1, <1>3, SameCandidate
    <3> QED BY <2>2, <3>2, <3>3, <3>4 DEF NodeBacked
  <2> QED BY <2>1, <2>3
<1>8. ASSUME NEW q \in Ports, NEW l \in labels'[q]
      PROVE  Backed(q, l, Len(nodes))'
  <2>1. CASE l \in labels[q]
    BY <1>5, <2>1 DEF BackedInv
  <2>2. CASE l \notin labels[q]
    <3>1. PICK k \in Nat : k = new
      BY <1>4
    <3>2. q \in Solver(c.solver).outputs /\ l = OutputLabel(c, q, k)
      BY <1>1, <1>8, <2>2, <3>1 DEF Committed, Insert
    <3>3. l.node = k
      BY <3>2 DEF OutputLabel
    <3>4. nodes'[k].solver = c.solver /\ nodes'[k].inputs = c.inputs
      BY <1>4, <3>1
    <3>5. Given(q, l, [solver |-> c.solver, inputs |-> c.inputs], k)
      BY <1>3, <3>2 DEF Given
    <3>6. Given(q, l, nodes[k], k)'
      BY <1>1, <1>4, <3>1, <3>5, GivenKept
    <3>7. k \in 1..Len(nodes')
      BY <1>4, <3>1
    <3> QED BY <3>3, <3>6, <3>7 DEF Backed
  <2> QED BY <2>1, <2>2
<1>9. \A d \in frontier' : BackedInputs(d.solver, d.inputs, Len(nodes))'
  BY <1>2, <1>5, RegeneratedBacked
<1>10. \A n \in 1..Len(nodes') : n \in 1..Len(nodes) \/ n = new
  BY <1>4
<1> QED BY <1>4, <1>6, <1>7, <1>8, <1>9, <1>10

LEMMA ExtendBacked ==
  ASSUME SearchInv, BackedInv, NEW c, Extend(c) PROVE BackedInv'
<1>1. Commit(c) /\ result' = result /\ result.kind = "none"
  BY DEF Extend, Commit, Pop, SearchInv
<1>2. RouteBacked'
  BY <1>1 DEF RouteBacked
<1> QED BY <1>1, <1>2, CommitBacked DEF BackedInv

LEMMA WinBacked ==
  ASSUME SearchInv, BackedInv, NEW c, Win(c) PROVE BackedInv'
<1>1. Commit(c) /\ inst' = inst
  BY DEF Win, Commit
<1>2. PICK l \in labels'[inst.target] :
        /\ WithinBudget(l)
        /\ result' = Ok(l, IF l.node = 0 THEN <<>> ELSE Walk(l.node)')
  BY DEF Win
<1>3. /\ \A n \in 1..Len(nodes') : NodeBacked(n)'
      /\ \A q \in Ports : \A m \in labels'[q] : Backed(q, m, Len(nodes))'
      /\ \A d \in frontier' : BackedInputs(d.solver, d.inputs, Len(nodes))'
      /\ Len(nodes') \in Nat
  BY <1>1, CommitBacked
<1>4. SearchInv'
  BY CommitInv
<1>5. ASSUME inst.target \notin DOMAIN inst.known
      PROVE  /\ InOrder(result.steps)' /\ Backed(inst.target, result.label, Len(nodes))'
             /\ WithinBudget(result.label)'
             /\ \E j \in 1..Len(result'.steps) : result'.steps[j] = result'.label.node
  <2>1. inst.target \in Ports
    BY InstancesAssumption DEF SearchInv
  <2>2. Backed(inst.target, l, Len(nodes))'
    BY <1>1, <1>3, <2>1
  <2>3. l.node \in 1..Len(nodes')
    BY <1>1, <1>5, <2>2 DEF Backed
  <2>4. l.node # 0
    BY <1>3, <2>3
  <2>5. result'.label = l /\ result'.steps = Walk(l.node)'
    BY <1>2, <2>4 DEF Ok
  <2>6. PICK n : n = l.node
    OBVIOUS
  <2>7. InOrder(Walk(n))' /\ n \in Range(Walk(n)')
    <3>1. WalksInOrder'
      BY WalkBacked, PTL
    <3> QED BY <1>3, <1>4, <2>3, <2>6, <3>1 DEF WalksInOrder
  <2>8. InOrder(result.steps)'
    BY <2>5, <2>6, <2>7
  <2>9. \E j \in 1..Len(result'.steps) : result'.steps[j] = n
    <3>1. result'.steps \in Seq(1..Len(nodes'))
      BY <2>8 DEF InOrder
    <3>2. DOMAIN result'.steps = 1..Len(result'.steps)
      BY <3>1
    <3> QED BY <2>5, <2>6, <2>7, <3>2 DEF Range
  <2>10. WithinBudget(result.label)'
    BY <1>1, <1>2, <2>5 DEF WithinBudget
  <2> QED BY <2>2, <2>5, <2>6, <2>8, <2>9, <2>10
<1>6. RouteBacked'
  BY <1>1, <1>5 DEF RouteBacked
<1> QED BY <1>3, <1>6 DEF BackedInv

LEMMA NextBacked ==
  ASSUME SearchInv, BackedInv, [Next]_vars PROVE BackedInv'
<1>1. CASE Exhaust \/ UNCHANGED vars
  <2>1. UNCHANGED <<inst, labels, nodes, frontier>>
    BY <1>1 DEF Exhaust, vars
  <2>2. Len(nodes) \in Nat
    BY DEF SearchInv
  <2>3. \A n \in 1..Len(nodes) : NodeBacked(n)'
    BY <2>1, <2>2, NodesBackedKept
  <2>4. /\ \A q, l : Backed(q, l, Len(nodes)) => Backed(q, l, Len(nodes))'
        /\ \A s, f : BackedInputs(s, f, Len(nodes))
                       => BackedInputs(s, f, Len(nodes))'
    BY <2>1, <2>2, RestBackedKept
  <2>5. RouteBacked'
    <3>1. CASE Exhaust
      BY <3>1 DEF Exhaust, Finish, Err, RouteBacked
    <3>2. CASE UNCHANGED vars
      <4>1. result' = result
        BY <3>2 DEF vars
      <4>2. InOrder(result.steps) => InOrder(result.steps)'
        <5>1. \A m : Children(m)' = Children(m)
          BY <2>1 DEF Children, Solver
        <5> QED BY <2>1, <4>1, <5>1 DEF InOrder
      <4>3. WithinBudget(result.label)' = WithinBudget(result.label)
        BY <2>1, <4>1 DEF WithinBudget
      <4>4. Backed(inst.target, result.label, Len(nodes))
              => Backed(inst.target, result.label, Len(nodes))'
        <5>1. PICK l, q : l = result.label /\ q = inst.target
          OBVIOUS
        <5>2. l = result'.label /\ q = inst'.target
          BY <2>1, <4>1, <5>1
        <5> QED BY <2>4, <5>1, <5>2
      <4> QED BY <2>1, <4>1, <4>2, <4>3, <4>4 DEF BackedInv, RouteBacked
    <3> QED BY <1>1, <3>1, <3>2
  <2> QED BY <2>1, <2>3, <2>4, <2>5 DEF BackedInv
<1>2. ASSUME NEW c, Reject(c) \/ Prune(c) \/ Win(c) \/ Extend(c)
      PROVE  BackedInv'
  BY <1>2, PassBacked, WinBacked, ExtendBacked
<1> QED BY <1>1, <1>2, StartBacked DEF Next, Iterate

\* Run in the order of the Route, every step finds its inputs, inside its
\* domain, and the target comes out inside the budget, whenever the Route sets
\* no port twice: walk_route lists every node after the nodes that gave it its
\* inputs, and admission has looked at the boxes the executor will see.
THEOREM RoutesReplay == Spec => []RouteReplays
<1>1. Init => SearchInv /\ BackedInv
  BY InitInv, InitBacked
<1>2. SearchInv /\ BackedInv /\ [Next]_vars => (SearchInv /\ BackedInv)'
  BY NextInv, NextBacked
<1>3. SearchInv /\ BackedInv => RouteReplays
  BY BackedReplays
<1> QED BY <1>1, <1>2, <1>3, PTL DEF Spec
==============================================================================
