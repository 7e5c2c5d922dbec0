------------------------- MODULE RouteExecutionProofs -------------------------
(***************************************************************************)
(* Proofs about RouteExecution, for all runners, routes and solvers.  The  *)
(* solvers' promises (SolversReply, RepliesByContent, SolversAreAccurate)  *)
(* are hypotheses of the theorems that need them.  The inductive invariant *)
(* is ExecInv: it says of every entry, in a runner's hands or in the step  *)
(* cache, which sweep could have computed it.                              *)
(***************************************************************************)
EXTENDS RouteExecution, FiniteSetTheorems, WellFoundedInduction, TLAPS

----------------------------------------------------------------------------
(* Sets of numbers and functions.                                          *)

\* A non-empty set of naturals has a least member.
LEMMA NatHasLeast ==
  ASSUME NEW S \in SUBSET Nat, S # {}
  PROVE  \E x \in S : \A y \in S : x <= y
<1>1. \E R : /\ IsWellFoundedOn(R, Nat)
             /\ \A x, y \in Nat : x < y => <<x, y>> \in R
  <2> DEFINE R == OpToRel(<, Nat)
  <2>1. \A x, y \in Nat : x < y => <<x, y>> \in R
    BY DEF OpToRel
  <2> QED BY <2>1, NatLessThanWellFounded
<1>2. PICK R : /\ IsWellFoundedOn(R, Nat)
               /\ \A x, y \in Nat : x < y => <<x, y>> \in R
  BY <1>1
<1>a. IsWellFoundedOn(R, Nat) /\ S \subseteq Nat
  BY <1>2
<1>3. \E x \in S : \A y \in S : ~ (<<y, x>> \in R)
  BY <1>a, WFMin, Zenon
<1>4. PICK x \in S : \A y \in S : ~ (<<y, x>> \in R)
  BY <1>3
<1>5. ASSUME NEW y \in S PROVE ~ (y < x)
  BY <1>2, <1>4, Zenon
<1>6. \A y \in S : x <= y
  BY <1>5
<1> QED BY <1>6

\* A non-empty finite set of integers has a greatest and a least member.
LEMMA HasExtremes ==
  ASSUME NEW S \in SUBSET Int, S # {}, IsFiniteSet(S)
  PROVE  /\ \E x \in S : \A y \in S : y <= x
         /\ \E x \in S : \A y \in S : x <= y
<1> DEFINE Bounded(T) == /\ \E x \in T : \A y \in T : y <= x
                         /\ \E x \in T : \A y \in T : x <= y
           Bad == {n \in Nat : \E T \in SUBSET S :
                     T # {} /\ Cardinality(T) = n /\ ~ Bounded(T)}
<1>1. \A T \in SUBSET S : IsFiniteSet(T) /\ Cardinality(T) \in Nat
  BY FS_Subset, FS_CardinalityType
<1>2. SUFFICES ASSUME ~ Bounded(S) PROVE FALSE
  OBVIOUS
<1>3. Cardinality(S) \in Bad
  BY <1>1, <1>2
<1>4. PICK n \in Bad : \A m \in Bad : n <= m
  <2> HIDE DEF Bad
  <2>1. Bad \in SUBSET Nat
    BY DEF Bad
  <2> QED BY <1>3, <2>1, NatHasLeast
<1>5. PICK T \in SUBSET S : T # {} /\ Cardinality(T) = n /\ ~ Bounded(T)
  BY <1>4
<1>6. PICK x : x \in T
  BY <1>5
<1> DEFINE U == T \ {x}
<1>7. Cardinality(U) = n - 1 /\ U \in SUBSET S
  BY <1>1, <1>5, <1>6, FS_RemoveElement
<1>8. Bounded(U) \/ U = {}
  <2>1. SUFFICES ASSUME U # {}, ~ Bounded(U) PROVE FALSE
    OBVIOUS
  <2>2. n - 1 \in Bad
    <3>1. n - 1 \in Nat
      BY <1>1, <1>7
    <3> QED BY <1>7, <2>1, <3>1
  <2> HIDE DEF Bad
  <2>3. n \in Nat
    BY DEF Bad
  <2> QED BY <1>4, <2>2, <2>3
<1> HIDE DEF Bad
<1>9. T \subseteq Int /\ x \in Int /\ \A y \in T : y = x \/ y \in U
  BY <1>5, <1>6
<1>10. CASE U = {}
  BY <1>5, <1>6, <1>9, <1>10
<1>11. CASE Bounded(U)
  <2>1. PICK a \in U : \A y \in U : y <= a
    BY <1>11
  <2>2. PICK b \in U : \A y \in U : b <= y
    BY <1>11
  <2>3. a \in T /\ b \in T /\ a \in Int /\ b \in Int /\ U \subseteq Int
    BY <1>9
  <2>4. \E z \in T : \A y \in T : y <= z
    <3>1. CASE x <= a
      BY <1>9, <2>1, <2>3, <3>1
    <3>2. CASE a < x
      <4>1. \A y \in T : y <= x
        BY <1>9, <2>1, <2>3, <3>2
      <4> QED BY <1>6, <4>1
    <3> QED BY <1>9, <2>3, <3>1, <3>2
  <2>5. \E z \in T : \A y \in T : z <= y
    <3>1. CASE b <= x
      BY <1>9, <2>2, <2>3, <3>1
    <3>2. CASE x < b
      <4>1. \A y \in T : x <= y
        BY <1>9, <2>2, <2>3, <3>2
      <4> QED BY <1>6, <4>1
    <3> QED BY <1>9, <2>3, <3>1, <3>2
  <2> QED BY <1>5, <2>4, <2>5
<1> QED BY <1>8, <1>10, <1>11

\* Max and Min of such a set are those members.
LEMMA Extremes ==
  ASSUME NEW S \in SUBSET Int, S # {}, IsFiniteSet(S)
  PROVE  /\ Max(S) \in S /\ \A y \in S : y <= Max(S)
         /\ Min(S) \in S /\ \A y \in S : Min(S) <= y
<1>1. \E x \in S : \A y \in S : x >= y
  BY HasExtremes
<1>2. \E x \in S : \A y \in S : x =< y
  BY HasExtremes
<1>3. Max(S) \in S /\ \A y \in S : Max(S) >= y
  BY <1>1 DEF Max
<1>4. Min(S) \in S /\ \A y \in S : Min(S) =< y
  BY <1>2 DEF Min
<1> QED BY <1>3, <1>4

\* The values of a function on a finite set are finitely many.
LEMMA ValuesFinite ==
  ASSUME NEW S, IsFiniteSet(S), NEW f, DOMAIN f = S, f = [x \in S |-> f[x]]
  PROVE  IsFiniteSet({f[x] : x \in S})
<1> DEFINE T == {f[x] : x \in S}
<1>1. f \in [S -> T]
  OBVIOUS
<1>2. f \in Surjection(S, T)
  BY <1>1 DEF Surjection
<1> QED BY <1>2, FS_Surjection

----------------------------------------------------------------------------
(* One step's sweep.                                                       *)

\* A step's arguments: the box of its scalars, its payloads, the budget left.
ArgsOK(s, box, rf, rem) ==
  /\ s \in Solvers
  /\ box \in [Info[s].inputs -> Interval]
  /\ rf \in [Info[s].payloadInputs -> Refs]
  /\ rem \in Nat \cup {NoBudget}

Clean(s, c, rf, rem) ==
  {o \in Answers(s, c, rf, rem) : OutputErrors(Info[s], o) = {}}

\* f answers the corners C, and outs are its answers.
SweepOver(s, C, rf, rem, f, outs) ==
  /\ f \in [C -> outs] /\ outs = {f[c] : c \in C} /\ IsFiniteSet(outs)
  /\ \A c \in C : f[c] \in Clean(s, c, rf, rem)

\* The entry e is what some sweep of the step comes to.
Computed(s, box, rf, rem, e) ==
  \E outs : \E f : /\ SweepOver(s, Corners(box), rf, rem, f, outs)
                   /\ ~ Varies(Info[s], outs)
                   /\ e = EntryOf(Info[s], outs)

EntryTyped(i, e) ==
  /\ DOMAIN e.hull = i.outputs /\ \A p \in i.outputs : e.hull[p] \in Interval
  /\ DOMAIN e.refs = i.payloadOutputs
  /\ \A p \in i.payloadOutputs : e.refs[p] \in Refs
  /\ e.eps \in Nat

\* A box of integers has a corner, and its corners are integers.
LEMMA CornersOfBox ==
  ASSUME NEW P, NEW box \in [P -> Interval]
  PROVE  /\ Corners(box) # {}
         /\ \A c \in Corners(box) : c \in [P -> Int]
<1>1. DOMAIN box = P /\ \A p \in P : box[p][1] \in Int /\ box[p][2] \in Int
  BY DEF Interval
<1> DEFINE E == UNION {{box[p][1], box[p][2]} : p \in DOMAIN box}
           low == [p \in P |-> box[p][1]]
<1>2. low \in [DOMAIN box -> E]
  BY <1>1
<1>3. low \in Corners(box)
  BY <1>1, <1>2 DEF Corners
<1>4. ASSUME NEW c \in Corners(box) PROVE c \in [P -> Int]
  <2>1. c \in [P -> E] /\ \A p \in P : c[p] \in {box[p][1], box[p][2]}
    BY <1>1 DEF Corners
  <2>2. \A p \in P : c[p] \in Int
    BY <1>1, <2>1
  <2>3. c = [p \in P |-> c[p]]
    BY <2>1
  <2> QED BY <2>2, <2>3
<1> QED BY <1>3, <1>4

\* What a clean reply is, by the solvers' promise and the executor's checks.
LEMMA CleanReply ==
  ASSUME SolversReply(Int, Refs), NEW s, NEW box, NEW rf, NEW rem,
         ArgsOK(s, box, rf, rem), NEW c \in [Info[s].inputs -> Int],
         NEW o \in Clean(s, c, rf, rem)
  PROVE  /\ o.err = "none"
         /\ Info[s].outputs \subseteq DOMAIN o.values
         /\ \A p \in Info[s].outputs : o.values[p] \in Int
         /\ Info[s].payloadOutputs \subseteq DOMAIN o.refs
         /\ \A p \in Info[s].payloadOutputs : o.refs[p] \in Refs
         /\ o.measured \subseteq Nat /\ IsFiniteSet(o.measured)
<1> DEFINE a == [corner |-> c, refs |-> rf, remaining |-> rem]
           i == Info[s]
<1>1. a \in Calls(s, Int, Refs) /\ o \in Replies(s, a)
  <2>1. Int \cap Nat = Nat
    OBVIOUS
  <2> QED BY <2>1 DEF ArgsOK, Calls, Replies, Clean
<1>2. OutputErrors(i, o) = {}
  BY DEF Clean
<1>3. o.err = "none"
  BY <1>2 DEF OutputErrors
<1>4. /\ i.outputs \subseteq DOMAIN o.values
      /\ i.payloadOutputs \subseteq DOMAIN o.refs
      /\ \A p \in DOMAIN o.values : o.values[p] # NaN
      /\ \A e \in o.measured : e # NaN /\ ~ (e < 0)
  BY <1>2, <1>3 DEF OutputErrors
<1>5. /\ \A p \in DOMAIN o.values : o.values[p] \in Int \cup {NaN}
      /\ o.measured \subseteq Int \cup {NaN} /\ IsFiniteSet(o.measured)
      /\ \A p \in DOMAIN o.refs : o.refs[p] \in Refs
  BY <1>1 DEF SolversReply, ArgsOK
<1> HIDE DEF a
<1>6. o.measured \subseteq Nat
  BY <1>4, <1>5
<1> QED BY <1>3, <1>4, <1>5, <1>6

\* The hull and the charge of a sweep bound all of its answers.
LEMMA SweepBounds ==
  ASSUME SolversReply(Int, Refs), NEW s, NEW box, NEW rf, NEW rem,
         ArgsOK(s, box, rf, rem), NEW f, NEW outs,
         SweepOver(s, Corners(box), rf, rem, f, outs)
  PROVE  /\ outs # {}
         /\ \A p \in Info[s].outputs :
              /\ Hull(Info[s], outs)[p] \in Interval
              /\ \A o \in outs : Hull(Info[s], outs)[p][1] <= o.values[p]
                              /\ o.values[p] <= Hull(Info[s], outs)[p][2]
         /\ StepEps(Info[s], outs) \in Nat
         /\ \A o \in outs : \A e \in o.measured : e <= StepEps(Info[s], outs)
         /\ (\A o \in outs : o.measured = {}) =>
              \A p \in Info[s].outputs :
                Info[s].accuracy[p] <= StepEps(Info[s], outs)
<1> DEFINE i == Info[s]
<1>1. \A o \in outs :
        /\ \A p \in i.outputs : o.values[p] \in Int
        /\ o.measured \subseteq Nat /\ IsFiniteSet(o.measured)
  <2>1. ASSUME NEW o \in outs
        PROVE  /\ \A p \in i.outputs : o.values[p] \in Int
               /\ o.measured \subseteq Nat /\ IsFiniteSet(o.measured)
    <3>1. PICK c \in Corners(box) : o = f[c] /\ o \in Clean(s, c, rf, rem)
      BY DEF SweepOver
    <3>2. c \in [i.inputs -> Int]
      BY CornersOfBox DEF ArgsOK
    <3> QED BY <3>1, <3>2, CleanReply
  <2> QED BY <2>1
<1>2. outs # {} /\ IsFiniteSet(outs)
  <2>1. Corners(box) # {}
    BY CornersOfBox DEF ArgsOK
  <2> QED BY <2>1 DEF SweepOver
<1>3. ASSUME NEW p \in i.outputs
      PROVE  /\ Hull(i, outs)[p] \in Interval
             /\ \A o \in outs : Hull(i, outs)[p][1] <= o.values[p]
                             /\ o.values[p] <= Hull(i, outs)[p][2]
  <2> DEFINE vs == {o.values[p] : o \in outs}
             v == [o \in outs |-> o.values[p]]
  <2>1. vs \in SUBSET Int /\ vs # {}
    BY <1>1, <1>2
  <2>2. IsFiniteSet(vs)
    <3>1. vs = {v[o] : o \in outs} /\ DOMAIN v = outs
          /\ v = [o \in outs |-> v[o]]
      OBVIOUS
    <3> HIDE DEF v
    <3>2. IsFiniteSet({v[o] : o \in outs})
      BY <1>2, <3>1, ValuesFinite
    <3> QED BY <3>1, <3>2
  <2>3. /\ Max(vs) \in vs /\ \A y \in vs : y <= Max(vs)
        /\ Min(vs) \in vs /\ \A y \in vs : Min(vs) <= y
    <3> HIDE DEF vs
    <3> QED BY <2>1, <2>2, Extremes
  <2>4. Hull(i, outs)[p] = <<Min(vs), Max(vs)>>
    BY DEF Hull
  <2>5. \A o \in outs : Min(vs) <= o.values[p] /\ o.values[p] <= Max(vs)
    BY <2>3
  <2>6. Min(vs) \in Int /\ Max(vs) \in Int /\ Min(vs) <= Max(vs)
    <3> HIDE DEF vs
    <3> QED BY <2>1, <2>3
  <2> HIDE DEF vs
  <2> QED BY <2>4, <2>5, <2>6 DEF Interval
<1> DEFINE ms == UNION {o.measured : o \in outs}
           as == {0} \cup {i.accuracy[p] : p \in i.outputs}
<1>4. ms \in SUBSET Nat /\ IsFiniteSet(ms)
  <2> DEFINE g == [o \in outs |-> o.measured]
  <2>1. {o.measured : o \in outs} = {g[o] : o \in outs}
    OBVIOUS
  <2>2. IsFiniteSet({g[o] : o \in outs})
    <3>1. DOMAIN g = outs /\ g = [o \in outs |-> g[o]]
      OBVIOUS
    <3> HIDE DEF g
    <3> QED BY <1>2, <3>1, ValuesFinite
  <2>3. \A T \in {o.measured : o \in outs} : IsFiniteSet(T)
    BY <1>1
  <2>4. IsFiniteSet(ms)
    BY <2>1, <2>2, <2>3, FS_UNION
  <2> QED BY <1>1, <2>4
<1>5. as \in SUBSET Nat /\ IsFiniteSet(as) /\ as # {}
  <2>1. i.accuracy \in [i.outputs -> Nat] /\ IsFiniteSet(i.outputs)
    BY ExecutionAssumption DEF ArgsOK, ValidInfo
  <2>2. IsFiniteSet({i.accuracy[p] : p \in i.outputs})
    BY <2>1, ValuesFinite
  <2>3. IsFiniteSet(as)
    BY <2>2, FS_Singleton, FS_Union
  <2> QED BY <2>1, <2>3
<1>6. StepEps(i, outs) = IF ms # {} THEN Max(ms) ELSE Max(as)
  BY DEF StepEps
<1> HIDE DEF as
<1>7. CASE ms = {}
  <2>1. Max(as) \in as /\ \A y \in as : y <= Max(as)
    <3>1. as \in SUBSET Int
      BY <1>5
    <3> QED BY <1>5, <3>1, Extremes
  <2>2. \A p \in i.outputs : i.accuracy[p] <= Max(as)
    BY <2>1 DEF as
  <2>3. StepEps(i, outs) \in Nat
    BY <1>5, <1>6, <1>7, <2>1
  <2>4. \A o \in outs : \A e \in o.measured : e <= StepEps(i, outs)
    BY <1>7
  <2> HIDE DEF ms, i
  <2> QED BY <1>2, <1>3, <1>6, <1>7, <2>2, <2>3, <2>4 DEF i
<1>8. CASE ms # {}
  <2>1. Max(ms) \in ms /\ \A y \in ms : y <= Max(ms)
    <3>1. ms \in SUBSET Int
      BY <1>4
    <3> HIDE DEF ms
    <3> QED BY <1>4, <1>8, <3>1, Extremes
  <2>2. StepEps(i, outs) \in Nat
    BY <1>4, <1>6, <1>8, <2>1
  <2>3. \A o \in outs : \A e \in o.measured : e <= StepEps(i, outs)
    BY <1>6, <1>8, <2>1
  <2>4. ~ \A o \in outs : o.measured = {}
    BY <1>8
  <2> HIDE DEF ms, i
  <2> QED BY <1>2, <1>3, <2>2, <2>3, <2>4 DEF i
<1> QED BY <1>7, <1>8

\* An entry some sweep computed has an interval for every output and a
\* charge that is a number.
LEMMA ComputedTyped ==
  ASSUME SolversReply(Int, Refs), NEW s, NEW box, NEW rf, NEW rem,
         ArgsOK(s, box, rf, rem), NEW e, Computed(s, box, rf, rem, e)
  PROVE  EntryTyped(Info[s], e)
<1>1. PICK outs, f : /\ SweepOver(s, Corners(box), rf, rem, f, outs)
                     /\ e = EntryOf(Info[s], outs)
  BY DEF Computed
<1>2. /\ e.hull = Hull(Info[s], outs) /\ e.refs = Produced(Info[s], outs)
      /\ e.eps = StepEps(Info[s], outs)
  BY <1>1 DEF EntryOf
<1>3. /\ DOMAIN e.hull = Info[s].outputs
      /\ \A p \in Info[s].outputs : e.hull[p] \in Interval
      /\ e.eps \in Nat /\ outs # {}
  <2>1. DOMAIN Hull(Info[s], outs) = Info[s].outputs
    BY DEF Hull
  <2> QED BY <1>1, <1>2, <2>1, SweepBounds
<1> DEFINE o == CHOOSE o \in outs : TRUE
<1>4. PICK c \in Corners(box) : o = f[c] /\ o \in Clean(s, c, rf, rem)
  <2>1. o \in outs
    BY <1>3
  <2> HIDE DEF o
  <2> QED BY <1>1, <2>1 DEF SweepOver
<1>5. \A p \in Info[s].payloadOutputs : o.refs[p] \in Refs
  <2>1. c \in [Info[s].inputs -> Int]
    BY CornersOfBox DEF ArgsOK
  <2> HIDE DEF o
  <2> QED BY <1>4, <2>1, CleanReply
<1>6. DOMAIN e.refs = Info[s].payloadOutputs
      /\ \A p \in Info[s].payloadOutputs : e.refs[p] \in Refs
  BY <1>2, <1>5 DEF Produced
<1> QED BY <1>3, <1>6 DEF EntryTyped

\* The hull of a sweep, inflated by its charge, holds the exact value at
\* every point of the box: the corners bound it, every answer is within the
\* charge of its corner, and no answer's charge exceeds the step's.
LEMMA ComputedCovers ==
  ASSUME SolversReply(Int, Refs), SolversAreAccurate(Int, Refs),
         NEW s, NEW box, NEW rf, NEW rem, ArgsOK(s, box, rf, rem),
         NEW e, Computed(s, box, rf, rem, e),
         NEW y \in [Info[s].inputs -> Int],
         \A q \in Info[s].inputs : box[q][1] <= y[q] /\ y[q] <= box[q][2],
         NEW p \in Info[s].outputs
  PROVE  /\ e.hull[p][1] - e.eps <= Exact(s, p, y)
         /\ Exact(s, p, y) <= e.hull[p][2] + e.eps
<1>1. PICK outs, f : /\ SweepOver(s, Corners(box), rf, rem, f, outs)
                     /\ e = EntryOf(Info[s], outs)
  BY DEF Computed
<1>2. e.hull = Hull(Info[s], outs) /\ e.eps = StepEps(Info[s], outs)
  BY <1>1 DEF EntryOf
<1>3. s \in Solvers /\ box \in [Info[s].inputs -> (Int \X Int) \cap Interval]
  BY DEF ArgsOK, Interval
<1>4. PICK lo, hi \in Corners(box) :
        Exact(s, p, lo) <= Exact(s, p, y) /\ Exact(s, p, y) <= Exact(s, p, hi)
  BY <1>3 DEF SolversAreAccurate
<1>5. \A c \in Corners(box) : c \in [Info[s].inputs -> Int]
  BY CornersOfBox DEF ArgsOK
<1>6. /\ e.hull[p] \in Interval /\ e.eps \in Nat
      /\ \A o \in outs : e.hull[p][1] <= o.values[p]
                      /\ o.values[p] <= e.hull[p][2]
      /\ \A o \in outs : \A m \in o.measured : m <= e.eps
      /\ (\A o \in outs : o.measured = {}) => Info[s].accuracy[p] <= e.eps
  BY <1>1, <1>2, SweepBounds
<1>7. Info[s].accuracy[p] \in Nat
  BY <1>3, ExecutionAssumption DEF ValidInfo
\* Each corner's answer.
<1> DEFINE a(c) == [corner |-> c, refs |-> rf, remaining |-> rem]
<1>8. ASSUME NEW c \in Corners(box)
      PROVE  /\ f[c] \in outs /\ f[c].values[p] \in Int
             /\ f[c].measured \subseteq Nat
             /\ a(c) \in Calls(s, Int, Refs) /\ f[c] \in Replies(s, a(c))
             /\ Sane(f[c])
  <2>1. f[c] \in Clean(s, c, rf, rem) /\ f[c] \in outs
    BY <1>1 DEF SweepOver
  <2>2. /\ f[c].err = "none" /\ f[c].values[p] \in Int
        /\ f[c].measured \subseteq Nat
    BY <1>5, <2>1, CleanReply
  <2>3. a(c) \in Calls(s, Int, Refs) /\ f[c] \in Replies(s, a(c))
    <3>1. Int \cap Nat = Nat
      OBVIOUS
    <3> QED BY <1>5, <2>1, <3>1 DEF ArgsOK, Calls, Replies, Clean
  <2> QED BY <2>1, <2>2, <2>3 DEF Sane
<1>9. ASSUME NEW c \in Corners(box), NEW d \in Corners(box),
             f[c].measured = {}
      PROVE  f[d].measured = {}
  <2>1. PICK measures \in BOOLEAN :
          \A b \in Calls(s, Int, Refs) : \A o \in Replies(s, b) :
            Sane(o) => (o.measured # {}) = measures
    BY <1>3 DEF SolversAreAccurate
  <2>2. /\ a(c) \in Calls(s, Int, Refs) /\ f[c] \in Replies(s, a(c))
        /\ Sane(f[c])
    BY <1>8
  <2>3. /\ a(d) \in Calls(s, Int, Refs) /\ f[d] \in Replies(s, a(d))
        /\ Sane(f[d])
    BY <1>8
  <2> HIDE DEF a
  <2>4. (f[c].measured # {}) = measures
    BY <2>1, <2>2, Zenon
  <2>5. (f[d].measured # {}) = measures
    BY <2>1, <2>3, Zenon
  <2> QED BY <1>9, <2>4, <2>5
<1>10. ASSUME NEW c \in Corners(box)
       PROVE  /\ Exact(s, p, c) \in Int
              /\ f[c].values[p] - e.eps <= Exact(s, p, c)
              /\ Exact(s, p, c) <= f[c].values[p] + e.eps
  <2>1. PICK m \in Charge(s, p, f[c]) :
          /\ f[c].values[p] - m <= Exact(s, p, c)
          /\ Exact(s, p, c) <= f[c].values[p] + m
    <3>1. p \in DOMAIN f[c].values
      <4>1. f[c] \in Clean(s, c, rf, rem)
        BY <1>1 DEF SweepOver
      <4> QED BY <1>5, <4>1, CleanReply
    <3>2. f[c].values[p] # NaN
      BY <1>8, ExecutionAssumption
    <3>3. a(c).corner = c
      OBVIOUS
    <3>4. /\ a(c) \in Calls(s, Int, Refs) /\ f[c] \in Replies(s, a(c))
          /\ Sane(f[c])
      BY <1>8
    <3>5. \A b \in Calls(s, Int, Refs) : \A o \in Replies(s, b) :
            Sane(o) => \A q \in Info[s].outputs \cap DOMAIN o.values :
              o.values[q] # NaN => \E m \in Charge(s, q, o) :
                /\ o.values[q] - m <= Exact(s, q, b.corner)
                /\ Exact(s, q, b.corner) <= o.values[q] + m
      BY <1>3 DEF SolversAreAccurate
    <3> HIDE DEF a
    <3> QED BY <3>1, <3>2, <3>3, <3>4, <3>5
  <2>2. m \in Nat /\ m <= e.eps
    <3>1. CASE f[c].measured = {}
      <4>1. \A o \in outs : o.measured = {}
        BY <1>1, <1>9, <3>1 DEF SweepOver
      <4> QED BY <1>6, <1>7, <2>1, <3>1, <4>1 DEF Charge
    <3>2. CASE f[c].measured # {}
      BY <1>6, <1>8, <2>1, <3>2 DEF Charge
    <3> QED BY <3>1, <3>2
  <2>3. Exact(s, p, c) \in Int
    BY <1>3, <1>5 DEF SolversAreAccurate
  <2> HIDE DEF a
  <2> QED BY <1>6, <1>8, <2>1, <2>2, <2>3
<1>11. Exact(s, p, y) \in Int
  BY <1>3 DEF SolversAreAccurate
<1>12. e.hull[p][1] \in Int /\ e.hull[p][2] \in Int
  BY <1>6 DEF Interval
<1>13. /\ e.hull[p][1] <= f[lo].values[p] /\ f[lo].values[p] \in Int
       /\ f[hi].values[p] <= e.hull[p][2] /\ f[hi].values[p] \in Int
  BY <1>6, <1>8
<1>14. /\ f[lo].values[p] - e.eps <= Exact(s, p, lo) /\ Exact(s, p, lo) \in Int
       /\ Exact(s, p, hi) <= f[hi].values[p] + e.eps
       /\ Exact(s, p, hi) \in Int
  BY <1>10
<1> HIDE DEF a
<1> QED BY <1>4, <1>6, <1>11, <1>12, <1>13, <1>14

\* The solvers whose steps take part in the step cache.
Keyed(s) ==
  Info[s].deterministic
    /\ (Info[s].payloadInputs # {} \/ Info[s].payloadOutputs # {})

Digests(rf) == [p \in DOMAIN rf |-> rf[p].digest]

\* What one call of such a step may compute, any call with the same box and
\* payload contents may.
LEMMA ComputedByContent ==
  ASSUME RepliesByContent(Int, Refs), NEW s, NEW box, NEW e,
         NEW rf, NEW rem, ArgsOK(s, box, rf, rem),
         NEW rg, NEW rest, ArgsOK(s, box, rg, rest),
         Keyed(s), Digests(rf) = Digests(rg), Computed(s, box, rf, rem, e)
  PROVE  Computed(s, box, rg, rest, e)
<1>1. PICK outs, f : /\ SweepOver(s, Corners(box), rf, rem, f, outs)
                     /\ ~ Varies(Info[s], outs) /\ e = EntryOf(Info[s], outs)
  BY DEF Computed
<1>2. ASSUME NEW c \in Corners(box)
      PROVE  Clean(s, c, rf, rem) = Clean(s, c, rg, rest)
  <2> DEFINE a == [corner |-> c, refs |-> rf, remaining |-> rem]
             b == [corner |-> c, refs |-> rg, remaining |-> rest]
  <2>1. c \in [Info[s].inputs -> Int]
    BY CornersOfBox DEF ArgsOK
  <2>2. a \in Calls(s, Int, Refs) /\ b \in Calls(s, Int, Refs)
    <3>1. Int \cap Nat = Nat
      OBVIOUS
    <3> QED BY <2>1, <3>1 DEF ArgsOK, Calls
  <2>3. \A p \in Info[s].payloadInputs :
          a.refs[p].digest = b.refs[p].digest
    <3>1. \A p \in Info[s].payloadInputs :
            /\ Digests(rf)[p] = rf[p].digest
            /\ Digests(rg)[p] = rg[p].digest
      BY DEF ArgsOK, Digests
    <3> QED BY <3>1
  <2>4. Replies(s, a) = Replies(s, b)
    <3>1. a.corner = b.corner
      OBVIOUS
    <3> HIDE DEF a, b
    <3> QED BY <2>2, <2>3, <3>1 DEF RepliesByContent, ArgsOK, Keyed
  <2> QED BY <2>4 DEF Replies, Clean
<1>3. SweepOver(s, Corners(box), rg, rest, f, outs)
  BY <1>1, <1>2 DEF SweepOver
<1> QED BY <1>1, <1>3 DEF Computed

----------------------------------------------------------------------------
(* The invariant.                                                          *)

PerRunner ==
  /\ DOMAIN pos = Runners /\ DOMAIN values = Runners
  /\ DOMAIN eps = Runners /\ DOMAIN refs = Runners
  /\ DOMAIN todo = Runners /\ DOMAIN answers = Runners
  /\ DOMAIN entry = Runners

\* The ports r's steps so far have produced, and those it started from.
Achieved(r) ==
  DOMAIN job[r].known
    \cup UNION {Info[job[r].route[l]].outputs : l \in 1..(pos[r] - 1)}

\* Every achieved port has an interval and a charge.
ValuesOK(r) ==
  /\ pos[r] \in 1..(Len(job[r].route) + 1)
  /\ \A p \in DOMAIN values[r] : values[r][p] \in Interval
                              /\ eps[r][p] \in Nat
  /\ DOMAIN eps[r] = DOMAIN values[r]
  /\ Achieved(r) \subseteq DOMAIN values[r]
  /\ \A p \in DOMAIN refs[r] : refs[r][p] \in Refs

Stepping(r) == pc[r] \in {"probe", "sweep", "check"}

StepReady(r) ==
  Stepping(r) => /\ pos[r] <= Len(job[r].route)
                 /\ At(r).payloadInputs \subseteq DOMAIN refs[r]

\* The corners that are not to do have been answered cleanly, and answers
\* holds those replies.
SweepSoFar(r) ==
  pc[r] = "sweep" =>
    /\ todo[r] \subseteq Corners(Box(r))
    /\ \E f : SweepOver(Solver(r), Corners(Box(r)) \ todo[r], StepRefs(r),
                        Remaining(r), f, answers[r])

\* The entry in r's hands is one this step could have computed, with
\* payloads of the same content.
EntryComputed(r) ==
  pc[r] = "check" =>
    \E rf, rem : /\ ArgsOK(Solver(r), Box(r), rf, rem)
                 /\ Computed(Solver(r), Box(r), rf, rem, entry[r])

RunnerInv(r) ==
  ValuesOK(r) /\ StepReady(r) /\ SweepSoFar(r) /\ EntryComputed(r)

\* The entry s, box and digests are the key of.
StoredFor(key, e) ==
  \E s, box, rf, rem : /\ ArgsOK(s, box, rf, rem) /\ Keyed(s)
                       /\ key = <<s, box, Digests(rf)>>
                       /\ Computed(s, box, rf, rem, e)

CacheInv == \A key \in DOMAIN stepCache : StoredFor(key, stepCache[key])

ExecInv == /\ TypeOK /\ PerRunner /\ CacheInv
           /\ \A r \in Runners : RunnerInv(r)

\* A runner in a step calls one of its route's solvers on a box of intervals.
LEMMA StepArgs ==
  ASSUME NEW r \in Runners, job[r] \in Jobs, ValuesOK(r), StepReady(r),
         Stepping(r)
  PROVE  /\ Solver(r) \in Solvers /\ pos[r] \in DOMAIN job[r].route
         /\ At(r).inputs \subseteq DOMAIN values[r]
         /\ ArgsOK(Solver(r), Box(r), StepRefs(r), Remaining(r))
<1>1. /\ job[r].route \in Seq(Solvers) /\ pos[r] \in 1..Len(job[r].route)
      /\ job[r].budget \in Nat \cup {NoBudget}
  BY ExecutionAssumption DEF ValuesOK, StepReady
<1>2. pos[r] \in DOMAIN job[r].route /\ Solver(r) \in Solvers
  BY <1>1 DEF Solver
<1>3. At(r).inputs \subseteq DOMAIN values[r]
  BY <1>2, RoutesAssumption DEF At, Solver, ValuesOK, Achieved
<1>4. Box(r) \in [At(r).inputs -> Interval]
  <2>1. ASSUME NEW p \in At(r).inputs
        PROVE  Inflate(values[r][p], eps[r][p]) \in Interval
    BY <1>3 DEF ValuesOK, Inflate, Interval
  <2> QED BY <2>1 DEF Box
<1>5. StepRefs(r) \in [At(r).payloadInputs -> Refs]
  BY DEF StepRefs, StepReady, ValuesOK
<1>6. Remaining(r) \in Nat \cup {NoBudget}
  <2> DEFINE E == {eps[r][p] : p \in At(r).inputs}
             spent == {0} \cup E
  <2>1. CASE job[r].budget = NoBudget
    BY <2>1 DEF Remaining
  <2>2. CASE job[r].budget # NoBudget
    <3>1. IsFiniteSet(E)
      <4> DEFINE g == [p \in At(r).inputs |-> eps[r][p]]
      <4>1. E = {g[p] : p \in At(r).inputs}
        OBVIOUS
      <4>2. IsFiniteSet(At(r).inputs)
        BY <1>2, ExecutionAssumption DEF At, ValidInfo
      <4>3. DOMAIN g = At(r).inputs /\ g = [p \in At(r).inputs |-> g[p]]
        OBVIOUS
      <4> HIDE DEF g
      <4> QED BY <4>1, <4>2, <4>3, ValuesFinite
    <3>2. IsFiniteSet(spent) /\ spent # {} /\ spent \in SUBSET Int
      <4>1. E \subseteq Int
        BY <1>3 DEF ValuesOK
      <4>2. IsFiniteSet({0})
        BY FS_Singleton, Zenon
      <4> HIDE DEF E
      <4>3. IsFiniteSet({0} \cup E)
        BY <3>1, <4>2, FS_Union
      <4> QED BY <4>1, <4>3
    <3>3. Max(spent) \in Int
      <4> HIDE DEF spent
      <4> QED BY <3>2, Extremes
    <3> DEFINE left == {0, job[r].budget - Max(spent)}
    <3>4. left \in SUBSET Int /\ left # {} /\ IsFiniteSet(left)
      <4>1. left = {0} \cup {job[r].budget - Max(spent)}
        OBVIOUS
      <4>2. IsFiniteSet(left)
        <5>1. IsFiniteSet({0}) /\ IsFiniteSet({job[r].budget - Max(spent)})
          BY FS_Singleton, Zenon
        <5> DEFINE zero == {0}
                   rest == {job[r].budget - Max(spent)}
        <5>2. IsFiniteSet(zero \cup rest)
          <6>1. IsFiniteSet(zero) /\ IsFiniteSet(rest)
            BY <5>1
          <6> HIDE DEF zero, rest
          <6> QED BY <6>1, FS_Union
        <5> QED BY <4>1, <5>2
      <4>3. job[r].budget - Max(spent) \in Int
        BY <1>1, <2>2, <3>3
      <4> QED BY <4>2, <4>3
    <3>5. Max(left) \in Int /\ 0 <= Max(left)
      <4>1. 0 \in left
        OBVIOUS
      <4> HIDE DEF left
      <4> QED BY <3>4, <4>1, Extremes
    <3>6. Remaining(r) = Max(left)
      BY <2>2 DEF Remaining
    <3> HIDE DEF left
    <3> QED BY <3>5, <3>6
  <2> QED BY <2>1, <2>2
<1> QED BY <1>2, <1>3, <1>4, <1>5, <1>6 DEF ArgsOK, At

\* What the invariant says of r depends on r's own state only.
LEMMA RunnerFrame ==
  ASSUME NEW r, RunnerInv(r),
         job' = job, pc'[r] = pc[r], pos'[r] = pos[r],
         values'[r] = values[r], eps'[r] = eps[r], refs'[r] = refs[r],
         todo'[r] = todo[r], answers'[r] = answers[r], entry'[r] = entry[r]
  PROVE  RunnerInv(r)'
<1>1. /\ Solver(r)' = Solver(r) /\ At(r)' = At(r) /\ Box(r)' = Box(r)
      /\ StepRefs(r)' = StepRefs(r) /\ Remaining(r)' = Remaining(r)
      /\ Achieved(r)' = Achieved(r) /\ Stepping(r)' = Stepping(r)
  BY DEF Solver, At, Box, StepRefs, Remaining, Achieved, Stepping
<1>2. ValuesOK(r)'
  BY <1>1 DEF RunnerInv, ValuesOK
<1>3. StepReady(r)'
  BY <1>1 DEF RunnerInv, StepReady
<1>4. SweepSoFar(r)'
  BY <1>1 DEF RunnerInv, SweepSoFar
<1>5. EntryComputed(r)'
  BY <1>1 DEF RunnerInv, EntryComputed
<1> QED BY <1>2, <1>3, <1>4, <1>5 DEF RunnerInv

PCs == {"split", "probe", "sweep", "check", "done"}

\* A step of q leaves the other runners what they had.
SameFor(r) ==
  /\ pc'[r] = pc[r] /\ pos'[r] = pos[r] /\ values'[r] = values[r]
  /\ eps'[r] = eps[r] /\ refs'[r] = refs[r] /\ todo'[r] = todo[r]
  /\ answers'[r] = answers[r] /\ entry'[r] = entry[r]

LEMMA Assemble ==
  ASSUME ExecInv, NEW q \in Runners, job' = job, tools' \subseteq Tools,
         pc' \in [Runners -> PCs], outcome' \in [Runners -> Outcomes],
         PerRunner', \A r \in Runners \ {q} : SameFor(r),
         RunnerInv(q)', CacheInv'
  PROVE  ExecInv'
<1>1. \A r \in Runners : RunnerInv(r)'
  BY RunnerFrame DEF ExecInv, SameFor
<1>2. TypeOK'
  BY <1>1 DEF ExecInv, TypeOK, PCs, RunnerInv, ValuesOK
<1> QED BY <1>1, <1>2 DEF ExecInv

LEMMA InitInv == Init => ExecInv
<1> SUFFICES ASSUME Init PROVE ExecInv
  OBVIOUS
<1>1. PerRunner /\ CacheInv
  BY DEF Init, PerRunner, CacheInv
<1>2. ASSUME NEW r \in Runners PROVE RunnerInv(r)
  <2>1. job[r] \in Jobs /\ pos[r] = 1 /\ pc[r] = "split"
        /\ values[r] = job[r].known /\ refs[r] = job[r].refs
        /\ eps[r] = [p \in DOMAIN job[r].known |-> 0]
    BY DEF Init
  <2>2. Len(job[r].route) \in Nat
    BY <2>1, ExecutionAssumption
  <2>3. Achieved(r) \subseteq DOMAIN values[r]
    BY <2>1 DEF Achieved
  <2>4. ValuesOK(r)
    BY <2>1, <2>2, <2>3, ExecutionAssumption DEF ValuesOK
  <2> QED BY <2>1, <2>4
          DEF RunnerInv, StepReady, SweepSoFar, EntryComputed, Stepping
<1>3. TypeOK
  BY <1>2 DEF Init, TypeOK, Outcomes, RunnerInv, ValuesOK
<1> QED BY <1>1, <1>2, <1>3 DEF ExecInv

\* A runner that stops, or stands before a step, has nothing to show but its
\* values.
LEMMA RestingInv ==
  ASSUME NEW r, ValuesOK(r)', pc'[r] \in {"split", "done"}
  PROVE  RunnerInv(r)'
BY DEF RunnerInv, StepReady, SweepSoFar, EntryComputed, Stepping

\* ValuesOK speaks of these variables only.
LEMMA ValuesFrame ==
  ASSUME NEW r, ValuesOK(r), UNCHANGED <<job, pos, values, eps, refs>>
  PROVE  ValuesOK(r)'
BY DEF ValuesOK, Achieved

\* CacheInv speaks of the step cache only.
LEMMA CacheFrame ==
  ASSUME CacheInv, stepCache' = stepCache PROVE CacheInv'
BY DEF CacheInv

LEMMA FailInv ==
  ASSUME ExecInv, NEW q \in Runners, NEW err \in Outcomes, Fail(q, err),
         UNCHANGED <<job, pos, values, eps, refs, todo, answers, entry,
                     stepCache, tools>>
  PROVE  ExecInv'
<1>1. pc' \in [Runners -> PCs] /\ outcome' \in [Runners -> Outcomes]
      /\ pc'[q] = "done" /\ \A r \in Runners \ {q} : pc'[r] = pc[r]
  BY DEF ExecInv, TypeOK, Fail, PCs
<1>2. ValuesOK(q)'
  BY ValuesFrame DEF ExecInv, RunnerInv
<1>3. RunnerInv(q)'
  BY <1>1, <1>2, RestingInv
<1>4. CacheInv'
  BY CacheFrame DEF ExecInv
<1> QED BY <1>1, <1>3, <1>4, Assemble
        DEF ExecInv, TypeOK, PerRunner, SameFor

LEMMA SplitInv ==
  ASSUME ExecInv, NEW q \in Runners, Split(q) PROVE ExecInv'
<1> DEFINE missing == {p \in At(q).payloadInputs : p \notin DOMAIN refs[q]}
<1>1. /\ pc[q] = "split" /\ pos[q] <= Len(job[q].route)
      /\ UNCHANGED <<job, pos, values, eps, refs, todo, answers, entry,
                     stepCache, tools, changes>>
  BY DEF Split
<1>2. CASE \E err \in {"MissingPayload", "PayloadKindMismatch"} : Fail(q, err)
  BY <1>1, <1>2, FailInv DEF Outcomes
<1>3. CASE /\ missing = {} /\ pc' = [pc EXCEPT ![q] = "probe"]
           /\ UNCHANGED outcome
  <2>1. pc' \in [Runners -> PCs] /\ outcome' \in [Runners -> Outcomes]
        /\ pc'[q] = "probe" /\ \A r \in Runners \ {q} : pc'[r] = pc[r]
    BY <1>3 DEF ExecInv, TypeOK, PCs
  <2>2. ValuesOK(q)'
    BY <1>1, ValuesFrame DEF ExecInv, RunnerInv
  <2>3. StepReady(q)'
    <3>1. At(q)' = At(q)
      BY <1>1 DEF At, Solver
    <3> QED BY <1>1, <1>3, <3>1 DEF StepReady
  <2>4. RunnerInv(q)'
    BY <2>1, <2>2, <2>3 DEF RunnerInv, SweepSoFar, EntryComputed
  <2>5. CacheInv'
    BY <1>1, CacheFrame DEF ExecInv
  <2> QED BY <1>1, <2>1, <2>4, <2>5, Assemble
          DEF ExecInv, TypeOK, PerRunner, SameFor
<1>4. \/ \E err \in {"MissingPayload", "PayloadKindMismatch"} : Fail(q, err)
      \/ /\ missing = {} /\ pc' = [pc EXCEPT ![q] = "probe"]
         /\ UNCHANGED outcome
  BY DEF Split
<1> QED BY <1>2, <1>3, <1>4

\* An entry found under the key of q's step is one the step could compute.
LEMMA HitComputed ==
  ASSUME ExecInv, NEW q \in Runners, StepKey(q) \in DOMAIN stepCache
  PROVE  \E rf, rem :
           /\ ArgsOK(Solver(q), Box(q), rf, rem) /\ Keyed(Solver(q))
           /\ Digests(rf) = PayloadDigests(q)
           /\ Computed(Solver(q), Box(q), rf, rem, stepCache[StepKey(q)])
<1>1. PICK s, box, rf, rem :
        /\ ArgsOK(s, box, rf, rem) /\ Keyed(s)
        /\ StepKey(q) = <<s, box, Digests(rf)>>
        /\ Computed(s, box, rf, rem, stepCache[StepKey(q)])
  BY DEF ExecInv, CacheInv, StoredFor
<1>2. s = Solver(q) /\ box = Box(q) /\ Digests(rf) = PayloadDigests(q)
  BY <1>1 DEF StepKey
<1> QED BY <1>1, <1>2

LEMMA ServeHitInv ==
  ASSUME ExecInv, NEW q \in Runners, ServeHit(q) PROVE ExecInv'
<1>1. /\ pc[q] = "probe" /\ StepHit(q)
      /\ entry' = [entry EXCEPT ![q] = stepCache[StepKey(q)]]
      /\ pc' = [pc EXCEPT ![q] = "check"]
      /\ UNCHANGED <<job, pos, values, eps, refs, todo, answers, outcome,
                     stepCache, tools, changes>>
  BY DEF ServeHit
<1>2. /\ pc' \in [Runners -> PCs] /\ outcome' \in [Runners -> Outcomes]
      /\ pc'[q] = "check" /\ entry'[q] = stepCache[StepKey(q)]
      /\ DOMAIN entry' = Runners
      /\ \A r \in Runners \ {q} : pc'[r] = pc[r] /\ entry'[r] = entry[r]
  BY <1>1 DEF ExecInv, TypeOK, PCs, PerRunner
<1>3. ValuesOK(q)'
  BY <1>1, ValuesFrame DEF ExecInv, RunnerInv
<1>4. /\ Solver(q)' = Solver(q) /\ At(q)' = At(q) /\ Box(q)' = Box(q)
  BY <1>1 DEF Solver, At, Box
<1>5. StepReady(q)'
  BY <1>1, <1>4 DEF StepReady, Stepping, ExecInv, RunnerInv
<1>6. EntryComputed(q)'
  <2>1. \E rf, rem :
           /\ ArgsOK(Solver(q), Box(q), rf, rem)
           /\ Computed(Solver(q), Box(q), rf, rem, stepCache[StepKey(q)])
    BY <1>1, HitComputed DEF StepHit
  <2> QED BY <1>2, <1>4, <2>1 DEF EntryComputed
<1>7. RunnerInv(q)'
  BY <1>2, <1>3, <1>5, <1>6 DEF RunnerInv, SweepSoFar
<1>8. CacheInv'
  BY <1>1, CacheFrame DEF ExecInv
<1> QED BY <1>1, <1>2, <1>7, <1>8, Assemble
        DEF ExecInv, TypeOK, PerRunner, SameFor

LEMMA StartSweepInv ==
  ASSUME ExecInv, NEW q \in Runners, StartSweep(q) PROVE ExecInv'
<1>1. /\ pc[q] = "probe"
      /\ todo' = [todo EXCEPT ![q] = Corners(Box(q))]
      /\ answers' = [answers EXCEPT ![q] = {}]
      /\ pc' = [pc EXCEPT ![q] = "sweep"]
      /\ UNCHANGED <<job, pos, values, eps, refs, entry, outcome,
                     stepCache, tools, changes>>
  BY DEF StartSweep
<1>2. /\ pc' \in [Runners -> PCs] /\ outcome' \in [Runners -> Outcomes]
      /\ pc'[q] = "sweep" /\ todo'[q] = Corners(Box(q)) /\ answers'[q] = {}
      /\ DOMAIN todo' = Runners /\ DOMAIN answers' = Runners
      /\ \A r \in Runners \ {q} : /\ pc'[r] = pc[r] /\ todo'[r] = todo[r]
                                  /\ answers'[r] = answers[r]
  BY <1>1 DEF ExecInv, TypeOK, PCs, PerRunner
<1>3. ValuesOK(q)'
  BY <1>1, ValuesFrame DEF ExecInv, RunnerInv
<1>4. /\ Solver(q)' = Solver(q) /\ At(q)' = At(q) /\ Box(q)' = Box(q)
      /\ StepRefs(q)' = StepRefs(q) /\ Remaining(q)' = Remaining(q)
  BY <1>1 DEF Solver, At, Box, StepRefs, Remaining
<1>5. StepReady(q)'
  BY <1>1, <1>4 DEF StepReady, Stepping, ExecInv, RunnerInv
<1>6. SweepSoFar(q)'
  <2> DEFINE none == [c \in {} |-> 0]
  <2>1. none \in [{} -> {}] /\ {none[c] : c \in {}} = {}
    OBVIOUS
  <2>2. Corners(Box(q)) \ todo'[q] = {}
    BY <1>2
  <2>3. SweepOver(Solver(q), {}, StepRefs(q), Remaining(q), none, {})
    BY <2>1, FS_EmptySet DEF SweepOver
  <2> HIDE DEF none
  <2> QED BY <1>2, <1>4, <2>2, <2>3 DEF SweepSoFar
<1>7. RunnerInv(q)'
  BY <1>2, <1>3, <1>5, <1>6 DEF RunnerInv, EntryComputed
<1>8. CacheInv'
  BY <1>1, CacheFrame DEF ExecInv
<1> QED BY <1>1, <1>2, <1>7, <1>8, Assemble
        DEF ExecInv, TypeOK, PerRunner, SameFor

\* A sweep extended by one clean reply.
LEMMA SweepGrows ==
  ASSUME NEW s, NEW D, NEW rf, NEW rem, NEW f, NEW outs,
         SweepOver(s, D, rf, rem, f, outs),
         NEW c, c \notin D, NEW o \in Clean(s, c, rf, rem)
  PROVE  \E g : SweepOver(s, D \cup {c}, rf, rem, g, outs \cup {o})
<1> DEFINE g == [d \in D \cup {c} |-> IF d = c THEN o ELSE f[d]]
<1>1. \A d \in D : g[d] = f[d] /\ f[d] \in outs
  BY DEF SweepOver
<1>2. g[c] = o
  OBVIOUS
<1>3. g \in [D \cup {c} -> outs \cup {o}]
  BY <1>1
<1>4. outs \cup {o} = {g[d] : d \in D \cup {c}}
  <2>1. outs = {g[d] : d \in D}
    BY <1>1 DEF SweepOver
  <2> HIDE DEF g
  <2> QED BY <1>2, <2>1
<1>5. IsFiniteSet(outs \cup {o})
  BY FS_AddElement DEF SweepOver
<1>6. \A d \in D \cup {c} : g[d] \in Clean(s, d, rf, rem)
  BY <1>1, <1>2 DEF SweepOver
<1> HIDE DEF g
<1> QED BY <1>3, <1>4, <1>5, <1>6 DEF SweepOver

\* What is wrong with a reply is one of the outcomes an execution has.
LEMMA ErrorIsOutcome ==
  ASSUME SolversReply(Int, Refs), NEW s, NEW box, NEW rf, NEW rem,
         ArgsOK(s, box, rf, rem), NEW c \in Corners(box),
         NEW o \in Answers(s, c, rf, rem), NEW err \in OutputErrors(Info[s], o)
  PROVE  err \in Outcomes
<1> DEFINE a == [corner |-> c, refs |-> rf, remaining |-> rem]
<1>1. a \in Calls(s, Int, Refs) /\ o \in Replies(s, a)
  <2>1. Int \cap Nat = Nat
    OBVIOUS
  <2>2. c \in [Info[s].inputs -> Int]
    BY CornersOfBox DEF ArgsOK
  <2> QED BY <2>1, <2>2 DEF ArgsOK, Calls, Replies
<1>2. o.err \in {"none", "ToolFailed"}
  BY <1>1 DEF SolversReply, ArgsOK
<1>3. CASE o.err # "none"
  BY <1>2, <1>3 DEF OutputErrors, Outcomes
<1>4. CASE o.err = "none"
  <2>1. err \in {"MissingOutput", "NonFinite", "PayloadKindMismatch",
                 "InvalidMeasurement"}
    BY <1>4 DEF OutputErrors
  <2> QED BY <2>1 DEF Outcomes
<1> QED BY <1>3, <1>4

LEMMA CornerInv ==
  ASSUME SolversReply(Int, Refs), ExecInv, NEW q \in Runners,
         NEW c \in todo[q], Corner(q, c)
  PROVE  ExecInv'
<1>1. /\ pc[q] = "sweep"
      /\ UNCHANGED <<job, pos, values, eps, refs, entry, stepCache, tools,
                     changes>>
  BY DEF Corner
<1>2. /\ Solver(q) \in Solvers
      /\ ArgsOK(Solver(q), Box(q), StepRefs(q), Remaining(q))
  BY <1>1, StepArgs DEF ExecInv, RunnerInv, TypeOK, Stepping
<1>3. todo[q] \subseteq Corners(Box(q))
  BY <1>1 DEF ExecInv, RunnerInv, SweepSoFar
<1>4. CASE Fail(q, "ToolMissing") /\ UNCHANGED <<todo, answers>>
  BY <1>1, <1>4, FailInv DEF Outcomes
<1>5. CASE \E out \in Answers(Solver(q), c, StepRefs(q), Remaining(q)) :
             \E err \in OutputErrors(At(q), out) :
               Fail(q, err) /\ UNCHANGED <<todo, answers>>
  <2>1. PICK out \in Answers(Solver(q), c, StepRefs(q), Remaining(q)) :
             \E err \in OutputErrors(At(q), out) :
               Fail(q, err) /\ UNCHANGED <<todo, answers>>
    BY <1>5
  <2>2. PICK err \in OutputErrors(At(q), out) :
               Fail(q, err) /\ UNCHANGED <<todo, answers>>
    BY <2>1
  <2>3. err \in Outcomes
    BY <1>2, <1>3, ErrorIsOutcome DEF At
  <2> QED BY <1>1, <2>2, <2>3, FailInv
<1>6. CASE \E out \in Answers(Solver(q), c, StepRefs(q), Remaining(q)) :
             /\ OutputErrors(At(q), out) = {}
             /\ todo' = [todo EXCEPT ![q] = @ \ {c}]
             /\ answers' = [answers EXCEPT ![q] = @ \cup {out}]
             /\ UNCHANGED <<pc, outcome>>
  <2>1. PICK out \in Clean(Solver(q), c, StepRefs(q), Remaining(q)) :
             /\ todo' = [todo EXCEPT ![q] = @ \ {c}]
             /\ answers' = [answers EXCEPT ![q] = @ \cup {out}]
             /\ UNCHANGED <<pc, outcome>>
    BY <1>6 DEF Clean, At
  <2>2. /\ todo'[q] = todo[q] \ {c} /\ answers'[q] = answers[q] \cup {out}
        /\ DOMAIN todo' = Runners /\ DOMAIN answers' = Runners
        /\ \A r \in Runners \ {q} : /\ todo'[r] = todo[r]
                                    /\ answers'[r] = answers[r]
    BY <2>1 DEF ExecInv, PerRunner
  <2>3. ValuesOK(q)'
    BY <1>1, ValuesFrame DEF ExecInv, RunnerInv
  <2>4. /\ Solver(q)' = Solver(q) /\ At(q)' = At(q) /\ Box(q)' = Box(q)
        /\ StepRefs(q)' = StepRefs(q) /\ Remaining(q)' = Remaining(q)
    BY <1>1 DEF Solver, At, Box, StepRefs, Remaining
  <2>5. StepReady(q)'
    BY <1>1, <2>1, <2>4 DEF StepReady, Stepping, ExecInv, RunnerInv
  <2>6. SweepSoFar(q)'
    <3> DEFINE D == Corners(Box(q)) \ todo[q]
    <3>1. PICK f : SweepOver(Solver(q), D, StepRefs(q), Remaining(q), f,
                             answers[q])
      BY <1>1 DEF ExecInv, RunnerInv, SweepSoFar
    <3>2. Corners(Box(q)) \ todo'[q] = D \cup {c} /\ c \notin D
      BY <1>3, <2>2
    <3> HIDE DEF D
    <3>3. \E g : SweepOver(Solver(q), D \cup {c}, StepRefs(q), Remaining(q),
                           g, answers[q] \cup {out})
      BY <3>1, <3>2, SweepGrows
    <3>4. todo'[q] \subseteq Corners(Box(q))
      BY <1>3, <2>2
    <3> QED BY <2>2, <2>4, <3>2, <3>3, <3>4 DEF SweepSoFar
  <2>7. RunnerInv(q)'
    BY <1>1, <2>1, <2>3, <2>5, <2>6 DEF RunnerInv, EntryComputed
  <2>8. CacheInv'
    BY <1>1, CacheFrame DEF ExecInv
  <2> QED BY <1>1, <2>1, <2>2, <2>7, <2>8, Assemble
          DEF ExecInv, TypeOK, PerRunner, SameFor, PCs
<1> QED BY <1>4, <1>5, <1>6 DEF Corner

LEMMA FinishSweepInv ==
  ASSUME ExecInv, NEW q \in Runners, FinishSweep(q) PROVE ExecInv'
<1>1. /\ pc[q] = "sweep" /\ todo[q] = {}
      /\ UNCHANGED <<job, pos, values, eps, refs, todo, answers, tools,
                     changes>>
  BY DEF FinishSweep
<1>2. CASE Fail(q, "InvalidMeasurement") /\ UNCHANGED <<entry, stepCache>>
  BY <1>1, <1>2, FailInv DEF Outcomes
<1>3. CASE /\ ~ Varies(At(q), answers[q])
           /\ entry' = [entry EXCEPT ![q] = SweptEntry(q)]
           /\ stepCache' = IF UsesStepCache(q)
                             THEN Over([k \in {StepKey(q)} |-> SweptEntry(q)],
                                       stepCache)
                             ELSE stepCache
           /\ pc' = [pc EXCEPT ![q] = "check"]
           /\ UNCHANGED outcome
  <2>1. /\ pc' \in [Runners -> PCs] /\ outcome' \in [Runners -> Outcomes]
        /\ pc'[q] = "check" /\ entry'[q] = SweptEntry(q)
        /\ DOMAIN entry' = Runners
        /\ \A r \in Runners \ {q} : pc'[r] = pc[r] /\ entry'[r] = entry[r]
    BY <1>3 DEF ExecInv, TypeOK, PCs, PerRunner
  <2>2. /\ Solver(q)' = Solver(q) /\ At(q)' = At(q) /\ Box(q)' = Box(q)
    BY <1>1 DEF Solver, At, Box
  <2>3. ValuesOK(q)'
    BY <1>1, ValuesFrame DEF ExecInv, RunnerInv
  <2>4. StepReady(q)'
    BY <1>1, <2>2 DEF StepReady, Stepping, ExecInv, RunnerInv
  <2>5. ArgsOK(Solver(q), Box(q), StepRefs(q), Remaining(q))
    BY <1>1, StepArgs DEF ExecInv, RunnerInv, TypeOK, Stepping
  <2>6. Computed(Solver(q), Box(q), StepRefs(q), Remaining(q), SweptEntry(q))
    <3>1. Corners(Box(q)) \ todo[q] = Corners(Box(q))
      BY <1>1
    <3>2. \E f : SweepOver(Solver(q), Corners(Box(q)), StepRefs(q),
                           Remaining(q), f, answers[q])
      BY <1>1, <3>1 DEF ExecInv, RunnerInv, SweepSoFar
    <3> QED BY <1>3, <3>2 DEF Computed, SweptEntry, At
  <2>7. EntryComputed(q)'
    BY <2>1, <2>2, <2>5, <2>6 DEF EntryComputed
  <2>8. RunnerInv(q)'
    BY <2>1, <2>3, <2>4, <2>7 DEF RunnerInv, SweepSoFar
  <2>9. CacheInv'
    <3>1. CASE UsesStepCache(q)
      <4>1. StoredFor(StepKey(q), SweptEntry(q))
        <5>1. Keyed(Solver(q))
          BY <3>1 DEF UsesStepCache, Keyed, At
        <5>2. StepKey(q) = <<Solver(q), Box(q), Digests(StepRefs(q))>>
          BY DEF StepKey, PayloadDigests, Digests
        <5> QED BY <2>5, <2>6, <5>1, <5>2 DEF StoredFor
      <4> DEFINE new == [k \in {StepKey(q)} |-> SweptEntry(q)]
      <4>2. DOMAIN new = {StepKey(q)} /\ new[StepKey(q)] = SweptEntry(q)
        OBVIOUS
      <4>3. stepCache' = Over(new, stepCache)
        BY <1>3, <3>1
      <4> HIDE DEF new
      <4>5. /\ DOMAIN stepCache' = DOMAIN new \cup DOMAIN stepCache
            /\ \A key \in DOMAIN new : stepCache'[key] = new[key]
            /\ \A key \in DOMAIN stepCache :
                 key \notin DOMAIN new => stepCache'[key] = stepCache[key]
        BY <4>3 DEF Over
      <4>4. ASSUME NEW key \in DOMAIN stepCache'
            PROVE  StoredFor(key, stepCache'[key])
        <5>1. CASE key = StepKey(q)
          <6>1. stepCache'[key] = SweptEntry(q)
            BY <4>2, <4>5, <5>1
          <6> QED BY <4>1, <5>1, <6>1
        <5>2. CASE key # StepKey(q)
          <6>1. key \in DOMAIN stepCache /\ stepCache'[key] = stepCache[key]
            BY <4>2, <4>4, <4>5, <5>2
          <6> QED BY <6>1 DEF ExecInv, CacheInv
        <5> QED BY <5>1, <5>2
      <4> QED BY <4>4 DEF CacheInv, StoredFor
    <3>2. CASE ~ UsesStepCache(q)
      BY <1>3, <3>2, CacheFrame DEF ExecInv
    <3> QED BY <3>1, <3>2
  <2> QED BY <1>1, <2>1, <2>8, <2>9, Assemble
          DEF ExecInv, TypeOK, PerRunner, SameFor
<1> QED BY <1>2, <1>3 DEF FinishSweep

\* What a step hands on: its hull, its charge for each output, its payloads.
LEMMA HandedOn ==
  ASSUME ExecInv, NEW q \in Runners, EndStep(q), OutputInBox(At(q), entry[q])
  PROVE  /\ values'[q] = Over(entry[q].hull, values[q])
         /\ eps'[q] = Over([p \in DOMAIN entry[q].hull |-> entry[q].eps],
                           eps[q])
         /\ refs'[q] = Over(entry[q].refs, refs[q])
         /\ pos'[q] = pos[q] + 1 /\ pc'[q] = "split"
         /\ DOMAIN values' = Runners /\ DOMAIN eps' = Runners
         /\ DOMAIN refs' = Runners /\ DOMAIN pos' = Runners
         /\ UNCHANGED <<job, todo, answers, entry, stepCache, tools, changes,
                        outcome>>
         /\ pc' \in [Runners -> PCs]
         /\ \A r \in Runners \ {q} : SameFor(r)
BY DEF ExecInv, TypeOK, PCs, PerRunner, EndStep, SameFor

\* The entry a runner checks is typed, whoever computed it.
LEMMA CheckedEntry ==
  ASSUME SolversReply(Int, Refs), ExecInv, NEW q \in Runners, pc[q] = "check"
  PROVE  EntryTyped(At(q), entry[q])
BY ComputedTyped DEF ExecInv, RunnerInv, EntryComputed, At

LEMMA EndStepInv ==
  ASSUME SolversReply(Int, Refs), ExecInv, NEW q \in Runners, EndStep(q)
  PROVE  ExecInv'
<1>1. pc[q] = "check"
  BY DEF EndStep
<1>2. CASE ~ OutputInBox(At(q), entry[q])
  BY <1>2, FailInv DEF EndStep, Outcomes
<1>3. CASE OutputInBox(At(q), entry[q])
  <2> DEFINE e == entry[q]
             charges == [p \in DOMAIN e.hull |-> e.eps]
  <2>1. EntryTyped(At(q), e)
    BY <1>1, CheckedEntry
  <2>2. ValuesOK(q) /\ job[q] \in Jobs /\ StepReady(q) /\ Stepping(q)
    BY <1>1 DEF ExecInv, RunnerInv, TypeOK, Stepping
  <2>3. /\ values'[q] = Over(e.hull, values[q])
        /\ eps'[q] = Over(charges, eps[q])
        /\ refs'[q] = Over(e.refs, refs[q])
        /\ pos'[q] = pos[q] + 1 /\ job' = job
    BY <1>3, HandedOn
  <2>4. DOMAIN charges = DOMAIN e.hull
        /\ \A p \in DOMAIN e.hull : charges[p] = e.eps
    OBVIOUS
  <2> HIDE DEF charges
  <2>20. /\ DOMAIN values'[q] = DOMAIN e.hull \cup DOMAIN values[q]
         /\ \A p \in DOMAIN e.hull : values'[q][p] = e.hull[p]
         /\ \A p \in DOMAIN values[q] :
              p \notin DOMAIN e.hull => values'[q][p] = values[q][p]
    BY <2>3 DEF Over
  <2>21. /\ DOMAIN eps'[q] = DOMAIN charges \cup DOMAIN eps[q]
         /\ \A p \in DOMAIN charges : eps'[q][p] = charges[p]
         /\ \A p \in DOMAIN eps[q] :
              p \notin DOMAIN charges => eps'[q][p] = eps[q][p]
    BY <2>3 DEF Over
  <2>22. /\ DOMAIN refs'[q] = DOMAIN e.refs \cup DOMAIN refs[q]
         /\ \A p \in DOMAIN e.refs : refs'[q][p] = e.refs[p]
         /\ \A p \in DOMAIN refs[q] :
              p \notin DOMAIN e.refs => refs'[q][p] = refs[q][p]
    BY <2>3 DEF Over
  <2>5. /\ DOMAIN values'[q] = At(q).outputs \cup DOMAIN values[q]
        /\ DOMAIN eps'[q] = DOMAIN values'[q]
    BY <2>1, <2>2, <2>4, <2>20, <2>21 DEF EntryTyped, ValuesOK
  <2>6. ASSUME NEW p \in DOMAIN values'[q]
        PROVE  values'[q][p] \in Interval /\ eps'[q][p] \in Nat
    <3>1. CASE p \in At(q).outputs
      BY <2>1, <2>4, <3>1, <2>20, <2>21 DEF EntryTyped
    <3>2. CASE p \notin At(q).outputs
      BY <2>1, <2>2, <2>4, <2>5, <3>2, <2>20, <2>21
         DEF EntryTyped, ValuesOK
    <3> QED BY <3>1, <3>2
  <2>7. ASSUME NEW p \in DOMAIN refs'[q] PROVE refs'[q][p] \in Refs
    <3>1. p \in At(q).payloadOutputs \/ p \in DOMAIN refs[q]
      BY <2>1, <2>22 DEF EntryTyped
    <3> QED BY <2>1, <2>2, <2>22, <3>1 DEF EntryTyped, ValuesOK
  <2>8. pos[q] \in 1..Len(job[q].route) /\ Len(job[q].route) \in Nat
    BY <2>2, ExecutionAssumption DEF ValuesOK, StepReady
  <2>9. Achieved(q)' \subseteq DOMAIN values'[q]
    <3>1. ASSUME NEW l \in 1..(pos'[q] - 1)
          PROVE  l \in 1..(pos[q] - 1) \/ l = pos[q]
      BY <2>3, <2>8
    <3>2. Achieved(q)' \subseteq Achieved(q) \cup At(q).outputs
      BY <2>3, <3>1 DEF Achieved, At, Solver
    <3> QED BY <2>2, <2>5, <3>2 DEF ValuesOK
  <2>10. ValuesOK(q)'
    BY <2>3, <2>5, <2>6, <2>7, <2>8, <2>9 DEF ValuesOK
  <2>11. RunnerInv(q)'
    BY <1>3, <2>10, HandedOn, RestingInv
  <2>12. CacheInv'
    BY <1>3, HandedOn, CacheFrame DEF ExecInv
  <2> HIDE DEF e
  <2> QED BY <1>3, <2>11, <2>12, HandedOn, Assemble
          DEF ExecInv, TypeOK, PerRunner
<1> QED BY <1>2, <1>3

LEMMA FinishInv ==
  ASSUME ExecInv, NEW q \in Runners, Finish(q) PROVE ExecInv'
<1>1. Fail(q, "Solution")
  BY DEF Finish, Fail
<1> QED BY <1>1, FailInv DEF Finish, Outcomes

LEMMA ToolChangeInv ==
  ASSUME ExecInv, NEW t \in Tools, ToolChange(t) PROVE ExecInv'
<1>1. UNCHANGED <<runner, stepCache>> /\ tools' \subseteq Tools
  BY DEF ToolChange, ExecInv, TypeOK
<1>2. \A r \in Runners : RunnerInv(r)'
  BY <1>1, RunnerFrame DEF ExecInv, runner
<1> QED BY <1>1, <1>2, CacheFrame
        DEF ExecInv, TypeOK, PerRunner, runner

\* Every step keeps the invariant.
LEMMA StepInv ==
  ASSUME SolversReply(Int, Refs), ExecInv, [Next]_vars PROVE ExecInv'
<1>1. CASE UNCHANGED vars
  <2>1. UNCHANGED <<runner, stepCache, tools>>
    BY <1>1 DEF vars
  <2>2. \A r \in Runners : RunnerInv(r)'
    BY <2>1, RunnerFrame DEF ExecInv, runner
  <2> QED BY <2>1, <2>2, CacheFrame
          DEF ExecInv, TypeOK, PerRunner, runner
<1>2. ASSUME NEW r \in Runners, Step(r) PROVE ExecInv'
  BY <1>2, SplitInv, ServeHitInv, StartSweepInv, FinishSweepInv, EndStepInv,
     FinishInv, CornerInv DEF Step
<1> QED BY <1>1, <1>2, ToolChangeInv DEF Next

\* Where solvers reply with values of their types, the executor's state keeps
\* its type: intervals stay ordered, charges stay natural numbers, and an
\* execution ends in one of the outcomes it is documented to have.
THEOREM ExecutionTypes ==
  ASSUME SolversReply(Int, Refs) PROVE Spec => []TypeOK
<1>1. ExecInv /\ [Next]_vars => ExecInv'
  BY StepInv
<1>2. ExecInv => TypeOK
  BY DEF ExecInv
<1> QED BY InitInv, <1>1, <1>2, PTL DEF Spec

----------------------------------------------------------------------------
(* Only a step that ends well changes what a runner holds.                 *)

LEMMA OnlyEndStepMoves ==
  ASSUME ExecInv, [Next]_vars, NEW r \in Runners,
         ~ (EndStep(r) /\ OutputInBox(At(r), entry[r]))
  PROVE  /\ job' = job /\ pos'[r] = pos[r] /\ values'[r] = values[r]
         /\ eps'[r] = eps[r]
<1>1. CASE UNCHANGED vars
  BY <1>1 DEF vars, runner
<1>2. ASSUME NEW t \in Tools, ToolChange(t)
      PROVE  UNCHANGED <<job, pos, values, eps>>
  BY <1>2 DEF ToolChange, runner
<1>3. ASSUME NEW q \in Runners, Step(q)
      PROVE  /\ job' = job /\ pos'[r] = pos[r] /\ values'[r] = values[r]
             /\ eps'[r] = eps[r]
  <2>1. CASE EndStep(q)
    BY <2>1 DEF EndStep, ExecInv, PerRunner
  <2>2. CASE ~ EndStep(q)
    BY <1>3, <2>2 DEF Step, Split, ServeHit, StartSweep, FinishSweep, Finish,
                      Corner
  <2> QED BY <2>1, <2>2
<1> QED BY <1>1, <1>2, <1>3 DEF Next

\* A step served from the cache is one this call could have computed: the
\* entry under its key was computed for the same solver, the same box and
\* payloads of the same content, and that is all a deterministic reply
\* depends on.
LEMMA HitRecomputed ==
  ASSUME RepliesByContent(Int, Refs), ExecInv, NEW q \in Runners, ServeHit(q)
  PROVE  entry'[q] \in Recomputed(q)
<1>1. pc[q] = "probe" /\ StepKey(q) \in DOMAIN stepCache
      /\ entry'[q] = stepCache[StepKey(q)]
  BY DEF ServeHit, StepHit, ExecInv, PerRunner
<1> DEFINE e == stepCache[StepKey(q)]
           s == Solver(q)
<1>2. ArgsOK(s, Box(q), StepRefs(q), Remaining(q))
  BY <1>1, StepArgs DEF ExecInv, RunnerInv, TypeOK, Stepping
<1>3. PICK rf, rem : /\ ArgsOK(s, Box(q), rf, rem) /\ Keyed(s)
                     /\ Digests(rf) = PayloadDigests(q)
                     /\ Computed(s, Box(q), rf, rem, e)
  BY <1>1, HitComputed
<1>4. Digests(rf) = Digests(StepRefs(q))
  BY <1>3 DEF Digests, PayloadDigests
<1>5. Computed(s, Box(q), StepRefs(q), Remaining(q), e)
  <2> HIDE DEF e, s
  <2> QED BY <1>2, <1>3, <1>4, ComputedByContent
<1>6. PICK outs, f :
        /\ SweepOver(s, Corners(Box(q)), StepRefs(q), Remaining(q), f, outs)
        /\ ~ Varies(Info[s], outs) /\ e = EntryOf(Info[s], outs)
  BY <1>5 DEF Computed
<1> DEFINE corners == Corners(Box(q))
           can(c) == {o \in Answers(s, c, StepRefs(q), Remaining(q)) :
                        OutputErrors(At(q), o) = {}}
           runs == {g \in [corners -> UNION {can(c) : c \in corners}] :
                      \A c \in corners : g[c] \in can(c)}
<1>7. f \in runs
  <2>1. \A c \in corners : f[c] \in can(c)
    BY <1>6 DEF SweepOver, Clean, At
  <2>2. f = [c \in corners |-> f[c]]
    BY <1>6 DEF SweepOver
  <2> HIDE DEF can, corners
  <2>3. f \in [corners -> UNION {can(c) : c \in corners}]
    BY <2>1, <2>2
  <2> QED BY <2>1, <2>3
<1>8. Range(f) = outs
  BY <1>6 DEF SweepOver, Range
<1>9. /\ ~ Varies(At(q), Range(f)) /\ e = EntryOf(At(q), Range(f))
  BY <1>6, <1>8 DEF At
<1>10. Recomputed(q)
         = {EntryOf(At(q), Range(g)) : g \in {h \in runs :
                                           ~ Varies(At(q), Range(h))}}
  BY DEF Recomputed
<1> HIDE DEF runs, e
<1>11. e \in Recomputed(q)
  BY <1>7, <1>9, <1>10
<1> QED BY <1>1, <1>11 DEF e

\* A runner passes from the probe to the check by a hit only.
LEMMA ProbeToCheck ==
  ASSUME ExecInv, [Next]_vars, NEW r \in Runners,
         pc[r] = "probe", pc'[r] = "check"
  PROVE  ServeHit(r)
<1>1. ~ UNCHANGED pc
  OBVIOUS
<1>2. ASSUME NEW t \in Tools PROVE ~ ToolChange(t)
  BY <1>1 DEF ToolChange, runner
<1>3. PICK q \in Runners : Step(q)
  BY <1>1, <1>2 DEF Next, vars, runner
<1>4. q = r
  <2>1. ASSUME q # r PROVE pc'[r] = pc[r]
    BY <1>3, <2>1 DEF Step, Split, ServeHit, StartSweep, FinishSweep, EndStep,
       Finish, Corner, Fail, ExecInv, TypeOK
  <2> QED BY <2>1
<1>5. /\ ~ Split(r) /\ ~ FinishSweep(r) /\ ~ EndStep(r) /\ ~ Finish(r)
      /\ \A c \in todo[r] : ~ Corner(r, c)
  BY DEF Split, FinishSweep, EndStep, Finish, Corner
<1>6. ~ StartSweep(r)
  BY DEF StartSweep, ExecInv, TypeOK
<1> QED BY <1>3, <1>4, <1>5, <1>6 DEF Step

\* PayloadStepCache never serves a step an entry its own call could not have
\* computed, whichever runner stored it and whatever its budget was.
THEOREM HitsEqualRecompute ==
  ASSUME SolversReply(Int, Refs), RepliesByContent(Int, Refs)
  PROVE  Spec => StepHitEqualsRecompute
<1>1. ExecInv /\ [Next]_vars => ExecInv'
  BY StepInv
<1>2. ExecInv /\ [Next]_vars =>
        [\A r \in Runners : pc[r] = "probe" /\ pc'[r] = "check"
                              => entry'[r] \in Recomputed(r)]_vars
  BY ProbeToCheck, HitRecomputed
<1> QED BY InitInv, <1>1, <1>2, PTL DEF Spec, StepHitEqualsRecompute

----------------------------------------------------------------------------
(* Results stay in their solvers' domains.                                 *)

\* What ResultsInDomain says of r.
InDomain(r) ==
  \A k \in 1..(pos[r] - 1) :
    \A p \in Info[job[r].route[k]].outputs
               \cap DOMAIN Info[job[r].route[k]].box :
      (\A l \in (k + 1)..(pos[r] - 1) : p \notin Info[job[r].route[l]].outputs)
        => Subset(<<values[r][p][1] - eps[r][p], values[r][p][2] + eps[r][p]>>,
                  Info[job[r].route[k]].box[p])

LEMMA InDomainKept ==
  ASSUME SolversReply(Int, Refs), ExecInv, [Next]_vars, NEW r \in Runners,
         InDomain(r)
  PROVE  InDomain(r)'
<1>1. CASE ~ (EndStep(r) /\ OutputInBox(At(r), entry[r]))
  <2>1. /\ job' = job /\ pos'[r] = pos[r] /\ values'[r] = values[r]
        /\ eps'[r] = eps[r]
    BY <1>1, OnlyEndStepMoves
  <2> QED BY <2>1 DEF InDomain
<1>2. CASE EndStep(r) /\ OutputInBox(At(r), entry[r])
  <2> DEFINE e == entry[r]
  <2>1. /\ values'[r] = Over(e.hull, values[r])
        /\ eps'[r] = Over([p \in DOMAIN e.hull |-> e.eps], eps[r])
        /\ pos'[r] = pos[r] + 1 /\ job' = job
    BY <1>2, HandedOn
  <2>2. /\ DOMAIN e.hull = At(r).outputs /\ e.eps \in Nat
        /\ \A p \in At(r).outputs : e.hull[p] \in Interval
    BY <1>2, CheckedEntry DEF EndStep, EntryTyped
  <2>3. pos[r] \in Nat \ {0} /\ Achieved(r) \subseteq DOMAIN values[r]
        /\ DOMAIN eps[r] = DOMAIN values[r]
    BY DEF ExecInv, RunnerInv, ValuesOK
  <2> SUFFICES ASSUME NEW k \in 1..pos[r],
                      NEW p \in Info[job[r].route[k]].outputs
                                  \cap DOMAIN Info[job[r].route[k]].box,
                      \A l \in (k + 1)..pos[r] :
                        p \notin Info[job[r].route[l]].outputs
               PROVE  Subset(<<values'[r][p][1] - eps'[r][p],
                               values'[r][p][2] + eps'[r][p]>>,
                             Info[job[r].route[k]].box[p])
    BY <2>1, <2>3 DEF InDomain
  <2>4. CASE k = pos[r]
    <3>1. Info[job[r].route[k]] = At(r)
      BY <2>4 DEF At, Solver
    <3>2. values'[r][p] = e.hull[p] /\ eps'[r][p] = e.eps
      BY <2>1, <2>2, <3>1 DEF Over
    <3>3. Subset(Inflate(e.hull[p], e.eps), At(r).box[p])
      BY <1>2, <2>2, <3>1 DEF OutputInBox
    <3> HIDE DEF e
    <3> QED BY <3>1, <3>2, <3>3 DEF Inflate
  <2>5. CASE k # pos[r]
    <3>1. k \in 1..(pos[r] - 1) /\ pos[r] \in (k + 1)..pos[r]
      BY <2>3, <2>5
    <3>2. p \notin At(r).outputs
      BY <3>1 DEF At, Solver
    <3>3. p \in DOMAIN values[r]
      BY <2>3, <3>1 DEF Achieved
    <3>4. values'[r][p] = values[r][p] /\ eps'[r][p] = eps[r][p]
      BY <2>1, <2>2, <2>3, <3>2, <3>3 DEF Over
    <3>5. (k + 1)..(pos[r] - 1) \subseteq (k + 1)..pos[r]
      BY <2>3
    <3> QED BY <3>1, <3>4, <3>5 DEF InDomain
  <2> QED BY <2>4, <2>5
<1> QED BY <1>1, <1>2

\* No result outside its solver's declared domain, inflated by its charge,
\* reaches a later step or the Solution, be it computed or served from the
\* step cache.
THEOREM DomainsRespected ==
  ASSUME SolversReply(Int, Refs) PROVE Spec => []ResultsInDomain
<1> DEFINE I == ExecInv /\ \A r \in Runners : InDomain(r)
<1>1. Init => I
  <2>1. Init => \A r \in Runners : InDomain(r)
    BY DEF Init, InDomain
  <2> QED BY <2>1, InitInv
<1>2. I /\ [Next]_vars => I'
  BY StepInv, InDomainKept
<1>3. I => ResultsInDomain
  BY DEF InDomain, ResultsInDomain
<1> HIDE DEF I
<1> QED BY <1>1, <1>2, <1>3, PTL DEF Spec

----------------------------------------------------------------------------
(* The error bound is a bound.                                             *)

\* The charge of port p bounds the distance of its interval from the truth.
Covered(r, p, x) ==
  Truth(p, x) \in (values[r][p][1] - eps[r][p])..(values[r][p][2] + eps[r][p])

TruthCovered(r) ==
  \A p \in DOMAIN values[r] : \A x \in Points(job[r].known) : Covered(r, p, x)

LEMMA KnownsCovered ==
  ASSUME TruthIsExact, Init, NEW r \in Runners PROVE TruthCovered(r)
<1> SUFFICES ASSUME NEW p \in DOMAIN values[r], NEW x \in Points(job[r].known)
             PROVE  Covered(r, p, x)
  BY DEF TruthCovered
<1>1. job[r] \in Jobs /\ values[r] = job[r].known /\ p \in DOMAIN job[r].known
      /\ eps[r][p] = 0
  BY DEF Init
<1>2. job[r].known[p] \in Interval
  BY <1>1, ExecutionAssumption
<1>3. Truth(p, x) = x[p]
  BY <1>1 DEF TruthIsExact
<1>4. x[p] \in job[r].known[p][1]..job[r].known[p][2]
  BY <1>1 DEF Points
<1> QED BY <1>1, <1>2, <1>3, <1>4 DEF Covered, Interval

LEMMA TruthKept ==
  ASSUME SolversReply(Int, Refs), SolversAreAccurate(Int, Refs), TruthIsExact,
         ExecInv, [Next]_vars, NEW r \in Runners, TruthCovered(r)
  PROVE  TruthCovered(r)'
<1>1. CASE ~ (EndStep(r) /\ OutputInBox(At(r), entry[r]))
  <2>1. /\ job' = job /\ pos'[r] = pos[r] /\ values'[r] = values[r]
        /\ eps'[r] = eps[r]
    BY <1>1, OnlyEndStepMoves
  <2> QED BY <2>1 DEF TruthCovered, Covered
<1>2. CASE EndStep(r) /\ OutputInBox(At(r), entry[r])
  <2> DEFINE e == entry[r]
  <2>1. /\ values'[r] = Over(e.hull, values[r])
        /\ eps'[r] = Over([p \in DOMAIN e.hull |-> e.eps], eps[r])
        /\ job' = job /\ pc[r] = "check"
    BY <1>2, HandedOn DEF EndStep
  <2>2. /\ DOMAIN e.hull = At(r).outputs /\ e.eps \in Nat
        /\ \A p \in At(r).outputs : e.hull[p] \in Interval
    BY <2>1, CheckedEntry DEF EntryTyped
  <2>3. /\ job[r] \in Jobs /\ DOMAIN eps[r] = DOMAIN values[r]
        /\ \A p \in DOMAIN values[r] : values[r][p] \in Interval
                                    /\ eps[r][p] \in Nat
    BY DEF ExecInv, RunnerInv, ValuesOK, TypeOK
  <2>4. /\ Solver(r) \in Solvers /\ pos[r] \in DOMAIN job[r].route
        /\ At(r).inputs \subseteq DOMAIN values[r]
    BY <2>1, StepArgs DEF ExecInv, RunnerInv, TypeOK, Stepping
  <2>5. PICK rf, rem : /\ ArgsOK(Solver(r), Box(r), rf, rem)
                       /\ Computed(Solver(r), Box(r), rf, rem, e)
    BY <2>1 DEF ExecInv, RunnerInv, EntryComputed
  <2> SUFFICES ASSUME NEW p \in DOMAIN values'[r],
                      NEW x \in Points(job[r].known)
               PROVE  Truth(p, x) \in (values'[r][p][1] - eps'[r][p])
                                        ..(values'[r][p][2] + eps'[r][p])
    BY <2>1 DEF TruthCovered, Covered
  <2>6. CASE p \in At(r).outputs
    <3> DEFINE s == Solver(r)
               y == [q \in Info[s].inputs |-> Truth(q, x)]
    <3>1. values'[r][p] = e.hull[p] /\ eps'[r][p] = e.eps
      BY <2>1, <2>2, <2>6 DEF Over
    <3>2. ASSUME NEW q \in Info[s].inputs
          PROVE  /\ Truth(q, x) \in Int
                 /\ Box(r)[q][1] <= Truth(q, x)
                 /\ Truth(q, x) <= Box(r)[q][2]
      <4>1. Covered(r, q, x) /\ values[r][q] \in Interval /\ eps[r][q] \in Nat
        BY <2>3, <2>4 DEF TruthCovered, At
      <4>2. /\ Box(r)[q][1] = values[r][q][1] - eps[r][q]
            /\ Box(r)[q][2] = values[r][q][2] + eps[r][q]
        BY DEF Box, At, Inflate
      <4> QED BY <4>1, <4>2 DEF Covered, Interval
    <3>3. y \in [Info[s].inputs -> Int]
      BY <3>2
    <3>4. \A q \in Info[s].inputs :
            Box(r)[q][1] <= y[q] /\ y[q] <= Box(r)[q][2]
      BY <3>2
    <3>5. Truth(p, x) = Exact(s, p, y)
      BY <2>3, <2>4, <2>6 DEF TruthIsExact, At, Solver
    <3>6. p \in Info[s].outputs
      BY <2>6 DEF At
    <3>7. Exact(s, p, y) \in Int
      <4> HIDE DEF y, s
      <4> QED BY <2>5, <3>3, <3>6 DEF SolversAreAccurate, ArgsOK, s
    <3>8. /\ e.hull[p][1] - e.eps <= Exact(s, p, y)
          /\ Exact(s, p, y) <= e.hull[p][2] + e.eps
      <4> HIDE DEF e, y, s
      <4>1. ArgsOK(s, Box(r), rf, rem) /\ Computed(s, Box(r), rf, rem, e)
        BY <2>5 DEF s
      <4> QED BY <3>3, <3>4, <3>6, <4>1, ComputedCovers
    <3>9. e.hull[p] \in Interval
      BY <2>2, <2>6
    <3> HIDE DEF e, y, s
    <3> QED BY <2>2, <3>1, <3>5, <3>7, <3>8, <3>9 DEF Interval
  <2>7. CASE p \notin At(r).outputs
    <3>1. p \in DOMAIN values[r]
      BY <2>1, <2>2, <2>7 DEF Over
    <3>2. values'[r][p] = values[r][p] /\ eps'[r][p] = eps[r][p]
      BY <2>1, <2>2, <2>3, <2>7, <3>1 DEF Over
    <3> QED BY <3>1, <3>2 DEF TruthCovered, Covered
  <2> QED BY <2>6, <2>7
<1> QED BY <1>1, <1>2

\* Whatever the knowns are in their intervals and whichever steps came from
\* the cache, every port's true value lies in its interval inflated by the
\* eps charged to it: the error execute() reports bounds the error it made,
\* for every route of accurate solvers.
THEOREM ErrorBoundIsSound ==
  ASSUME SolversReply(Int, Refs), SolversAreAccurate(Int, Refs), TruthIsExact
  PROVE  Spec => []ErrorCoversTruth
<1> DEFINE I == ExecInv /\ \A r \in Runners : TruthCovered(r)
<1>1. Init => I
  BY InitInv, KnownsCovered
<1>2. I /\ [Next]_vars => I'
  BY StepInv, TruthKept
<1>3. I => ErrorCoversTruth
  BY DEF TruthCovered, Covered, ErrorCoversTruth
<1> HIDE DEF I
<1> QED BY <1>1, <1>2, <1>3, PTL DEF Spec
=============================================================================
