------------------------- MODULE SolverPacksProofs -------------------------
(***************************************************************************)
(* Theorems about SolverPacks, for all hosts and packs: a pack lands whole *)
(* or not at all, the owners are those of the base's solvers, and a solver *)
(* that was checked against the port table keeps its ports.                *)
(***************************************************************************)
EXTENDS SolverPacks, FiniteSetTheorems, WellFoundedInduction, TLAPS

----------------------------------------------------------------------------
(* Sets and functions.                                                     *)

\* Min of a set of naturals is its least member.
LEMMA LeastOfNat ==
  ASSUME NEW S \in SUBSET Nat, S # {}
  PROVE  Min(S) \in S /\ \A y \in S : Min(S) <= y
<1>1. \E R : /\ IsWellFoundedOn(R, Nat)
             /\ \A x, y \in Nat : x < y => <<x, y>> \in R
  <2> DEFINE R == OpToRel(<, Nat)
  <2>1. \A x, y \in Nat : x < y => <<x, y>> \in R
    BY DEF OpToRel
  <2> QED BY <2>1, NatLessThanWellFounded
<1>2. PICK R : /\ IsWellFoundedOn(R, Nat)
               /\ \A x, y \in Nat : x < y => <<x, y>> \in R
  BY <1>1
<1>3. IsWellFoundedOn(R, Nat) /\ S \subseteq Nat
  BY <1>2
<1>4. \E x \in S : \A y \in S : ~ (<<y, x>> \in R)
  BY <1>3, WFMin, Zenon
<1>5. PICK x \in S : \A y \in S : ~ (<<y, x>> \in R)
  BY <1>4
<1>6. ASSUME NEW y \in S PROVE ~ (y < x)
  BY <1>2, <1>5, Zenon
<1>7. \A y \in S : x <= y
  BY <1>6
<1> QED BY <1>7 DEF Min

\* Over is a function on both domains, with f's values where f has one.
LEMMA OverFacts ==
  ASSUME NEW f, NEW g
  PROVE  /\ Over(f, g) = [x \in DOMAIN Over(f, g) |-> Over(f, g)[x]]
         /\ DOMAIN Over(f, g) = DOMAIN f \cup DOMAIN g
         /\ \A x \in DOMAIN f : Over(f, g)[x] = f[x]
         /\ \A x \in DOMAIN g : x \notin DOMAIN f => Over(f, g)[x] = g[x]
  BY DEF Over

\* SetToSeq lists each member of a finite set once.
LEMMA SetToSeqLists ==
  ASSUME NEW S, IsFiniteSet(S)
  PROVE  /\ Cardinality(S) \in Nat
         /\ SetToSeq(S) \in [1..Cardinality(S) -> S]
         /\ \A i, j \in 1..Cardinality(S) :
              SetToSeq(S)[i] = SetToSeq(S)[j] => i = j
         /\ \A x \in S : \E i \in 1..Cardinality(S) : SetToSeq(S)[i] = x
<1> DEFINE n == Cardinality(S)
           q == SetToSeq(S)
<1>1. n \in Nat /\ ExistsBijection(1..n, S)
  BY FS_CardinalityType
<1>2. \E f \in [1..n -> S] : IsInjective(f)
  BY <1>1 DEF ExistsBijection, Bijection, Injection
<1>3. q \in [1..n -> S] /\ IsInjective(q)
  BY <1>2 DEF SetToSeq
<1>4. q \in Injection(1..n, S)
  BY <1>3 DEF Injection
<1>5. IsFiniteSet(1..n) /\ Cardinality(1..n) = n
  BY <1>1, FS_Interval
<1>6. q \in Surjection(1..n, S)
  BY <1>4, <1>5, FS_Injection
<1>7. \A i, j \in 1..n : q[i] = q[j] => i = j
  BY <1>3 DEF IsInjective
<1>8. \A x \in S : \E i \in 1..n : q[i] = x
  BY <1>6 DEF Surjection
<1> QED BY <1>1, <1>3, <1>7, <1>8

----------------------------------------------------------------------------
(* SolverRegistry.                                                         *)

\* A registry: its solvers by id, its ports by name, each as declared.
Registry(reg) ==
  /\ reg = [solvers |-> reg.solvers, ports |-> reg.ports,
            frozen |-> reg.frozen]
  /\ reg.frozen \in BOOLEAN
  /\ reg.solvers = [id \in DOMAIN reg.solvers |-> reg.solvers[id]]
  /\ reg.ports = [p \in DOMAIN reg.ports |-> reg.ports[p]]
  /\ DOMAIN reg.solvers \subseteq Nat
  /\ \A id \in DOMAIN reg.solvers :
       reg.solvers[id].id = id /\ reg.solvers[id].sound
  /\ IsFiniteSet(DOMAIN reg.ports)
  /\ \A p \in DOMAIN reg.ports :
       reg.ports[p].port = p /\ reg.ports[p].known

\* g holds what f holds, and maybe more.
Extends(g, f) ==
  /\ DOMAIN f \subseteq DOMAIN g
  /\ \A x \in DOMAIN f : g[x] = f[x]

\* A registry before anything is called.
LEMMA EmptyRegistry == Registry(Empty)
<1>1. IsFiniteSet({})
  BY FS_EmptySet
<1> QED BY <1>1 DEF Registry, Empty, NoFun

\* register() adds a sound solver under a free id, or nothing.
LEMMA RegisterAdds ==
  ASSUME NEW reg, Registry(reg), NEW s, s.id \in Nat,
         NEW out, out = Register(reg, s)
  PROVE  /\ out.err = RegisterError(reg, s)
         /\ out.err # "none" => out.reg = reg
         /\ out.err = "none" =>
              /\ ~ reg.frozen /\ s.id \notin DOMAIN reg.solvers /\ s.sound
              /\ reg.ports # NoFun => s.ports \subseteq DOMAIN reg.ports
              /\ out.reg = [reg EXCEPT !.solvers =
                              Over([id \in {s.id} |-> s], reg.solvers)]
<1>1. /\ out.err = RegisterError(reg, s)
      /\ out.err # "none" => out.reg = reg
      /\ out.err = "none" =>
           out.reg = [reg EXCEPT !.solvers =
                        Over([id \in {s.id} |-> s], reg.solvers)]
  BY DEF Register
<1>2. ASSUME RegisterError(reg, s) = "none"
      PROVE  /\ ~ reg.frozen /\ s.id \notin DOMAIN reg.solvers /\ s.sound
             /\ reg.ports # NoFun => s.ports \subseteq DOMAIN reg.ports
  BY <1>2 DEF RegisterError
<1> QED BY <1>1, <1>2

LEMMA RegisterKeeps ==
  ASSUME NEW reg, Registry(reg), NEW s, s.id \in Nat
  PROVE  LET new == Register(reg, s).reg IN
         /\ Registry(new)
         /\ new.ports = reg.ports /\ new.frozen = reg.frozen
         /\ Extends(new.solvers, reg.solvers)
<1> DEFINE out == Register(reg, s)
           new == out.reg
<1>1. CASE out.err # "none"
  <2>1. new = reg
    BY <1>1 DEF Register
  <2> QED BY <2>1 DEF Extends
<1>2. CASE out.err = "none"
  <2> DEFINE one == [id \in {s.id} |-> s]
             all == Over(one, reg.solvers)
  <2>1. /\ new = [reg EXCEPT !.solvers = all]
        /\ s.id \notin DOMAIN reg.solvers /\ s.sound
    BY <1>2, RegisterAdds
  <2>2. new = [solvers |-> all, ports |-> reg.ports, frozen |-> reg.frozen]
    BY <2>1 DEF Registry
  <2>3. /\ all = [id \in DOMAIN all |-> all[id]]
        /\ DOMAIN all = {s.id} \cup DOMAIN reg.solvers
        /\ all[s.id] = s
        /\ \A id \in DOMAIN reg.solvers : all[id] = reg.solvers[id]
    <3>1. DOMAIN one = {s.id} /\ one[s.id] = s
      OBVIOUS
    <3>2. /\ all = [x \in DOMAIN all |-> all[x]]
          /\ DOMAIN all = DOMAIN one \cup DOMAIN reg.solvers
          /\ \A x \in DOMAIN one : all[x] = one[x]
          /\ \A x \in DOMAIN reg.solvers :
               x \notin DOMAIN one => all[x] = reg.solvers[x]
      <4> HIDE DEF one
      <4> QED BY DEF Over
    <3> HIDE DEF one, all
    <3> QED BY <2>1, <3>1, <3>2
  <2> HIDE DEF all, out, new
  <2>4. /\ new.solvers = all /\ new.ports = reg.ports
        /\ new.frozen = reg.frozen
    BY <2>2
  <2>5. \A id \in DOMAIN all : all[id].id = id /\ all[id].sound
    BY <2>1, <2>3 DEF Registry
  <2>6. DOMAIN all \subseteq Nat
    BY <2>3 DEF Registry
  <2>7. Registry(new)
    BY <2>2, <2>3, <2>4, <2>5, <2>6 DEF Registry
  <2>8. Extends(new.solvers, reg.solvers)
    BY <2>3, <2>4 DEF Extends
  <2> QED BY <2>4, <2>7, <2>8 DEF new, out
<1> QED BY <1>1, <1>2

\* What register() has added.
LEMMA RegisterLands ==
  ASSUME NEW reg, Registry(reg), NEW s, s.id \in Nat,
         RegisterError(reg, s) = "none"
  PROVE  LET new == Register(reg, s).reg IN
         /\ s.id \notin DOMAIN reg.solvers /\ ~ reg.frozen
         /\ reg.ports # NoFun => s.ports \subseteq DOMAIN reg.ports
         /\ DOMAIN new.solvers = {s.id} \cup DOMAIN reg.solvers
         /\ new.solvers[s.id] = s
<1> DEFINE new == Register(reg, s).reg
           one == [id \in {s.id} |-> s]
<1>1. /\ s.id \notin DOMAIN reg.solvers /\ ~ reg.frozen
      /\ reg.ports # NoFun => s.ports \subseteq DOMAIN reg.ports
  BY DEF RegisterError
<1>2. new = [reg EXCEPT !.solvers = Over(one, reg.solvers)]
  BY DEF Register
<1>3. DOMAIN one = {s.id} /\ one[s.id] = s
  OBVIOUS
<1> HIDE DEF new, one
<1>4. new.solvers = Over(one, reg.solvers)
  BY <1>2 DEF Registry
<1>5. /\ DOMAIN Over(one, reg.solvers) = {s.id} \cup DOMAIN reg.solvers
      /\ Over(one, reg.solvers)[s.id] = s
  BY <1>3 DEF Over
<1> QED BY <1>1, <1>4, <1>5 DEF new

\* What declare_ports makes of a list of which it takes the first n.
Fresh(decls, n) ==
  [p \in {decls[i].port : i \in 1..n} |->
     decls[CHOOSE i \in 1..n : decls[i].port = p]]

\* declare_ports took the first n declarations, all of them if it could.
TakesUpTo(reg, decls, n) ==
  /\ \A i \in 1..n : decls[i].known /\ ~ Taken(reg, decls, i)
  /\ Declare(reg, decls).reg =
       [reg EXCEPT !.ports = Over(Fresh(decls, n), reg.ports)]
  /\ (\A i \in DOMAIN decls : decls[i].known /\ ~ Taken(reg, decls, i))
       => n = Len(decls) /\ Declare(reg, decls).err = "none"

\* declare_ports takes the declarations before the first it refuses, and
\* none that is known or taken is among them.
LEMMA DeclareTakes ==
  ASSUME NEW reg, ~ reg.frozen,
         NEW decls, decls \in Seq(Range(decls))
  PROVE  \E n \in 0..Len(decls) : TakesUpTo(reg, decls, n)
<1> DEFINE out == Declare(reg, decls)
<1> DEFINE bad == {i \in DOMAIN decls :
                     ~ decls[i].known \/ Taken(reg, decls, i)}
           n   == IF bad = {} THEN Len(decls) ELSE Min(bad) - 1
<1>1. DOMAIN decls = 1..Len(decls) /\ Len(decls) \in Nat
  OBVIOUS
<1>2. n \in 0..Len(decls) /\ \A i \in 1..n : i \notin bad
  <2>1. CASE bad = {}
    BY <1>1, <2>1
  <2>2. CASE bad # {}
    <3>1. bad \subseteq 1..Len(decls)
      BY <1>1
    <3>a. bad \subseteq Nat /\ bad # {}
      BY <2>2, <3>1
    <3>2. Min(bad) \in bad /\ \A y \in bad : Min(bad) <= y
      <4> HIDE DEF bad
      <4> QED BY <3>a, LeastOfNat
    <3>3. n = Min(bad) - 1
      BY <2>2
    <3> HIDE DEF bad, n
    <3>4. Min(bad) \in 1..Len(decls)
      BY <3>1, <3>2
    <3> QED BY <3>2, <3>3, <3>4, <1>1
  <2> QED BY <2>1, <2>2
<1>3. out.reg = [reg EXCEPT !.ports = Over(Fresh(decls, n), reg.ports)]
  BY DEF Declare, Fresh
<1>4. bad = {} => n = Len(decls) /\ out.err = "none"
  <2>1. CASE bad = {}
    <3>1. out.err = "none"
      BY <2>1 DEF Declare
    <3> QED BY <2>1, <3>1
  <2> QED BY <2>1
<1>5. \A i \in 1..n : decls[i].known /\ ~ Taken(reg, decls, i)
  BY <1>1, <1>2
<1>6. (\A i \in DOMAIN decls : decls[i].known /\ ~ Taken(reg, decls, i))
        => bad = {}
  OBVIOUS
<1> HIDE DEF bad, n
<1>7. TakesUpTo(reg, decls, n)
  BY <1>3, <1>4, <1>5, <1>6 DEF TakesUpTo
<1> QED BY <1>2, <1>7

\* declare_ports adds known ports, and changes no declared one.
LEMMA DeclareKeeps ==
  ASSUME NEW reg, Registry(reg), NEW decls, decls \in Seq(Range(decls))
  PROVE  LET new == Declare(reg, decls).reg IN
         /\ Registry(new)
         /\ new.solvers = reg.solvers /\ new.frozen = reg.frozen
         /\ Extends(new.ports, reg.ports)
<1> DEFINE out == Declare(reg, decls)
           new == out.reg
<1>1. CASE reg.frozen
  <2>1. new = reg
    BY <1>1 DEF Declare
  <2> QED BY <2>1 DEF Extends
<1>2. CASE ~ reg.frozen
  <2>1. PICK n \in 0..Len(decls) :
          /\ \A i \in 1..n : decls[i].known /\ ~ Taken(reg, decls, i)
          /\ new = [reg EXCEPT !.ports = Over(Fresh(decls, n), reg.ports)]
    <3>1. \E n \in 0..Len(decls) : TakesUpTo(reg, decls, n)
      BY <1>2, DeclareTakes
    <3> QED BY <3>1 DEF TakesUpTo
  <2> DEFINE fresh == Fresh(decls, n)
             all   == Over(fresh, reg.ports)
             names == {decls[i].port : i \in 1..n}
  <2>2. \A i \in 1..n : i \in DOMAIN decls
    OBVIOUS
  <2>3. /\ DOMAIN fresh = names
        /\ \A p \in names :
             fresh[p] = decls[CHOOSE i \in 1..n : decls[i].port = p]
    BY DEF Fresh
  <2>4. ASSUME NEW p \in names
        PROVE  fresh[p].port = p /\ fresh[p].known
    <3>1. \E i \in 1..n : decls[i].port = p
      OBVIOUS
    <3>2. PICK i \in 1..n : decls[i].port = p /\ fresh[p] = decls[i]
      <4> DEFINE c == CHOOSE i \in 1..n : decls[i].port = p
      <4>1. c \in 1..n /\ decls[c].port = p
        BY <3>1
      <4>2. fresh[p] = decls[c]
        BY <2>3
      <4> HIDE DEF c, fresh
      <4> QED BY <4>1, <4>2
    <3>3. decls[i].known
      BY <2>1
    <3> HIDE DEF fresh
    <3> QED BY <3>2, <3>3
  <2>5. \A p \in names : p \notin DOMAIN reg.ports
    BY <2>1 DEF Taken
  <2>6. /\ all = [x \in DOMAIN all |-> all[x]]
        /\ DOMAIN all = names \cup DOMAIN reg.ports
        /\ \A x \in names : all[x] = fresh[x]
        /\ \A x \in DOMAIN reg.ports : all[x] = reg.ports[x]
    <3> HIDE DEF fresh, names
    <3>1. /\ all = [x \in DOMAIN all |-> all[x]]
          /\ DOMAIN all = DOMAIN fresh \cup DOMAIN reg.ports
          /\ \A x \in DOMAIN fresh : all[x] = fresh[x]
          /\ \A x \in DOMAIN reg.ports :
               x \notin DOMAIN fresh => all[x] = reg.ports[x]
      BY DEF Over
    <3> QED BY <2>3, <2>5, <3>1
  <2>7. IsFiniteSet(names)
    <3> DEFINE f == [i \in 1..n |-> decls[i].port]
    <3>1. IsFiniteSet(1..n)
      BY FS_Interval
    <3>2. f \in Surjection(1..n, names)
      BY DEF Surjection
    <3> HIDE DEF f, names
    <3> QED BY <3>1, <3>2, FS_Surjection
  <2>8. new = [solvers |-> reg.solvers, ports |-> all,
               frozen |-> reg.frozen]
    BY <2>1 DEF Registry
  <2> HIDE DEF all, fresh, names, new
  <2>9. /\ new.solvers = reg.solvers /\ new.ports = all
        /\ new.frozen = reg.frozen
    BY <2>8
  <2>10. IsFiniteSet(DOMAIN all)
    <3>1. IsFiniteSet(DOMAIN reg.ports)
      BY DEF Registry
    <3>2. IsFiniteSet(names \cup DOMAIN reg.ports)
      BY <2>7, <3>1, FS_Union, Zenon
    <3> QED BY <2>6, <3>2
  <2>11. \A p \in DOMAIN all : all[p].port = p /\ all[p].known
    BY <2>4, <2>6 DEF Registry
  <2>12. Registry(new)
    BY <2>6, <2>8, <2>9, <2>10, <2>11 DEF Registry
  <2>13. Extends(new.ports, reg.ports)
    BY <2>6, <2>9 DEF Extends
  <2> QED BY <2>9, <2>12, <2>13 DEF new
<1> QED BY <1>1, <1>2

\* The ports that a pack adds to a registry are declared on it without a
\* refusal, unless it is frozen, and make its table the staging one.
LEMMA DeclareAdds ==
  ASSUME NEW reg, Registry(reg), ~ reg.frozen,
         NEW stage, Registry(stage), Extends(stage.ports, reg.ports),
         NEW new, new = DOMAIN stage.ports \ DOMAIN reg.ports,
         NEW decls, decls = SetToSeq({stage.ports[p] : p \in new})
  PROVE  /\ Declare(reg, decls).err = "none"
         /\ Declare(reg, decls).reg = [reg EXCEPT !.ports = stage.ports]
<1> DEFINE S == {stage.ports[p] : p \in new}
           n == Cardinality(S)
<1>1. IsFiniteSet(S)
  <2> DEFINE f == [p \in new |-> stage.ports[p]]
  <2>1. IsFiniteSet(DOMAIN stage.ports)
    BY DEF Registry
  <2>2. IsFiniteSet(new)
    BY <2>1, FS_Subset
  <2>3. f \in Surjection(new, S)
    BY DEF Surjection
  <2> HIDE DEF f, S
  <2> QED BY <2>2, <2>3, FS_Surjection
<1>2. /\ n \in Nat /\ decls \in [1..n -> S]
      /\ \A i, j \in 1..n : decls[i] = decls[j] => i = j
      /\ \A x \in S : \E i \in 1..n : decls[i] = x
  <2> HIDE DEF S
  <2>1. decls = SetToSeq(S)
    BY DEF S
  <2>2. /\ Cardinality(S) \in Nat
        /\ SetToSeq(S) \in [1..Cardinality(S) -> S]
        /\ \A i, j \in 1..Cardinality(S) :
             SetToSeq(S)[i] = SetToSeq(S)[j] => i = j
        /\ \A x \in S : \E i \in 1..Cardinality(S) : SetToSeq(S)[i] = x
    BY <1>1, SetToSeqLists, Zenon
  <2> QED BY <2>1, <2>2
<1>3. \A x \in S : /\ x.port \in new /\ x = stage.ports[x.port]
                   /\ x.known
  BY DEF Registry
<1>4. \A p \in new : stage.ports[p] \in S
  OBVIOUS
<1> HIDE DEF S, n
<1>5. Len(decls) = n /\ DOMAIN decls = 1..n
  BY <1>2
<1>6. decls \in Seq(Range(decls))
  <2>1. \A i \in 1..n : decls[i] \in Range(decls)
    BY <1>5 DEF Range
  <2>2. decls \in [1..n -> Range(decls)]
    BY <1>2, <2>1
  <2> QED BY <1>2, <2>2
<1>7. \A i \in DOMAIN decls : decls[i].known /\ ~ Taken(reg, decls, i)
  <2> SUFFICES ASSUME NEW i \in 1..n
               PROVE  decls[i].known /\ ~ Taken(reg, decls, i)
    BY <1>5
  <2>1. /\ decls[i].port \in new /\ decls[i] = stage.ports[decls[i].port]
        /\ decls[i].known
    BY <1>2, <1>3
  <2>2. decls[i].port \notin DOMAIN reg.ports
    BY <2>1
  <2>3. ASSUME NEW j \in 1..(i - 1), decls[j].port = decls[i].port
        PROVE  FALSE
    <3>1. j \in 1..n /\ j # i
      BY <1>2
    <3>2. decls[j] = stage.ports[decls[j].port]
      BY <1>2, <1>3, <3>1
    <3>3. decls[j] = decls[i]
      BY <2>1, <2>3, <3>2
    <3> QED BY <1>2, <3>1, <3>3
  <2> QED BY <2>1, <2>2, <2>3 DEF Taken
<1>8. /\ Declare(reg, decls).err = "none"
      /\ Declare(reg, decls).reg =
           [reg EXCEPT !.ports = Over(Fresh(decls, n), reg.ports)]
  <2>1. PICK k \in 0..Len(decls) : TakesUpTo(reg, decls, k)
    <3>1. ~ reg.frozen
      OBVIOUS
    <3> QED BY <1>6, <3>1, DeclareTakes
  <2> QED BY <1>5, <1>7, <2>1 DEF TakesUpTo
<1>9. Over(Fresh(decls, n), reg.ports) = stage.ports
  <2> DEFINE fresh == Fresh(decls, n)
  <2>1. DOMAIN fresh = {decls[i].port : i \in 1..n}
    BY DEF Fresh
  <2>2. DOMAIN fresh = new
    <3>1. \A i \in 1..n : decls[i].port \in new
      BY <1>2, <1>3
    <3>2. \A p \in new : \E i \in 1..n : decls[i].port = p
      <4> SUFFICES ASSUME NEW p \in new
                   PROVE  \E i \in 1..n : decls[i].port = p
        OBVIOUS
      <4>1. PICK i \in 1..n : decls[i] = stage.ports[p]
        BY <1>2, <1>4
      <4>2. stage.ports[p].port = p
        BY DEF Registry
      <4> QED BY <4>1, <4>2
    <3>3. {decls[i].port : i \in 1..n} = new
      <4>1. \A p \in {decls[i].port : i \in 1..n} : p \in new
        BY <3>1, Zenon
      <4>2. \A p \in new : p \in {decls[i].port : i \in 1..n}
        BY <3>2, Zenon
      <4> QED BY <4>1, <4>2, Zenon
    <3> HIDE DEF fresh
    <3> QED BY <2>1, <3>3
  <2>3. ASSUME NEW p \in new PROVE fresh[p] = stage.ports[p]
    <3> DEFINE c == CHOOSE i \in 1..n : decls[i].port = p
    <3>1. \E i \in 1..n : decls[i].port = p
      BY <2>1, <2>2
    <3>2. c \in 1..n /\ decls[c].port = p
      BY <3>1
    <3>3. fresh[p] = decls[c]
      BY <2>1, <2>2 DEF Fresh
    <3> HIDE DEF c, fresh
    <3>4. decls[c] = stage.ports[decls[c].port]
      BY <1>2, <1>3, <3>2
    <3> QED BY <3>2, <3>3, <3>4
  <2> DEFINE all == Over(fresh, reg.ports)
  <2>4. /\ all = [x \in DOMAIN all |-> all[x]]
        /\ DOMAIN all = DOMAIN fresh \cup DOMAIN reg.ports
        /\ \A x \in DOMAIN fresh : all[x] = fresh[x]
        /\ \A x \in DOMAIN reg.ports :
             x \notin DOMAIN fresh => all[x] = reg.ports[x]
    <3> HIDE DEF fresh
    <3> QED BY DEF Over
  <2> HIDE DEF all, fresh
  <2>5. DOMAIN all = DOMAIN stage.ports
    BY <2>2, <2>4 DEF Extends
  <2>6. \A x \in DOMAIN stage.ports : all[x] = stage.ports[x]
    BY <2>2, <2>3, <2>4 DEF Extends
  <2>7. all = stage.ports
    BY <2>4, <2>5, <2>6 DEF Registry
  <2> QED BY <2>7 DEF all, fresh
<1> QED BY <1>8, <1>9

----------------------------------------------------------------------------
(* The inductive invariant.                                                *)

Composing == {"stage", "check", "ports"}
Landing   == {"replay", "undo"}
Phases    == {"host", "pack", "done"} \cup Composing \cup Landing

Entries == [name : {Packs[i].name : i \in DOMAIN Packs},
            version : {Packs[i].version : i \in DOMAIN Packs}]

CursorOK ==
  /\ plan \in Compositions
  /\ phase \in Phases
  /\ at \in 1..(Len(Packs) + 1) /\ op \in Nat \ {0}
  /\ phase = "host" => at = 1
  /\ phase \in {"pack"} \cup Composing \cup Landing => at <= Len(Packs)
  /\ loaded \in Seq(Entries)

RegistriesOK == Registry(base) /\ Registry(staging) /\ Registry(before)

\* Until its ports are declared, a pack has done nothing to the base; once
\* it is checked its ids are free.
StagedOK ==
  /\ phase \in Composing =>
       base = before /\ Extends(staging.ports, before.ports)
  /\ phase = "ports" =>
       DOMAIN staging.solvers \cap DOMAIN base.solvers = {}

\* While a pack lands the base is what it was, with all the pack's ports and
\* the solvers that have landed.
LandingOK ==
  phase \in Landing =>
    /\ landed \subseteq DOMAIN staging.solvers
    /\ newPorts = DOMAIN staging.ports \ DOMAIN before.ports
    /\ Extends(staging.ports, before.ports)
    /\ DOMAIN staging.solvers \cap DOMAIN before.solvers = {}
    /\ base.frozen = before.frozen
    /\ base.ports = staging.ports
    /\ DOMAIN base.solvers = landed \cup DOMAIN before.solvers
    /\ \A id \in landed : base.solvers[id] = staging.solvers[id]
    /\ \A id \in DOMAIN before.solvers :
         base.solvers[id] = before.solvers[id]

\* Who may own an id.
Owns(id) ==
  \/ owner[id] = Builtin
  \/ \E i \in DOMAIN loaded : loaded[i].name = owner[id]
  \/ phase \in Landing /\ id \in landed /\ owner[id] = Pack.name

OwnerOK ==
  phase # "host" =>
    /\ DOMAIN owner = DOMAIN base.solvers
    /\ \A id \in DOMAIN owner : Owns(id)

\* The ports of a solver that was checked are there, and were there before
\* the pack that is landing, unless the solver is one of its own.
GuardOK ==
  \A id \in guarded :
    /\ id \in DOMAIN base.solvers
    /\ base.solvers[id].ports \subseteq DOMAIN base.ports
    /\ phase \in Landing /\ id \notin landed =>
         base.solvers[id].ports \subseteq DOMAIN before.ports

PackInv ==
  CursorOK /\ RegistriesOK /\ StagedOK /\ LandingOK /\ OwnerOK /\ GuardOK

LEMMA PackInvInit == Init => PackInv
<1> SUFFICES ASSUME Init PROVE PackInv
  OBVIOUS
<1>1. CursorOK
  <2>1. /\ Packs \in Seq(Range(Packs)) /\ at = 1 /\ op = 1
        /\ phase = "host" /\ plan \in Compositions
    BY CompositionsAssumption DEF Init, Packs
  <2>2. loaded \in Seq(Entries)
    BY DEF Init
  <2> QED BY <2>1, <2>2 DEF CursorOK, Phases, Composing, Landing
<1>2. RegistriesOK
  BY EmptyRegistry DEF Init, RegistriesOK
<1> QED BY <1>1, <1>2 DEF Init, PackInv, StagedOK, LandingOK, OwnerOK,
                          GuardOK, Composing, Landing

\* The packs are a list, and the pack being composed one of them.
LEMMA PackIsOne ==
  ASSUME CursorOK
  PROVE  /\ Packs \in Seq(Range(Packs)) /\ Len(Packs) \in Nat
         /\ DOMAIN Packs = 1..Len(Packs)
         /\ CallsOK(plan.host)
         /\ \A i \in DOMAIN Packs : CallsOK(Packs[i].calls)
         /\ phase \in {"pack"} \cup Composing \cup Landing =>
              at \in DOMAIN Packs
<1>1. /\ Packs \in Seq(Range(Packs)) /\ CallsOK(plan.host)
      /\ \A i \in DOMAIN Packs : CallsOK(Packs[i].calls)
  BY CompositionsAssumption DEF CursorOK, Packs
<1>2. Len(Packs) \in Nat /\ DOMAIN Packs = 1..Len(Packs)
  BY <1>1
<1> QED BY <1>1, <1>2 DEF CursorOK

\* A call on a registry leaves it one, with the ports it had.
LEMMA CallKeeps ==
  ASSUME NEW reg, Registry(reg), NEW c, CallOK(c)
  PROVE  LET new == Apply(reg, c).reg IN
         /\ Registry(new)
         /\ new.frozen = reg.frozen
         /\ Extends(new.ports, reg.ports)
         /\ Extends(new.solvers, reg.solvers)
<1>1. CASE c.do = "declare"
  <2>1. Apply(reg, c) = Declare(reg, c.decls)
    BY <1>1 DEF Apply
  <2>2. c.decls \in Seq(Range(c.decls))
    BY DEF CallOK
  <2> QED BY <2>1, <2>2, DeclareKeeps DEF Extends
<1>2. CASE c.do # "declare"
  <2>1. Apply(reg, c) = Register(reg, c.solver)
    BY <1>2 DEF Apply
  <2>2. c.solver.id \in Nat
    BY DEF CallOK
  <2> QED BY <2>1, <2>2, RegisterKeeps DEF Extends
<1> QED BY <1>1, <1>2

----------------------------------------------------------------------------
(* Every action keeps the invariant.                                       *)

LEMMA HostCallKeeps == PackInv /\ HostCall => PackInv'
<1> SUFFICES ASSUME PackInv, HostCall PROVE PackInv'
  OBVIOUS
<1> DEFINE c == plan.host[op]
<1>1. /\ phase = "host" /\ op \in 1..Len(plan.host)
      /\ base' = Apply(base, c).reg
      /\ guarded' = guarded \cup
           (IF c.do = "register" THEN Guarded(base, c.solver) ELSE {})
      /\ op' = op + 1
      /\ plan' = plan /\ staging' = staging /\ phase' = phase /\ at' = at
      /\ loaded' = loaded /\ before' = before
  BY DEF HostCall, PackInv, CursorOK, result
<1>2. CallOK(c)
  BY <1>1, PackIsOne DEF PackInv, CallsOK
<1> HIDE DEF c
<1>3. /\ Registry(base') /\ Extends(base'.ports, base.ports)
      /\ Extends(base'.solvers, base.solvers)
  BY <1>1, <1>2, CallKeeps DEF PackInv, RegistriesOK
<1>4. CursorOK'
  BY <1>1 DEF PackInv, CursorOK, Packs, Entries
<1>5. RegistriesOK'
  BY <1>1, <1>3 DEF PackInv, RegistriesOK
<1>6. StagedOK' /\ LandingOK' /\ OwnerOK'
  BY <1>1 DEF StagedOK, LandingOK, OwnerOK, Composing, Landing
<1>7. ASSUME NEW id \in guarded'
      PROVE  /\ id \in DOMAIN base'.solvers
             /\ base'.solvers[id].ports \subseteq DOMAIN base'.ports
  <2>1. CASE id \in guarded
    BY <1>3, <2>1 DEF PackInv, GuardOK, Extends
  <2>2. CASE id \notin guarded
    <3> DEFINE s == c.solver
    <3>1. /\ c.do = "register" /\ base.ports # NoFun /\ id = s.id
          /\ RegisterError(base, s) = "none"
      BY <1>1, <2>2 DEF Guarded
    <3>2. base' = Register(base, s).reg
      BY <1>1, <3>1 DEF Apply
    <3>3. Registry(base) /\ s.id \in Nat
      BY <1>2 DEF PackInv, RegistriesOK, CallOK
    <3> HIDE DEF s
    <3>4. /\ s.ports \subseteq DOMAIN base.ports
          /\ base'.solvers[id] = s /\ id \in DOMAIN base'.solvers
      BY <3>1, <3>2, <3>3, RegisterLands
    <3> QED BY <1>3, <3>4 DEF Extends
  <2> QED BY <2>1, <2>2
<1>8. GuardOK'
  BY <1>1, <1>7 DEF GuardOK, Landing
<1> QED BY <1>4, <1>5, <1>6, <1>8 DEF PackInv

LEMMA FreezeKeeps == PackInv /\ Freeze => PackInv'
<1> SUFFICES ASSUME PackInv, Freeze PROVE PackInv'
  OBVIOUS
<1>1. /\ phase = "host" /\ base' = [base EXCEPT !.frozen = TRUE]
      /\ plan' = plan /\ staging' = staging /\ phase' = phase /\ at' = at
      /\ op' = op /\ loaded' = loaded /\ before' = before
      /\ guarded' = guarded
  BY DEF Freeze, cursor, result
<1>2. base' = [solvers |-> base.solvers, ports |-> base.ports,
               frozen |-> TRUE]
  BY <1>1 DEF PackInv, RegistriesOK, Registry
<1>3. base'.solvers = base.solvers /\ base'.ports = base.ports
      /\ base'.frozen = TRUE
  BY <1>2
<1>4. Registry(base')
  BY <1>2, <1>3 DEF PackInv, RegistriesOK, Registry
<1>5. CursorOK' /\ RegistriesOK'
  BY <1>1, <1>4 DEF PackInv, CursorOK, RegistriesOK, Packs, Entries
<1>6. StagedOK' /\ LandingOK' /\ OwnerOK'
  BY <1>1 DEF StagedOK, LandingOK, OwnerOK, Composing, Landing
<1>7. GuardOK'
  BY <1>1, <1>3 DEF PackInv, GuardOK, Landing
<1> QED BY <1>5, <1>6, <1>7 DEF PackInv

LEMMA StartLoadingKeeps == PackInv /\ StartLoading => PackInv'
<1> SUFFICES ASSUME PackInv, StartLoading PROVE PackInv'
  OBVIOUS
<1>1. /\ phase = "host" /\ phase' = IF Packs = <<>> THEN "done" ELSE "pack"
      /\ owner' = [id \in DOMAIN base.solvers |-> Builtin]
      /\ plan' = plan /\ base' = base /\ staging' = staging /\ at' = at
      /\ op' = op /\ loaded' = loaded /\ before' = before
      /\ guarded' = guarded
  BY DEF StartLoading, result
<1>2. CursorOK'
  BY <1>1, PackIsOne DEF PackInv, CursorOK, Packs, Entries, Phases,
                         Composing, Landing
<1>3. RegistriesOK' /\ StagedOK' /\ LandingOK'
  BY <1>1 DEF PackInv, RegistriesOK, StagedOK, LandingOK, Composing, Landing
<1>4. OwnerOK'
  BY <1>1 DEF OwnerOK, Owns
<1>5. GuardOK'
  BY <1>1 DEF PackInv, GuardOK, Landing
<1> QED BY <1>2, <1>3, <1>4, <1>5 DEF PackInv

\* A pack skipped before any of it reached the base.
LEMMA SkipKeeps ==
  ASSUME PackInv, phase \in {"pack"} \cup Composing, NEW why, Skip(why),
         plan' = plan, base' = base, owner' = owner, guarded' = guarded,
         Registry(staging'), Registry(before')
  PROVE  PackInv'
<1>1. /\ loaded' = loaded /\ at' = at + 1 /\ op' = 1
      /\ phase' = IF at < Len(Packs) THEN "pack" ELSE "done"
  BY DEF Skip, NextPack
<1>2. phase' \notin Composing \cup Landing /\ phase' # "host"
  BY <1>1 DEF Composing, Landing
<1>3. CursorOK'
  <2>1. Packs' = Packs /\ Entries' = Entries
    BY DEF Packs, Entries
  <2>2. at \in 1..Len(Packs) /\ Len(Packs) \in Nat
    BY PackIsOne DEF PackInv
  <2> QED BY <1>1, <1>2, <2>1, <2>2
          DEF PackInv, CursorOK, Phases, Composing, Landing
<1>4. RegistriesOK'
  BY DEF PackInv, RegistriesOK
<1>5. StagedOK' /\ LandingOK'
  BY <1>2 DEF StagedOK, LandingOK, Composing
<1>6. OwnerOK'
  <2>1. phase # "host" /\ phase \notin Landing
    BY DEF Composing, Landing
  <2>2. /\ DOMAIN owner = DOMAIN base.solvers
        /\ \A id \in DOMAIN owner :
             \/ owner[id] = Builtin
             \/ \E i \in DOMAIN loaded : loaded[i].name = owner[id]
    BY <2>1 DEF PackInv, OwnerOK, Owns
  <2> QED BY <1>1, <2>2 DEF OwnerOK, Owns
<1>7. GuardOK'
  BY <1>2 DEF PackInv, GuardOK
<1> QED BY <1>3, <1>4, <1>5, <1>6, <1>7 DEF PackInv

\* A pack goes on to its next phase and nothing of it has reached the base.
LEMMA GoesOn ==
  ASSUME PackInv, phase \in {"pack"} \cup Composing,
         phase' \in Composing, op' \in Nat \ {0},
         at' = at, plan' = plan, base' = base, owner' = owner,
         guarded' = guarded, loaded' = loaded,
         Registry(staging'), before' = base,
         Extends(staging'.ports, base.ports),
         phase' = "ports" =>
           DOMAIN staging'.solvers \cap DOMAIN base.solvers = {}
  PROVE  PackInv'
<1>1. phase' \notin Landing /\ phase' \notin {"host", "pack", "done"}
      /\ phase \notin Landing /\ phase # "host"
  BY DEF Composing, Landing
<1>2. CursorOK'
  BY <1>1 DEF PackInv, CursorOK, Phases, Packs, Entries
<1>3. RegistriesOK'
  BY DEF PackInv, RegistriesOK
<1>4. StagedOK' /\ LandingOK'
  BY <1>1 DEF StagedOK, LandingOK
<1>5. OwnerOK'
  BY <1>1 DEF PackInv, OwnerOK, Owns
<1>6. GuardOK'
  BY <1>1 DEF PackInv, GuardOK
<1> QED BY <1>2, <1>3, <1>4, <1>5, <1>6 DEF PackInv

LEMMA LoadTargetKeeps == PackInv /\ LoadTarget => PackInv'
<1> SUFFICES ASSUME PackInv, LoadTarget PROVE PackInv'
  OBVIOUS
<1>1. /\ phase = "pack" /\ before' = base
      /\ plan' = plan /\ base' = base /\ owner' = owner
      /\ guarded' = guarded
  BY DEF LoadTarget
<1>2. Registry(base) /\ Registry(staging)
  BY DEF PackInv, RegistriesOK
<1>3. CASE Pack.malformed
  <2>1. Skip("MalformedSolverPack") /\ staging' = staging
    BY <1>3 DEF LoadTarget
  <2> QED BY <1>1, <1>2, <2>1, SkipKeeps
<1>4. CASE ~ Pack.malformed
  <2>1. /\ staging' = Seed /\ phase' = "stage"
        /\ at' = at /\ op' = op /\ loaded' = loaded
    BY <1>4 DEF LoadTarget, result
  <2>2. Seed = [solvers |-> NoFun, ports |-> base.ports, frozen |-> FALSE]
    <3>1. PICK e : e = Empty
      OBVIOUS
    <3>2. /\ e = [solvers |-> e.solvers, ports |-> e.ports,
                  frozen |-> e.frozen]
          /\ e.solvers = NoFun /\ e.frozen = FALSE
      BY <3>1 DEF Empty
    <3>3. Seed = [e EXCEPT !.ports = base.ports]
      BY <3>1 DEF Seed
    <3> QED BY <3>2, <3>3
  <2>3. Registry(Seed) /\ Extends(Seed.ports, base.ports)
    BY <1>2, <2>2, EmptyRegistry DEF Registry, Extends, NoFun
  <2>4. op \in Nat \ {0} /\ phase' \in Composing /\ phase' # "ports"
    BY <2>1 DEF PackInv, CursorOK, Composing
  <2> QED BY <1>1, <2>1, <2>3, <2>4, GoesOn
<1> QED BY <1>3, <1>4

LEMMA StageCallKeeps == PackInv /\ StageCall => PackInv'
<1> SUFFICES ASSUME PackInv, StageCall PROVE PackInv'
  OBVIOUS
<1> DEFINE c == Pack.calls[op]
           out == Apply(staging, c)
<1>1. /\ phase = "stage" /\ op <= Len(Pack.calls) /\ staging' = out.reg
      /\ plan' = plan /\ base' = base /\ owner' = owner
      /\ guarded' = guarded /\ before' = before
  BY DEF StageCall
<1>2. CallOK(c)
  <2>1. CallsOK(Pack.calls)
    BY <1>1, PackIsOne DEF PackInv, Pack, Composing
  <2>2. op \in DOMAIN Pack.calls
    BY <1>1, <2>1 DEF PackInv, CursorOK, CallsOK
  <2> QED BY <2>1, <2>2 DEF CallsOK
<1>3. /\ Registry(base) /\ Registry(staging) /\ base = before
      /\ Extends(staging.ports, base.ports)
  BY <1>1 DEF PackInv, RegistriesOK, StagedOK, Composing
<1> HIDE DEF c
<1>4. Registry(staging') /\ Extends(staging'.ports, staging.ports)
  BY <1>1, <1>2, <1>3, CallKeeps
<1>5. Extends(staging'.ports, base.ports)
  BY <1>3, <1>4 DEF Extends
<1>6. CASE out.err # "none" /\ c.strict
  <2>1. Skip("PackRegisterRaised")
    BY <1>6 DEF StageCall, c
  <2> QED BY <1>1, <1>3, <1>4, <2>1, SkipKeeps DEF Composing
<1>7. CASE ~ (out.err # "none" /\ c.strict)
  <2>1. /\ op' = op + 1 /\ phase' = phase /\ at' = at /\ loaded' = loaded
    BY <1>7 DEF StageCall, c, result
  <2>2. /\ op' \in Nat \ {0} /\ phase' \in Composing /\ phase' # "ports"
        /\ phase \in Composing
    BY <1>1, <2>1 DEF PackInv, CursorOK, Composing
  <2> QED BY <1>1, <1>3, <1>4, <1>5, <2>1, <2>2, GoesOn
<1> QED BY <1>6, <1>7

LEMMA RegisterReturnsKeeps == PackInv /\ RegisterReturns => PackInv'
<1> SUFFICES ASSUME PackInv, RegisterReturns PROVE PackInv'
  OBVIOUS
<1>1. /\ phase = "stage" /\ staging' = staging
      /\ plan' = plan /\ base' = base /\ owner' = owner
      /\ guarded' = guarded /\ before' = before
  BY DEF RegisterReturns
<1>2. /\ Registry(base) /\ Registry(staging) /\ base = before
      /\ Extends(staging.ports, base.ports) /\ phase \in Composing
  BY <1>1 DEF PackInv, RegistriesOK, StagedOK, Composing
<1>3. CASE Pack.raises
  <2>1. Skip("PackRegisterRaised")
    BY <1>3 DEF RegisterReturns
  <2> QED BY <1>1, <1>2, <2>1, SkipKeeps
<1>4. CASE ~ Pack.raises
  <2>1. phase' = "check" /\ at' = at /\ op' = op /\ loaded' = loaded
    BY <1>4 DEF RegisterReturns, result
  <2>2. op' \in Nat \ {0} /\ phase' \in Composing /\ phase' # "ports"
    BY <2>1 DEF PackInv, CursorOK, Composing
  <2> QED BY <1>1, <1>2, <2>1, <2>2, GoesOn
<1> QED BY <1>3, <1>4

LEMMA CheckStagedKeeps == PackInv /\ CheckStaged => PackInv'
<1> SUFFICES ASSUME PackInv, CheckStaged PROVE PackInv'
  OBVIOUS
<1> DEFINE bad == {id \in DOMAIN staging.solvers :
                     Violation(staging.solvers[id]) # "none"}
<1>1. /\ phase = "check" /\ staging' = staging
      /\ plan' = plan /\ base' = base /\ owner' = owner
      /\ guarded' = guarded /\ before' = before
  BY DEF CheckStaged
<1>2. /\ Registry(base) /\ Registry(staging) /\ base = before
      /\ Extends(staging.ports, base.ports) /\ phase \in Composing
  BY <1>1 DEF PackInv, RegistriesOK, StagedOK, Composing
<1>3. CASE bad # {}
  <2>1. Skip(Violation(staging.solvers[Min(bad)]))
    BY <1>3 DEF CheckStaged
  <2> HIDE DEF bad
  <2> QED BY <1>1, <1>2, <2>1, SkipKeeps
<1>4. CASE bad = {}
  <2>1. phase' = "ports" /\ at' = at /\ op' = op /\ loaded' = loaded
    BY <1>4 DEF CheckStaged, result
  <2>2. op' \in Nat \ {0} /\ phase' \in Composing
    BY <2>1 DEF PackInv, CursorOK, Composing
  <2>3. DOMAIN staging.solvers \cap DOMAIN base.solvers = {}
    <3> SUFFICES ASSUME NEW id \in DOMAIN staging.solvers
                 PROVE  id \notin DOMAIN base.solvers
      OBVIOUS
    <3>1. Violation(staging.solvers[id]) = "none"
      BY <1>4
    <3>2. staging.solvers[id].id \notin DOMAIN owner
      BY <3>1 DEF Violation
    <3>3. staging.solvers[id].id = id
      BY <1>2 DEF Registry
    <3> QED BY <1>1, <3>2, <3>3 DEF PackInv, OwnerOK
  <2> QED BY <1>1, <1>2, <2>1, <2>2, <2>3, GoesOn
<1> QED BY <1>3, <1>4

LEMMA DeclareNewPortsKeeps ==
  ASSUME PackInv, DeclareNewPorts
  PROVE  /\ PackInv'
         /\ phase' \notin Landing => base' = before /\ before' = before
<1> DEFINE new   == DOMAIN staging.ports \ DOMAIN base.ports
           decls == SetToSeq({staging.ports[p] : p \in new})
           out   == IF new = {} THEN [reg |-> base, err |-> "none"]
                    ELSE Declare(base, decls)
<1>1. /\ phase = "ports" /\ landed' = {} /\ base' = out.reg
      /\ plan' = plan /\ staging' = staging /\ owner' = owner
      /\ before' = before /\ guarded' = guarded
  BY DEF DeclareNewPorts
<1>2. /\ Registry(base) /\ Registry(staging) /\ base = before
      /\ Extends(staging.ports, base.ports) /\ phase \in Composing
      /\ DOMAIN staging.solvers \cap DOMAIN base.solvers = {}
  BY <1>1 DEF PackInv, RegistriesOK, StagedOK, Composing
<1>3. \/ out.err # "none" /\ out.reg = base
      \/ /\ out.err = "none"
         /\ out.reg = [base EXCEPT !.ports = staging.ports]
  <2>1. CASE new = {}
    <3>1. out.err = "none" /\ out.reg = base
      BY <2>1
    <3>2. base.ports = staging.ports
      BY <1>2, <2>1 DEF Registry, Extends
    <3>3. base = [base EXCEPT !.ports = staging.ports]
      BY <1>2, <3>2 DEF Registry
    <3> QED BY <3>1, <3>3
  <2>2. CASE new # {} /\ base.frozen
    <3>1. out = Declare(base, decls)
      BY <2>2
    <3>2. Declare(base, decls) = [reg |-> base, err |-> "Frozen"]
      BY <2>2 DEF Declare
    <3> QED BY <3>1, <3>2
  <2>3. CASE new # {} /\ ~ base.frozen
    <3>1. out = Declare(base, decls)
      BY <2>3
    <3> HIDE DEF out
    <3>2. /\ Declare(base, decls).err = "none"
          /\ Declare(base, decls).reg = [base EXCEPT !.ports = staging.ports]
      <4>1. /\ new = DOMAIN staging.ports \ DOMAIN base.ports
            /\ decls = SetToSeq({staging.ports[p] : p \in new})
        OBVIOUS
      <4> HIDE DEF new, decls
      <4> QED BY <1>2, <2>3, <4>1, DeclareAdds
    <3> QED BY <3>1, <3>2
  <2> QED BY <2>1, <2>2, <2>3
<1>4. CASE out.err # "none" /\ out.reg = base
  <2>1. Skip("PortDeclarationFailed")
    BY <1>4 DEF DeclareNewPorts
  <2>2. base' = base /\ Registry(staging') /\ Registry(before')
    BY <1>1, <1>2, <1>4
  <2> HIDE DEF new, decls, out
  <2>3. PackInv'
    BY <1>1, <1>2, <2>1, <2>2, SkipKeeps
  <2> QED BY <1>1, <1>2, <2>2, <2>3
<1>5. CASE /\ out.err = "none"
           /\ out.reg = [base EXCEPT !.ports = staging.ports]
  <2>1. /\ newPorts' = new /\ phase' = "replay"
        /\ at' = at /\ op' = op /\ loaded' = loaded
    BY <1>5 DEF DeclareNewPorts, result
  <2>2. new = DOMAIN staging.ports \ DOMAIN before.ports
    BY <1>2
  <2>3. base' = [solvers |-> base.solvers, ports |-> staging.ports,
                 frozen |-> base.frozen]
    BY <1>1, <1>2, <1>5 DEF Registry
  <2> HIDE DEF new, decls, out
  <2>4. /\ base'.solvers = base.solvers /\ base'.ports = staging.ports
        /\ base'.frozen = base.frozen
    BY <2>3
  <2>5. Registry(base')
    BY <1>2, <2>3, <2>4 DEF Registry
  <2>6. phase' \in Landing /\ phase' \notin Composing
        /\ phase \notin Landing /\ phase # "host" /\ phase' # "host"
    BY <1>1, <2>1 DEF Composing, Landing
  <2>7. CursorOK'
    BY <1>1, <1>2, <2>1, <2>6
       DEF PackInv, CursorOK, Phases, Packs, Entries
  <2>8. RegistriesOK'
    BY <1>1, <1>2, <2>5 DEF RegistriesOK
  <2>9. StagedOK'
    BY <2>1, <2>6 DEF StagedOK
  <2>10. LandingOK'
    BY <1>1, <1>2, <2>1, <2>2, <2>4 DEF LandingOK
  <2>11. OwnerOK'
    BY <1>1, <2>1, <2>4, <2>6 DEF PackInv, OwnerOK, Owns
  <2>12. GuardOK'
    <3> SUFFICES ASSUME NEW id \in guarded
                 PROVE  /\ id \in DOMAIN base.solvers
                        /\ base.solvers[id].ports \subseteq
                             DOMAIN staging.ports
                        /\ base.solvers[id].ports \subseteq
                             DOMAIN before.ports
      BY <1>1, <2>4 DEF GuardOK
    <3> QED BY <1>2 DEF PackInv, GuardOK, Extends
  <2> QED BY <2>6, <2>7, <2>8, <2>9, <2>10, <2>11, <2>12 DEF PackInv
<1> QED BY <1>3, <1>4, <1>5

LEMMA ReplayKeeps == PackInv /\ Replay => PackInv'
<1> SUFFICES ASSUME PackInv, Replay PROVE PackInv'
  OBVIOUS
<1> DEFINE id0 == Min(DOMAIN staging.solvers \ landed)
           s   == staging.solvers[id0]
           out == Register(base, s)
<1>1. /\ phase = "replay" /\ landed # DOMAIN staging.solvers
      /\ base' = out.reg /\ guarded' = guarded \cup Guarded(base, s)
      /\ plan' = plan /\ staging' = staging /\ at' = at /\ op' = op
      /\ newPorts' = newPorts /\ loaded' = loaded /\ before' = before
  BY DEF Replay
<1>2. /\ Registry(base) /\ Registry(staging) /\ Registry(before)
      /\ landed \subseteq DOMAIN staging.solvers
      /\ newPorts = DOMAIN staging.ports \ DOMAIN before.ports
      /\ Extends(staging.ports, before.ports)
      /\ DOMAIN staging.solvers \cap DOMAIN before.solvers = {}
      /\ base.frozen = before.frozen /\ base.ports = staging.ports
      /\ DOMAIN base.solvers = landed \cup DOMAIN before.solvers
      /\ \A id \in landed : base.solvers[id] = staging.solvers[id]
      /\ \A id \in DOMAIN before.solvers :
           base.solvers[id] = before.solvers[id]
  BY <1>1 DEF PackInv, RegistriesOK, LandingOK, Landing
<1>3. id0 \in DOMAIN staging.solvers \ landed
  <2> DEFINE S == DOMAIN staging.solvers \ landed
  <2>1. S \in SUBSET Nat /\ S # {}
    BY <1>1, <1>2 DEF Registry
  <2> HIDE DEF S
  <2>2. Min(S) \in S
    BY <2>1, LeastOfNat
  <2> QED BY <2>2 DEF S
<1>4. s.id = id0 /\ s.id \in Nat
  BY <1>2, <1>3 DEF Registry
<1>5. /\ Registry(base') /\ base'.ports = base.ports
      /\ base'.frozen = base.frozen
      /\ Extends(base'.solvers, base.solvers)
  <2> HIDE DEF s
  <2> QED BY <1>1, <1>2, <1>4, RegisterKeeps
<1>6. RegistriesOK' /\ StagedOK'
  <2>1. phase' \notin Composing
    BY <1>1 DEF Replay, Composing
  <2> QED BY <1>1, <1>2, <1>5, <2>1 DEF RegistriesOK, StagedOK, Composing
<1>7. phase' \in Landing /\ phase' # "host"
  BY <1>1 DEF Replay, Landing
<1>8. CursorOK'
  BY <1>1, <1>7 DEF PackInv, CursorOK, Phases, Composing, Landing,
                    Packs, Entries
<1>9. CASE out.err = "none"
  <2>1. /\ landed' = landed \cup {s.id}
        /\ owner' = Over([id \in {s.id} |-> Pack.name], owner)
    BY <1>9 DEF Replay
  <2>2. RegisterError(base, s) = "none"
    BY <1>9 DEF Register
  <2>3. /\ id0 \notin DOMAIN base.solvers
        /\ base.ports # NoFun => s.ports \subseteq DOMAIN base.ports
        /\ DOMAIN base'.solvers = {id0} \cup DOMAIN base.solvers
        /\ base'.solvers[id0] = s
    <3>1. base' = Register(base, s).reg /\ Registry(base)
      BY <1>1, <1>2
    <3>2. s.id = id0 /\ s.id \in Nat
      BY <1>4
    <3> HIDE DEF s, id0
    <3>3. /\ s.id \notin DOMAIN base.solvers
          /\ base.ports # NoFun => s.ports \subseteq DOMAIN base.ports
          /\ DOMAIN base'.solvers = {s.id} \cup DOMAIN base.solvers
          /\ base'.solvers[s.id] = s
      BY <2>2, <3>1, <3>2, RegisterLands
    <3> QED BY <3>2, <3>3
  <2>4. LandingOK'
    <3>1. landed' = landed \cup {id0}
      BY <1>4, <2>1
    <3> HIDE DEF id0
    <3>2. landed' \subseteq DOMAIN staging.solvers
      BY <1>2, <1>3, <3>1
    <3>3. DOMAIN base'.solvers = landed' \cup DOMAIN before.solvers
      BY <1>2, <2>3, <3>1
    <3>4. \A id \in landed' : base'.solvers[id] = staging.solvers[id]
      BY <1>2, <1>5, <2>3, <3>1 DEF Extends
    <3>5. \A id \in DOMAIN before.solvers :
            base'.solvers[id] = before.solvers[id]
      BY <1>2, <1>5 DEF Extends
    <3> QED BY <1>1, <1>2, <1>5, <3>2, <3>3, <3>4, <3>5 DEF LandingOK
  <2>5. OwnerOK'
    <3> DEFINE one == [id \in {s.id} |-> Pack.name]
    <3>1. /\ DOMAIN owner = DOMAIN base.solvers
          /\ \A id \in DOMAIN owner : Owns(id)
      BY <1>1 DEF PackInv, OwnerOK
    <3>2. DOMAIN one = {id0} /\ one[id0] = Pack.name
      BY <1>4
    <3> HIDE DEF id0, one
    <3>3. owner' = Over(one, owner)
      BY <2>1 DEF one
    <3>4. /\ DOMAIN owner' = {id0} \cup DOMAIN owner
          /\ owner'[id0] = Pack.name
          /\ \A id \in DOMAIN owner : id # id0 => owner'[id] = owner[id]
      BY <3>2, <3>3 DEF Over
    <3>5. DOMAIN owner' = DOMAIN base'.solvers
      BY <2>3, <3>1, <3>4
    <3>6. Pack' = Pack /\ id0 \in landed' /\ landed \subseteq landed'
      BY <1>1, <1>4, <2>1 DEF Pack, Packs, id0
    <3>7. \A id \in DOMAIN owner' : Owns(id)'
      <4> SUFFICES ASSUME NEW id \in DOMAIN owner' PROVE Owns(id)'
        OBVIOUS
      <4>1. CASE id = id0
        BY <1>7, <3>4, <3>6, <4>1 DEF Owns
      <4>2. CASE id # id0
        <5>1. id \in DOMAIN owner /\ owner'[id] = owner[id] /\ Owns(id)
          BY <3>1, <3>4, <4>2
        <5> QED BY <1>1, <1>7, <3>6, <5>1 DEF Owns
      <4> QED BY <4>1, <4>2
    <3> QED BY <3>5, <3>7 DEF OwnerOK
  <2>6. GuardOK'
    <3> SUFFICES ASSUME NEW id \in guarded'
                 PROVE  /\ id \in DOMAIN base'.solvers
                        /\ base'.solvers[id].ports \subseteq
                             DOMAIN base'.ports
                        /\ id \notin landed' =>
                             base'.solvers[id].ports \subseteq
                               DOMAIN before.ports
      BY <1>1 DEF GuardOK
    <3>1. CASE id \in guarded
      <4>1. /\ id \in DOMAIN base.solvers
            /\ base.solvers[id].ports \subseteq DOMAIN base.ports
            /\ id \notin landed =>
                 base.solvers[id].ports \subseteq DOMAIN before.ports
        BY <1>1, <3>1 DEF PackInv, GuardOK, Landing
      <4> QED BY <1>5, <2>1, <4>1 DEF Extends
    <3>2. CASE id \notin guarded
      <4>1. base.ports # NoFun /\ id = id0
        BY <1>1, <1>4, <3>2 DEF Guarded
      <4> QED BY <1>4, <1>5, <2>1, <2>3, <4>1
    <3> QED BY <3>1, <3>2
  <2> QED BY <1>6, <1>8, <2>4, <2>5, <2>6 DEF PackInv
<1>10. CASE out.err # "none"
  <2>1. landed' = landed /\ owner' = owner
    BY <1>10 DEF Replay
  <2>2. base' = base /\ RegisterError(base, s) # "none"
    BY <1>1, <1>10 DEF Register
  <2>3. guarded' = guarded
    BY <1>1, <2>2 DEF Guarded
  <2>4. LandingOK'
    BY <1>1, <1>2, <2>1, <2>2 DEF LandingOK
  <2>5. OwnerOK'
    <3>1. Pack' = Pack
      BY <1>1 DEF Pack, Packs
    <3> QED BY <1>1, <1>7, <2>1, <2>2, <3>1
            DEF PackInv, OwnerOK, Owns, Landing
  <2>6. GuardOK'
    BY <1>1, <2>1, <2>2, <2>3 DEF PackInv, GuardOK, Landing
  <2> QED BY <1>6, <1>8, <2>4, <2>5, <2>6 DEF PackInv
<1> QED BY <1>9, <1>10

\* A roll back takes away just what has landed.
LEMMA RollBackRestores ==
  ASSUME PackInv, RollBack
  PROVE  base' = before
<1>1. phase = "undo" /\ base' = RolledBack(base)
  BY DEF RollBack
<1>2. /\ Registry(base) /\ Registry(before)
      /\ landed \subseteq DOMAIN staging.solvers
      /\ newPorts = DOMAIN staging.ports \ DOMAIN before.ports
      /\ Extends(staging.ports, before.ports)
      /\ DOMAIN staging.solvers \cap DOMAIN before.solvers = {}
      /\ base.frozen = before.frozen /\ base.ports = staging.ports
      /\ DOMAIN base.solvers = landed \cup DOMAIN before.solvers
      /\ \A id \in DOMAIN before.solvers :
           base.solvers[id] = before.solvers[id]
  BY <1>1 DEF PackInv, RegistriesOK, LandingOK, Landing
<1>3. Without(base.solvers, landed) = before.solvers
  <2>1. DOMAIN base.solvers \ landed = DOMAIN before.solvers
    BY <1>2
  <2>2. Without(base.solvers, landed) =
          [id \in DOMAIN before.solvers |-> before.solvers[id]]
    BY <1>2, <2>1 DEF Without
  <2> QED BY <1>2, <2>2 DEF Registry
<1>4. Without(base.ports, newPorts) = before.ports
  <2>1. DOMAIN base.ports \ newPorts = DOMAIN before.ports
    BY <1>2 DEF Extends
  <2>2. Without(base.ports, newPorts) =
          [p \in DOMAIN before.ports |-> before.ports[p]]
    BY <1>2, <2>1 DEF Without, Extends
  <2> QED BY <1>2, <2>2 DEF Registry
<1>5. RolledBack(base) =
        [solvers |-> Without(base.solvers, landed),
         ports |-> Without(base.ports, newPorts), frozen |-> base.frozen]
  <2> DEFINE x == Without(base.solvers, landed)
             y == Without(base.ports, newPorts)
  <2>1. PICK r : r = base
    OBVIOUS
  <2>2. r = [solvers |-> r.solvers, ports |-> r.ports, frozen |-> r.frozen]
    BY <1>2, <2>1 DEF Registry
  <2>3. RolledBack(base) = [r EXCEPT !.solvers = x, !.ports = y]
    BY <2>1 DEF RolledBack
  <2> HIDE DEF x, y
  <2>4. PICK q : q = [r EXCEPT !.solvers = x]
    OBVIOUS
  <2>5. q = [solvers |-> x, ports |-> r.ports, frozen |-> r.frozen]
    BY <2>2, <2>4
  <2>6. [r EXCEPT !.solvers = x, !.ports = y] = [q EXCEPT !.ports = y]
    BY <2>4, Zenon
  <2>7. [q EXCEPT !.ports = y] =
          [solvers |-> x, ports |-> y, frozen |-> r.frozen]
    BY <2>5
  <2> QED BY <2>1, <2>3, <2>6, <2>7 DEF x, y
<1>6. before = [solvers |-> before.solvers, ports |-> before.ports,
                frozen |-> before.frozen]
  BY <1>2 DEF Registry
<1> QED BY <1>1, <1>2, <1>3, <1>4, <1>5, <1>6

LEMMA RollBackKeeps == PackInv /\ RollBack => PackInv'
<1> SUFFICES ASSUME PackInv, RollBack PROVE PackInv'
  OBVIOUS
<1>1. /\ phase = "undo" /\ owner' = Disowned(owner)
      /\ guarded' = guarded \ landed /\ at' = at + 1 /\ op' = 1
      /\ phase' = IF at < Len(Packs) THEN "pack" ELSE "done"
      /\ plan' = plan /\ staging' = staging /\ loaded' = loaded
      /\ before' = before
  BY DEF RollBack, NextPack, result
<1>2. base' = before
  BY RollBackRestores
<1>3. /\ Registry(staging) /\ Registry(before)
      /\ landed \subseteq DOMAIN staging.solvers
      /\ DOMAIN staging.solvers \cap DOMAIN before.solvers = {}
      /\ DOMAIN base.solvers = landed \cup DOMAIN before.solvers
      /\ \A id \in DOMAIN before.solvers :
           base.solvers[id] = before.solvers[id]
  BY <1>1 DEF PackInv, RegistriesOK, LandingOK, Landing
<1>4. phase' \notin Composing \cup Landing /\ phase' # "host"
  BY <1>1 DEF Composing, Landing
<1>5. CursorOK'
  <2>1. Packs' = Packs /\ Entries' = Entries
    BY <1>1 DEF Packs, Entries
  <2>2. at \in 1..Len(Packs) /\ Len(Packs) \in Nat
    BY <1>1, PackIsOne DEF PackInv, Landing
  <2> QED BY <1>1, <1>4, <2>1, <2>2
          DEF PackInv, CursorOK, Phases, Composing, Landing
<1>6. RegistriesOK' /\ StagedOK' /\ LandingOK'
  BY <1>1, <1>2, <1>3, <1>4 DEF RegistriesOK, StagedOK, LandingOK, Composing
<1>7. OwnerOK'
  <2>1. /\ DOMAIN owner = DOMAIN base.solvers
        /\ \A id \in DOMAIN owner : Owns(id)
    BY <1>1 DEF PackInv, OwnerOK
  <2>2. owner' = [id \in DOMAIN owner \ landed |-> owner[id]]
    BY <1>1 DEF Disowned, Without
  <2>3. DOMAIN owner' = DOMAIN base'.solvers
    BY <1>2, <1>3, <2>1, <2>2
  <2>4. \A id \in DOMAIN owner' : Owns(id)'
    BY <1>1, <2>1, <2>2 DEF Owns
  <2> QED BY <2>3, <2>4 DEF OwnerOK
<1>8. GuardOK'
  <2> SUFFICES ASSUME NEW id \in guarded, id \notin landed
               PROVE  /\ id \in DOMAIN before.solvers
                      /\ before.solvers[id].ports \subseteq
                           DOMAIN before.ports
    BY <1>1, <1>2, <1>4 DEF GuardOK
  <2>1. /\ id \in DOMAIN base.solvers
        /\ base.solvers[id].ports \subseteq DOMAIN before.ports
    BY <1>1 DEF PackInv, GuardOK, Landing
  <2> QED BY <1>3, <2>1
<1> QED BY <1>5, <1>6, <1>7, <1>8 DEF PackInv

LEMMA FinishPackKeeps == PackInv /\ FinishPack => PackInv'
<1> SUFFICES ASSUME PackInv, FinishPack PROVE PackInv'
  OBVIOUS
<1> DEFINE e == [name |-> Pack.name, version |-> Pack.version]
<1>1. /\ phase = "replay" /\ landed = DOMAIN staging.solvers
      /\ loaded' = Append(loaded, e) /\ at' = at + 1 /\ op' = 1
      /\ phase' = IF at < Len(Packs) THEN "pack" ELSE "done"
      /\ plan' = plan /\ base' = base /\ staging' = staging
      /\ owner' = owner /\ before' = before /\ guarded' = guarded
      /\ landed' = landed
  BY DEF FinishPack, NextPack
<1>2. phase' \notin Composing \cup Landing /\ phase' # "host"
  BY <1>1 DEF Composing, Landing
<1>3. at \in 1..Len(Packs) /\ Len(Packs) \in Nat /\ at \in DOMAIN Packs
  BY <1>1, PackIsOne DEF PackInv, Landing
<1>4. loaded \in Seq(Entries) /\ e \in Entries /\ e.name = Pack.name
  BY <1>3 DEF PackInv, CursorOK, Entries, Pack
<1> HIDE DEF e
<1>5. /\ loaded' \in Seq(Entries)
      /\ DOMAIN loaded \subseteq DOMAIN loaded'
      /\ \A i \in DOMAIN loaded : loaded'[i] = loaded[i]
      /\ \E i \in DOMAIN loaded' : loaded'[i].name = Pack.name
  <2>1. /\ loaded' \in Seq(Entries) /\ Len(loaded) \in Nat
        /\ DOMAIN loaded = 1..Len(loaded)
        /\ DOMAIN loaded' = 1..(Len(loaded) + 1)
        /\ loaded'[Len(loaded) + 1] = e
        /\ \A i \in 1..Len(loaded) : loaded'[i] = loaded[i]
    BY <1>1, <1>4
  <2> QED BY <1>4, <2>1
<1>6. CursorOK'
  <2>1. Packs' = Packs /\ Entries' = Entries
    BY <1>1 DEF Packs, Entries
  <2> QED BY <1>1, <1>2, <1>3, <1>5, <2>1
          DEF PackInv, CursorOK, Phases, Composing, Landing
<1>7. RegistriesOK' /\ StagedOK' /\ LandingOK'
  BY <1>1, <1>2
     DEF PackInv, RegistriesOK, StagedOK, LandingOK, Composing
<1>8. OwnerOK'
  <2>1. /\ DOMAIN owner = DOMAIN base.solvers
        /\ \A id \in DOMAIN owner : Owns(id)
    BY <1>1 DEF PackInv, OwnerOK
  <2>2. \A id \in DOMAIN owner : Owns(id)'
    <3> SUFFICES ASSUME NEW id \in DOMAIN owner PROVE Owns(id)'
      OBVIOUS
    <3>1. Owns(id)
      BY <2>1
    <3>2. CASE owner[id] = Builtin
      BY <1>1, <3>2 DEF Owns
    <3>3. CASE \E i \in DOMAIN loaded : loaded[i].name = owner[id]
      BY <1>1, <1>5, <3>3 DEF Owns
    <3>4. CASE owner[id] = Pack.name
      BY <1>1, <1>5, <3>4 DEF Owns
    <3> QED BY <3>1, <3>2, <3>3, <3>4 DEF Owns
  <2> QED BY <1>1, <2>1, <2>2 DEF OwnerOK
<1>9. GuardOK'
  BY <1>1, <1>2 DEF PackInv, GuardOK
<1> QED BY <1>6, <1>7, <1>8, <1>9 DEF PackInv


\* No step leaves the invariant.
LEMMA NextKeeps == PackInv /\ [Next]_vars => PackInv'
<1> SUFFICES ASSUME PackInv, [Next]_vars PROVE PackInv'
  OBVIOUS
<1>1. CASE HostCall
  BY <1>1, HostCallKeeps
<1>2. CASE Freeze
  BY <1>2, FreezeKeeps
<1>3. CASE StartLoading
  BY <1>3, StartLoadingKeeps
<1>4. CASE LoadTarget
  BY <1>4, LoadTargetKeeps
<1>5. CASE StageCall
  BY <1>5, StageCallKeeps
<1>6. CASE RegisterReturns
  BY <1>6, RegisterReturnsKeeps
<1>7. CASE CheckStaged
  BY <1>7, CheckStagedKeeps
<1>8. CASE DeclareNewPorts
  BY <1>8, DeclareNewPortsKeeps
<1>9. CASE Replay
  BY <1>9, ReplayKeeps
<1>10. CASE RollBack
  BY <1>10, RollBackKeeps
<1>11. CASE FinishPack
  BY <1>11, FinishPackKeeps
<1>12. CASE UNCHANGED vars
  BY <1>12 DEF vars, cursor, result, PackInv, CursorOK, RegistriesOK,
     StagedOK, LandingOK, OwnerOK, Owns, GuardOK, Pack, Packs, Entries
<1> QED BY <1>1, <1>2, <1>3, <1>4, <1>5, <1>6, <1>7, <1>8, <1>9, <1>10,
           <1>11, <1>12 DEF Next

\* The inductive invariant of load_solver_packs.
THEOREM PackInvariant == Spec => []PackInv
<1> QED BY PackInvInit, NextKeeps, PTL DEF Spec

----------------------------------------------------------------------------
(* What the invariant is for.                                              *)

\* The types, among them that what a pack has landed is on the base.
THEOREM PackTypes == Spec => []TypeOK
<1>1. PackInv => TypeOK
  <2> SUFFICES ASSUME PackInv PROVE TypeOK
    OBVIOUS
  <2>1. /\ plan \in Compositions /\ at \in 1..(Len(Packs) + 1)
        /\ phase \in {"host", "pack", "stage", "check", "ports", "replay",
                      "undo", "done"}
    BY DEF PackInv, CursorOK, Phases, Composing, Landing
  <2>2. \A reg \in {base, staging, before} :
          /\ \A id \in DOMAIN reg.solvers :
               reg.solvers[id].id = id /\ reg.solvers[id].sound
          /\ \A p \in DOMAIN reg.ports :
               reg.ports[p].port = p /\ reg.ports[p].known
          /\ reg.frozen \in BOOLEAN
    BY DEF PackInv, RegistriesOK, Registry
  <2>3. ASSUME phase \in {"replay", "undo"}
        PROVE  /\ landed \subseteq DOMAIN staging.solvers \cap
                                   DOMAIN base.solvers
               /\ newPorts = DOMAIN base.ports \ DOMAIN before.ports
    BY <2>3 DEF PackInv, LandingOK, Landing
  <2> QED BY <2>1, <2>2, <2>3 DEF TypeOK
<1> QED BY <1>1, PackInvariant, PTL

\* owner_of names the owner of every id of the registry and of no other.
THEOREM OwnersHold == Spec => []OwnersAreTrue
<1>1. PackInv => OwnersAreTrue
  BY DEF PackInv, OwnerOK, Owns, OwnersAreTrue, AtRest, Landing
<1> QED BY <1>1, PackInvariant, PTL

\* A solver that was checked against the port table keeps its ports.
THEOREM GuardHolds == Spec => []GuardedPortsStay
<1>1. PackInv => GuardedPortsStay
  BY DEF PackInv, GuardOK, GuardedPortsStay
<1> QED BY <1>1, PackInvariant, PTL

\* The two halves of AllOrNothing, as facts about one step.
LoadedWhole ==
  loaded' # loaded =>
    /\ base.solvers = Over(staging.solvers, before.solvers)
    /\ base.ports = Over(staging.ports, before.ports)

SkippedClean == at' # at /\ loaded' = loaded => base' = before'

\* When a pack is reported as loaded, all of it is on the base.
LEMMA FinishedIsWhole ==
  ASSUME PackInv, FinishPack
  PROVE  LoadedWhole /\ SkippedClean
<1>1. /\ phase = "replay" /\ landed = DOMAIN staging.solvers
      /\ \E e : loaded' = Append(loaded, e)
  BY DEF FinishPack
<1>2. /\ Registry(base)
      /\ Extends(staging.ports, before.ports)
      /\ base.ports = staging.ports
      /\ DOMAIN staging.solvers \cap DOMAIN before.solvers = {}
      /\ DOMAIN base.solvers = DOMAIN staging.solvers \cup
                               DOMAIN before.solvers
      /\ \A id \in DOMAIN staging.solvers :
           base.solvers[id] = staging.solvers[id]
      /\ \A id \in DOMAIN before.solvers :
           base.solvers[id] = before.solvers[id]
  BY <1>1 DEF PackInv, RegistriesOK, LandingOK, Landing
<1>3. base.solvers = Over(staging.solvers, before.solvers)
  <2> DEFINE all == Over(staging.solvers, before.solvers)
  <2>1. /\ all = [x \in DOMAIN all |-> all[x]]
        /\ DOMAIN all = DOMAIN staging.solvers \cup DOMAIN before.solvers
        /\ \A x \in DOMAIN staging.solvers : all[x] = staging.solvers[x]
        /\ \A x \in DOMAIN before.solvers :
             x \notin DOMAIN staging.solvers => all[x] = before.solvers[x]
    BY DEF Over
  <2> HIDE DEF all
  <2>2. base.solvers = [x \in DOMAIN base.solvers |-> base.solvers[x]]
    BY <1>2 DEF Registry
  <2>3. DOMAIN all = DOMAIN base.solvers
    BY <1>2, <2>1
  <2>4. \A x \in DOMAIN base.solvers : all[x] = base.solvers[x]
    BY <1>2, <2>1
  <2>5. all = base.solvers
    BY <2>1, <2>2, <2>3, <2>4
  <2> QED BY <2>5 DEF all
<1>4. base.ports = Over(staging.ports, before.ports)
  <2> DEFINE all == Over(staging.ports, before.ports)
  <2>1. /\ all = [x \in DOMAIN all |-> all[x]]
        /\ DOMAIN all = DOMAIN staging.ports \cup DOMAIN before.ports
        /\ \A x \in DOMAIN staging.ports : all[x] = staging.ports[x]
    BY DEF Over
  <2> HIDE DEF all
  <2>2. base.ports = [x \in DOMAIN base.ports |-> base.ports[x]]
    BY <1>2 DEF Registry
  <2>3. DOMAIN all = DOMAIN base.ports
    BY <1>2, <2>1 DEF Extends
  <2>4. all = base.ports
    BY <1>2, <2>1, <2>2, <2>3
  <2> QED BY <2>4 DEF all
<1>5. loaded' # loaded
  <2>1. loaded \in Seq(Entries)
    BY DEF PackInv, CursorOK
  <2>2. Len(loaded') = Len(loaded) + 1 /\ Len(loaded) \in Nat
    BY <1>1, <2>1
  <2> QED BY <2>2
<1> QED BY <1>3, <1>4, <1>5 DEF LoadedWhole, SkippedClean

\* A pack lands whole, or the base is as it was before it.
THEOREM PacksAreAtomic == Spec => AllOrNothing
<1>1. PackInv /\ [Next]_vars => [LoadedWhole /\ SkippedClean]_vars
  <2> SUFFICES ASSUME PackInv, Next PROVE LoadedWhole /\ SkippedClean
    OBVIOUS
  <2>1. CASE HostCall \/ Freeze \/ StartLoading \/ Replay
    BY <2>1 DEF HostCall, Freeze, StartLoading, Replay, cursor, result,
                LoadedWhole, SkippedClean
  <2>2. CASE LoadTarget
    BY <2>2 DEF LoadTarget, Skip, result, LoadedWhole, SkippedClean
  <2>3. CASE StageCall \/ RegisterReturns \/ CheckStaged
    <3>1. base = before
      BY <2>3 DEF StageCall, RegisterReturns, CheckStaged, PackInv,
                  StagedOK, Composing
    <3>2. loaded' = loaded /\ base' = base /\ before' = before
      BY <2>3 DEF StageCall, RegisterReturns, CheckStaged, Skip, result
    <3> QED BY <3>1, <3>2 DEF LoadedWhole, SkippedClean
  <2>4. CASE DeclareNewPorts
    <3>1. loaded' = loaded /\ (at' # at => phase' \in {"pack", "done"})
      BY <2>4 DEF DeclareNewPorts, Skip, NextPack, result
    <3>2. phase' \notin Landing => base' = before /\ before' = before
      BY <2>4, DeclareNewPortsKeeps
    <3> QED BY <3>1, <3>2 DEF LoadedWhole, SkippedClean, Landing
  <2>5. CASE RollBack
    <3>1. base' = before
      BY <2>5, RollBackRestores
    <3>2. loaded' = loaded /\ before' = before
      BY <2>5 DEF RollBack, result
    <3> QED BY <3>1, <3>2 DEF LoadedWhole, SkippedClean
  <2>6. CASE FinishPack
    BY <2>6, FinishedIsWhole
  <2> QED BY <2>1, <2>2, <2>3, <2>4, <2>5, <2>6 DEF Next
<1>2. [LoadedWhole /\ SkippedClean]_vars =>
        [/\ loaded' # loaded =>
              /\ base.solvers = Over(staging.solvers, before.solvers)
              /\ base.ports = Over(staging.ports, before.ports)
         /\ at' # at /\ loaded' = loaded => base' = before']_vars
  BY DEF LoadedWhole, SkippedClean
<1> QED BY <1>1, <1>2, PackInvariant, PTL DEF Spec, AllOrNothing

----------------------------------------------------------------------------
(* What is settled on the base stays settled.                              *)

\* What may leave the base in a step: what the pack being rolled back put
\* there itself.
Leaving(own) == IF phase = "undo" THEN own ELSE {}

(* "Declare each port once" (registry.py, declare_ports): a port keeps the   *)
(* unit and rank of its first declaration, and an id its solver, whatever    *)
(* hosts and packs declare after it and in whatever order; only a roll back  *)
(* takes anything away, and only what its own pack has added.                *)
FirstDeclarationStands ==
  [][/\ \A p \in DOMAIN base.ports \ Leaving(newPorts) :
          p \in DOMAIN base'.ports /\ base'.ports[p] = base.ports[p]
     /\ \A id \in DOMAIN base.solvers \ Leaving(landed) :
          id \in DOMAIN base'.solvers /\ base'.solvers[id] = base.solvers[id]]_vars

(* A frozen registry is final: no pack composed on it changes it, be it      *)
(* reported as loaded or rolled back.                                        *)
FrozenIsFinal == [][base.frozen => base' = base]_vars

\* On a frozen base nothing of a pack has landed.
FrozenInv ==
  phase \in Landing /\ base.frozen => landed = {} /\ newPorts = {}

\* The two properties as facts about one step.
PortsKept ==
  \A p \in DOMAIN base.ports \ Leaving(newPorts) :
    p \in DOMAIN base'.ports /\ base'.ports[p] = base.ports[p]

SolversKept ==
  \A id \in DOMAIN base.solvers \ Leaving(landed) :
    id \in DOMAIN base'.solvers /\ base'.solvers[id] = base.solvers[id]

\* A call on a frozen registry is refused.
LEMMA FrozenRefuses ==
  ASSUME NEW reg, reg.frozen, NEW c
  PROVE  /\ Apply(reg, c).reg = reg
         /\ \A decls : Declare(reg, decls) = [reg |-> reg, err |-> "Frozen"]
         /\ \A s : Register(reg, s).err # "none" /\ Register(reg, s).reg = reg
<1>1. \A decls : Declare(reg, decls) = [reg |-> reg, err |-> "Frozen"]
  BY DEF Declare
<1>2. \A s : Register(reg, s).err # "none" /\ Register(reg, s).reg = reg
  <2> SUFFICES ASSUME NEW s
               PROVE  Register(reg, s).err # "none" /\ Register(reg, s).reg = reg
    OBVIOUS
  <2>1. RegisterError(reg, s) # "none"
    BY DEF RegisterError
  <2> QED BY <2>1 DEF Register
<1>3. Apply(reg, c).reg = reg
  BY <1>1, <1>2 DEF Apply
<1> QED BY <1>1, <1>2, <1>3

\* The base only grows when it is extended.
LEMMA ExtendingKeeps ==
  ASSUME Extends(base'.ports, base.ports),
         Extends(base'.solvers, base.solvers)
  PROVE  PortsKept /\ SolversKept
  BY DEF Extends, PortsKept, SolversKept

LEMMA UnchangedKeeps ==
  ASSUME base' = base
  PROVE  PortsKept /\ SolversKept
  BY DEF PortsKept, SolversKept

\* Steps of the host and of the loader that leave the base alone.
LEMMA QuietSteps ==
  ASSUME StartLoading \/ LoadTarget \/ StageCall \/ RegisterReturns
           \/ CheckStaged \/ FinishPack
  PROVE  base' = base
  BY DEF StartLoading, LoadTarget, StageCall, RegisterReturns, CheckStaged,
         FinishPack

\* Ports declared for a pack come beside those of the base.
LEMMA DeclaringExtends ==
  ASSUME PackInv, DeclareNewPorts
  PROVE  PortsKept /\ SolversKept
<1>1. phase = "ports"
  BY DEF DeclareNewPorts
<1>2. base = before /\ Registry(base) /\ before' = before
  BY <1>1 DEF PackInv, StagedOK, RegistriesOK, Composing, DeclareNewPorts
<1>3. PackInv' /\ (phase' \notin Landing => base' = before)
  BY DeclareNewPortsKeeps
<1>4. CASE phase' \notin Landing
  BY <1>2, <1>3, <1>4, UnchangedKeeps
<1>5. CASE phase' \in Landing
  <2>1. /\ Extends(staging'.ports, before'.ports)
        /\ base'.ports = staging'.ports
        /\ DOMAIN base'.solvers = landed' \cup DOMAIN before'.solvers
        /\ \A id \in DOMAIN before'.solvers :
             base'.solvers[id] = before'.solvers[id]
    BY <1>3, <1>5 DEF PackInv, LandingOK, Landing
  <2>2. Extends(base'.ports, base.ports) /\ Extends(base'.solvers, base.solvers)
    BY <1>2, <2>1 DEF Extends
  <2> QED BY <2>2, ExtendingKeeps
<1> QED BY <1>4, <1>5

\* A staged solver that is replayed comes beside those of the base.
LEMMA ReplayingExtends ==
  ASSUME PackInv, Replay
  PROVE  /\ PortsKept /\ SolversKept
         /\ base.frozen => base' = base /\ landed' = landed
<1> DEFINE m == Min(DOMAIN staging.solvers \ landed)
           s == staging.solvers[m]
<1>1. /\ phase = "replay" /\ landed # DOMAIN staging.solvers
      /\ base' = Register(base, s).reg
      /\ Register(base, s).err # "none" => landed' = landed
  BY DEF Replay
<1>2. /\ Registry(base) /\ Registry(staging)
      /\ landed \subseteq DOMAIN staging.solvers
  BY <1>1 DEF PackInv, RegistriesOK, LandingOK, Landing
<1>3. m \in DOMAIN staging.solvers
  <2>1. DOMAIN staging.solvers \ landed # {}
    BY <1>1, <1>2
  <2>2. DOMAIN staging.solvers \ landed \in SUBSET Nat
    BY <1>2 DEF Registry
  <2> QED BY <2>1, <2>2, LeastOfNat
<1>4. s.id \in Nat
  BY <1>2, <1>3 DEF Registry
<1> HIDE DEF m, s
<1>5. /\ base'.ports = base.ports
      /\ Extends(base'.solvers, base.solvers)
  BY <1>1, <1>2, <1>4, RegisterKeeps
<1>6. Extends(base'.ports, base.ports)
  BY <1>5 DEF Extends
<1>7. ASSUME base.frozen PROVE base' = base /\ landed' = landed
  BY <1>1, <1>7, FrozenRefuses
<1> QED BY <1>5, <1>6, <1>7, ExtendingKeeps

\* A roll back takes away the pack's own, and nothing else.
LEMMA RollingBackKeeps ==
  ASSUME PackInv, RollBack
  PROVE  PortsKept /\ SolversKept
<1>1. phase = "undo" /\ base' = before
  BY RollBackRestores DEF RollBack
<1>2. /\ newPorts = DOMAIN staging.ports \ DOMAIN before.ports
      /\ Extends(staging.ports, before.ports)
      /\ base.ports = staging.ports
      /\ DOMAIN base.solvers = landed \cup DOMAIN before.solvers
      /\ \A id \in DOMAIN before.solvers :
           base.solvers[id] = before.solvers[id]
  BY <1>1 DEF PackInv, LandingOK, Landing
<1>3. PortsKept
  BY <1>1, <1>2 DEF PortsKept, Leaving, Extends
<1>4. SolversKept
  BY <1>1, <1>2 DEF SolversKept, Leaving
<1> QED BY <1>3, <1>4

\* What is declared or registered stays, but for a pack's own roll back.
THEOREM DeclarationsStand == Spec => FirstDeclarationStands
<1>1. PackInv /\ [Next]_vars => [PortsKept /\ SolversKept]_vars
  <2> SUFFICES ASSUME PackInv, Next PROVE PortsKept /\ SolversKept
    OBVIOUS
  <2>1. CASE HostCall
    <3> DEFINE c == plan.host[op]
    <3>1. op \in 1..Len(plan.host) /\ base' = Apply(base, c).reg
      BY <2>1 DEF HostCall, PackInv, CursorOK
    <3>2. CallOK(c)
      BY <3>1, PackIsOne DEF PackInv, CallsOK
    <3> HIDE DEF c
    <3>3. /\ Extends(base'.ports, base.ports)
          /\ Extends(base'.solvers, base.solvers)
      BY <3>1, <3>2, CallKeeps DEF PackInv, RegistriesOK
    <3> QED BY <3>3, ExtendingKeeps
  <2>2. CASE Freeze
    <3>1. base' = [base EXCEPT !.frozen = TRUE]
      BY <2>2 DEF Freeze
    <3>2. base'.ports = base.ports /\ base'.solvers = base.solvers
      BY <3>1 DEF PackInv, RegistriesOK, Registry
    <3> QED BY <3>2 DEF PortsKept, SolversKept
  <2>3. CASE StartLoading \/ LoadTarget \/ StageCall \/ RegisterReturns
               \/ CheckStaged \/ FinishPack
    BY <2>3, QuietSteps, UnchangedKeeps
  <2>4. CASE DeclareNewPorts
    BY <2>4, DeclaringExtends
  <2>5. CASE Replay
    BY <2>5, ReplayingExtends
  <2>6. CASE RollBack
    BY <2>6, RollingBackKeeps
  <2> QED BY <2>1, <2>2, <2>3, <2>4, <2>5, <2>6 DEF Next
<1>2. [PortsKept /\ SolversKept]_vars =>
        [/\ \A p \in DOMAIN base.ports \ Leaving(newPorts) :
              p \in DOMAIN base'.ports /\ base'.ports[p] = base.ports[p]
         /\ \A id \in DOMAIN base.solvers \ Leaving(landed) :
              id \in DOMAIN base'.solvers
                /\ base'.solvers[id] = base.solvers[id]]_vars
  BY DEF PortsKept, SolversKept
<1> QED BY <1>1, <1>2, PackInvariant, PTL DEF Spec, FirstDeclarationStands

\* On a frozen base no pack gets as far as landing anything.
LEMMA FrozenLandsNothing ==
  PackInv /\ FrozenInv /\ [Next]_vars => FrozenInv'
<1> SUFFICES ASSUME PackInv, FrozenInv, [Next]_vars,
                    phase' \in Landing, base'.frozen
             PROVE  landed' = {} /\ newPorts' = {}
  BY DEF FrozenInv, Landing
<1>1. CASE DeclareNewPorts
  <2> DEFINE new   == DOMAIN staging.ports \ DOMAIN base.ports
             decls == SetToSeq({staging.ports[p] : p \in new})
             out   == IF new = {} THEN [reg |-> base, err |-> "none"]
                      ELSE Declare(base, decls)
  <2>1. /\ phase = "ports" /\ landed' = {} /\ base' = out.reg
        /\ before' = before
        /\ out.err # "none" => phase' \notin Landing
        /\ out.err = "none" => newPorts' = new
    BY <1>1 DEF DeclareNewPorts, Skip, NextPack, Landing
  <2>2. base = before
    BY <2>1 DEF PackInv, StagedOK, Composing
  <2>3. base'.frozen = before'.frozen
    BY <1>1, DeclareNewPortsKeeps DEF PackInv, LandingOK
  <2>4. base.frozen
    BY <2>1, <2>2, <2>3
  <2> HIDE DEF decls, new
  <2>5. new # {} => out.err = "Frozen"
    BY <2>4, FrozenRefuses
  <2>6. new = {}
    BY <2>1, <2>5
  <2> QED BY <2>1, <2>6
<1>2. CASE Replay
  <2>1. /\ phase = "replay" /\ newPorts' = newPorts
        /\ before' = before
    BY <1>2 DEF Replay
  <2>2. PackInv'
    BY <1>2, NextKeeps
  <2>3. base.frozen = before.frozen /\ base'.frozen = before'.frozen
    BY <2>1, <2>2 DEF PackInv, LandingOK, Landing
  <2>4. base.frozen
    BY <2>1, <2>3
  <2>5. landed' = landed
    BY <1>2, <2>4, ReplayingExtends
  <2> QED BY <2>1, <2>4, <2>5 DEF FrozenInv, Landing
<1>3. CASE HostCall \/ Freeze \/ StartLoading \/ LoadTarget \/ StageCall
             \/ RegisterReturns \/ CheckStaged \/ RollBack \/ FinishPack
  BY <1>3 DEF HostCall, Freeze, StartLoading, LoadTarget, StageCall,
     RegisterReturns, CheckStaged, RollBack, FinishPack, Skip, NextPack,
     cursor, Landing
<1>4. CASE UNCHANGED vars
  BY <1>4 DEF vars, cursor, FrozenInv
<1> QED BY <1>1, <1>2, <1>3, <1>4 DEF Next

\* A frozen registry stays as it is.
THEOREM FrozenStays == Spec => FrozenIsFinal
<1>1. Init => FrozenInv
  BY DEF Init, FrozenInv, Landing
<1>2. Spec => []FrozenInv
  BY <1>1, FrozenLandsNothing, PackInvariant, PTL DEF Spec
<1>3. PackInv /\ FrozenInv /\ [Next]_vars => [base.frozen => base' = base]_vars
  <2> SUFFICES ASSUME PackInv, FrozenInv, Next, base.frozen
               PROVE  base' = base
    OBVIOUS
  <2>1. CASE HostCall
    BY <2>1, FrozenRefuses DEF HostCall
  <2>2. CASE Freeze
    BY <2>2 DEF Freeze
  <2>3. CASE StartLoading \/ LoadTarget \/ StageCall \/ RegisterReturns
               \/ CheckStaged \/ FinishPack
    BY <2>3, QuietSteps
  <2>4. CASE DeclareNewPorts
    BY <2>4, FrozenRefuses DEF DeclareNewPorts
  <2>5. CASE Replay
    BY <2>5, ReplayingExtends
  <2>6. CASE RollBack
    <3>1. /\ phase = "undo" /\ base' = before
          /\ landed = {} /\ newPorts = {}
      BY <2>6, RollBackRestores DEF RollBack, FrozenInv, Landing
    <3>2. /\ Registry(base) /\ Registry(before)
          /\ base.frozen = before.frozen
          /\ newPorts = DOMAIN staging.ports \ DOMAIN before.ports
          /\ Extends(staging.ports, before.ports)
          /\ base.ports = staging.ports
          /\ DOMAIN base.solvers = landed \cup DOMAIN before.solvers
          /\ \A id \in DOMAIN before.solvers :
               base.solvers[id] = before.solvers[id]
      BY <3>1 DEF PackInv, RegistriesOK, LandingOK, Landing
    <3>3. base.solvers = before.solvers
      BY <3>1, <3>2 DEF Registry
    <3>4. base.ports = before.ports
      <4>1. DOMAIN base.ports = DOMAIN before.ports
        BY <3>1, <3>2 DEF Extends
      <4> QED BY <3>2, <4>1 DEF Registry, Extends
    <3>5. base = before
      BY <3>2, <3>3, <3>4 DEF Registry
    <3> QED BY <3>1, <3>5
  <2> QED BY <2>1, <2>2, <2>3, <2>4, <2>5, <2>6 DEF Next
<1> QED BY <1>2, <1>3, PackInvariant, PTL DEF Spec, FrozenIsFinal
=============================================================================
