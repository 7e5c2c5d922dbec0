--------------------------- MODULE PlannerSearch ---------------------------
(***************************************************************************)
(* `plan()` (crates/feldspar-core/src/search.rs): the label-correcting     *)
(* forward search over the AND-graph of solvers.  Every port keeps a       *)
(* Pareto set of labels; an iteration of the loop regenerates the frontier *)
(* from the labels, pops its cheapest candidate, admits it against the     *)
(* solver's input box, estimates its outputs and commits the labels no     *)
(* other label dominates.  One behaviour is one call on one `Instances`.   *)
(*                                                                         *)
(* Bounds, eps and costs are integers.  `total_error` is doubled, so that  *)
(* half-widths stay integers, and so is the budget.                        *)
(***************************************************************************)
EXTENDS Integers, Sequences, SequencesExt, FiniteSets, Functions

CONSTANTS
  Ports,      \* port names
  Instances,  \* [solvers, known, tags, target, budget, finite, sense]
  MaxNodes,   \* bound: committed applications in one search
  MaxCost     \* bound: cost of the derivations a result is compared with

Interval == {iv \in Int \X Int : iv[1] <= iv[2]}
Senses   == {"both", "upper", "lower"}

\* SolverSummary; the vector is sorted by solver_id, `inputs` by port.
ValidSolver(s) ==
  /\ s.inputs \in Seq(Ports) /\ s.outputs \subseteq Ports /\ s.outputs # {}
  /\ s.conservative_for \in Senses
  /\ s.cost \in Nat \ {0}
  /\ DOMAIN s.box \subseteq Ports /\ \A p \in DOMAIN s.box : s.box[p] \in Interval
  /\ s.accuracy \in [s.outputs -> [abs : Nat, rel : Nat]]

ASSUME InstancesAssumption ==
  /\ \A i \in Instances :
       /\ \A n \in DOMAIN i.solvers : ValidSolver(i.solvers[n])
       /\ DOMAIN i.known \subseteq Ports /\ \A p \in DOMAIN i.known : i.known[p] \in Interval
       /\ i.target \in Ports /\ i.budget \in Int /\ i.finite \in BOOLEAN
       /\ i.sense \in Senses
  /\ MaxNodes \in Nat /\ MaxCost \in Nat

VARIABLES
  inst,      \* the arguments of the call
  phase,     \* "start", "search" or "done"
  labels,    \* labels[p]: the Pareto set of port p
  nodes,     \* the StepNodes committed so far; a label names its node by index
  frontier,  \* the candidates not popped yet
  pushed,    \* the (solver, tie key) pairs ever pushed
  result     \* Ok(winner label, steps) or the PlanError

vars == <<inst, phase, labels, nodes, frontier, pushed, result>>

Solver(n) == inst.solvers[n]
Total(f) == FoldFunction(+, 0, f)
Max2(a, b) == IF a >= b THEN a ELSE b
Min2(a, b) == IF a <= b THEN a ELSE b
Abs(x) == IF x < 0 THEN -x ELSE x

----------------------------------------------------------------------------
(* Error arithmetic: propagation.rs and accuracy.rs.                         *)

Shrink(iv, eps)  == <<iv[1] + eps, iv[2] - eps>>
Inflate(iv, eps) == <<iv[1] - eps, iv[2] + eps>>
Subset(a, b) == b[1] <= a[1] /\ a[2] <= b[2]
WorstOver(acc, iv) == acc.abs + acc.rel * Max2(Abs(iv[1]), Abs(iv[2]))

TotalError(iv, eps) == (iv[2] - iv[1]) + 2 * eps

NoEps(l)    == l.iv
Inflated(l) == Inflate(l.iv, l.eps)

CostOnly(a, b) == a.cost <= b.cost
Dominates(a, b) == a.cost <= b.cost /\ Subset(Inflated(a), Inflated(b))

KeepDominated(S, l) == S \cup {l}
Insert(S, l) ==
  IF \E m \in S : Dominates(m, l) THEN S
  ELSE {m \in S : ~ Dominates(l, m)} \cup {l}

\* corner_sweep of the sum surrogate: the hull over all corners of the sum of
\* the inflated inputs is the interval sum.
SumSurrogate(box) == <<Total([p \in DOMAIN box |-> box[p][1]]),
                       Total([p \in DOMAIN box |-> box[p][2]])>>

----------------------------------------------------------------------------
(* The checks before the search. *)

Equivalences(solvers) ==
  {<<sp[1].inputs[1], sp[2]>> : sp \in {sq \in Range(solvers) \X Ports :
      Len(sq[1].inputs) = 1 /\ sq[1].outputs = {sq[2]}}}

\* Some set of ports each of which is renamed into the set again.
CyclicPortEquivalence(solvers) ==
  \E P \in SUBSET Ports \ {{}} :
    \A p \in P : \E q \in P : <<p, q>> \in Equivalences(solvers)

Producible(solvers, p) == \E n \in DOMAIN solvers : p \in solvers[n].outputs

KnownLabel(iv) == [iv |-> iv, eps |-> 0, cost |-> 0, node |-> 0]

Ok(l, steps) == [kind |-> "Ok", label |-> l, steps |-> steps, best |-> 0]
Err(kind, best) == [kind |-> kind, label |-> KnownLabel(<<0, 0>>), steps |-> <<>>, best |-> best]

Init ==
  /\ inst \in Instances
  /\ phase = "start"
  /\ labels = [p \in Ports |-> {}]
  /\ nodes = <<>> /\ frontier = {} /\ pushed = {}
  /\ result = Err("none", 0)

Finish(r) == phase' = "done" /\ result' = r

\* plan() up to the loop.
Start ==
  /\ phase = "start"
  /\ LET invalid == ~ inst.finite \/ inst.budget <= 0
         known == inst.target \in DOMAIN inst.known
         producible == Producible(inst.solvers, inst.target)
         cyclic == CyclicPortEquivalence(inst.solvers)
     IN
     \/ invalid /\ Finish(Err("InvalidBudget", 0)) /\ UNCHANGED labels
     \/ ~ invalid /\ known
        /\ Finish(Ok(KnownLabel(inst.known[inst.target]), <<>>)) /\ UNCHANGED labels
     \/ ~ invalid /\ ~ known /\ ~ producible
        /\ Finish(Err("UnknownTarget", 0)) /\ UNCHANGED labels
     \/ ~ invalid /\ ~ known /\ producible /\ cyclic
        /\ Finish(Err("CyclicPortEquivalence", 0)) /\ UNCHANGED labels
     \/ ~ invalid /\ ~ known /\ producible /\ ~ cyclic
        /\ phase' = "search"
        /\ labels' = [p \in Ports |->
                        IF p \in DOMAIN inst.known THEN {KnownLabel(inst.known[p])} ELSE {}]
        /\ UNCHANGED result
  /\ UNCHANGED <<inst, nodes, frontier, pushed>>

----------------------------------------------------------------------------
(* One iteration of the loop. *)

\* conservative_for: a one-sided edge serves its own sense only, and only
\* where its outputs include the target.
Usable(s) ==
  \/ s.conservative_for = "both"
  \/ s.conservative_for = inst.sense /\ inst.target \in s.outputs

InputPorts(s) == {s.inputs[i] : i \in DOMAIN s.inputs}
Combos(s) == {f \in [InputPorts(s) -> UNION {labels[p] : p \in InputPorts(s)}] :
                \A p \in InputPorts(s) : f[p] \in labels[p]}
TieKey(f) == [p \in DOMAIN f |-> <<Inflated(f[p]), f[p].cost>>]
InputCost(f) == Total([p \in DOMAIN f |-> f[p].cost])

ForgetInputCost(n, f) == [solver |-> n, cost |-> Solver(n).cost, inputs |-> f]
Candidate(n, f) == [solver |-> n, cost |-> Solver(n).cost + InputCost(f), inputs |-> f]

\* regenerate_candidates: every combination of labels not pushed before.
Fresh == {nf \in UNION {{n} \X Combos(Solver(n)) :
                           n \in {m \in DOMAIN inst.solvers : Usable(Solver(m))}} :
            <<nf[1], TieKey(nf[2])>> \notin pushed}
Regenerated == frontier \cup {Candidate(nf[1], nf[2]) : nf \in Fresh}
ForgetPushed == pushed
Pushed == pushed \cup {<<nf[1], TieKey(nf[2])>> : nf \in Fresh}

\* The pop order is (cost, solver_id, tie key); the tie key is any fixed order
\* of the combinations, so any of them may come first.
First(c, F) == \A d \in F : c.cost < d.cost \/ (c.cost = d.cost /\ c.solver <= d.solver)

\* Admission looks at the tags and at the box entries of input ports only.
Box(c) == [p \in DOMAIN c.inputs |-> Inflated(c.inputs[p])]
Admitted(c) ==
  LET s == Solver(c.solver) IN
  /\ s.tags \subseteq inst.tags
  /\ \A p \in DOMAIN s.box \cap DOMAIN c.inputs : Subset(Box(c)[p], s.box[p])

\* The label candidate c gives its output port p when it is node n.
OutputLabel(c, p, n) ==
  LET iv == SumSurrogate(Box(c)) IN
  [iv |-> iv, eps |-> WorstOver(Solver(c.solver).accuracy[p], iv), cost |-> c.cost, node |-> n]

Committed(c) ==
  [p \in Ports |-> IF p \in Solver(c.solver).outputs
                     THEN Insert(labels[p], OutputLabel(c, p, Len(nodes) + 1))
                     ELSE labels[p]]

WithinBudget(l) == TotalError(l.iv, l.eps) <= inst.budget

\* The nodes that gave node m its inputs, in port order; 0 is a known value.
Children(m) ==
  LET ports == Solver(nodes[m].solver).inputs
  IN  [i \in DOMAIN ports |-> nodes[m].inputs[ports[i]].node]

\* walk_route: the nodes under n in post-order, inputs in port order, each once.
Walk(n) ==
  LET visit[m \in 1..Len(nodes)] ==
        [seen \in Seq(1..Len(nodes)) |->
           IF m \in Range(seen) THEN seen
           ELSE LET child == Children(m)
                    after[i \in 0..Len(child)] ==
                      IF i = 0 THEN seen
                      ELSE IF child[i] = 0 THEN after[i - 1]
                      ELSE visit[child[i]][after[i - 1]]
                IN  Append(after[Len(child)], m)]
  IN  visit[n][<<>>]

\* Pop the first candidate and do with it what the rest of the iteration does.
Pop(c) ==
  /\ phase = "search" /\ Len(nodes) < MaxNodes
  /\ c \in Regenerated /\ First(c, Regenerated)
  /\ frontier' = Regenerated \ {c}
  /\ pushed' = Pushed

Reject(c) ==
  /\ Pop(c)
  /\ ~ Admitted(c)
  /\ UNCHANGED <<inst, phase, labels, nodes, result>>

Prune(c) ==
  /\ Pop(c)
  /\ Admitted(c) /\ Committed(c) = labels
  /\ UNCHANGED <<inst, phase, labels, nodes, result>>

Commit(c) ==
  /\ Pop(c)
  /\ Admitted(c) /\ Committed(c) # labels
  /\ labels' = Committed(c)
  /\ nodes' = Append(nodes, [solver |-> c.solver, inputs |-> c.inputs])
  /\ UNCHANGED inst

Cheapest(l, S) == \A m \in S : l.cost <= m.cost

\* The target has labels inside the budget: the cheapest one wins.
Win(c) ==
  /\ Commit(c)
  /\ \E l \in labels'[inst.target] :
       /\ WithinBudget(l)
       /\ Cheapest(l, {m \in labels'[inst.target] : WithinBudget(m)})
       /\ phase' = "done"
       /\ result' = Ok(l, IF l.node = 0 THEN <<>> ELSE Walk(l.node)')

Extend(c) ==
  /\ Commit(c)
  /\ \A l \in labels'[inst.target] : ~ WithinBudget(l)
  /\ UNCHANGED <<phase, result>>

\* Nothing left to pop.
Exhaust ==
  /\ phase = "search" /\ Regenerated = {}
  /\ LET errors == {TotalError(l.iv, l.eps) : l \in labels[inst.target]} IN
     Finish(IF errors = {} THEN Err("NoApplicableSolver", 0)
            ELSE Err("BudgetUnreachable", CHOOSE e \in errors : \A f \in errors : e <= f))
  /\ pushed' = Pushed
  /\ UNCHANGED <<inst, labels, nodes, frontier>>

Iterate == \E c \in Regenerated : Reject(c) \/ Prune(c) \/ Win(c) \/ Extend(c)

Next == Start \/ Iterate \/ Exhaust

Spec == Init /\ [][Next]_vars

\* plan() runs to completion on its caller's thread.
FairSpec == Spec /\ WF_vars(Next)

----------------------------------------------------------------------------
(* Properties. *)

Label == [iv : Interval, eps : Nat, cost : Nat, node : Nat]

TypeOK ==
  /\ inst \in Instances
  /\ phase \in {"start", "search", "done"}
  /\ \A p \in Ports : \A l \in labels[p] : l \in Label /\ l.node <= Len(nodes)
  /\ \A c \in frontier : c.solver \in DOMAIN inst.solvers /\ c.cost \in Nat
  /\ \A n \in DOMAIN nodes : nodes[n].solver \in DOMAIN inst.solvers

(* No label of a port dominates another label of it, whatever order labels   *)
(* arrived in and whichever of them they replaced (insert_with_dominance).   *)
LabelsAntichain ==
  \A p \in Ports : \A l, m \in labels[p] :
    l # m => ~ (l.cost <= m.cost /\ Subset(Inflated(l), Inflated(m)))

(* The search corrects labels in the order of their cost: a candidate pushed *)
(* late is never cheaper than a label that is already there, so the first    *)
(* label inside the budget is the cheapest (04-routing "Algorithm").         *)
CommitsInCostOrder ==
  [][\A n \in DOMAIN nodes' \ DOMAIN nodes : \A p \in Ports :
       \A new \in labels'[p] : new.node = n => \A q \in Ports : \A l \in labels[q] : l.cost <= new.cost]_vars

\* <<port, label>> pairs, and those one more step derives from them at a cost
\* up to max when nothing is pruned.
Derived(L, max) ==
  LET combos(s) ==
        {f \in [InputPorts(s) -> {x[2] : x \in {y \in L : y[1] \in InputPorts(s)}}] :
           \A p \in InputPorts(s) : <<p, f[p]>> \in L}
      candidate(n, f) ==
        [solver |-> n, inputs |-> f, cost |-> Solver(n).cost + Total([q \in DOMAIN f |-> f[q].cost])]
      open == {n \in DOMAIN inst.solvers :
                 \/ Solver(n).conservative_for = "both"
                 \/ Solver(n).conservative_for = inst.sense /\ inst.target \in Solver(n).outputs}
      admitted(n) == {c \in {candidate(n, f) : f \in combos(Solver(n))} : c.cost <= max /\ Admitted(c)}
  IN  L \cup UNION {{<<p, OutputLabel(c, p, 0)>> : c \in admitted(n), p \in Solver(n).outputs} : n \in open}

\* Every pair that can be derived at a cost up to max: a step costs one or more.
Unpruned(max) ==
  LET known == {<<p, KnownLabel(inst.known[p])>> : p \in DOMAIN inst.known}
      rounds[k \in 0..max] == IF k = 0 THEN known ELSE Derived(rounds[k - 1], max)
  IN  rounds[max]

UnprunedFor(p, max) == {x[2] : x \in {y \in Unpruned(max) : y[1] = p}}

(* Pareto pruning and the early return lose nothing: no derivation the       *)
(* search left out would have met the budget at a lower cost, and when the   *)
(* budget is called unreachable no derivation has a smaller error than the   *)
(* best_eps reported.                                                        *)
PruningLosesNothing ==
  /\ result.kind = "Ok" /\ result.label.cost > 0 =>
       \A l \in UnprunedFor(inst.target, Min2(MaxCost, result.label.cost - 1)) : ~ WithinBudget(l)
  /\ result.kind \in {"BudgetUnreachable", "NoApplicableSolver"} =>
       \A l \in UnprunedFor(inst.target, MaxCost) :
         result.kind = "BudgetUnreachable" /\ TotalError(l.iv, l.eps) >= result.best

\* What the executor makes of a sequence of solvers: a port holds what its last
\* producer gave it.  The error arithmetic is the planner's own estimate.
RunStep(env, n) ==
  LET s == Solver(n)
      ready == \A p \in InputPorts(s) : env.port[p] # {}
      box == [p \in InputPorts(s) |->
                LET l == CHOOSE l \in env.port[p] : TRUE
                IN  <<l.iv[1] - l.eps, l.iv[2] + l.eps>>]
      iv == SumSurrogate(box)
  IN  IF ~ env.ok \/ ~ ready THEN [env EXCEPT !.ok = FALSE]
      ELSE [ok |-> \A p \in DOMAIN s.box \cap DOMAIN box : Subset(box[p], s.box[p]),
            port |-> [p \in Ports |->
              IF p \in s.outputs
                THEN {[iv |-> iv, eps |-> WorstOver(s.accuracy[p], iv)]}
                ELSE env.port[p]]]

Replay(steps) ==
  LET start == [ok |-> TRUE, port |-> [p \in Ports |->
                  IF p \in DOMAIN inst.known THEN {[iv |-> inst.known[p], eps |-> 0]} ELSE {}]]
      env[k \in 0..Len(steps)] ==
        IF k = 0 THEN start ELSE RunStep(env[k - 1], steps[k])
  IN  env[Len(steps)]

ReachesTarget(steps) ==
  LET end == Replay(steps) IN
  end.ok /\ \E l \in end.port[inst.target] : (l.iv[2] - l.iv[1]) + 2 * l.eps <= inst.budget

RouteSolvers == [k \in DOMAIN result.steps |-> nodes[result.steps[k]].solver]

\* No step of the Route overwrites a port another step, or the caller, set.
OneProducer ==
  \A j \in DOMAIN RouteSolvers :
    /\ Solver(RouteSolvers[j]).outputs \cap DOMAIN inst.known = {}
    /\ \A k \in DOMAIN RouteSolvers :
         j # k => Solver(RouteSolvers[j]).outputs \cap Solver(RouteSolvers[k]).outputs = {}

(* "enough to execute without re-searching" (04-routing, Route): run in the  *)
(* order of the Route, every step finds its inputs, inside its domain, and   *)
(* the target comes out inside the budget, as long as every port the Route   *)
(* sets is set once.  A target that is known already is returned as it is,   *)
(* whatever its width.                                                       *)
RouteReplays ==
  result.kind = "Ok" /\ inst.target \notin DOMAIN inst.known /\ OneProducer
    => ReachesTarget(RouteSolvers)

RouteCost(steps) == Total([k \in DOMAIN steps |-> Solver(steps[k]).cost])

(* 04-routing condition 5: among the plans that meet the budget, the total   *)
(* cost of the Route is minimal.                                             *)
CostMinimal ==
  result.kind = "Ok" =>
    \A n \in 1..Len(inst.solvers) : \A steps \in [1..n -> DOMAIN inst.solvers] :
      (\A k \in 1..n : Usable(Solver(steps[k]))) /\ ReachesTarget(steps)
        => RouteCost(RouteSolvers) <= RouteCost(steps)

(* plan() returns: re-deriving ports in a cycle of relations leaves their    *)
(* boxes sooner or later, and no combination is pushed twice.                *)
SearchReturns == phase = "start" ~> phase = "done"
============================================================================
