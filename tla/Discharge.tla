------------------------------ MODULE Discharge ------------------------------
(***************************************************************************)
(* `Model.estimate` of the regolith models (pack/models.py) from end to    *)
(* end: the engine catalog is built, the claim's target is solved over it  *)
(* (plan the cheapest route, run its laws, reroute around a law that       *)
(* failed), and the margin loop asks again while the answer is too wide.   *)
(* One claim per behaviour.                                                *)
(***************************************************************************)
EXTENDS CatalogRoutes, MarginLoop

VARIABLES
  request,   \* [model, tools, resolver, unfit, failing]
  stage,     \* "idle", "plan", "run" or "sweep": where solve() is
  excluded,  \* the laws this solve() has rerouted around
  route,     \* the laws of the planned route
  ran,       \* those of them that have answered
  memo       \* [route, solution]: what deterministic routes answered

engineVars == <<request, stage, excluded, route, ran, memo>>
vars == <<catalogVars, loopVars, engineVars>>

model == request.model

\* The programs the laws that matter to m run.
ToolsFor(m) == UNION {l.tools : l \in UsefulTo[m]}

\* Scalar models build the catalog over NoStoreResolver; a payload model
\* takes the host's resolver when it is given one.
ResolversFor(m) == IF m.payloads = {} THEN {"none"} ELSE {"none", "threaded"}

\* unfit: laws whose box the claim's values leave, or a payload of another
\* kind.  failing: laws that answer these values with an Err.
RequestsFor(m) ==
  [model : {m}, tools : SUBSET ToolsFor(m), resolver : ResolversFor(m),
   unfit : SUBSET UsefulTo[m],
   failing : SUBSET {l \in UsefulTo[m] : l.refuses}]

\* The margin loop is _FeaModel.estimate's; the other models predict from
\* their first solution.
Refines(m) == m.kind \in {"fea", "closed_form"}

\* Before the first request.
NoRequest == CHOOSE r \in RequestsFor(FeaStaticStressModel) : TRUE
NoClaim   == CHOOSE c \in Claims : TRUE

DischargeInit ==
  /\ CatalogInit /\ LoopInit /\ claim = NoClaim
  /\ request = NoRequest /\ stage = "idle"
  /\ excluded = {} /\ route = {} /\ ran = {} /\ memo = {}

Compose ==
  /\ verdict = "idle"
  /\ CatalogNext
  /\ UNCHANGED <<loopVars, engineVars>>

Estimate(m) ==
  /\ host = "catalog" /\ phase = "frozen"
  /\ \E c \in Claims :
       c.upper \in m.senses /\ c.refines = Refines(m) /\ Ask(c)
  /\ request' \in RequestsFor(m)
  /\ stage' = IF m.kind = "direct" THEN "sweep" ELSE "plan"
  /\ UNCHANGED <<catalogVars, excluded, route, ran, memo>>

----------------------------------------------------------------------------
(* solve().                                                                *)

Open == {R \in Routes[model] : R \cap (excluded \cup request.unfit) = {}}

Best(R) == \A Q \in Open : Cost(R) <= Cost(Q)

PlanRoute ==
  /\ stage = "plan"
  /\ \E R \in Open : Best(R) /\ route' = R
  /\ ran' = {} /\ stage' = "run"
  /\ UNCHANGED <<catalogVars, loopVars, request, excluded, memo>>

\* Mutant of GiveUp: every failure is the engine's, as on a first attempt.
GiveUpPlainly ==
  /\ verdict = "seeking" /\ verdict' = "error"
  /\ UNCHANGED <<claim, budget, attempt, solution>>
  /\ stage' = "idle"
  /\ UNCHANGED <<catalogVars, request, excluded, route, ran, memo>>

\* solve() returns an Err to the margin loop.
GiveUp ==
  /\ Failed
  /\ stage' = "idle"
  /\ UNCHANGED <<catalogVars, request, excluded, route, ran, memo>>

NoRouteLeft == stage = "plan" /\ Open = {} /\ GiveUp

\* The planner bounds an inexact route's error above a tightened budget.
TooWideAsPlanned ==
  /\ stage = "plan" /\ budget < LooseBudget
  /\ \E R \in Open : Best(R) /\ \E l \in R : ~ l.exact
  /\ GiveUp

\* Mutant of RerouteAround: as with policy.fallback off.
RerouteNever(l) == GiveUp

\* Mutant of RerouteAround: the law stays in the race.
RerouteNowhere(l) ==
  /\ stage' = "plan"
  /\ UNCHANGED <<catalogVars, loopVars, request, excluded, route, ran, memo>>

RerouteAround(l) ==
  /\ excluded' = excluded \cup {l}
  /\ stage' = "plan"
  /\ UNCHANGED <<catalogVars, loopVars, request, route, ran, memo>>

\* What makes a call of l an Err: a program it runs is not installed, its
\* payload cannot be resolved, or the law refuses these values.
Stumbles(l) ==
  \/ ~ l.tools \subseteq request.tools
  \/ l.resolves /\ request.resolver = "none"
  \/ l \in request.failing

Ready == {l \in route \ ran : l.ins \subseteq Derivable(Knowns(model), ran)}

\* An exception leaves estimate().
Escape ==
  /\ Raised
  /\ stage' = "idle"
  /\ UNCHANGED <<catalogVars, request, excluded, route, ran, memo>>

\* A corner sweep of l.  Both resolvers' store() is an AssertionError.
RunLaw(l) ==
  /\ stage = "run" /\ l \in Ready
  /\ \/ Stumbles(l) /\ RerouteAround(l)
     \/ ~ Stumbles(l) /\ l.stores /\ Escape
     \/ /\ ~ Stumbles(l) /\ ~ l.stores
        /\ ran' = ran \cup {l}
        /\ UNCHANGED <<catalogVars, loopVars, request, stage, excluded,
                       route, memo>>

\* A seeking law whose ladder is not monotone, met when it climbs past its
\* first pair, is a RuntimeError; one that tops out is an Err.
Climb(l) ==
  /\ stage = "run" /\ l \in Ready /\ l.seeks /\ ~ Stumbles(l)
  /\ budget < LooseBudget
  /\ Escape \/ RerouteAround(l)

----------------------------------------------------------------------------
(* The route's answer.                                                     *)

\* Exact laws leave no eps, a seeking law keeps its own within the budget,
\* and every other route answers the same values alike.
CanAnswer(s) ==
  /\ Covers(s, claim.truth)
  /\ (\A l \in route : l.exact) => s.eps = 0
  /\ (\E l \in route : l.seeks) => FitsEps(s, budget)
  /\ (\A l \in route : ~ l.seeks) =>
       \A past \in memo : past.route = route => past.solution = s

Recall(s) ==
  memo' = IF \E l \in route : l.seeks THEN memo
          ELSE memo \cup {[route |-> route, solution |-> s]}

\* The law that produces the target, run last.
Last == CHOOSE l \in route : model.target \in l.outs

\* The route has answered: within the budget, the margin loop goes on, and a
\* further solve() starts afresh; above it, BudgetExceeded and a reroute.
Deliver(s) ==
  /\ stage = "run" /\ ran = route
  /\ CanAnswer(s) /\ Recall(s)
  /\ \/ /\ Answered(s)
        /\ stage' = IF verdict' = "seeking" THEN "plan" ELSE "idle"
        /\ excluded' = {}
     \/ /\ ~ FitsBudget(s, budget)
        /\ excluded' = excluded \cup {Last}
        /\ stage' = "plan"
        /\ UNCHANGED loopVars
  /\ UNCHANGED <<catalogVars, request, route, ran>>

\* A direct model's corner sweep: the hull of its corners, or a DomainError
\* at the first corner off its formula.
Sweep ==
  /\ stage = "sweep"
  /\ \/ GiveUp
     \/ /\ \E s \in Solutions : s.eps = 0 /\ Answered(s)
        /\ stage' = "idle"
        /\ UNCHANGED <<catalogVars, request, excluded, route, ran, memo>>

Work == \/ PlanRoute \/ NoRouteLeft \/ TooWideAsPlanned \/ Sweep
        \/ \E l \in route : RunLaw(l) \/ Climb(l)
        \/ \E s \in Solutions : Deliver(s)

Next == Compose \/ (\E m \in PackModelSet : Estimate(m)) \/ Work

\* estimate() runs on the caller's thread until it returns or raises.
Spec == DischargeInit /\ [][Next]_vars /\ WF_vars(Work)

----------------------------------------------------------------------------
(* Properties. *)

TypeOK ==
  /\ CatalogTypeOK /\ LoopTypeOK
  /\ model \in PackModelSet
  /\ stage \in {"idle", "plan", "run", "sweep"}
  /\ excluded \cup route \subseteq UsefulTo[model] /\ ran \subseteq route
  /\ \A past \in memo : past.solution \in Solutions

\* A claim is answered by the law its model says it wraps, whatever else in
\* the catalog derives the same port; the stress model is left out: the
\* planner prefers `bore_von_mises` to the FEA law whenever its box fits.
ClaimsReachTheirLaw ==
  verdict \in Predictions /\ model.kind # "direct"
    /\ model # FeaStaticStressModel
      => \E l \in ran : l.id = model.law

\* The catalog's part in it: no route to the model's target goes round that law.
ModelsWrapTheirLaws ==
  \A m \in PackModelSet \ {FeaStaticStressModel} : m.kind # "direct" =>
    \A R \in Routes[m] : \E l \in R : l.id = m.law

\* An Err on the first attempt is the request's doing, not the catalog's:
\* there are routes, and none of them could have answered.
NoAnswerMissed ==
  verdict = "error" /\ model.kind # "direct" =>
    /\ Routes[model] # {}
    /\ \A R \in Routes[model] :
         \E l \in R : l \in request.unfit \/ Stumbles(l)

\* The first attempt's _EPS_BUDGET, 1e30, is wider than any engine answer.
LooseBudgetIsLoose == \A s \in Solutions : FitsBudget(s, LooseBudget)

\* pack/payload_bridge.py: "`store()` is unreachable on both resolvers".
StoreUnreachable ==
  verdict = "raised" => \A l \in route : ~ l.stores

\* estimate() over the catalog does what its loop alone does over an ideal
\* engine.
ImplementsMarginLoop == LoopSpec

\* Every estimate ends, in a prediction, an Err or an exception.
EstimateEnds == verdict = "seeking" ~> verdict \in Finished
=============================================================================
