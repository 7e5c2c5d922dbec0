--------------------------- MODULE DischargeProofs ---------------------------
(***************************************************************************)
(* Proofs about Discharge, for every set of solutions, limits, truths and  *)
(* budgets: estimate() over the catalog refines its margin loop, and what  *)
(* the loop's soundness says of a discharge therefore holds of the whole.  *)
(* The inductive invariant of the catalog's half, EngineInv, ties the      *)
(* stage of solve() to the verdict and the planned route to the model's    *)
(* routes.                                                                 *)
(***************************************************************************)
EXTENDS Discharge, MarginLoopProofs

\* solve() runs only inside an estimate, and a direct model never plans.
StageOK ==
  /\ stage # "idle" => verdict = "seeking"
  /\ stage \in {"plan", "run"} => model.kind # "direct"
  /\ stage = "sweep" => model.kind = "direct"

\* Before the first request nothing has been planned or excluded.
NothingPlanned == verdict = "idle" => excluded = {} /\ route = {} /\ ran = {}

\* The route being run is one of the model's routes.
RoutePlanned == stage = "run" => route \in Routes[model]

\* A prediction of a model that asks the engine comes from a whole route of
\* that model: every law of it has answered.
PredictedFromRoute ==
  verdict \in Predictions /\ model.kind # "direct"
    => ran = route /\ route \in Routes[model]

EngineInv == /\ TypeOK /\ StageOK /\ NothingPlanned /\ RoutePlanned
             /\ PredictedFromRoute

----------------------------------------------------------------------------
(* The catalog's own state.                                                *)

\* What a composition step leaves of the registry is well-formed.
LEMMA CatalogTypes == CatalogTypeOK /\ CatalogNext => CatalogTypeOK'
<1> SUFFICES ASSUME CatalogTypeOK, CatalogNext PROVE CatalogTypeOK'
  OBVIOUS
<1> USE DEF CatalogTypeOK
<1>1. ASSUME NEW f \in DOMAIN Family, RegisterFamily(f) PROVE CatalogTypeOK'
  <2>1. Complaint(f, registered) \in
          {"none", "PortConflict", "DuplicateSolverId", "UnknownPort"}
    BY DEF Complaint
  <2>2. complaint' = [family |-> f, why |-> Complaint(f, registered)]
    BY <1>1 DEF RegisterFamily
  <2>3. complaint' \in [family : DOMAIN Family \cup {"none"},
                        why : {"none", "PortConflict", "DuplicateSolverId",
                               "UnknownPort"}]
    BY <2>1, <2>2
  <2>4. /\ host' = host /\ registered' \in {registered, registered \cup {f}}
        /\ phase' \in {phase, "raised"}
    BY <1>1 DEF RegisterFamily
  <2> QED
    BY <2>3, <2>4
<1>2. ASSUME Freeze PROVE CatalogTypeOK'
  BY <1>2 DEF Freeze
<1> QED
  BY <1>1, <1>2 DEF CatalogNext

\* Every model can be asked for.
LEMMA RequestExists == \A m : RequestsFor(m) # {}
<1> TAKE m
<1> DEFINE r == [model |-> m, tools |-> {}, resolver |-> "none",
                 unfit |-> {}, failing |-> {}]
<1>1. r \in RequestsFor(m)
  BY DEF RequestsFor, ResolversFor
<1> QED
  BY <1>1

\* The routes of a model consist of laws that matter to it.
LEMMA RoutesUseful ==
  ASSUME NEW m \in PackModelSet, NEW R \in Routes[m]
  PROVE  R \subseteq UsefulTo[m]
BY DEF Routes

----------------------------------------------------------------------------
(* The refinement.                                                         *)

\* Each step of an estimate is a step of its margin loop or leaves the loop
\* alone.
LEMMA StepRefines == [Next]_vars => [LoopNext]_loopVars
<1> SUFFICES ASSUME [Next]_vars PROVE [LoopNext]_loopVars
  OBVIOUS
<1>1. ASSUME Compose PROVE [LoopNext]_loopVars
  BY <1>1 DEF Compose
<1>2. ASSUME NEW m \in PackModelSet, Estimate(m) PROVE LoopNext
  BY <1>2 DEF Estimate, LoopNext
<1>3. ASSUME GiveUp PROVE LoopNext
  BY <1>3 DEF GiveUp, LoopNext
<1>4. ASSUME PlanRoute PROVE UNCHANGED loopVars
  BY <1>4 DEF PlanRoute
<1>5. ASSUME NoRouteLeft \/ TooWideAsPlanned PROVE LoopNext
  BY <1>3, <1>5 DEF NoRouteLeft, TooWideAsPlanned
<1>6. ASSUME Sweep PROVE LoopNext
  BY <1>3, <1>6 DEF Sweep, LoopNext
<1>7. ASSUME NEW l \in route, RunLaw(l) \/ Climb(l)
      PROVE  [LoopNext]_loopVars
  BY <1>7 DEF RunLaw, Climb, RerouteAround, Escape, LoopNext
<1>8. ASSUME NEW s \in Solutions, Deliver(s) PROVE [LoopNext]_loopVars
  BY <1>8 DEF Deliver, LoopNext
<1>9. ASSUME UNCHANGED vars PROVE UNCHANGED loopVars
  BY <1>9 DEF vars
<1> QED
  BY <1>1, <1>2, <1>4, <1>5, <1>6, <1>7, <1>8, <1>9 DEF Next, Work

\* estimate() over the catalog - planning, rerouting around laws that fail,
\* sweeping corners, giving up - implements the margin loop over an ideal
\* engine.
THEOREM RefinesMarginLoop == Spec => ImplementsMarginLoop
<1>1. DischargeInit => LoopInit
  BY DEF DischargeInit
<1> QED
  BY <1>1, StepRefines, PTL DEF Spec, ImplementsMarginLoop, LoopSpec

\* The loop's invariant holds of an estimate over the catalog.
LEMMA LoopInvHere == Spec => []LoopInv
<1>1. Spec => LoopSpec
  BY RefinesMarginLoop DEF ImplementsMarginLoop
<1> QED
  BY <1>1, LoopInvariant, PTL

\* What the harness discharges from a prediction of the catalog is the case,
\* through whatever reroutes and re-solves the answer came.
THEOREM ClaimsAreSound == Spec => []ClosedClaimsHold
<1>1. Spec => LoopSpec
  BY RefinesMarginLoop DEF ImplementsMarginLoop
<1> QED
  BY <1>1, DischargeIsSound, PTL

----------------------------------------------------------------------------
(* The invariant.                                                          *)

\* The law a route is cut at is one of its laws.
LEMMA LastOfRoute ==
  ASSUME TypeOK, model.kind # "direct", route \in Routes[model]
  PROVE  Last \in route
<1>1. \E l \in route : model.target \in l.outs
  BY CatalogAnswers DEF TypeOK
<1> QED
  BY <1>1 DEF Last

\* It holds before the first request.
LEMMA EngineInitInv == DischargeInit => EngineInv
<1> SUFFICES ASSUME DischargeInit PROVE EngineInv
  OBVIOUS
<1>1. LoopInit
  BY DEF DischargeInit
<1>2. LoopTypeOK /\ verdict = "idle"
  BY <1>1, LoopInitInv DEF LoopInv, LoopInit
<1>3. NoRequest \in RequestsFor(FeaStaticStressModel)
  BY RequestExists DEF NoRequest
<1>4. request.model = FeaStaticStressModel
  BY <1>3 DEF DischargeInit, RequestsFor
<1>5. model \in PackModelSet
  BY <1>4 DEF model, PackModelSet
<1>6. CatalogTypeOK
  BY DEF DischargeInit, CatalogInit, CatalogTypeOK
<1> QED
  BY <1>2, <1>5, <1>6
     DEF DischargeInit, EngineInv, TypeOK, StageOK, NothingPlanned,
         RoutePlanned, PredictedFromRoute, Predictions

\* A new estimate starts from an empty solve().
LEMMA EstimateInv ==
  ASSUME EngineInv, NEW m \in PackModelSet, Estimate(m) PROVE EngineInv'
<1> USE DEF EngineInv
<1>1. PICK c \in Claims : Ask(c)
  BY DEF Estimate
<1>2. /\ verdict = "idle" /\ verdict' = "seeking" /\ claim' \in Claims
      /\ UNCHANGED <<budget, attempt, solution>>
  BY <1>1 DEF Ask
<1>3. request' \in RequestsFor(m)
  BY DEF Estimate
<1>4. model' = m
  BY <1>3 DEF RequestsFor, model
<1>5. /\ stage' = (IF m.kind = "direct" THEN "sweep" ELSE "plan")
      /\ UNCHANGED <<catalogVars, excluded, route, ran, memo>>
  BY DEF Estimate
<1>6. excluded = {} /\ route = {} /\ ran = {}
  BY <1>2 DEF NothingPlanned
<1>7. CatalogTypeOK'
  BY <1>5 DEF TypeOK, CatalogTypeOK, catalogVars
<1>8. LoopTypeOK'
  BY <1>2 DEF TypeOK, LoopTypeOK, Verdicts, Finished, Predictions
<1>9. TypeOK'
  BY <1>4, <1>5, <1>6, <1>7, <1>8 DEF TypeOK
<1> QED
  BY <1>2, <1>4, <1>5, <1>9
     DEF StageOK, NothingPlanned, RoutePlanned, PredictedFromRoute,
         Predictions

\* Err and exception end the estimate.
LEMMA EndInv ==
  ASSUME EngineInv, LoopInv', Failed \/ Raised, stage' = "idle",
         UNCHANGED <<catalogVars, request, excluded, route, ran, memo>>
  PROVE  EngineInv'
<1> USE DEF EngineInv
<1>1. verdict' \in {"error", "exhausted", "raised"}
  BY DEF Failed, Raised
<1>2. LoopTypeOK'
  BY DEF LoopInv
<1>3. CatalogTypeOK'
  BY DEF TypeOK, CatalogTypeOK, catalogVars
<1>4. model' = model
  BY DEF model
<1>5. TypeOK'
  BY <1>2, <1>3, <1>4 DEF TypeOK
<1> QED
  BY <1>1, <1>5
     DEF StageOK, NothingPlanned, RoutePlanned, PredictedFromRoute,
         Predictions

\* A law that failed is excluded, and the route is planned again.
LEMMA ReplanInv ==
  ASSUME EngineInv, stage = "run", NEW l \in UsefulTo[model],
         excluded' = excluded \cup {l}, stage' = "plan",
         UNCHANGED <<catalogVars, loopVars, request, route, ran>>,
         \A past \in memo' : past.solution \in Solutions
  PROVE  EngineInv'
<1> USE DEF EngineInv
<1>1. model' = model /\ verdict' = verdict
  BY DEF model, loopVars
<1>2. CatalogTypeOK' /\ LoopTypeOK'
  BY DEF TypeOK, CatalogTypeOK, catalogVars, LoopTypeOK, loopVars
<1>3. TypeOK'
  BY <1>1, <1>2 DEF TypeOK
<1>4. verdict = "seeking" /\ model.kind # "direct"
  BY DEF StageOK
<1> QED
  BY <1>1, <1>3, <1>4
     DEF StageOK, NothingPlanned, RoutePlanned, PredictedFromRoute,
         Predictions

\* The planned route is open: none of its laws is excluded or unfit.
LEMMA PlanRouteInv ==
  ASSUME EngineInv, PlanRoute PROVE EngineInv'
<1> USE DEF EngineInv
<1>1. route' \in Open /\ ran' = {} /\ stage = "plan" /\ stage' = "run"
      /\ UNCHANGED <<catalogVars, loopVars, request, excluded, memo>>
  BY DEF PlanRoute
<1>2. model' = model /\ verdict' = verdict
  BY <1>1 DEF model, loopVars
<1>3. CatalogTypeOK' /\ LoopTypeOK'
  BY <1>1 DEF TypeOK, CatalogTypeOK, catalogVars, LoopTypeOK, loopVars
<1>4. route' \in Routes[model]
  BY <1>1 DEF Open
<1>5. route' \subseteq UsefulTo[model]
  BY <1>4, RoutesUseful DEF TypeOK
<1>6. TypeOK'
  BY <1>1, <1>2, <1>3, <1>5 DEF TypeOK
<1>7. verdict = "seeking" /\ model.kind # "direct"
  BY <1>1 DEF StageOK
<1> QED
  BY <1>1, <1>2, <1>4, <1>6, <1>7
     DEF StageOK, NothingPlanned, RoutePlanned, PredictedFromRoute,
         Predictions

\* A corner sweep ends in an answer, a reroute or an exception.
LEMMA RunLawInv ==
  ASSUME EngineInv, LoopInv', NEW l \in route, RunLaw(l) \/ Climb(l)
  PROVE  EngineInv'
<1> USE DEF EngineInv
<1>1. stage = "run" /\ l \in Ready
  BY DEF RunLaw, Climb
<1>2. l \in UsefulTo[model]
  BY DEF TypeOK
<1>3. CASE RerouteAround(l)
  BY <1>1, <1>2, <1>3, ReplanInv DEF RerouteAround, TypeOK
<1>4. CASE Escape
  BY <1>4, EndInv DEF Escape
<1>5. CASE /\ ran' = ran \cup {l}
           /\ UNCHANGED <<catalogVars, loopVars, request, stage, excluded,
                          route, memo>>
  <2>1. model' = model /\ verdict' = verdict
    BY <1>5 DEF model, loopVars
  <2>2. CatalogTypeOK' /\ LoopTypeOK'
    BY <1>5 DEF TypeOK, CatalogTypeOK, catalogVars, LoopTypeOK, loopVars
  <2>3. TypeOK'
    BY <1>5, <2>1, <2>2 DEF TypeOK
  <2>4. verdict = "seeking"
    BY <1>1 DEF StageOK
  <2> QED
    BY <1>5, <2>1, <2>3, <2>4
       DEF StageOK, NothingPlanned, RoutePlanned, PredictedFromRoute,
           Predictions
<1> QED
  BY <1>3, <1>4, <1>5 DEF RunLaw, Climb

\* The answer of a whole route is passed on, or cut at its last law.
LEMMA DeliverInv ==
  ASSUME EngineInv, LoopInv', NEW s \in Solutions, Deliver(s)
  PROVE  EngineInv'
<1> USE DEF EngineInv
<1>1. /\ stage = "run" /\ ran = route /\ Recall(s)
      /\ UNCHANGED <<catalogVars, request, route, ran>>
  BY DEF Deliver
<1>2. \A past \in memo' : past.solution \in Solutions
  BY <1>1 DEF Recall, TypeOK
<1>3. model.kind # "direct" /\ route \in Routes[model] /\ verdict = "seeking"
  BY <1>1 DEF StageOK, RoutePlanned
<1>4. CASE Answered(s) /\ excluded' = {}
           /\ stage' = (IF verdict' = "seeking" THEN "plan" ELSE "idle")
  <2>1. model' = model
    BY <1>1 DEF model
  <2>2. CatalogTypeOK' /\ LoopTypeOK'
    BY <1>1 DEF TypeOK, CatalogTypeOK, catalogVars, LoopInv
  <2>3. TypeOK'
    BY <1>1, <1>2, <1>4, <2>1, <2>2 DEF TypeOK
  <2>4. verdict' # "idle"
    BY <1>4 DEF Answered, Tighten
  <2> QED
    BY <1>1, <1>3, <1>4, <2>1, <2>3, <2>4
       DEF StageOK, NothingPlanned, RoutePlanned, PredictedFromRoute
<1>5. CASE excluded' = excluded \cup {Last} /\ stage' = "plan"
           /\ UNCHANGED loopVars
  <2>1. Last \in UsefulTo[model]
    BY <1>3, LastOfRoute DEF TypeOK
  <2> QED
    BY <1>1, <1>2, <1>5, <2>1, ReplanInv
<1> QED
  BY <1>4, <1>5 DEF Deliver

\* A direct model predicts from its own corner sweep.
LEMMA SweepInv ==
  ASSUME EngineInv, LoopInv', NEW s \in Solutions, stage = "sweep",
         Answered(s), stage' = "idle",
         UNCHANGED <<catalogVars, request, excluded, route, ran, memo>>
  PROVE  EngineInv'
<1> USE DEF EngineInv
<1>1. model' = model /\ model.kind = "direct"
  BY DEF model, StageOK
<1>2. CatalogTypeOK' /\ LoopTypeOK'
  BY DEF TypeOK, CatalogTypeOK, catalogVars, LoopInv
<1>3. TypeOK'
  BY <1>1, <1>2 DEF TypeOK
<1>4. verdict' # "idle"
  BY DEF Answered, Tighten
<1> QED
  BY <1>1, <1>3, <1>4
     DEF StageOK, NothingPlanned, RoutePlanned, PredictedFromRoute

\* Every step keeps the invariant, given the loop's own.
LEMMA EngineStepInv ==
  EngineInv /\ LoopInv /\ LoopInv' /\ [Next]_vars => EngineInv'
<1> SUFFICES ASSUME EngineInv, LoopInv', [Next]_vars PROVE EngineInv'
  OBVIOUS
<1>1. CASE Compose
  <2>1. CatalogTypeOK'
    BY <1>1, CatalogTypes DEF Compose, EngineInv, TypeOK
  <2>2. UNCHANGED <<loopVars, engineVars>>
    BY <1>1 DEF Compose
  <2> QED
    BY <2>1, <2>2
       DEF loopVars, engineVars, EngineInv, TypeOK, LoopTypeOK, StageOK,
           NothingPlanned, RoutePlanned, PredictedFromRoute, model
<1>2. ASSUME NEW m \in PackModelSet, Estimate(m) PROVE EngineInv'
  BY <1>2, EstimateInv
<1>3. ASSUME GiveUp PROVE EngineInv'
  BY <1>3, EndInv DEF GiveUp
<1>4. CASE NoRouteLeft \/ TooWideAsPlanned
  BY <1>3, <1>4 DEF NoRouteLeft, TooWideAsPlanned
<1>5. CASE Sweep
  BY <1>3, <1>5, SweepInv DEF Sweep
<1>6. CASE UNCHANGED vars
  BY <1>6
     DEF vars, catalogVars, loopVars, engineVars, EngineInv, TypeOK,
         CatalogTypeOK, LoopTypeOK, StageOK, NothingPlanned, RoutePlanned,
         PredictedFromRoute, model
<1> QED
  BY <1>1, <1>2, <1>4, <1>5, <1>6, PlanRouteInv, RunLawInv, DeliverInv
     DEF Next, Work

\* The invariant behind the theorems below.
LEMMA EngineInvariant == Spec => []EngineInv
BY EngineInitInv, EngineStepInv, LoopInvHere, PTL DEF Spec

\* Every variable of an estimate keeps its type: solve() plans and excludes
\* only laws that matter to the model asked, and runs only those it planned.
THEOREM DischargeTypes == Spec => []TypeOK
<1>1. EngineInv => TypeOK
  BY DEF EngineInv
<1> QED
  BY EngineInvariant, <1>1, PTL

\* Where every route of a model has the law the model's docstring names, no
\* prediction is made from anything else, however solve() rerouted.
THEOREM LawsAreReached ==
  ASSUME ModelsWrapTheirLaws PROVE Spec => []ClaimsReachTheirLaw
<1>1. EngineInv => ClaimsReachTheirLaw
  BY DEF EngineInv, TypeOK, PredictedFromRoute, ClaimsReachTheirLaw,
         ModelsWrapTheirLaws
<1> QED
  BY EngineInvariant, <1>1, PTL

----------------------------------------------------------------------------
(* Errors.                                                                 *)

\* Until solve() has answered once it is asked with the loose budget, and it
\* has rerouted only around laws that fail on this request.
FirstAttempt ==
  solution = NoSolution =>
    budget = LooseBudget /\ \A l \in excluded : Stumbles(l)

MissInv == FirstAttempt /\ NoAnswerMissed

\* A solve() with no open route left blames the request for each of them.
LEMMA ClosedRoutesStumble ==
  ASSUME EngineInv, FirstAttempt, solution = NoSolution,
         model.kind # "direct", Open = {}
  PROVE  /\ Routes[model] # {}
         /\ \A R \in Routes[model] :
              \E l \in R : l \in request.unfit \/ Stumbles(l)
<1>1. Routes[model] # {}
  BY CatalogAnswers DEF EngineInv, TypeOK
<1>2. ASSUME NEW R \in Routes[model]
      PROVE  \E l \in R : l \in request.unfit \/ Stumbles(l)
  <2>1. PICK l \in R : l \in excluded \cup request.unfit
    BY <1>2 DEF Open
  <2> QED
    BY <2>1 DEF FirstAttempt
<1> QED
  BY <1>1, <1>2

\* Nor does a request change under the estimate that is open.
LEMMA SameRequest ==
  ASSUME MissInv, UNCHANGED <<request, verdict>>,
         solution' = NoSolution => solution = NoSolution /\ budget' = budget,
         \A l \in excluded' \ excluded :
           solution' = NoSolution => Stumbles(l)
  PROVE  MissInv'
<1>1. \A l : Stumbles(l)' <=> Stumbles(l)
  BY DEF Stumbles
<1>2. FirstAttempt'
  BY <1>1 DEF MissInv, FirstAttempt
<1>3. NoAnswerMissed'
  BY <1>1 DEF MissInv, NoAnswerMissed, model
<1> QED
  BY <1>2, <1>3 DEF MissInv

\* solve() gives up on a first attempt only with every route closed.
LEMMA GiveUpMiss ==
  ASSUME EngineInv, LoopInv, MissInv, GiveUp,
         model.kind # "direct" /\ solution = NoSolution => Open = {}
  PROVE  MissInv'
<1>1. /\ verdict' = (IF solution = NoSolution THEN "error" ELSE "exhausted")
      /\ UNCHANGED <<claim, budget, attempt, solution>>
      /\ UNCHANGED <<request, excluded, route, ran, memo>>
  BY DEF GiveUp, Failed
<1>2. \A l : Stumbles(l)' <=> Stumbles(l)
  BY <1>1 DEF Stumbles
<1>3. FirstAttempt'
  BY <1>1, <1>2 DEF MissInv, FirstAttempt
<1>4. NoAnswerMissed'
  <2> SUFFICES ASSUME verdict' = "error", model.kind # "direct"
               PROVE  /\ Routes[model] # {}
                      /\ \A R \in Routes[model] :
                           \E l \in R : l \in request.unfit \/ Stumbles(l)
    BY <1>1, <1>2 DEF NoAnswerMissed, model
  <2>1. solution = NoSolution
    BY <1>1
  <2> QED
    BY <2>1, ClosedRoutesStumble DEF MissInv
<1> QED
  BY <1>3, <1>4 DEF MissInv

\* A step that ends or keeps open an estimate that has an answer.
LEMMA AnsweredMiss ==
  ASSUME LoopInv, NEW s \in Solutions, Answered(s) PROVE MissInv'
<1>1. solution' # NoSolution /\ verdict' # "error"
  BY NoSolutionAssumption DEF Answered, Tighten
<1> QED
  BY <1>1 DEF MissInv, FirstAttempt, NoAnswerMissed

LEMMA MissStepInv ==
  ASSUME LooseBudgetIsLoose, EngineInv, LoopInv, MissInv, [Next]_vars
  PROVE  MissInv'
<1> USE DEF EngineInv
<1>1. CASE Compose
  BY <1>1, SameRequest DEF Compose, loopVars, engineVars
<1>2. ASSUME NEW m \in PackModelSet, Estimate(m) PROVE MissInv'
  <2>1. verdict = "idle" /\ verdict' = "seeking"
        /\ UNCHANGED <<budget, solution, excluded>>
    BY <1>2 DEF Estimate, Ask
  <2>2. excluded = {} /\ budget = LooseBudget
    BY <2>1 DEF NothingPlanned, LoopInv, NothingYet, MissInv, FirstAttempt
  <2> QED
    BY <2>1, <2>2 DEF MissInv, FirstAttempt, NoAnswerMissed
<1>3. CASE PlanRoute
  BY <1>3, SameRequest DEF PlanRoute, loopVars
<1>4. CASE NoRouteLeft
  BY <1>4, GiveUpMiss DEF NoRouteLeft
<1>5. CASE TooWideAsPlanned
  \* Not on the loose budget.
  <2>1. budget < LooseBudget
    BY <1>5 DEF TooWideAsPlanned
  <2>2. solution # NoSolution
    BY <2>1, BudgetAssumption DEF MissInv, FirstAttempt
  <2> QED
    BY <1>5, <2>2, GiveUpMiss DEF TooWideAsPlanned
<1>6. CASE Sweep
  <2>1. model.kind = "direct"
    BY <1>6 DEF Sweep, StageOK
  <2> QED
    BY <1>6, <2>1, GiveUpMiss, AnsweredMiss DEF Sweep
<1>7. ASSUME NEW l \in route, RunLaw(l) \/ Climb(l) PROVE MissInv'
  <2>1. CASE Stumbles(l) /\ RerouteAround(l)
    BY <2>1, SameRequest DEF RerouteAround, loopVars
  <2>2. CASE Escape
    <3>1. verdict' = "raised"
          /\ UNCHANGED <<budget, solution, request, excluded>>
      BY <2>2 DEF Escape, Raised
    <3> QED
      BY <3>1 DEF MissInv, FirstAttempt, NoAnswerMissed, Stumbles
  <2>3. CASE /\ ran' = ran \cup {l}
             /\ UNCHANGED <<catalogVars, loopVars, request, stage, excluded,
                            route, memo>>
    BY <2>3, SameRequest DEF loopVars
  <2>4. CASE budget < LooseBudget /\ RerouteAround(l)
    <3>1. solution # NoSolution
      BY <2>4, BudgetAssumption DEF MissInv, FirstAttempt
    <3> QED
      BY <2>4, <3>1, SameRequest DEF RerouteAround, loopVars
  <2> QED
    BY <1>7, <2>1, <2>2, <2>3, <2>4 DEF RunLaw, Climb
<1>8. ASSUME NEW s \in Solutions, Deliver(s) PROVE MissInv'
  <2>1. CASE Answered(s)
    BY <2>1, AnsweredMiss
  <2>2. CASE ~ FitsBudget(s, budget) /\ excluded' = excluded \cup {Last}
             /\ UNCHANGED loopVars /\ UNCHANGED request
    \* Not on the loose budget either.
    <3>1. solution # NoSolution
      BY <2>2 DEF MissInv, FirstAttempt, LooseBudgetIsLoose
    <3> QED
      BY <2>2, <3>1, SameRequest DEF loopVars
  <2> QED
    BY <1>8, <2>1, <2>2 DEF Deliver
<1>9. CASE UNCHANGED vars
  BY <1>9, SameRequest DEF vars, loopVars, engineVars
<1> QED
  BY <1>1, <1>2, <1>3, <1>4, <1>5, <1>6, <1>7, <1>8, <1>9 DEF Next, Work

\* An engine error on the first attempt is the request's doing: the model has
\* routes, and each has a law its values leave or that fails on them.
THEOREM NoAnswerIsMissed ==
  ASSUME LooseBudgetIsLoose PROVE Spec => []NoAnswerMissed
<1>1. DischargeInit => MissInv
  BY DEF DischargeInit, LoopInit, MissInv, FirstAttempt, NoAnswerMissed
<1>2. EngineInv /\ LoopInv /\ MissInv /\ [Next]_vars => MissInv'
  BY MissStepInv
<1>3. MissInv => NoAnswerMissed
  BY DEF MissInv
<1> QED
  BY <1>1, <1>2, <1>3, EngineInvariant, LoopInvHere, PTL DEF Spec
=============================================================================
