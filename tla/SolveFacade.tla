---------------------------- MODULE SolveFacade ----------------------------
(***************************************************************************)
(* `solve()` (src/python/feldspar/plan/solve.py) run by several clients    *)
(* that share one registry, one `SolveCache` directory and one machine     *)
(* whose external tools (ccx, gmsh, ngspice) may be installed or removed   *)
(* at any moment.                                                          *)
(*                                                                         *)
(* One call plans over the solvers it has not excluded, looks the planned  *)
(* route up in the cache, executes it step by step, re-checks the realized *)
(* error against the budget and, on a failure, excludes the solver it      *)
(* blames and plans again.  The planner is the constant function `Planned` *)
(* (its search is module PlannerSearch); executing a step is a choice over *)
(* `StepOutcomes` (its corner sweep is module RouteExecution).             *)
(***************************************************************************)
EXTENDS Naturals, Sequences, FiniteSets

CONSTANTS
  Clients,        \* callers of solve(), each with at most one call running
  Requests,       \* [question, budget]: known + tags + target + sense, eps_budget
  Policies,       \* the RoutePolicy values in use: [fallback, cache]
  Solvers,        \* the solver ids of the frozen registry
  Routes,         \* the step sequences the planner can return
  Planned,        \* Planned[r][X]: plan() over the registry without X
  ToolOf,         \* ToolOf[s]: the external tool behind s, or NoTool
  Deterministic,  \* the solvers registered with deterministic=True
  SettingsOf,     \* SettingsOf[s]: SolverInfo.settings_digest
  StepOutcomes,   \* StepOutcomes[r][s]: subset of {"ok", "StepError"}
  Realized,       \* Realized[r][rt]: the total errors executing rt can realize
  Tools,          \* the external tools
  NoTool,         \* ToolOf of a solver with no probe_tools attribute
  NoSolver,       \* failed_solver_id = None
  NoRoute,        \* plan() returned an Err
  NoEntry,        \* no file under the key
  MaxCalls,       \* bound: calls each client makes
  MaxToolChanges  \* bound: installations and removals of tools

Results == {"none", "solution", "PlanError", "NoRouteRemaining",
            "StepError", "ToolMissing", "BudgetExceeded", "IndexError"}
Errors  == {"PlanError", "StepError", "ToolMissing", "BudgetExceeded"}
Attempt == [excluded : SUBSET Solvers, route : Routes \cup {NoRoute},
            failed : Solvers \cup {NoSolver}, error : Errors]

\* route_settings_digest: the settings digests of the steps, in order.
SettingsFold(rt) == [i \in DOMAIN rt |-> SettingsOf[rt[i]]]

\* request_digest: the question AND the budget it is asked with.
DropBudget(r)    == [question |-> r.question, budget |-> 0]
RequestDigest(r) == [question |-> r.question, budget |-> r.budget]

DropSettings(r, rt) == <<RequestDigest(r), <<>>>>
CacheKey(r, rt)     == <<RequestDigest(r), SettingsFold(rt)>>

CacheKeys == {CacheKey(r, rt) : r \in Requests, rt \in Routes}
Entry == [route : Routes, realized : Nat, attempts : Seq(Attempt)]

ASSUME ConstantsAssumption ==
  /\ Requests # {} /\ Policies # {}
  /\ Requests \subseteq [question : STRING, budget : Nat]
  /\ Policies \subseteq [fallback : BOOLEAN, cache : BOOLEAN]
  /\ Routes \subseteq Seq(Solvers)
  /\ Planned \in [Requests -> [SUBSET Solvers -> Routes \cup {NoRoute}]]
  /\ ToolOf \in [Solvers -> Tools \cup {NoTool}]
  /\ Deterministic \subseteq Solvers
  /\ DOMAIN SettingsOf = Solvers
  /\ StepOutcomes \in [Requests -> [Solvers -> SUBSET {"ok", "StepError"}]]
  /\ Realized \in [Requests -> [Routes -> SUBSET Nat]]
  /\ NoSolver \notin Solvers /\ NoRoute \notin Routes /\ NoTool \notin Tools
  /\ MaxCalls \in Nat /\ MaxToolChanges \in Nat

\* _ExcludingRegistryView hides the excluded solvers from the planner.
ASSUME PlannerAvoidsExcluded ==
  \A r \in Requests : \A X \in SUBSET Solvers :
    Planned[r][X] # NoRoute =>
      \A i \in DOMAIN Planned[r][X] : Planned[r][X][i] \notin X

\* The search is complete: once it has found a route over the whole registry,
\* it fails over a smaller one only if each route it returns over another part
\* of the registry uses a solver that is left out.
ASSUME PlannerFindsOpenRoutes ==
  \A r \in Requests : \A X, Y \in SUBSET Solvers :
    Planned[r][{}] # NoRoute /\ Planned[r][X] = NoRoute /\ Planned[r][Y] # NoRoute =>
      \E i \in DOMAIN Planned[r][Y] : Planned[r][Y][i] \in X

ASSUME RegistryIsFinite == IsFiniteSet(Solvers)

ASSUME NoEntryAssumption == NoEntry \notin Entry

VARIABLES
  pc,        \* pc[c]: where client c is in solve()
  req,       \* req[c]: the request of c's current call
  policy,    \* policy[c]: its RoutePolicy
  excluded,  \* excluded[c]: the exclusion set of the reroute loop
  attempts,  \* attempts[c]: the AttemptRecord trail
  route,     \* route[c]: the route being looked up or executed
  pos,       \* pos[c]: the next step of route[c]
  answer,    \* answer[c]: what the last call returned
  calls,     \* calls[c]: calls started (bounded)
  cache,     \* cache[k]: the Solution stored under key k
  tools,     \* the tools installed now
  changes    \* tool changes so far (bounded)

local == <<pc, req, policy, excluded, attempts, route, pos, answer, calls>>
world == <<tools, changes>>
vars  == <<local, cache, world>>

NoAnswer == [kind |-> "none", route |-> NoRoute, realized |-> 0,
             attempts |-> <<>>, hit |-> FALSE]

Init ==
  /\ pc = [c \in Clients |-> "idle"]
  /\ req \in [Clients -> {CHOOSE r \in Requests : TRUE}]
  /\ policy \in [Clients -> {CHOOSE q \in Policies : TRUE}]
  /\ excluded = [c \in Clients |-> {}]
  /\ attempts = [c \in Clients |-> <<>>]
  /\ route = [c \in Clients |-> NoRoute]
  /\ pos = [c \in Clients |-> 1]
  /\ answer = [c \in Clients |-> NoAnswer]
  /\ calls = [c \in Clients |-> 0]
  /\ cache = [k \in CacheKeys |-> NoEntry]
  /\ tools \in SUBSET Tools
  /\ changes = 0

----------------------------------------------------------------------------
(* The parts of one call. *)

\* is_route_cacheable: no deterministic=False step.
Cacheable(rt) == \A i \in DOMAIN rt : rt[i] \in Deterministic

\* The solvers the reroute loop leaves out after blaming s on route rt.
ForgetEarlier(X, rt, s) == {s}
RetrySame(X, rt, s) == X
DropWholeRoute(X, rt, s) == X \cup {rt[i] : i \in DOMAIN rt}
Exclude(X, rt, s) == X \cup {s}

\* The budget re-check: total_error(value, eps) <= eps_budget.
WithinBudget(r, e) == e <= r.budget

Installed(s) == ToolOf[s] \in tools \cup {NoTool}

\* SolveCache.get reads the exclusions of the LAST record of the stored trail.
LastExcluded(trail) == IF trail = <<>> THEN {} ELSE trail[Len(trail)].excluded

\* _tools_still_consistent: every step of the PLANNED route passes its probe,
\* and no excluded tool-backed solver does.
SkipRouteProbe(rt, X) ==
  \A s \in X : ToolOf[s] # NoTool => ToolOf[s] \notin tools
ToolsStillConsistent(rt, X) ==
  /\ \A i \in DOMAIN rt : Installed(rt[i])
  /\ \A s \in X : ToolOf[s] # NoTool => ToolOf[s] \notin tools

\* The entry SolveCache.get returns for c's planned route, if it is a hit.
Hit(c) ==
  LET e == cache[CacheKey(req[c], route[c])] IN
  e # NoEntry /\ ToolsStillConsistent(route[c], LastExcluded(e.attempts))

Record(c, rt, s, err) ==
  Append(attempts[c], [excluded |-> excluded[c], route |-> rt, failed |-> s, error |-> err])

Return(c, a) == /\ answer' = [answer EXCEPT ![c] = a]
                /\ pc' = [pc EXCEPT ![c] = "done"]

Error(kind, trail) == [kind |-> kind, route |-> NoRoute, realized |-> 0,
                       attempts |-> trail, hit |-> FALSE]

\* A step failed or the budget is busted: record the attempt, then return the
\* error (fallback=False) or exclude the blamed solver and go round the loop.
Fail(c, s, err) ==
  /\ attempts' = [attempts EXCEPT ![c] = Record(c, route[c], s, err)]
  /\ IF policy[c].fallback
       THEN /\ excluded' = [excluded EXCEPT ![c] = Exclude(excluded[c], route[c], s)]
            /\ pc' = [pc EXCEPT ![c] = "plan"]
            /\ UNCHANGED answer
       ELSE /\ Return(c, Error(err, <<>>))
            /\ UNCHANGED excluded

----------------------------------------------------------------------------
(* The steps of a call. *)

Call(c, r, q) ==
  /\ pc[c] \in {"idle", "done"}
  /\ calls[c] < MaxCalls
  /\ calls' = [calls EXCEPT ![c] = @ + 1]
  /\ pc' = [pc EXCEPT ![c] = "plan"]
  /\ req' = [req EXCEPT ![c] = r]
  /\ policy' = [policy EXCEPT ![c] = q]
  /\ excluded' = [excluded EXCEPT ![c] = {}]
  /\ attempts' = [attempts EXCEPT ![c] = <<>>]
  /\ route' = [route EXCEPT ![c] = NoRoute]
  /\ pos' = [pos EXCEPT ![c] = 1]
  /\ answer' = [answer EXCEPT ![c] = NoAnswer]
  /\ UNCHANGED <<cache, world>>

PlanRoute(c) ==
  /\ pc[c] = "plan"
  /\ LET rt == Planned[req[c]][excluded[c]] IN
       /\ rt # NoRoute
       /\ route' = [route EXCEPT ![c] = rt]
       /\ pc' = [pc EXCEPT ![c] = IF policy[c].cache /\ Cacheable(rt)
                                    THEN "lookup" ELSE "execute"]
  /\ pos' = [pos EXCEPT ![c] = 1]
  /\ UNCHANGED <<req, policy, excluded, attempts, answer, calls, cache, world>>

RerouteOnPlanError(c) ==
  /\ pc[c] = "plan"
  /\ Planned[req[c]][excluded[c]] = NoRoute
  /\ Fail(c, NoSolver, "PlanError")
  /\ UNCHANGED <<req, policy, route, pos, calls, cache, world>>

\* plan() failed: the plan error itself on the first attempt, otherwise
\* NoRouteRemaining with the whole trail.
SwallowPlanError(c) ==
  /\ pc[c] = "plan"
  /\ Planned[req[c]][excluded[c]] = NoRoute
  /\ UNCHANGED vars
PlanFails(c) ==
  /\ pc[c] = "plan"
  /\ Planned[req[c]][excluded[c]] = NoRoute
  /\ attempts' = [attempts EXCEPT ![c] = Record(c, NoRoute, NoSolver, "PlanError")]
  /\ Return(c, IF excluded[c] = {} THEN Error("PlanError", <<>>)
                                   ELSE Error("NoRouteRemaining", attempts'[c]))
  /\ UNCHANGED <<req, policy, excluded, route, pos, calls, cache, world>>

LookupHit(c) ==
  /\ pc[c] = "lookup"
  /\ Hit(c)
  /\ LET e == cache[CacheKey(req[c], route[c])] IN
       Return(c, [kind |-> "solution", route |-> e.route, realized |-> e.realized,
                  attempts |-> e.attempts, hit |-> TRUE])
  /\ UNCHANGED <<req, policy, excluded, attempts, route, pos, calls, cache, world>>

LookupMiss(c) ==
  /\ pc[c] = "lookup"
  /\ ~ Hit(c)
  /\ pc' = [pc EXCEPT ![c] = "execute"]
  /\ UNCHANGED <<req, policy, excluded, attempts, route, pos, answer, calls, cache, world>>

StepSucceeds(c) ==
  /\ pc[c] = "execute" /\ pos[c] <= Len(route[c])
  /\ Installed(route[c][pos[c]])
  /\ "ok" \in StepOutcomes[req[c]][route[c][pos[c]]]
  /\ pos' = [pos EXCEPT ![c] = @ + 1]
  /\ UNCHANGED <<pc, req, policy, excluded, attempts, route, answer, calls, cache, world>>

StepFails(c) ==
  /\ pc[c] = "execute" /\ pos[c] <= Len(route[c])
  /\ LET s == route[c][pos[c]] IN
       \/ ~ Installed(s) /\ Fail(c, s, "ToolMissing")
       \/ /\ Installed(s)
          /\ "StepError" \in StepOutcomes[req[c]][s]
          /\ Fail(c, s, "StepError")
  /\ UNCHANGED <<req, policy, route, pos, calls, cache, world>>

\* The realized error fits: stamp the trail, store, return.
Succeed(c) ==
  /\ pc[c] = "execute" /\ pos[c] > Len(route[c])
  /\ \E e \in Realized[req[c]][route[c]] :
       /\ WithinBudget(req[c], e)
       /\ Return(c, [kind |-> "solution", route |-> route[c], realized |-> e,
                     attempts |-> attempts[c], hit |-> FALSE])
       /\ cache' = IF policy[c].cache /\ Cacheable(route[c])
                     THEN [cache EXCEPT ![CacheKey(req[c], route[c])] =
                             [route |-> route[c], realized |-> e, attempts |-> attempts[c]]]
                     ELSE cache
  /\ UNCHANGED <<req, policy, excluded, attempts, route, pos, calls, world>>

\* The realized error busts the budget: the last step is blamed, whichever
\* step made the error.  A zero-step route has no last step: with fallback on,
\* `route.steps[-1]` raises IndexError out of solve().
BudgetExceeded(c) ==
  /\ pc[c] = "execute" /\ pos[c] > Len(route[c])
  /\ \E e \in Realized[req[c]][route[c]] : ~ WithinBudget(req[c], e)
  /\ IF route[c] # <<>> THEN Fail(c, route[c][Len(route[c])], "BudgetExceeded")
     ELSE /\ attempts' = [attempts EXCEPT ![c] = Record(c, route[c], NoSolver, "BudgetExceeded")]
          /\ Return(c, Error(IF policy[c].fallback THEN "IndexError" ELSE "BudgetExceeded", <<>>))
          /\ UNCHANGED excluded
  /\ UNCHANGED <<req, policy, route, pos, calls, cache, world>>

\* Somebody installs or removes a tool.
ToolChange(t) ==
  /\ changes < MaxToolChanges
  /\ tools' = IF t \in tools THEN tools \ {t} ELSE tools \cup {t}
  /\ changes' = changes + 1
  /\ UNCHANGED <<local, cache>>

Step(c) ==
  \/ PlanRoute(c) \/ PlanFails(c)
  \/ LookupHit(c) \/ LookupMiss(c)
  \/ StepSucceeds(c) \/ StepFails(c)
  \/ Succeed(c) \/ BudgetExceeded(c)

Next ==
  \/ \E c \in Clients, r \in Requests, q \in Policies : Call(c, r, q)
  \/ \E c \in Clients : Step(c)
  \/ \E t \in Tools : ToolChange(t)

Spec == Init /\ [][Next]_vars

\* A thread inside solve() keeps running; nothing obliges a caller to call.
FairSpec == Spec /\ \A c \in Clients : WF_vars(Step(c))

----------------------------------------------------------------------------
(* Properties. *)

Phases == {"idle", "plan", "lookup", "execute", "done"}
Answer == [kind : Results, route : Routes \cup {NoRoute}, realized : Nat,
           attempts : Seq(Attempt), hit : BOOLEAN]

TypeOK ==
  /\ pc \in [Clients -> Phases]
  /\ req \in [Clients -> Requests]
  /\ policy \in [Clients -> Policies]
  /\ excluded \in [Clients -> SUBSET Solvers]
  /\ attempts \in [Clients -> Seq(Attempt)]
  /\ route \in [Clients -> Routes \cup {NoRoute}]
  /\ pos \in [Clients -> Nat \ {0}]
  /\ answer \in [Clients -> Answer]
  /\ calls \in [Clients -> Nat]
  /\ cache \in [CacheKeys -> Entry \cup {NoEntry}]
  /\ tools \subseteq Tools
  /\ changes \in Nat

Running(c) == pc[c] \in {"plan", "lookup", "execute"}
FailedIn(trail) == {trail[i].failed : i \in DOMAIN trail}
Solved(c) == answer[c].kind = "solution"

\* Each record of a trail names exactly the solvers blamed before it.
TrailOK(trail) ==
  \A i \in DOMAIN trail : trail[i].excluded = {trail[j].failed : j \in 1..(i - 1)}

(* "Every reroute is reconstructable from the return value" (solve.py): in   *)
(* the running call, in the answers and in the cache, the exclusion set of   *)
(* each AttemptRecord is the set of solvers blamed by the records before it, *)
(* and the loop's own exclusion set is the set blamed so far.                *)
TrailReconstructsReroutes ==
  /\ \A c \in Clients :
       /\ TrailOK(attempts[c]) /\ TrailOK(answer[c].attempts)
       /\ Running(c) => excluded[c] = FailedIn(attempts[c])
  /\ \A k \in CacheKeys : cache[k] # NoEntry => TrailOK(cache[k].attempts)

(* A call never blames a solver twice, and blames only steps of the route it *)
(* was executing: the loop visits each solver at most once.                  *)
NoSolverBlamedTwice ==
  \A c \in Clients : \A i \in DOMAIN attempts[c] :
    LET a == attempts[c][i] IN
    a.failed # NoSolver =>
      /\ \E j \in DOMAIN a.route : a.route[j] = a.failed
      /\ \A j \in 1..(i - 1) : attempts[c][j].failed # a.failed

(* Fresh or cached, a Solution answers the question its caller asked, with   *)
(* an error inside the budget that caller gave.                              *)
AnswerWithinBudget ==
  \A c \in Clients : Solved(c) =>
    /\ answer[c].realized <= req[c].budget
    /\ answer[c].realized \in Realized[req[c]][answer[c].route]

(* solve() reports NoRouteRemaining only when each route the planner knows   *)
(* for the request has a step this very call saw fail.                       *)
PossibleRoutes(r) == {Planned[r][X] : X \in SUBSET Solvers} \ {NoRoute}
ExhaustionIsReal ==
  \A c \in Clients : answer[c].kind = "NoRouteRemaining" =>
    \A rt \in PossibleRoutes(req[c]) :
      \E i \in DOMAIN rt : rt[i] \in FailedIn(answer[c].attempts)

(* The settings digests of the registered solvers are all different.         *)
SettingsTellApart ==
  \A s, t \in Solvers : SettingsOf[s] = SettingsOf[t] => s = t

(* When settings digests tell the solvers apart, a hit is the Solution of    *)
(* the very route this call planned.                                         *)
HitMatchesPlannedRoute ==
  \A c \in Clients : answer[c].hit => answer[c].route = route[c]

(* A-5, first half (04-routing, "Solve cache"): a cached success is not      *)
(* returned once a tool its route uses has vanished.                         *)
ServesHit(c) == pc[c] = "lookup" /\ pc'[c] = "done"
HitUsesInstalledTools ==
  [][\A c \in Clients : ServesHit(c) =>
       \A i \in DOMAIN answer'[c].route : Installed(answer'[c].route[i])]_vars

(* Whom execute() may blame on route rt while the tools T are installed: the *)
(* first step that does not pass, or the last one for the whole error.       *)
Passes(r, s, T) == ToolOf[s] \in T \cup {NoTool} /\ "ok" \in StepOutcomes[r][s]
MayFail(r, s, T) == ToolOf[s] \notin T \cup {NoTool} \/ "StepError" \in StepOutcomes[r][s]
PassesWhole(r, rt, T) == \A i \in DOMAIN rt : Passes(r, rt[i], T)
Blamable(r, rt, T) ==
  {rt[i] : i \in {j \in DOMAIN rt : /\ MayFail(r, rt[j], T)
                                   /\ \A k \in 1..(j - 1) : Passes(r, rt[k], T)}}
    \cup {rt[i] : i \in {j \in DOMAIN rt :
                        /\ j = Len(rt) /\ PassesWhole(r, rt, T)
                        /\ \E e \in Realized[r][rt] : ~ WithinBudget(r, e)}}

(* The route the reroute loop stays with, from any exclusion set on.         *)
Rerun(r, q, T) ==
  LET loop[X \in SUBSET Solvers] ==
        LET rt == Planned[r][X] IN
        IF rt = NoRoute THEN NoRoute
        ELSE IF Blamable(r, rt, T) = {} THEN rt
        ELSE IF ~ q.fallback THEN NoRoute
        ELSE loop[X \cup {CHOOSE s \in Blamable(r, rt, T) : TRUE}]
  IN  loop

(* Where nothing is left to chance: a route fails in one way at most, and if *)
(* it may be cached and can fail it does not succeed.                        *)
OneWayToFail ==
  \A r \in Requests, rt \in Routes, T \in SUBSET Tools :
    /\ \A s, t \in Blamable(r, rt, T) : s = t
    /\ Cacheable(rt) /\ Blamable(r, rt, T) # {} =>
         ~ (PassesWhole(r, rt, T) /\ \E e \in Realized[r][rt] : WithinBudget(r, e))

(* FINV-7, "a hit must equal a recompute": with the tools left alone and     *)
(* nothing left to chance, the route of a hit is the one the reroute loop    *)
(* arrives at from scratch under the caller's own policy.                    *)
HitEqualsRecompute ==
  \A c \in Clients : answer[c].hit => answer[c].route = Rerun(req[c], policy[c], tools)[{}]

(* 04-routing: degenerate cases are defined, not errors.                     *)
NeverRaises == \A c \in Clients : answer[c].kind # "IndexError"

(* Every call returns: the reroute loop cannot go round for ever.            *)
CallsReturn == \A c \in Clients : pc[c] = "plan" ~> pc[c] = "done"

============================================================================
