------------------------- MODULE SolveFacadeProofs -------------------------
(***************************************************************************)
(* What solve() and its cache keep true for every registry, request, cache *)
(* key collision and tool change.  Each theorem strengthens its property   *)
(* by what it needs of the calls under way and of the cache: CacheSound    *)
(* (an entry fits each request whose key reaches it), RoutePlanned (the    *)
(* route in hand is the planned one), CacheNamed (an entry's route has the *)
(* settings its key names), RerunInv (calls and entries are where the loop *)
(* from scratch comes through).                                            *)
(***************************************************************************)
EXTENDS SolveFacade, FiniteSetTheorems, WellFoundedInduction, TLAPS

RouteInHand == \A c \in Clients : pc[c] \in {"lookup", "execute"} => route[c] \in Routes

CacheSound ==
  \A r \in Requests, rt \in Routes :
    LET e == cache[CacheKey(r, rt)] IN
    e # NoEntry => e.realized <= r.budget /\ e.realized \in Realized[r][e.route]

TypeInv == TypeOK /\ RouteInHand
IInv == TypeInv /\ CacheSound /\ AnswerWithinBudget

(* Requests with one digest are one request: the budget is part of the key.  *)
LEMMA DigestInjective ==
  ASSUME NEW r \in Requests, NEW q \in Requests, RequestDigest(r) = RequestDigest(q)
  PROVE  r = q
  <1>1. r \in [question : STRING, budget : Nat] /\ q \in [question : STRING, budget : Nat]
    BY ConstantsAssumption
  <1>2. r.question = q.question /\ r.budget = q.budget
    BY DEF RequestDigest
  <1>3. QED BY <1>1, <1>2

(* The key of a planned route names its request.                             *)
LEMMA KeyNamesRequest ==
  ASSUME NEW r \in Requests, NEW q \in Requests, NEW rt \in Routes, NEW ru \in Routes,
         CacheKey(r, rt) = CacheKey(q, ru)
  PROVE  r = q
  BY DigestInjective DEF CacheKey

(* Recording a failure keeps the trail a sequence of records, and blaming a  *)
(* solver of the registry keeps the exclusion set inside the registry.       *)
LEMMA FailType ==
  ASSUME TypeOK, NEW c \in Clients, NEW s \in Solvers, NEW err \in Errors,
         route[c] \in Routes, Fail(c, s, err)
  PROVE  /\ attempts' \in [Clients -> Seq(Attempt)]
         /\ excluded' \in [Clients -> SUBSET Solvers]
         /\ pc' \in [Clients -> Phases]
         /\ answer' \in [Clients -> Answer]
         /\ pc'[c] \in {"plan", "done"}
         /\ \A d \in Clients \ {c} : pc'[d] = pc[d] /\ answer'[d] = answer[d]
         /\ answer'[c] = answer[c] \/ answer'[c].kind # "solution"
  <1>1. [excluded |-> excluded[c], route |-> route[c], failed |-> s, error |-> err] \in Attempt
    BY DEF TypeOK, Attempt
  <1>2. Record(c, route[c], s, err) \in Seq(Attempt)
    BY <1>1 DEF TypeOK, Record
  <1>3. attempts' \in [Clients -> Seq(Attempt)]
    BY <1>2 DEF Fail, TypeOK
  <1>4. Exclude(excluded[c], route[c], s) \in SUBSET Solvers
    BY DEF TypeOK, Exclude
  <1>5. Error(err, <<>>) \in Answer /\ Error(err, <<>>).kind # "solution"
    BY DEF Error, Answer, Errors, Results
  <1>6. CASE policy[c].fallback
    <2>1. /\ excluded' = [excluded EXCEPT ![c] = Exclude(excluded[c], route[c], s)]
          /\ pc' = [pc EXCEPT ![c] = "plan"]
          /\ answer' = answer
      BY <1>6 DEF Fail
    <2>2. QED BY <1>3, <1>4, <2>1 DEF TypeOK, Phases
  <1>7. CASE ~ policy[c].fallback
    <2>1. /\ excluded' = excluded
          /\ pc' = [pc EXCEPT ![c] = "done"]
          /\ answer' = [answer EXCEPT ![c] = Error(err, <<>>)]
      BY <1>7 DEF Fail, Return
    <2>2. QED BY <1>3, <1>5, <2>1 DEF TypeOK, Phases
  <1>8. QED BY <1>6, <1>7

(* Every step of every call, and every tool change, keeps the types.         *)
LEMMA TypeStep == TypeInv /\ [Next]_vars => TypeInv'
  <1> SUFFICES ASSUME TypeInv, [Next]_vars PROVE TypeInv'
    OBVIOUS
  <1> USE ConstantsAssumption DEF TypeInv
  <1>1. ASSUME NEW c \in Clients, NEW r \in Requests, NEW q \in Policies, Call(c, r, q)
        PROVE  TypeInv'
    <2>1. NoAnswer \in Answer /\ <<>> \in Seq(Attempt)
      BY DEF NoAnswer, Answer, Results
    <2>2. QED BY <1>1, <2>1 DEF TypeOK, RouteInHand, Call, Phases, world
  <1>2. ASSUME NEW c \in Clients, PlanRoute(c) PROVE TypeInv'
    <2>1. Planned[req[c]][excluded[c]] \in Routes \cup {NoRoute}
      BY DEF TypeOK
    <2>2. QED BY <1>2, <2>1 DEF TypeOK, RouteInHand, PlanRoute, Phases, world
  <1>3. ASSUME NEW c \in Clients, PlanFails(c) PROVE TypeInv'
    <2>1. Record(c, NoRoute, NoSolver, "PlanError") \in Seq(Attempt)
      <3>1. [excluded |-> excluded[c], route |-> NoRoute, failed |-> NoSolver, error |-> "PlanError"]
              \in Attempt
        BY DEF TypeOK, Attempt, Errors
      <3>2. QED BY <3>1 DEF TypeOK, Record
    <2>2. attempts' \in [Clients -> Seq(Attempt)]
      BY <1>3, <2>1 DEF PlanFails, TypeOK
    <2>3. Error("PlanError", <<>>) \in Answer /\ Error("NoRouteRemaining", attempts'[c]) \in Answer
      BY <2>2 DEF Error, Answer, Results
    <2>4. QED BY <1>3, <2>2, <2>3 DEF TypeOK, RouteInHand, PlanFails, Return, Phases, world
  <1>4. ASSUME NEW c \in Clients, LookupHit(c) PROVE TypeInv'
    <2> DEFINE e == cache[CacheKey(req[c], route[c])]
               a == [kind |-> "solution", route |-> e.route, realized |-> e.realized,
                     attempts |-> e.attempts, hit |-> TRUE]
    <2>1. e \in Entry
      BY <1>4 DEF LookupHit, Hit, TypeOK, RouteInHand, CacheKeys
    <2>2. a \in Answer
      BY <2>1 DEF Entry, Answer, Results
    <2>3. QED BY <1>4, <2>2 DEF TypeOK, RouteInHand, LookupHit, Return, Phases, world
  <1>5. ASSUME NEW c \in Clients, LookupMiss(c) PROVE TypeInv'
    BY <1>5 DEF TypeOK, RouteInHand, LookupMiss, Phases, world
  <1>6. ASSUME NEW c \in Clients, StepSucceeds(c) PROVE TypeInv'
    BY <1>6 DEF TypeOK, RouteInHand, StepSucceeds, world
  <1>7. ASSUME NEW c \in Clients, StepFails(c) PROVE TypeInv'
    <2>1. route[c] \in Routes /\ route[c][pos[c]] \in Solvers
      BY <1>7 DEF StepFails, TypeOK, RouteInHand
    <2>2. PICK err \in Errors : Fail(c, route[c][pos[c]], err)
      BY <1>7 DEF StepFails, Errors
    <2>3. QED BY <1>7, <2>1, <2>2, FailType DEF TypeOK, RouteInHand, StepFails, world
  <1>8. ASSUME NEW c \in Clients, Succeed(c) PROVE TypeInv'
    <2>1. PICK x \in Realized[req[c]][route[c]] :
            /\ Return(c, [kind |-> "solution", route |-> route[c], realized |-> x,
                          attempts |-> attempts[c], hit |-> FALSE])
            /\ cache' = IF policy[c].cache /\ Cacheable(route[c])
                          THEN [cache EXCEPT ![CacheKey(req[c], route[c])] =
                                  [route |-> route[c], realized |-> x, attempts |-> attempts[c]]]
                          ELSE cache
      BY <1>8 DEF Succeed
    <2>2. route[c] \in Routes /\ x \in Nat /\ attempts[c] \in Seq(Attempt)
      BY <1>8, <2>1 DEF Succeed, TypeOK, RouteInHand
    <2>3. [kind |-> "solution", route |-> route[c], realized |-> x,
           attempts |-> attempts[c], hit |-> FALSE] \in Answer
      BY <2>2 DEF Answer, Results
    <2>4. [route |-> route[c], realized |-> x, attempts |-> attempts[c]] \in Entry
      BY <2>2 DEF Entry
    <2>5. cache' \in [CacheKeys -> Entry \cup {NoEntry}]
      BY <2>1, <2>4 DEF TypeOK
    <2>6. QED BY <1>8, <2>1, <2>3, <2>5 DEF TypeOK, RouteInHand, Succeed, Return, Phases, world
  <1>9. ASSUME NEW c \in Clients, BudgetExceeded(c) PROVE TypeInv'
    <2>1. route[c] \in Routes /\ route[c] \in Seq(Solvers)
      BY <1>9 DEF BudgetExceeded, TypeOK, RouteInHand
    <2>2. CASE route[c] # <<>>
      <3>1. route[c][Len(route[c])] \in Solvers
        BY <2>1, <2>2
      <3>2. Fail(c, route[c][Len(route[c])], "BudgetExceeded") /\ "BudgetExceeded" \in Errors
        BY <1>9, <2>2 DEF BudgetExceeded, Errors
      <3>3. QED BY <1>9, <2>1, <3>1, <3>2, FailType DEF TypeOK, RouteInHand, BudgetExceeded, world
    <2>3. CASE route[c] = <<>>
      <3>1. Record(c, route[c], NoSolver, "BudgetExceeded") \in Seq(Attempt)
        <4>1. [excluded |-> excluded[c], route |-> route[c], failed |-> NoSolver,
               error |-> "BudgetExceeded"] \in Attempt
          BY <2>1 DEF TypeOK, Attempt, Errors
        <4>2. QED BY <4>1 DEF TypeOK, Record
      <3>2. Error(IF policy[c].fallback THEN "IndexError" ELSE "BudgetExceeded", <<>>) \in Answer
        BY DEF Error, Answer, Results
      <3>3. /\ attempts' = [attempts EXCEPT ![c] = Record(c, route[c], NoSolver, "BudgetExceeded")]
            /\ Return(c, Error(IF policy[c].fallback THEN "IndexError" ELSE "BudgetExceeded", <<>>))
            /\ UNCHANGED <<excluded, req, policy, route, pos, calls, cache, world>>
        BY <1>9, <2>3 DEF BudgetExceeded
      <3>4. answer' \in [Clients -> Answer] /\ pc' \in [Clients -> Phases]
        BY <3>2, <3>3 DEF TypeOK, Return, Phases
      <3>5. attempts' \in [Clients -> Seq(Attempt)]
        BY <3>1, <3>3 DEF TypeOK
      <3>6. RouteInHand'
        BY <3>3 DEF TypeOK, RouteInHand, Return
      <3>7. QED BY <3>3, <3>4, <3>5, <3>6 DEF TypeOK, world
    <2>4. QED BY <2>2, <2>3
  <1>10. ASSUME NEW t \in Tools, ToolChange(t) PROVE TypeInv'
    BY <1>10 DEF TypeOK, RouteInHand, ToolChange, local
  <1>11. CASE UNCHANGED vars
    BY <1>11 DEF TypeOK, RouteInHand, vars, local, world
  <1>12. QED
    BY <1>1, <1>2, <1>3, <1>4, <1>5, <1>6, <1>7, <1>8, <1>9, <1>10, <1>11 DEF Next, Step

(* Before the first call nothing is running and nothing is stored.           *)
LEMMA InitTypeInv == Init => TypeInv
  <1> SUFFICES ASSUME Init PROVE TypeInv
    OBVIOUS
  <1>1. NoAnswer \in Answer /\ <<>> \in Seq(Attempt)
    BY DEF NoAnswer, Answer, Results
  <1>2. QED BY <1>1, ConstantsAssumption DEF Init, TypeInv, TypeOK, RouteInHand, Phases

(* The variables of solve() keep their types through every call, cache hit   *)
(* and tool change.                                                          *)
THEOREM TypeCorrect == Spec => []TypeOK
  <1>1. TypeInv => TypeOK
    BY DEF TypeInv
  <1>2. QED BY <1>1, InitTypeInv, TypeStep, PTL DEF Spec

----------------------------------------------------------------------------
(* Answers and entries stay inside the budget. *)

Fits(r, x) == x.realized <= r.budget /\ x.realized \in Realized[r][x.route]

(* A step that changes at most one client's answer, to one that fits.        *)
LEMMA OneAnswer ==
  ASSUME TypeOK, AnswerWithinBudget, NEW c \in Clients, req' = req,
         \A d \in Clients \ {c} : answer'[d] = answer[d],
         answer'[c].kind = "solution" => Fits(req[c], answer'[c])
  PROVE  AnswerWithinBudget'
  BY DEF AnswerWithinBudget, Solved, Fits

(* Blaming a solver hands out no Solution.                                   *)
LEMMA FailFits ==
  ASSUME TypeOK, AnswerWithinBudget, NEW c \in Clients, NEW s \in Solvers,
         NEW err \in Errors, route[c] \in Routes, Fail(c, s, err), req' = req
  PROVE  AnswerWithinBudget'
  <1>1. /\ \A d \in Clients \ {c} : answer'[d] = answer[d]
        /\ answer'[c] = answer[c] \/ answer'[c].kind # "solution"
    BY FailType
  <1>2. answer'[c].kind = "solution" => Fits(req[c], answer'[c])
    BY <1>1 DEF AnswerWithinBudget, Solved, Fits
  <1>3. QED BY <1>1, <1>2, OneAnswer

(* No step lets an answer or an entry outside its budget in.                 *)
LEMMA BudgetStep == IInv /\ [Next]_vars => CacheSound' /\ AnswerWithinBudget'
  <1> SUFFICES ASSUME IInv, [Next]_vars PROVE CacheSound' /\ AnswerWithinBudget'
    OBVIOUS
  <1> USE ConstantsAssumption DEF IInv, TypeInv
  <1>1. ASSUME NEW c \in Clients, NEW r \in Requests, NEW q \in Policies, Call(c, r, q)
        PROVE  CacheSound' /\ AnswerWithinBudget'
    <2>1. answer'[c].kind = "none" /\ \A d \in Clients \ {c} : answer'[d] = answer[d] /\ req'[d] = req[d]
      BY <1>1 DEF Call, NoAnswer, TypeOK
    <2>2. QED BY <1>1, <2>1 DEF Call, CacheSound, AnswerWithinBudget, Solved
  <1>2. ASSUME NEW c \in Clients, PlanRoute(c) PROVE CacheSound' /\ AnswerWithinBudget'
    BY <1>2 DEF PlanRoute, CacheSound, AnswerWithinBudget, Solved
  <1>3. ASSUME NEW c \in Clients, PlanFails(c) PROVE CacheSound' /\ AnswerWithinBudget'
    <2>1. answer'[c].kind # "solution" /\ \A d \in Clients \ {c} : answer'[d] = answer[d]
      BY <1>3 DEF PlanFails, Return, Error, TypeOK
    <2>2. req' = req /\ cache' = cache
      BY <1>3 DEF PlanFails
    <2>3. QED BY <2>1, <2>2, OneAnswer DEF CacheSound
  <1>4. ASSUME NEW c \in Clients, LookupHit(c) PROVE CacheSound' /\ AnswerWithinBudget'
    <2> DEFINE e == cache[CacheKey(req[c], route[c])]
    <2>1. req' = req /\ cache' = cache
      BY <1>4 DEF LookupHit
    <2>2. req[c] \in Requests /\ route[c] \in Routes /\ e # NoEntry
      BY <1>4 DEF LookupHit, Hit, TypeOK, RouteInHand
    <2>3. Fits(req[c], e)
      BY <2>2 DEF CacheSound, Fits
    <2>4. answer' = [answer EXCEPT ![c] =
                       [kind |-> "solution", route |-> e.route, realized |-> e.realized,
                        attempts |-> e.attempts, hit |-> TRUE]]
      BY <1>4 DEF LookupHit, Return
    <2>5. /\ Fits(req[c], answer'[c])
          /\ \A d \in Clients \ {c} : answer'[d] = answer[d]
      BY <2>3, <2>4 DEF TypeOK, Fits
    <2>6. QED BY <2>1, <2>5, OneAnswer DEF CacheSound
  <1>5. ASSUME NEW c \in Clients, LookupMiss(c) PROVE CacheSound' /\ AnswerWithinBudget'
    BY <1>5 DEF LookupMiss, CacheSound, AnswerWithinBudget, Solved
  <1>6. ASSUME NEW c \in Clients, StepSucceeds(c) PROVE CacheSound' /\ AnswerWithinBudget'
    BY <1>6 DEF StepSucceeds, CacheSound, AnswerWithinBudget, Solved
  <1>7. ASSUME NEW c \in Clients, StepFails(c) PROVE CacheSound' /\ AnswerWithinBudget'
    <2>1. route[c] \in Routes /\ route[c][pos[c]] \in Solvers
      BY <1>7 DEF StepFails, TypeOK, RouteInHand
    <2>2. PICK err \in Errors : Fail(c, route[c][pos[c]], err)
      BY <1>7 DEF StepFails, Errors
    <2>3. req' = req /\ cache' = cache
      BY <1>7 DEF StepFails
    <2>4. QED BY <2>1, <2>2, <2>3, FailFits DEF CacheSound
  <1>8. ASSUME NEW c \in Clients, Succeed(c) PROVE CacheSound' /\ AnswerWithinBudget'
    <2>1. PICK x \in Realized[req[c]][route[c]] :
            /\ WithinBudget(req[c], x)
            /\ Return(c, [kind |-> "solution", route |-> route[c], realized |-> x,
                          attempts |-> attempts[c], hit |-> FALSE])
            /\ cache' = IF policy[c].cache /\ Cacheable(route[c])
                          THEN [cache EXCEPT ![CacheKey(req[c], route[c])] =
                                  [route |-> route[c], realized |-> x, attempts |-> attempts[c]]]
                          ELSE cache
      BY <1>8 DEF Succeed
    <2> DEFINE e == [route |-> route[c], realized |-> x, attempts |-> attempts[c]]
               k == CacheKey(req[c], route[c])
    <2>2. req' = req /\ req[c] \in Requests /\ route[c] \in Routes
      BY <1>8 DEF Succeed, TypeOK, RouteInHand
    <2>3. Fits(req[c], e)
      BY <2>1 DEF WithinBudget, Fits
    <2>4. /\ Fits(req[c], answer'[c])
          /\ \A d \in Clients \ {c} : answer'[d] = answer[d]
      BY <2>1, <2>3 DEF Return, TypeOK, Fits
    <2>5. AnswerWithinBudget'
      BY <2>2, <2>4, OneAnswer
    <2>6. ASSUME NEW r \in Requests, NEW rt \in Routes, cache'[CacheKey(r, rt)] # NoEntry
          PROVE  Fits(r, cache'[CacheKey(r, rt)])
      <3>1. CASE cache'[CacheKey(r, rt)] = cache[CacheKey(r, rt)]
        BY <2>6, <3>1 DEF CacheSound, Fits
      <3>2. CASE cache'[CacheKey(r, rt)] # cache[CacheKey(r, rt)]
        <4>1. CacheKey(r, rt) \in CacheKeys
          BY DEF CacheKeys
        <4>2. CacheKey(r, rt) = k /\ cache'[CacheKey(r, rt)] = e
          BY <2>1, <3>2, <4>1 DEF TypeOK
        <4>3. r = req[c]
          BY <2>2, <4>2, KeyNamesRequest
        <4>4. QED BY <2>3, <4>2, <4>3
      <3>3. QED BY <3>1, <3>2
    <2>7. CacheSound'
      BY <2>6 DEF CacheSound, Fits
    <2>8. QED BY <2>5, <2>7
  <1>9. ASSUME NEW c \in Clients, BudgetExceeded(c) PROVE CacheSound' /\ AnswerWithinBudget'
    <2>1. route[c] \in Routes /\ route[c] \in Seq(Solvers)
      BY <1>9 DEF BudgetExceeded, TypeOK, RouteInHand
    <2>2. req' = req /\ cache' = cache
      BY <1>9 DEF BudgetExceeded
    <2>3. CASE route[c] # <<>>
      <3>1. route[c][Len(route[c])] \in Solvers
        BY <2>1, <2>3
      <3>2. Fail(c, route[c][Len(route[c])], "BudgetExceeded") /\ "BudgetExceeded" \in Errors
        BY <1>9, <2>3 DEF BudgetExceeded, Errors
      <3>3. QED BY <2>1, <2>2, <3>1, <3>2, FailFits DEF CacheSound
    <2>4. CASE route[c] = <<>>
      <3>1. answer' = [answer EXCEPT ![c] =
                         Error(IF policy[c].fallback THEN "IndexError" ELSE "BudgetExceeded", <<>>)]
        BY <1>9, <2>4 DEF BudgetExceeded, Return
      <3>2. answer'[c].kind # "solution" /\ \A d \in Clients \ {c} : answer'[d] = answer[d]
        BY <3>1 DEF Error, TypeOK
      <3>3. QED BY <2>2, <3>2, OneAnswer DEF CacheSound
    <2>5. QED BY <2>3, <2>4
  <1>10. ASSUME NEW t \in Tools, ToolChange(t) PROVE CacheSound' /\ AnswerWithinBudget'
    BY <1>10 DEF ToolChange, local, CacheSound, AnswerWithinBudget, Solved
  <1>11. CASE UNCHANGED vars
    BY <1>11 DEF vars, local, CacheSound, AnswerWithinBudget, Solved
  <1>12. QED
    BY <1>1, <1>2, <1>3, <1>4, <1>5, <1>6, <1>7, <1>8, <1>9, <1>10, <1>11 DEF Next, Step

(* A Solution, fresh or from the cache, never exceeds the budget of the call *)
(* it answers: the budget is part of the request digest, so no key of        *)
(* another budget reaches the entry.                                         *)
THEOREM BudgetKept == Spec => []AnswerWithinBudget
  <1>1. Init => IInv
    <2> SUFFICES ASSUME Init PROVE IInv
      OBVIOUS
    <2>1. TypeInv
      BY InitTypeInv
    <2>2. CacheSound
      BY DEF Init, CacheSound, CacheKeys
    <2>3. AnswerWithinBudget
      BY DEF Init, AnswerWithinBudget, Solved, NoAnswer
    <2>4. QED BY <2>1, <2>2, <2>3 DEF IInv
  <1>2. IInv /\ [Next]_vars => IInv'
    BY TypeStep, BudgetStep DEF IInv
  <1>3. IInv => AnswerWithinBudget
    BY DEF IInv
  <1>4. QED BY <1>1, <1>2, <1>3, PTL DEF Spec

----------------------------------------------------------------------------
(* The attempt trail reconstructs the reroutes. *)

(* Recording the next failure on a trail that is in order, with the solvers  *)
(* blamed so far as its exclusions, leaves the trail in order.               *)
LEMMA AppendTrail ==
  ASSUME NEW trail \in Seq(Attempt), NEW rec \in Attempt, TrailOK(trail),
         rec.excluded = FailedIn(trail)
  PROVE  /\ TrailOK(Append(trail, rec))
         /\ FailedIn(Append(trail, rec)) = FailedIn(trail) \cup {rec.failed}
  <1> DEFINE n == Len(trail)
             t == Append(trail, rec)
  <1>1. /\ n \in Nat /\ DOMAIN trail = 1..n /\ DOMAIN t = 1..(n + 1)
        /\ t[n + 1] = rec /\ \A i \in 1..n : t[i] = trail[i]
    OBVIOUS
  <1>2. FailedIn(t) = FailedIn(trail) \cup {rec.failed}
    BY <1>1 DEF FailedIn
  <1>3. ASSUME NEW i \in DOMAIN t
        PROVE  t[i].excluded = {t[j].failed : j \in 1..(i - 1)}
    <2>1. CASE i = n + 1
      <3>1. {t[j].failed : j \in 1..(i - 1)} = {trail[j].failed : j \in 1..n}
        BY <1>1, <2>1
      <3>2. QED BY <1>1, <2>1, <3>1 DEF FailedIn
    <2>2. CASE i \in 1..n
      <3>1. {t[j].failed : j \in 1..(i - 1)} = {trail[j].failed : j \in 1..(i - 1)}
        BY <1>1, <2>2
      <3>2. QED BY <1>1, <2>2, <3>1 DEF TrailOK
    <2>3. QED BY <1>1, <1>3, <2>1, <2>2
  <1>4. QED BY <1>2, <1>3 DEF TrailOK

(* What a client's step has to keep for the trails to stay in order.         *)
ClientTrail(c) ==
  /\ TrailOK(attempts[c]) /\ TrailOK(answer[c].attempts)
  /\ Running(c) => excluded[c] = FailedIn(attempts[c])

(* A step of client c leaves the trails of the other clients alone.          *)
LEMMA OneTrail ==
  ASSUME TypeOK, TrailReconstructsReroutes, NEW c \in Clients,
         \A d \in Clients \ {c} : /\ attempts'[d] = attempts[d] /\ answer'[d] = answer[d]
                                   /\ excluded'[d] = excluded[d] /\ pc'[d] = pc[d],
         ClientTrail(c)',
         \A k \in CacheKeys : cache'[k] # NoEntry =>
            cache'[k] = cache[k] \/ TrailOK(cache'[k].attempts)
  PROVE  TrailReconstructsReroutes'
  BY DEF TrailReconstructsReroutes, ClientTrail, Running

(* Blaming a solver extends the trail by a record of the exclusions so far.  *)
LEMMA FailTrail ==
  ASSUME TypeOK, TrailReconstructsReroutes, NEW c \in Clients, NEW s \in Solvers,
         NEW err \in Errors, pc[c] = "execute", route[c] \in Routes, Fail(c, s, err)
  PROVE  ClientTrail(c)'
  <1> DEFINE rec == [excluded |-> excluded[c], route |-> route[c], failed |-> s, error |-> err]
  <1>1. rec \in Attempt /\ attempts[c] \in Seq(Attempt)
    BY DEF TypeOK, Attempt
  <1>2. TrailOK(attempts[c]) /\ excluded[c] = FailedIn(attempts[c])
    BY DEF TrailReconstructsReroutes, Running
  <1>3. attempts'[c] = Append(attempts[c], rec)
    BY DEF Fail, Record, TypeOK
  <1>4. /\ TrailOK(attempts'[c])
        /\ FailedIn(attempts'[c]) = excluded[c] \cup {s}
    BY <1>1, <1>2, <1>3, AppendTrail
  <1>5. CASE policy[c].fallback
    <2>1. excluded'[c] = excluded[c] \cup {s} /\ answer' = answer
      BY <1>5 DEF Fail, Exclude, TypeOK
    <2>2. TrailOK(answer'[c].attempts)
      BY <2>1 DEF TrailReconstructsReroutes
    <2>3. QED BY <1>4, <2>1, <2>2 DEF ClientTrail
  <1>6. CASE ~ policy[c].fallback
    <2>1. pc'[c] = "done" /\ answer'[c].attempts = <<>>
      BY <1>6 DEF Fail, Return, Error, TypeOK
    <2>2. QED BY <1>4, <2>1 DEF ClientTrail, Running, TrailOK
  <1>7. QED BY <1>5, <1>6

(* The other clients of a failing step.                                      *)
LEMMA FailOthers ==
  ASSUME TypeOK, NEW c \in Clients, NEW s \in Solvers, NEW err \in Errors, Fail(c, s, err),
         NEW d \in Clients \ {c}
  PROVE  /\ attempts'[d] = attempts[d] /\ answer'[d] = answer[d]
         /\ excluded'[d] = excluded[d] /\ pc'[d] = pc[d]
  BY DEF TypeOK, Fail, Return

(* Every step keeps every trail in order.                                    *)
LEMMA TrailStep ==
  TypeInv /\ TrailReconstructsReroutes /\ [Next]_vars => TrailReconstructsReroutes'
  <1> SUFFICES ASSUME TypeInv, TrailReconstructsReroutes, [Next]_vars
               PROVE  TrailReconstructsReroutes'
    OBVIOUS
  <1> USE ConstantsAssumption DEF TypeInv
  <1>1. ASSUME NEW c \in Clients, NEW r \in Requests, NEW q \in Policies, Call(c, r, q)
        PROVE  TrailReconstructsReroutes'
    <2>1. attempts'[c] = <<>> /\ answer'[c] = NoAnswer /\ excluded'[c] = {}
      BY <1>1 DEF Call, TypeOK
    <2>2. ClientTrail(c)'
      BY <2>1 DEF ClientTrail, TrailOK, FailedIn, NoAnswer
    <2>3. QED BY <1>1, <2>2, OneTrail DEF Call, TypeOK
  <1>2. ASSUME NEW c \in Clients, PlanRoute(c) PROVE TrailReconstructsReroutes'
    <2>1. ClientTrail(c)'
      BY <1>2 DEF PlanRoute, ClientTrail, TrailReconstructsReroutes, Running
    <2>2. QED BY <1>2, <2>1, OneTrail DEF PlanRoute, TypeOK
  <1>3. ASSUME NEW c \in Clients, PlanFails(c) PROVE TrailReconstructsReroutes'
    <2> DEFINE rec == [excluded |-> excluded[c], route |-> NoRoute, failed |-> NoSolver,
                       error |-> "PlanError"]
    <2>1. rec \in Attempt /\ attempts[c] \in Seq(Attempt)
      BY DEF TypeOK, Attempt, Errors
    <2>2. attempts'[c] = Append(attempts[c], rec)
      BY <1>3 DEF PlanFails, Record, TypeOK
    <2>3. TrailOK(attempts[c]) /\ excluded[c] = FailedIn(attempts[c])
      BY <1>3 DEF PlanFails, TrailReconstructsReroutes, Running
    <2>4. TrailOK(attempts'[c])
      BY <2>1, <2>2, <2>3, AppendTrail
    <2>5. pc'[c] = "done" /\ answer'[c].attempts \in {<<>>, attempts'[c]}
      BY <1>3 DEF PlanFails, Return, Error, TypeOK
    <2>6. TrailOK(<<>>)
      BY DEF TrailOK
    <2>7. TrailOK(answer'[c].attempts)
      BY <2>4, <2>5, <2>6
    <2>8. ClientTrail(c)'
      BY <2>4, <2>5, <2>7 DEF ClientTrail, Running
    <2>9. QED BY <1>3, <2>8, OneTrail DEF PlanFails, Return, TypeOK
  <1>4. ASSUME NEW c \in Clients, LookupHit(c) PROVE TrailReconstructsReroutes'
    <2>1. CacheKey(req[c], route[c]) \in CacheKeys
      BY <1>4 DEF LookupHit, TypeOK, RouteInHand, CacheKeys
    <2>2. /\ answer'[c].attempts = cache[CacheKey(req[c], route[c])].attempts
          /\ pc'[c] = "done" /\ attempts' = attempts
      BY <1>4 DEF LookupHit, Return, TypeOK
    <2>3. ClientTrail(c)'
      BY <1>4, <2>1, <2>2 DEF LookupHit, Hit, ClientTrail, TrailReconstructsReroutes, Running
    <2>4. QED BY <1>4, <2>3, OneTrail DEF LookupHit, Return, TypeOK
  <1>5. ASSUME NEW c \in Clients, LookupMiss(c) PROVE TrailReconstructsReroutes'
    <2>1. ClientTrail(c)'
      BY <1>5 DEF LookupMiss, ClientTrail, TrailReconstructsReroutes, Running
    <2>2. QED BY <1>5, <2>1, OneTrail DEF LookupMiss, TypeOK
  <1>6. ASSUME NEW c \in Clients, StepSucceeds(c) PROVE TrailReconstructsReroutes'
    BY <1>6 DEF StepSucceeds, TrailReconstructsReroutes, Running
  <1>7. ASSUME NEW c \in Clients, StepFails(c) PROVE TrailReconstructsReroutes'
    <2>1. route[c] \in Routes /\ route[c][pos[c]] \in Solvers /\ pc[c] = "execute"
      BY <1>7 DEF StepFails, TypeOK, RouteInHand
    <2>2. PICK err \in Errors : Fail(c, route[c][pos[c]], err)
      BY <1>7 DEF StepFails, Errors
    <2>3. cache' = cache
      BY <1>7 DEF StepFails
    <2>4. QED BY <2>1, <2>2, <2>3, FailTrail, FailOthers, OneTrail
  <1>8. ASSUME NEW c \in Clients, Succeed(c) PROVE TrailReconstructsReroutes'
    <2>1. PICK x \in Realized[req[c]][route[c]] :
            /\ Return(c, [kind |-> "solution", route |-> route[c], realized |-> x,
                          attempts |-> attempts[c], hit |-> FALSE])
            /\ cache' = IF policy[c].cache /\ Cacheable(route[c])
                          THEN [cache EXCEPT ![CacheKey(req[c], route[c])] =
                                  [route |-> route[c], realized |-> x, attempts |-> attempts[c]]]
                          ELSE cache
      BY <1>8 DEF Succeed
    <2>2. TrailOK(attempts[c]) /\ attempts' = attempts /\ excluded' = excluded
      BY <1>8 DEF Succeed, TrailReconstructsReroutes
    <2>3. pc'[c] = "done" /\ answer'[c].attempts = attempts[c]
      BY <2>1 DEF Return, TypeOK
    <2>4. ClientTrail(c)'
      BY <2>2, <2>3 DEF ClientTrail, Running
    <2>5. \A k \in CacheKeys : cache'[k] = cache[k] \/ cache'[k].attempts = attempts[c]
      BY <2>1 DEF TypeOK
    <2>6. \A d \in Clients \ {c} : answer'[d] = answer[d] /\ pc'[d] = pc[d]
      BY <2>1 DEF Return, TypeOK
    <2>7. QED BY <2>2, <2>4, <2>5, <2>6, OneTrail
  <1>9. ASSUME NEW c \in Clients, BudgetExceeded(c) PROVE TrailReconstructsReroutes'
    <2>1. route[c] \in Routes /\ route[c] \in Seq(Solvers) /\ pc[c] = "execute"
      BY <1>9 DEF BudgetExceeded, TypeOK, RouteInHand
    <2>2. cache' = cache
      BY <1>9 DEF BudgetExceeded
    <2>3. CASE route[c] # <<>>
      <3>1. route[c][Len(route[c])] \in Solvers
        BY <2>1, <2>3
      <3>2. Fail(c, route[c][Len(route[c])], "BudgetExceeded") /\ "BudgetExceeded" \in Errors
        BY <1>9, <2>3 DEF BudgetExceeded, Errors
      <3>3. QED BY <2>1, <2>2, <3>1, <3>2, FailTrail, FailOthers, OneTrail
    <2>4. CASE route[c] = <<>>
      <3> DEFINE rec == [excluded |-> excluded[c], route |-> route[c], failed |-> NoSolver,
                         error |-> "BudgetExceeded"]
      <3>1. rec \in Attempt /\ attempts[c] \in Seq(Attempt)
        BY <2>1 DEF TypeOK, Attempt, Errors
      <3>2. /\ attempts' = [attempts EXCEPT ![c] = Append(attempts[c], rec)]
            /\ answer' = [answer EXCEPT ![c] =
                            Error(IF policy[c].fallback THEN "IndexError" ELSE "BudgetExceeded", <<>>)]
            /\ pc' = [pc EXCEPT ![c] = "done"] /\ excluded' = excluded
        BY <1>9, <2>4 DEF BudgetExceeded, Record, Return
      <3>3. TrailOK(attempts[c]) /\ excluded[c] = FailedIn(attempts[c])
        BY <2>1 DEF TrailReconstructsReroutes, Running
      <3>4. TrailOK(attempts'[c])
        BY <3>1, <3>2, <3>3, AppendTrail DEF TypeOK
      <3>5. pc'[c] = "done" /\ answer'[c].attempts = <<>>
        BY <3>2 DEF TypeOK, Error
      <3>6. ClientTrail(c)'
        BY <3>4, <3>5 DEF ClientTrail, Running, TrailOK
      <3>7. QED BY <2>2, <3>2, <3>6, OneTrail DEF TypeOK
    <2>5. QED BY <2>3, <2>4
  <1>10. ASSUME NEW t \in Tools, ToolChange(t) PROVE TrailReconstructsReroutes'
    BY <1>10 DEF ToolChange, local, TrailReconstructsReroutes, Running
  <1>11. CASE UNCHANGED vars
    BY <1>11 DEF vars, local, TrailReconstructsReroutes, Running
  <1>12. QED
    BY <1>1, <1>2, <1>3, <1>4, <1>5, <1>6, <1>7, <1>8, <1>9, <1>10, <1>11 DEF Next, Step

(* The trail in hand, in every answer and in every cache entry reconstructs  *)
(* the reroutes: each record excludes exactly the solvers blamed before it.  *)
THEOREM TrailsReconstruct == Spec => []TrailReconstructsReroutes
  <1>1. Init => TypeInv /\ TrailReconstructsReroutes
    <2> SUFFICES ASSUME Init PROVE TrailReconstructsReroutes
      BY InitTypeInv
    <2>1. QED
      BY DEF Init, TrailReconstructsReroutes, TrailOK, Running, NoAnswer
  <1>2. TypeInv /\ TrailReconstructsReroutes /\ [Next]_vars
          => (TypeInv /\ TrailReconstructsReroutes)'
    BY TypeStep, TrailStep
  <1>3. QED BY <1>1, <1>2, PTL DEF Spec

----------------------------------------------------------------------------
(* The reroute loop blames every solver at most once. *)

(* The route in hand is the one planned for the current exclusions.          *)
RoutePlanned ==
  \A c \in Clients : pc[c] \in {"lookup", "execute"} => route[c] = Planned[req[c]][excluded[c]]

BlameInv == TypeInv /\ TrailReconstructsReroutes /\ RoutePlanned /\ NoSolverBlamedTwice

(* The records of one trail blame different solvers, each of its own route.  *)
BlamesOnce(trail) ==
  \A i \in DOMAIN trail :
    trail[i].failed # NoSolver =>
      /\ \E j \in DOMAIN trail[i].route : trail[i].route[j] = trail[i].failed
      /\ \A j \in 1..(i - 1) : trail[j].failed # trail[i].failed

(* NoSolverBlamedTwice, one trail at a time.                                 *)
LEMMA BlamesOnceEq == NoSolverBlamedTwice <=> \A c \in Clients : BlamesOnce(attempts[c])
  BY DEF NoSolverBlamedTwice, BlamesOnce

(* A record that blames nobody, or a step not blamed before, may be added.   *)
LEMMA AppendBlame ==
  ASSUME NEW trail \in Seq(Attempt), NEW rec \in Attempt, BlamesOnce(trail),
         rec.failed = NoSolver \/ ( /\ rec.failed \notin FailedIn(trail)
                                   /\ \E j \in DOMAIN rec.route : rec.route[j] = rec.failed )
  PROVE  BlamesOnce(Append(trail, rec))
  <1> DEFINE n == Len(trail)
             t == Append(trail, rec)
  <1>1. /\ n \in Nat /\ DOMAIN trail = 1..n /\ DOMAIN t = 1..(n + 1)
        /\ t[n + 1] = rec /\ \A i \in 1..n : t[i] = trail[i]
    OBVIOUS
  <1>2. ASSUME NEW i \in DOMAIN t, t[i].failed # NoSolver
        PROVE  /\ \E j \in DOMAIN t[i].route : t[i].route[j] = t[i].failed
               /\ \A j \in 1..(i - 1) : t[j].failed # t[i].failed
    <2>1. CASE i = n + 1
      BY <1>1, <1>2, <2>1 DEF FailedIn
    <2>2. CASE i \in 1..n
      BY <1>1, <1>2, <2>2 DEF BlamesOnce
    <2>3. QED BY <1>1, <1>2, <2>1, <2>2
  <1>3. QED BY <1>2 DEF BlamesOnce

(* A step of the planned route is not among the solvers blamed before.       *)
LEMMA FailBlame ==
  ASSUME BlameInv, NEW c \in Clients, pc[c] = "execute",
         NEW i \in DOMAIN route[c], NEW err \in Errors, Fail(c, route[c][i], err)
  PROVE  BlamesOnce(attempts'[c])
  <1> DEFINE s == route[c][i]
             rec == [excluded |-> excluded[c], route |-> route[c], failed |-> s, error |-> err]
  <1> USE ConstantsAssumption DEF BlameInv, TypeInv
  <1>1. /\ route[c] \in Routes /\ route[c] # NoRoute /\ route[c] \in Seq(Solvers)
        /\ req[c] \in Requests /\ excluded[c] \in SUBSET Solvers
        /\ attempts[c] \in Seq(Attempt)
    BY DEF TypeOK, RouteInHand
  <1>2. route[c] = Planned[req[c]][excluded[c]]
    BY DEF RoutePlanned
  <1>3. s \notin excluded[c]
    BY <1>1, <1>2, PlannerAvoidsExcluded
  <1>4. excluded[c] = FailedIn(attempts[c])
    BY DEF TrailReconstructsReroutes, Running
  <1>5. s \in Solvers
    BY <1>1
  <1>6. rec \in Attempt
    BY <1>1, <1>5 DEF Attempt
  <1>7. BlamesOnce(attempts[c])
    BY BlamesOnceEq
  <1>8. BlamesOnce(Append(attempts[c], rec))
    BY <1>1, <1>3, <1>4, <1>6, <1>7, AppendBlame
  <1>9. attempts'[c] = Append(attempts[c], rec)
    BY DEF Fail, Record, TypeOK
  <1>10. QED BY <1>8, <1>9

(* The route stays the planned one while a failing client leaves execution.  *)
LEMMA FailPlanned ==
  ASSUME BlameInv, NEW c \in Clients, NEW s \in Solvers, NEW err \in Errors,
         route[c] \in Routes, Fail(c, s, err), req' = req, route' = route
  PROVE  RoutePlanned'
  <1>1. TypeOK
    BY DEF BlameInv, TypeInv
  <1>2. pc'[c] \in {"plan", "done"}
    BY <1>1, FailType
  <1>3. \A d \in Clients \ {c} : pc'[d] = pc[d] /\ excluded'[d] = excluded[d]
    BY <1>1, FailOthers
  <1>4. QED BY <1>2, <1>3 DEF BlameInv, RoutePlanned

(* A step that records no failure blames nobody.                             *)
LEMMA SameTrails ==
  ASSUME NoSolverBlamedTwice, attempts' = attempts
  PROVE  NoSolverBlamedTwice'
  BY DEF NoSolverBlamedTwice

(* Every step keeps the route planned and blames nobody twice.               *)
LEMMA BlameStep == BlameInv /\ [Next]_vars => RoutePlanned' /\ NoSolverBlamedTwice'
  <1> SUFFICES ASSUME BlameInv, [Next]_vars PROVE RoutePlanned' /\ NoSolverBlamedTwice'
    OBVIOUS
  <1> USE ConstantsAssumption DEF BlameInv, TypeInv
  <1>1. ASSUME NEW c \in Clients, NEW r \in Requests, NEW q \in Policies, Call(c, r, q)
        PROVE  RoutePlanned' /\ NoSolverBlamedTwice'
    <2>1. attempts' = [attempts EXCEPT ![c] = <<>>]
      BY <1>1 DEF Call
    <2>2. BlamesOnce(<<>>)
      BY DEF BlamesOnce
    <2>3. \A d \in Clients : BlamesOnce(attempts'[d])
      BY <2>1, <2>2, BlamesOnceEq DEF TypeOK
    <2>4. NoSolverBlamedTwice'
      BY <2>3 DEF NoSolverBlamedTwice, BlamesOnce
    <2>5. RoutePlanned'
      BY <1>1 DEF Call, RoutePlanned, TypeOK
    <2>6. QED BY <2>4, <2>5
  <1>2. ASSUME NEW c \in Clients, PlanRoute(c) PROVE RoutePlanned' /\ NoSolverBlamedTwice'
    <2>1. attempts' = attempts
      BY <1>2 DEF PlanRoute
    <2>2. RoutePlanned'
      BY <1>2 DEF PlanRoute, RoutePlanned, TypeOK
    <2>3. QED BY <2>1, <2>2, SameTrails
  <1>3. ASSUME NEW c \in Clients, PlanFails(c) PROVE RoutePlanned' /\ NoSolverBlamedTwice'
    <2> DEFINE rec == [excluded |-> excluded[c], route |-> NoRoute, failed |-> NoSolver,
                       error |-> "PlanError"]
    <2>1. rec \in Attempt /\ attempts[c] \in Seq(Attempt)
      BY DEF TypeOK, Attempt, Errors
    <2>2. attempts' = [attempts EXCEPT ![c] = Append(attempts[c], rec)]
      BY <1>3 DEF PlanFails, Record
    <2>3. BlamesOnce(Append(attempts[c], rec))
      BY <2>1, BlamesOnceEq, AppendBlame
    <2>4. \A d \in Clients : BlamesOnce(attempts'[d])
      BY <2>2, <2>3, BlamesOnceEq DEF TypeOK
    <2>5. NoSolverBlamedTwice'
      BY <2>4 DEF NoSolverBlamedTwice, BlamesOnce
    <2>6. RoutePlanned'
      BY <1>3 DEF PlanFails, Return, RoutePlanned, TypeOK
    <2>7. QED BY <2>5, <2>6
  <1>4. ASSUME NEW c \in Clients, LookupHit(c) PROVE RoutePlanned' /\ NoSolverBlamedTwice'
    <2>1. attempts' = attempts
      BY <1>4 DEF LookupHit
    <2>2. RoutePlanned'
      BY <1>4 DEF LookupHit, Return, RoutePlanned, TypeOK
    <2>3. QED BY <2>1, <2>2, SameTrails
  <1>5. ASSUME NEW c \in Clients, LookupMiss(c) PROVE RoutePlanned' /\ NoSolverBlamedTwice'
    <2>1. attempts' = attempts
      BY <1>5 DEF LookupMiss
    <2>2. RoutePlanned'
      BY <1>5 DEF LookupMiss, RoutePlanned, TypeOK
    <2>3. QED BY <2>1, <2>2, SameTrails
  <1>6. ASSUME NEW c \in Clients, StepSucceeds(c) PROVE RoutePlanned' /\ NoSolverBlamedTwice'
    <2>1. attempts' = attempts /\ pc' = pc /\ route' = route /\ req' = req /\ excluded' = excluded
      BY <1>6 DEF StepSucceeds
    <2>2. QED BY <2>1, SameTrails DEF RoutePlanned
  <1>7. ASSUME NEW c \in Clients, NEW i \in DOMAIN route[c], NEW err \in Errors,
               pc[c] = "execute", route[c] \in Routes, Fail(c, route[c][i], err),
               req' = req, route' = route
        PROVE  RoutePlanned' /\ NoSolverBlamedTwice'
    <2>1. route[c][i] \in Solvers
      BY <1>7
    <2>2. \A d \in Clients \ {c} : attempts'[d] = attempts[d]
      BY <1>7, <2>1, FailOthers
    <2>3. \A d \in Clients : BlamesOnce(attempts'[d])
      BY <1>7, <2>2, FailBlame, BlamesOnceEq
    <2>4. NoSolverBlamedTwice'
      BY <2>3 DEF NoSolverBlamedTwice, BlamesOnce
    <2>5. QED BY <1>7, <2>1, <2>4, FailPlanned
  <1>8. ASSUME NEW c \in Clients, StepFails(c) PROVE RoutePlanned' /\ NoSolverBlamedTwice'
    <2>1. route[c] \in Routes /\ pos[c] \in DOMAIN route[c] /\ pc[c] = "execute"
      BY <1>8 DEF StepFails, TypeOK, RouteInHand
    <2>2. PICK err \in Errors : Fail(c, route[c][pos[c]], err)
      BY <1>8 DEF StepFails, Errors
    <2>3. req' = req /\ route' = route
      BY <1>8 DEF StepFails
    <2>4. QED BY <1>7, <2>1, <2>2, <2>3
  <1>9. ASSUME NEW c \in Clients, Succeed(c) PROVE RoutePlanned' /\ NoSolverBlamedTwice'
    <2>1. attempts' = attempts
      BY <1>9 DEF Succeed
    <2>2. RoutePlanned'
      BY <1>9 DEF Succeed, Return, RoutePlanned, TypeOK
    <2>3. QED BY <2>1, <2>2, SameTrails
  <1>10. ASSUME NEW c \in Clients, BudgetExceeded(c) PROVE RoutePlanned' /\ NoSolverBlamedTwice'
    <2>1. route[c] \in Routes /\ route[c] \in Seq(Solvers) /\ pc[c] = "execute"
      BY <1>10 DEF BudgetExceeded, TypeOK, RouteInHand
    <2>2. req' = req /\ route' = route
      BY <1>10 DEF BudgetExceeded
    <2>3. CASE route[c] # <<>>
      <3>1. Len(route[c]) \in DOMAIN route[c]
        BY <2>1, <2>3
      <3>2. Fail(c, route[c][Len(route[c])], "BudgetExceeded") /\ "BudgetExceeded" \in Errors
        BY <1>10, <2>3 DEF BudgetExceeded, Errors
      <3>3. QED BY <1>7, <2>1, <2>2, <3>1, <3>2
    <2>4. CASE route[c] = <<>>
      <3> DEFINE rec == [excluded |-> excluded[c], route |-> route[c], failed |-> NoSolver,
                         error |-> "BudgetExceeded"]
      <3>1. rec \in Attempt /\ attempts[c] \in Seq(Attempt)
        BY <2>1 DEF TypeOK, Attempt, Errors
      <3>2. /\ attempts' = [attempts EXCEPT ![c] = Append(attempts[c], rec)]
            /\ pc' = [pc EXCEPT ![c] = "done"] /\ excluded' = excluded
        BY <1>10, <2>4 DEF BudgetExceeded, Record, Return
      <3>3. BlamesOnce(Append(attempts[c], rec))
        BY <3>1, BlamesOnceEq, AppendBlame
      <3>4. \A d \in Clients : BlamesOnce(attempts'[d])
        BY <3>2, <3>3, BlamesOnceEq DEF TypeOK
      <3>5. NoSolverBlamedTwice'
        BY <3>4 DEF NoSolverBlamedTwice, BlamesOnce
      <3>6. RoutePlanned'
        BY <2>2, <3>2 DEF RoutePlanned, TypeOK
      <3>7. QED BY <3>5, <3>6
    <2>5. QED BY <2>3, <2>4
  <1>11. ASSUME NEW t \in Tools, ToolChange(t) PROVE RoutePlanned' /\ NoSolverBlamedTwice'
    <2>1. attempts' = attempts /\ pc' = pc /\ route' = route /\ req' = req /\ excluded' = excluded
      BY <1>11 DEF ToolChange, local
    <2>2. QED BY <2>1, SameTrails DEF RoutePlanned
  <1>12. CASE UNCHANGED vars
    BY <1>12 DEF vars, local, RoutePlanned, NoSolverBlamedTwice
  <1>13. QED
    BY <1>1, <1>2, <1>3, <1>4, <1>5, <1>6, <1>8, <1>9, <1>10, <1>11, <1>12 DEF Next, Step

(* The bound the reroute loop rests on ("bounded by the registry's solver    *)
(* count", solve.py): no call blames the same solver twice, and a solver it  *)
(* blames is a step of the route it was executing.                           *)
THEOREM BlamedOnce == Spec => []NoSolverBlamedTwice
  <1>1. Init => BlameInv
    <2> SUFFICES ASSUME Init PROVE BlameInv
      OBVIOUS
    <2>1. TypeInv
      BY InitTypeInv
    <2>2. TrailReconstructsReroutes
      BY DEF Init, TrailReconstructsReroutes, TrailOK, Running, NoAnswer
    <2>3. RoutePlanned /\ NoSolverBlamedTwice
      BY DEF Init, RoutePlanned, NoSolverBlamedTwice
    <2>4. QED BY <2>1, <2>2, <2>3 DEF BlameInv
  <1>2. BlameInv /\ [Next]_vars => BlameInv'
    BY TypeStep, TrailStep, BlameStep DEF BlameInv
  <1>3. BlameInv => NoSolverBlamedTwice
    BY DEF BlameInv
  <1>4. QED BY <1>1, <1>2, <1>3, PTL DEF Spec

(* A call that has excluded a solver found a route before it did.            *)
FirstPlanned ==
  \A c \in Clients : excluded[c] # {} => Planned[req[c]][{}] # NoRoute

(* What NoRouteRemaining says of a request, one answer at a time.            *)
Exhausts(a, r) ==
  a.kind = "NoRouteRemaining" =>
    \A rt \in PossibleRoutes(r) :
      \E i \in DOMAIN rt : rt[i] \in FailedIn(a.attempts)

ExhaustInv ==
  BlameInv /\ FirstPlanned /\ ExhaustionIsReal

LEMMA ExhaustsEq == ExhaustionIsReal <=> \A c \in Clients : Exhausts(answer[c], req[c])
  BY DEF ExhaustionIsReal, Exhausts

(* A route in hand without exclusions is one over the whole registry.        *)
LEMMA FailFirst ==
  ASSUME ExhaustInv, NEW c \in Clients, pc[c] = "execute", NEW s \in Solvers,
         NEW err \in Errors, route[c] \in Routes, Fail(c, s, err), req' = req
  PROVE  FirstPlanned' /\ ExhaustionIsReal'
  <1> USE ConstantsAssumption DEF ExhaustInv, BlameInv, TypeInv
  <1>1. Planned[req[c]][{}] # NoRoute
    <2>1. route[c] = Planned[req[c]][excluded[c]] /\ route[c] # NoRoute
      BY DEF RoutePlanned
    <2>2. QED BY <2>1 DEF FirstPlanned
  <1>2. \A d \in Clients \ {c} : excluded'[d] = excluded[d] /\ answer'[d] = answer[d]
    BY FailOthers
  <1>3. FirstPlanned'
    BY <1>1, <1>2 DEF FirstPlanned
  <1>4. answer'[c] = answer[c] \/ answer'[c].kind # "NoRouteRemaining"
    BY DEF Fail, Return, Error, Errors, TypeOK
  <1>5. \A d \in Clients : Exhausts(answer'[d], req[d])
    BY <1>2, <1>4, ExhaustsEq DEF Exhausts
  <1>6. QED BY <1>3, <1>5 DEF ExhaustionIsReal, Exhausts

(* When the planner gives up on the solvers left, each route it knows uses   *)
(* one that was blamed.                                                      *)
LEMMA PlanFailsExhausts ==
  ASSUME ExhaustInv, NEW c \in Clients, PlanFails(c)
  PROVE  Exhausts(answer'[c], req[c])
  <1> USE ConstantsAssumption DEF ExhaustInv, BlameInv, TypeInv
  <1> DEFINE rec == [excluded |-> excluded[c], route |-> NoRoute, failed |-> NoSolver,
                     error |-> "PlanError"]
             t   == Append(attempts[c], rec)
  <1>1. /\ attempts'[c] = t /\ attempts[c] \in Seq(Attempt)
        /\ answer'[c] = IF excluded[c] = {} THEN Error("PlanError", <<>>)
                                            ELSE Error("NoRouteRemaining", t)
    BY DEF PlanFails, Record, Return, TypeOK
  <1>2. CASE excluded[c] = {}
    BY <1>1, <1>2 DEF Error, Exhausts
  <1>3. CASE excluded[c] # {}
    <2>1. answer'[c].attempts = t
      BY <1>1, <1>3 DEF Error
    <2>2. Planned[req[c]][{}] # NoRoute /\ Planned[req[c]][excluded[c]] = NoRoute
      BY <1>3 DEF FirstPlanned, PlanFails
    <2>3. req[c] \in Requests /\ excluded[c] \in SUBSET Solvers
      BY DEF TypeOK
    <2>4. excluded[c] = FailedIn(attempts[c])
      BY DEF PlanFails, TrailReconstructsReroutes, Running
    <2>5. FailedIn(attempts[c]) \subseteq FailedIn(t)
      <3>1. /\ DOMAIN attempts[c] \subseteq DOMAIN t
            /\ \A i \in DOMAIN attempts[c] : t[i] = attempts[c][i]
        BY <1>1
      <3> HIDE DEF t
      <3>2. QED BY <3>1 DEF FailedIn
    <2>6. ASSUME NEW rt \in PossibleRoutes(req[c])
          PROVE  \E i \in DOMAIN rt : rt[i] \in FailedIn(t)
      <3>1. PICK Y \in SUBSET Solvers : rt = Planned[req[c]][Y] /\ rt # NoRoute
        BY DEF PossibleRoutes
      <3>2. \E i \in DOMAIN rt : rt[i] \in excluded[c]
        BY <2>2, <2>3, <3>1, PlannerFindsOpenRoutes
      <3>3. QED BY <2>4, <2>5, <3>2
    <2>7. QED BY <2>1, <2>6 DEF Exhausts
  <1>4. QED BY <1>2, <1>3

(* Every step keeps NoRouteRemaining honest.                                 *)
LEMMA ExhaustStep == ExhaustInv /\ [Next]_vars => FirstPlanned' /\ ExhaustionIsReal'
  <1> SUFFICES ASSUME ExhaustInv, [Next]_vars PROVE FirstPlanned' /\ ExhaustionIsReal'
    OBVIOUS
  <1> USE ConstantsAssumption DEF ExhaustInv, BlameInv, TypeInv
  <1>1. ASSUME NEW c \in Clients, NEW r \in Requests, NEW q \in Policies, Call(c, r, q)
        PROVE  FirstPlanned' /\ ExhaustionIsReal'
    <2>1. /\ answer'[c].kind = "none" /\ excluded'[c] = {}
          /\ \A d \in Clients \ {c} : answer'[d] = answer[d] /\ req'[d] = req[d]
                                      /\ excluded'[d] = excluded[d]
      BY <1>1 DEF Call, NoAnswer, TypeOK
    <2>2. FirstPlanned'
      BY <2>1 DEF FirstPlanned
    <2>3. \A d \in Clients : Exhausts(answer'[d], req'[d])
      BY <2>1, ExhaustsEq DEF Exhausts
    <2>4. QED BY <2>2, <2>3 DEF ExhaustionIsReal, Exhausts
  <1>2. ASSUME answer' = answer, req' = req, excluded' = excluded
        PROVE  FirstPlanned' /\ ExhaustionIsReal'
    BY <1>2 DEF FirstPlanned, ExhaustionIsReal
  <1>3. ASSUME NEW c \in Clients, req' = req, excluded' = excluded,
               \A d \in Clients \ {c} : answer'[d] = answer[d],
               Exhausts(answer'[c], req[c])
        PROVE  FirstPlanned' /\ ExhaustionIsReal'
    <2>1. \A d \in Clients : Exhausts(answer'[d], req[d])
      BY <1>3, ExhaustsEq
    <2>2. QED BY <1>3, <2>1 DEF FirstPlanned, ExhaustionIsReal, Exhausts
  <1>4. ASSUME NEW c \in Clients, PlanFails(c) PROVE FirstPlanned' /\ ExhaustionIsReal'
    <2>1. /\ req' = req /\ excluded' = excluded
          /\ \A d \in Clients \ {c} : answer'[d] = answer[d]
      BY <1>4 DEF PlanFails, Return, TypeOK
    <2>2. QED BY <1>3, <1>4, <2>1, PlanFailsExhausts
  <1>5. ASSUME NEW c \in Clients, LookupHit(c) PROVE FirstPlanned' /\ ExhaustionIsReal'
    <2>1. /\ req' = req /\ excluded' = excluded /\ answer'[c].kind = "solution"
          /\ \A d \in Clients \ {c} : answer'[d] = answer[d]
      BY <1>5 DEF LookupHit, Return, TypeOK
    <2>2. QED BY <1>3, <2>1 DEF Exhausts
  <1>6. ASSUME NEW c \in Clients, Succeed(c) PROVE FirstPlanned' /\ ExhaustionIsReal'
    <2>1. /\ req' = req /\ excluded' = excluded /\ answer'[c].kind = "solution"
          /\ \A d \in Clients \ {c} : answer'[d] = answer[d]
      BY <1>6 DEF Succeed, Return, TypeOK
    <2>2. QED BY <1>3, <2>1 DEF Exhausts
  <1>7. ASSUME NEW c \in Clients, StepFails(c) PROVE FirstPlanned' /\ ExhaustionIsReal'
    <2>1. route[c] \in Routes /\ route[c][pos[c]] \in Solvers /\ pc[c] = "execute"
      BY <1>7 DEF StepFails, TypeOK, RouteInHand
    <2>2. PICK err \in Errors : Fail(c, route[c][pos[c]], err)
      BY <1>7 DEF StepFails, Errors
    <2>3. req' = req
      BY <1>7 DEF StepFails
    <2>4. QED BY <2>1, <2>2, <2>3, FailFirst
  <1>8. ASSUME NEW c \in Clients, BudgetExceeded(c) PROVE FirstPlanned' /\ ExhaustionIsReal'
    <2>1. route[c] \in Routes /\ route[c] \in Seq(Solvers) /\ pc[c] = "execute" /\ req' = req
      BY <1>8 DEF BudgetExceeded, TypeOK, RouteInHand
    <2>2. CASE route[c] # <<>>
      <3>1. route[c][Len(route[c])] \in Solvers
        BY <2>1, <2>2
      <3>2. Fail(c, route[c][Len(route[c])], "BudgetExceeded") /\ "BudgetExceeded" \in Errors
        BY <1>8, <2>2 DEF BudgetExceeded, Errors
      <3>3. QED BY <2>1, <3>1, <3>2, FailFirst
    <2>3. CASE route[c] = <<>>
      <3>1. answer' = [answer EXCEPT ![c] =
                         Error(IF policy[c].fallback THEN "IndexError" ELSE "BudgetExceeded", <<>>)]
            /\ excluded' = excluded
        BY <1>8, <2>3 DEF BudgetExceeded, Return
      <3>2. answer'[c].kind # "NoRouteRemaining" /\ \A d \in Clients \ {c} : answer'[d] = answer[d]
        BY <3>1 DEF Error, TypeOK
      <3>3. QED BY <1>3, <2>1, <3>1, <3>2 DEF Exhausts
    <2>4. QED BY <2>2, <2>3
  <1>9. ASSUME NEW c \in Clients, PlanRoute(c) \/ LookupMiss(c) \/ StepSucceeds(c)
        PROVE  FirstPlanned' /\ ExhaustionIsReal'
    BY <1>2, <1>9 DEF PlanRoute, LookupMiss, StepSucceeds
  <1>10. ASSUME NEW t \in Tools, ToolChange(t) PROVE FirstPlanned' /\ ExhaustionIsReal'
    BY <1>2, <1>10 DEF ToolChange, local
  <1>11. CASE UNCHANGED vars
    BY <1>2, <1>11 DEF vars, local
  <1>12. QED
    BY <1>1, <1>4, <1>5, <1>6, <1>7, <1>8, <1>9, <1>10, <1>11 DEF Next, Step

(* solve() says NoRouteRemaining only when each route the planner knows for  *)
(* the request has a step that this call saw fail.                           *)
THEOREM ExhaustionHolds == Spec => []ExhaustionIsReal
  <1>1. Init => ExhaustInv
    <2> SUFFICES ASSUME Init PROVE ExhaustInv
      OBVIOUS
    <2>1. TypeInv
      BY InitTypeInv
    <2>2. TrailReconstructsReroutes
      BY DEF Init, TrailReconstructsReroutes, TrailOK, Running, NoAnswer
    <2>3. RoutePlanned /\ NoSolverBlamedTwice /\ FirstPlanned /\ ExhaustionIsReal
      BY DEF Init, RoutePlanned, NoSolverBlamedTwice, FirstPlanned, ExhaustionIsReal, NoAnswer
    <2>4. QED BY <2>1, <2>2, <2>3 DEF ExhaustInv, BlameInv
  <1>2. ExhaustInv /\ [Next]_vars => ExhaustInv'
    BY TypeStep, TrailStep, BlameStep, ExhaustStep DEF ExhaustInv, BlameInv
  <1>3. ExhaustInv => ExhaustionIsReal
    BY DEF ExhaustInv
  <1>4. QED BY <1>1, <1>2, <1>3, PTL DEF Spec

(* A stored entry's route has the settings its key names.                    *)
CacheNamed ==
  \A r \in Requests, rt \in Routes :
    LET e == cache[CacheKey(r, rt)] IN
    e # NoEntry => SettingsFold(e.route) = SettingsFold(rt)

(* An answer is a hit only after the call has ended.                         *)
FreshWhileRunning == \A c \in Clients : Running(c) => ~ answer[c].hit

HitInv == TypeInv /\ CacheNamed /\ FreshWhileRunning

(* Then two routes with one settings digest are one route.                   *)
LEMMA SettingsNameRoute ==
  ASSUME SettingsTellApart, NEW rt \in Routes, NEW ru \in Routes,
         SettingsFold(rt) = SettingsFold(ru)
  PROVE  rt = ru
  <1>1. rt \in Seq(Solvers) /\ ru \in Seq(Solvers)
    BY ConstantsAssumption
  <1>2. DOMAIN rt = DOMAIN ru
    BY DEF SettingsFold
  <1>3. ASSUME NEW i \in DOMAIN rt PROVE rt[i] = ru[i]
    <2>1. SettingsFold(rt)[i] = SettingsOf[rt[i]] /\ SettingsFold(ru)[i] = SettingsOf[ru[i]]
      BY <1>2 DEF SettingsFold
    <2>2. rt[i] \in Solvers /\ ru[i] \in Solvers
      BY <1>1, <1>2
    <2>3. QED BY <2>1, <2>2 DEF SettingsTellApart
  <1>4. QED BY <1>1, <1>2, <1>3

(* A call that fails has no hit for an answer.                               *)
LEMMA FailFresh ==
  ASSUME HitInv, NEW c \in Clients, pc[c] = "execute", NEW s, NEW err,
         Fail(c, s, err)
  PROVE  FreshWhileRunning'
  BY DEF HitInv, TypeInv, TypeOK, FreshWhileRunning, Running, Fail, Return, Error

(* Every step keeps the entries under the settings of their routes, and the  *)
(* answer of a running call fresh.                                           *)
LEMMA HitStep == HitInv /\ [Next]_vars => CacheNamed' /\ FreshWhileRunning'
  <1> SUFFICES ASSUME HitInv, [Next]_vars PROVE CacheNamed' /\ FreshWhileRunning'
    OBVIOUS
  <1> USE ConstantsAssumption DEF HitInv, TypeInv
  <1>1. ASSUME NEW c \in Clients, NEW r \in Requests, NEW q \in Policies, Call(c, r, q)
        PROVE  CacheNamed' /\ FreshWhileRunning'
    BY <1>1 DEF Call, NoAnswer, CacheNamed, FreshWhileRunning, Running, TypeOK
  <1>2. ASSUME NEW c \in Clients, PlanRoute(c) PROVE CacheNamed' /\ FreshWhileRunning'
    BY <1>2 DEF PlanRoute, CacheNamed, FreshWhileRunning, Running, TypeOK
  <1>3. ASSUME NEW c \in Clients, PlanFails(c) \/ LookupHit(c)
        PROVE  CacheNamed' /\ FreshWhileRunning'
    <2>1. cache' = cache /\ pc'[c] = "done"
          /\ \A d \in Clients \ {c} : answer'[d] = answer[d] /\ pc'[d] = pc[d]
      BY <1>3 DEF PlanFails, LookupHit, Return, TypeOK
    <2>2. QED BY <2>1 DEF CacheNamed, FreshWhileRunning, Running
  <1>4. ASSUME NEW c \in Clients, LookupMiss(c) \/ StepSucceeds(c)
        PROVE  CacheNamed' /\ FreshWhileRunning'
    BY <1>4 DEF LookupMiss, StepSucceeds, CacheNamed, FreshWhileRunning, Running, TypeOK
  <1>5. ASSUME NEW c \in Clients, StepFails(c) PROVE CacheNamed' /\ FreshWhileRunning'
    <2>1. \E s, err : Fail(c, s, err)
      BY <1>5 DEF StepFails
    <2>2. cache' = cache /\ pc[c] = "execute"
      BY <1>5 DEF StepFails
    <2>3. QED BY <2>1, <2>2, FailFresh DEF CacheNamed
  <1>6. ASSUME NEW c \in Clients, BudgetExceeded(c) PROVE CacheNamed' /\ FreshWhileRunning'
    <2>1. cache' = cache /\ pc[c] = "execute"
      BY <1>6 DEF BudgetExceeded
    <2>2. CASE route[c] # <<>>
      <3>1. \E s, err : Fail(c, s, err)
        BY <1>6, <2>2 DEF BudgetExceeded
      <3>2. QED BY <2>1, <3>1, FailFresh DEF CacheNamed
    <2>3. CASE route[c] = <<>>
      <3>1. pc'[c] = "done" /\ \A d \in Clients \ {c} : answer'[d] = answer[d] /\ pc'[d] = pc[d]
        BY <1>6, <2>3 DEF BudgetExceeded, Return, TypeOK
      <3>2. QED BY <2>1, <3>1 DEF CacheNamed, FreshWhileRunning, Running
    <2>4. QED BY <2>2, <2>3
  <1>7. ASSUME NEW c \in Clients, Succeed(c) PROVE CacheNamed' /\ FreshWhileRunning'
    <2>1. PICK x \in Realized[req[c]][route[c]] :
            cache' = IF policy[c].cache /\ Cacheable(route[c])
                       THEN [cache EXCEPT ![CacheKey(req[c], route[c])] =
                               [route |-> route[c], realized |-> x, attempts |-> attempts[c]]]
                       ELSE cache
      BY <1>7 DEF Succeed
    <2> DEFINE e == [route |-> route[c], realized |-> x, attempts |-> attempts[c]]
               k == CacheKey(req[c], route[c])
    <2>2. req[c] \in Requests /\ route[c] \in Routes
      BY <1>7 DEF Succeed, TypeOK, RouteInHand
    <2>3. ASSUME NEW r \in Requests, NEW rt \in Routes, cache'[CacheKey(r, rt)] # NoEntry
          PROVE  SettingsFold(cache'[CacheKey(r, rt)].route) = SettingsFold(rt)
      <3>1. CASE cache'[CacheKey(r, rt)] = cache[CacheKey(r, rt)]
        BY <2>3, <3>1 DEF CacheNamed
      <3>2. CASE cache'[CacheKey(r, rt)] # cache[CacheKey(r, rt)]
        <4>1. CacheKey(r, rt) \in CacheKeys
          BY DEF CacheKeys
        <4>2. CacheKey(r, rt) = k /\ cache'[CacheKey(r, rt)] = e
          BY <2>1, <3>2, <4>1 DEF TypeOK
        <4>3. SettingsFold(rt) = SettingsFold(route[c])
          BY <4>2 DEF CacheKey
        <4>4. QED BY <4>2, <4>3
      <3>3. QED BY <3>1, <3>2
    <2>4. CacheNamed'
      BY <2>3 DEF CacheNamed
    <2>5. pc'[c] = "done" /\ \A d \in Clients \ {c} : answer'[d] = answer[d] /\ pc'[d] = pc[d]
      BY <1>7 DEF Succeed, Return, TypeOK
    <2>6. QED BY <2>4, <2>5 DEF FreshWhileRunning, Running
  <1>8. ASSUME NEW t \in Tools, ToolChange(t) PROVE CacheNamed' /\ FreshWhileRunning'
    BY <1>8 DEF ToolChange, local, CacheNamed, FreshWhileRunning, Running
  <1>9. CASE UNCHANGED vars
    BY <1>9 DEF vars, local, CacheNamed, FreshWhileRunning, Running
  <1>10. QED
    BY <1>1, <1>2, <1>3, <1>4, <1>5, <1>6, <1>7, <1>8, <1>9 DEF Next, Step

LEMMA HitInvHolds == Spec => []HitInv
  <1>1. Init => HitInv
    <2>1. Init => CacheNamed
      <3> SUFFICES ASSUME Init, NEW r \in Requests, NEW rt \in Routes
                   PROVE  cache[CacheKey(r, rt)] = NoEntry
        BY DEF CacheNamed
      <3>1. CacheKey(r, rt) \in CacheKeys
        BY DEF CacheKeys
      <3>2. QED BY <3>1 DEF Init
    <2>2. QED BY <2>1, InitTypeInv DEF Init, HitInv, FreshWhileRunning, NoAnswer
  <1>2. HitInv /\ [Next]_vars => HitInv'
    BY TypeStep, HitStep DEF HitInv
  <1>3. QED BY <1>1, <1>2, PTL DEF Spec

(* With such digests, the entry of a hit is one of the planned route.        *)
LEMMA HitIsPlanned ==
  ASSUME SettingsTellApart, HitInv, NEW c \in Clients, LookupHit(c)
  PROVE  /\ route[c] \in Routes /\ answer'[c].route = route[c]
         /\ \A i \in DOMAIN route[c] : Installed(route[c][i])
  <1> DEFINE e == cache[CacheKey(req[c], route[c])]
  <1>1. /\ route[c] \in Routes /\ req[c] \in Requests /\ e # NoEntry
        /\ \A i \in DOMAIN route[c] : Installed(route[c][i])
    BY DEF LookupHit, Hit, ToolsStillConsistent, HitInv, TypeInv, TypeOK, RouteInHand
  <1>2. e \in Entry
    <2>1. CacheKey(req[c], route[c]) \in CacheKeys
      BY <1>1 DEF CacheKeys
    <2>2. QED BY <1>1, <2>1 DEF HitInv, TypeInv, TypeOK
  <1>3. e.route \in Routes /\ SettingsFold(e.route) = SettingsFold(route[c])
    BY <1>1, <1>2 DEF HitInv, CacheNamed, Entry
  <1>4. e.route = route[c]
    BY <1>1, <1>3, SettingsNameRoute
  <1>5. answer'[c].route = e.route
    BY DEF LookupHit, Return, HitInv, TypeInv, TypeOK
  <1>6. QED BY <1>1, <1>4, <1>5

(* If no two solvers share a settings digest, a hit is a Solution of the     *)
(* very route that this call planned.                                        *)
THEOREM HitsMatch == ASSUME SettingsTellApart PROVE Spec => []HitMatchesPlannedRoute
  <1>1. Init => HitMatchesPlannedRoute
    BY DEF Init, HitMatchesPlannedRoute, NoAnswer
  <1>2. HitInv /\ HitMatchesPlannedRoute /\ [Next]_vars => HitMatchesPlannedRoute'
    <2> SUFFICES ASSUME HitInv, HitMatchesPlannedRoute, [Next]_vars
                 PROVE  HitMatchesPlannedRoute'
      OBVIOUS
    <2> USE DEF HitInv, TypeInv
    <2>1. ASSUME NEW c \in Clients, NEW r \in Requests, NEW q \in Policies, Call(c, r, q)
          PROVE  HitMatchesPlannedRoute'
      BY <2>1 DEF Call, NoAnswer, HitMatchesPlannedRoute, TypeOK
    <2>2. ASSUME NEW c \in Clients, PlanRoute(c) PROVE HitMatchesPlannedRoute'
      BY <2>2 DEF PlanRoute, HitMatchesPlannedRoute, FreshWhileRunning, Running, TypeOK
    <2>3. ASSUME NEW c \in Clients, route' = route,
                 \A d \in Clients \ {c} : answer'[d] = answer[d],
                 answer'[c] = answer[c] \/ ~ answer'[c].hit \/ answer'[c].route = route[c]
          PROVE  HitMatchesPlannedRoute'
      BY <2>3 DEF HitMatchesPlannedRoute
    <2>4. ASSUME NEW c \in Clients, LookupHit(c) PROVE HitMatchesPlannedRoute'
      <3>1. answer'[c].route = route[c]
        BY <2>4, HitIsPlanned
      <3>2. route' = route /\ \A d \in Clients \ {c} : answer'[d] = answer[d]
        BY <2>4 DEF LookupHit, Return, TypeOK
      <3>3. QED BY <2>3, <3>1, <3>2
    <2>5. ASSUME NEW c \in Clients, NEW s, NEW err, Fail(c, s, err), route' = route
          PROVE  HitMatchesPlannedRoute'
      <3>1. \/ answer' = answer
            \/ answer' = [answer EXCEPT ![c] = Error(err, <<>>)]
        BY <2>5 DEF Fail, Return
      <3>2. QED BY <2>3, <2>5, <3>1 DEF Error, TypeOK
    <2>6. ASSUME NEW c \in Clients, PlanFails(c) PROVE HitMatchesPlannedRoute'
      <3>1. \E kind, t : answer' = [answer EXCEPT ![c] = Error(kind, t)]
        BY <2>6 DEF PlanFails, Return
      <3>2. route' = route
        BY <2>6 DEF PlanFails
      <3>3. QED BY <2>3, <3>1, <3>2 DEF Error, TypeOK
    <2>7. ASSUME NEW c \in Clients, StepFails(c) PROVE HitMatchesPlannedRoute'
      BY <2>5, <2>7 DEF StepFails
    <2>8. ASSUME NEW c \in Clients, BudgetExceeded(c) PROVE HitMatchesPlannedRoute'
      <3>1. route' = route
        BY <2>8 DEF BudgetExceeded
      <3>2. CASE route[c] # <<>>
        BY <2>5, <2>8, <3>1, <3>2 DEF BudgetExceeded
      <3>3. CASE route[c] = <<>>
        <4>1. \E kind : answer' = [answer EXCEPT ![c] = Error(kind, <<>>)]
          BY <2>8, <3>3 DEF BudgetExceeded, Return
        <4>2. QED BY <2>3, <3>1, <4>1 DEF Error, TypeOK
      <3>4. QED BY <3>2, <3>3
    <2>9. ASSUME NEW c \in Clients, Succeed(c) PROVE HitMatchesPlannedRoute'
      <3>1. /\ route' = route /\ answer'[c].hit = FALSE
            /\ \A d \in Clients \ {c} : answer'[d] = answer[d]
        BY <2>9 DEF Succeed, Return, TypeOK
      <3>2. QED BY <2>3, <3>1
    <2>10. ASSUME answer' = answer, route' = route PROVE HitMatchesPlannedRoute'
      BY <2>10 DEF HitMatchesPlannedRoute
    <2>11. ASSUME NEW c \in Clients, LookupMiss(c) \/ StepSucceeds(c)
           PROVE  HitMatchesPlannedRoute'
      BY <2>10, <2>11 DEF LookupMiss, StepSucceeds
    <2>12. ASSUME NEW t \in Tools, ToolChange(t) PROVE HitMatchesPlannedRoute'
      BY <2>10, <2>12 DEF ToolChange, local
    <2>13. CASE UNCHANGED vars
      BY <2>10, <2>13 DEF vars, local
    <2>14. QED
      BY <2>1, <2>2, <2>4, <2>6, <2>7, <2>8, <2>9, <2>11, <2>12, <2>13 DEF Next, Step
  <1>3. QED BY <1>1, <1>2, HitInvHolds, PTL DEF Spec

(* A-5, first half: then no hit is served whose route uses a tool that has   *)
(* vanished.                                                                 *)
THEOREM HitsHaveTheirTools == ASSUME SettingsTellApart PROVE Spec => HitUsesInstalledTools
  <1> DEFINE HasTools == \A c \in Clients : ServesHit(c) =>
                           \A i \in DOMAIN answer'[c].route : Installed(answer'[c].route[i])
  <1>1. HitInv /\ [Next]_vars => [HasTools]_vars
    <2> SUFFICES ASSUME HitInv, Next, NEW c \in Clients, ServesHit(c)
                 PROVE  \A i \in DOMAIN answer'[c].route : Installed(answer'[c].route[i])
      OBVIOUS
    <2>1. LookupHit(c)
      <3> USE DEF HitInv, TypeInv, TypeOK, ServesHit
      <3>1. ASSUME NEW d \in Clients, NEW r \in Requests, NEW q \in Policies, Call(d, r, q)
            PROVE  FALSE
        BY <3>1 DEF Call
      <3>2. ASSUME NEW d \in Clients, Step(d) PROVE LookupHit(c)
        <4>1. CASE d = c
          BY <3>2, <4>1 DEF Step, PlanRoute, PlanFails, LookupMiss, StepSucceeds, StepFails,
                            Succeed, BudgetExceeded
        <4>2. CASE d # c
          BY <3>2, <4>2 DEF Step, PlanRoute, PlanFails, LookupHit, LookupMiss, StepSucceeds,
                            StepFails, Succeed, BudgetExceeded, Fail, Return
        <4>3. QED BY <4>1, <4>2
      <3>3. ASSUME NEW t \in Tools, ToolChange(t) PROVE FALSE
        BY <3>3 DEF ToolChange, local
      <3>4. QED BY <3>1, <3>2, <3>3 DEF Next
    <2>2. QED BY <2>1, HitIsPlanned
  <1>2. QED BY <1>1, HitInvHolds, PTL DEF Spec, HitUsesInstalledTools

----------------------------------------------------------------------------
(* The reroute loop, run from scratch. *)

(* A non-empty set of naturals has a least member.                           *)
LEMMA NatHasLeast ==
  ASSUME NEW S \in SUBSET Nat, S # {}
  PROVE  \E x \in S : \A y \in S : x <= y
  <1>1. \E R : IsWellFoundedOn(R, Nat) /\ \A x, y \in Nat : x < y => <<x, y>> \in R
    <2> DEFINE R == OpToRel(<, Nat)
    <2>1. \A x, y \in Nat : x < y => <<x, y>> \in R
      BY DEF OpToRel
    <2>2. QED BY <2>1, NatLessThanWellFounded
  <1>2. PICK R : IsWellFoundedOn(R, Nat) /\ \A x, y \in Nat : x < y => <<x, y>> \in R
    BY <1>1
  <1>3. IsWellFoundedOn(R, Nat) /\ S \subseteq Nat
    BY <1>2
  <1>4. \E x \in S : \A y \in S : ~ (<<y, x>> \in R)
    BY <1>3, WFMin, Zenon
  <1>5. PICK x \in S : \A y \in S : ~ (<<y, x>> \in R)
    BY <1>4
  <1>6. ASSUME NEW y \in S PROVE ~ (y < x)
    BY <1>2, <1>5, Zenon
  <1>7. \A y \in S : x <= y
    BY <1>6
  <1>8. QED BY <1>7

(* Where the loop goes from X, if f says where it goes from larger sets.     *)
Onward(f, r, q, T, X) ==
  LET rt == Planned[r][X] IN
  IF rt = NoRoute THEN NoRoute
  ELSE IF Blamable(r, rt, T) = {} THEN rt
  ELSE IF ~ q.fallback THEN NoRoute
  ELSE f[X \cup {CHOOSE s \in Blamable(r, rt, T) : TRUE}]

(* The exclusion sets that leave fewer than n solvers.                       *)
Leaving(n) == {X \in SUBSET Solvers : Cardinality(Solvers \ X) < n}
LoopOn(f, r, q, T, n) == f = [X \in Leaving(n) |-> Onward(f, r, q, T, X)]

(* Whoever is blamed on a planned route was not excluded.                    *)
LEMMA BlameIsNew ==
  ASSUME NEW r \in Requests, NEW X \in SUBSET Solvers, NEW T,
         Planned[r][X] # NoRoute, NEW s \in Blamable(r, Planned[r][X], T)
  PROVE  s \in Solvers \ X
  <1>1. Planned[r][X] \in Routes
    BY ConstantsAssumption
  <1>2. Planned[r][X] \in Seq(Solvers)
    BY <1>1, ConstantsAssumption
  <1>3. PICK i \in DOMAIN Planned[r][X] : s = Planned[r][X][i]
    BY DEF Blamable
  <1>4. QED BY <1>2, <1>3, PlannerAvoidsExcluded

(* A blamed solver more leaves a solver less.                                *)
LEMMA OneLess ==
  ASSUME NEW X \in SUBSET Solvers, NEW s \in Solvers \ X, NEW n \in Nat,
         X \in Leaving(n + 1)
  PROVE  X \cup {s} \in Leaving(n)
  <1>1. IsFiniteSet(Solvers \ X)
    BY RegistryIsFinite, FS_Subset
  <1>2. /\ Cardinality(Solvers \ X) \in Nat
        /\ Cardinality((Solvers \ X) \ {s}) = Cardinality(Solvers \ X) - 1
    BY <1>1, FS_CardinalityType, FS_RemoveElement
  <1>3. Solvers \ (X \cup {s}) = (Solvers \ X) \ {s}
    OBVIOUS
  <1>4. Cardinality(Solvers \ X) < n + 1 /\ X \cup {s} \in SUBSET Solvers
    BY DEF Leaving
  <1>5. Cardinality(Solvers \ (X \cup {s})) < n
    BY <1>2, <1>3, <1>4
  <1>6. QED BY <1>4, <1>5 DEF Leaving

(* What is left of a registry is a natural number of solvers.                *)
LEMMA LeavingWhole ==
  /\ \A X \in SUBSET Solvers : Cardinality(Solvers \ X) \in Nat
  /\ Cardinality(Solvers) + 1 \in Nat
  /\ Leaving(Cardinality(Solvers) + 1) = SUBSET Solvers
  /\ Leaving(0) = {}
  <1>1. \A X \in SUBSET Solvers : /\ Cardinality(Solvers \ X) \in Nat
                                  /\ Cardinality(Solvers \ X) <= Cardinality(Solvers)
    BY RegistryIsFinite, FS_Subset, FS_CardinalityType
  <1>2. Cardinality(Solvers) \in Nat
    BY RegistryIsFinite, FS_CardinalityType
  <1>3. QED BY <1>1, <1>2 DEF Leaving

(* Each exclusion set leaves fewer solvers than the one before it, so the    *)
(* loop is a function.                                                       *)
LEMMA LoopExtends ==
  ASSUME NEW r \in Requests, NEW q, NEW T, NEW n \in Nat, NEW f, LoopOn(f, r, q, T, n)
  PROVE  \E g : LoopOn(g, r, q, T, n + 1)
  <1> DEFINE g == [X \in Leaving(n + 1) |-> Onward(f, r, q, T, X)]
  <1>1. \A X \in Leaving(n) : f[X] = Onward(f, r, q, T, X)
    <2> DEFINE h == [X \in Leaving(n) |-> Onward(f, r, q, T, X)]
    <2>1. f = h
      BY DEF LoopOn
    <2>2. \A X \in Leaving(n) : h[X] = Onward(f, r, q, T, X)
      OBVIOUS
    <2> HIDE DEF h
    <2>3. QED BY <2>1, <2>2
  <1>2. Leaving(n) \subseteq Leaving(n + 1)
    BY LeavingWhole DEF Leaving
  <1>3. \A X \in Leaving(n) : g[X] = f[X]
    BY <1>1, <1>2
  <1>4. ASSUME NEW X \in Leaving(n + 1)
        PROVE  Onward(f, r, q, T, X) = Onward(g, r, q, T, X)
    <2> HIDE DEF g
    <2> DEFINE rt == Planned[r][X]
               s == CHOOSE s \in Blamable(r, rt, T) : TRUE
    <2>1. CASE rt # NoRoute /\ Blamable(r, rt, T) # {}
      <3>1. s \in Blamable(r, rt, T)
        BY <2>1
      <3>2. X \in SUBSET Solvers
        BY DEF Leaving
      <3>3. s \in Solvers \ X
        BY <2>1, <3>1, <3>2, BlameIsNew
      <3>4. X \cup {s} \in Leaving(n)
        BY <3>2, <3>3, OneLess
      <3>5. g[X \cup {s}] = f[X \cup {s}]
        BY <1>3, <3>4
      <3>6. QED BY <3>5 DEF Onward
    <2>2. CASE rt = NoRoute \/ Blamable(r, rt, T) = {}
      BY <2>2 DEF Onward
    <2>3. QED BY <2>1, <2>2
  <1>5. g = [X \in Leaving(n + 1) |-> Onward(g, r, q, T, X)]
    <2>1. \A X \in Leaving(n + 1) : g[X] = Onward(f, r, q, T, X)
      OBVIOUS
    <2>2. DOMAIN g = Leaving(n + 1)
      OBVIOUS
    <2>3. g = [X \in Leaving(n + 1) |-> g[X]]
      OBVIOUS
    <2> HIDE DEF g
    <2>4. \A X \in Leaving(n + 1) : g[X] = Onward(g, r, q, T, X)
      BY <1>4, <2>1
    <2>5. QED BY <2>3, <2>4
  <1> HIDE DEF g
  <1>6. QED BY <1>5 DEF LoopOn

LEMMA LoopExists ==
  ASSUME NEW r \in Requests, NEW q, NEW T, NEW k \in Nat
  PROVE  \E f : LoopOn(f, r, q, T, k)
  <1> DEFINE Q == {n \in Nat : ~ \E f : LoopOn(f, r, q, T, n)}
  <1>1. SUFFICES ASSUME Q # {} PROVE FALSE
    OBVIOUS
  <1>2. PICK n \in Q : \A m \in Q : n <= m
    <2>1. Q \in SUBSET Nat
      OBVIOUS
    <2> HIDE DEF Q
    <2>2. QED BY <1>1, <2>1, NatHasLeast
  <1>3. CASE n = 0
    <2>1. LoopOn([X \in {} |-> NoRoute], r, q, T, 0)
      BY LeavingWhole DEF LoopOn
    <2>2. QED BY <1>2, <1>3, <2>1
  <1>4. CASE n # 0
    <2>1. n - 1 \in Nat /\ (n - 1) + 1 = n
      BY <1>4
    <2>2. n - 1 \notin Q
      BY <1>2, <2>1
    <2>3. PICK f : LoopOn(f, r, q, T, n - 1)
      BY <2>1, <2>2
    <2>4. \E g : LoopOn(g, r, q, T, (n - 1) + 1)
      BY <2>1, <2>3, LoopExtends
    <2>5. QED BY <1>2, <2>1, <2>4
  <1>5. QED BY <1>3, <1>4

(* Rerun is that function: it follows one blame after another.               *)
LEMMA RerunUnfolds ==
  ASSUME NEW r \in Requests, NEW q, NEW T, NEW X \in SUBSET Solvers
  PROVE  Rerun(r, q, T)[X] = Onward(Rerun(r, q, T), r, q, T, X)
  <1> DEFINE loop == CHOOSE f : f = [Y \in SUBSET Solvers |-> Onward(f, r, q, T, Y)]
  <1>1. \E f : f = [Y \in SUBSET Solvers |-> Onward(f, r, q, T, Y)]
    <2> DEFINE k == Cardinality(Solvers) + 1
    <2>1. k \in Nat /\ Leaving(k) = SUBSET Solvers
      BY LeavingWhole
    <2> HIDE DEF k
    <2>2. PICK f : LoopOn(f, r, q, T, k)
      BY <2>1, LoopExists
    <2>3. QED BY <2>1, <2>2 DEF LoopOn
  <1>2. loop = [Y \in SUBSET Solvers |-> Onward(loop, r, q, T, Y)]
    BY <1>1
  <1>3. Rerun(r, q, T) = loop
    BY DEF Rerun, Onward
  <1>4. loop[X] = Onward(loop, r, q, T, X)
    <2> DEFINE h == [Y \in SUBSET Solvers |-> Onward(loop, r, q, T, Y)]
    <2>1. h[X] = Onward(loop, r, q, T, X)
      OBVIOUS
    <2>2. loop = h
      BY <1>2
    <2> HIDE DEF h, loop
    <2>3. QED BY <2>1, <2>2
  <1> HIDE DEF loop
  <1>5. QED BY <1>3, <1>4

(* A route nobody can be blamed for is where the loop stays.                 *)
LEMMA LoopStays ==
  ASSUME NEW r \in Requests, NEW q, NEW T, NEW X \in SUBSET Solvers,
         Planned[r][X] # NoRoute, Blamable(r, Planned[r][X], T) = {}
  PROVE  Rerun(r, q, T)[X] = Planned[r][X]
  <1>1. Rerun(r, q, T)[X] = Onward(Rerun(r, q, T), r, q, T, X)
    BY RerunUnfolds
  <1>2. QED BY <1>1 DEF Onward

(* Where a route fails in one way only, a call that is past that failure is  *)
(* where a call from scratch gets to.                                        *)
LEMMA LoopGoesOn ==
  ASSUME OneWayToFail, NEW r \in Requests, NEW q, NEW T \in SUBSET Tools,
         NEW X \in SUBSET Solvers, NEW s, q.fallback, Planned[r][X] # NoRoute,
         s \in Blamable(r, Planned[r][X], T)
  PROVE  Rerun(r, q, T)[X \cup {s}] = Rerun(r, q, T)[X]
  <1> DEFINE b == CHOOSE t \in Blamable(r, Planned[r][X], T) : TRUE
  <1>1. b \in Blamable(r, Planned[r][X], T)
    OBVIOUS
  <1>2. Planned[r][X] \in Routes
    BY ConstantsAssumption
  <1>3. b = s
    BY <1>1, <1>2 DEF OneWayToFail
  <1>4. Rerun(r, q, T)[X] = Rerun(r, q, T)[X \cup {b}]
    BY RerunUnfolds DEF Onward
  <1> HIDE DEF b
  <1>5. QED BY <1>3, <1>4

(* The cache key holds no policy: policies in use fall back alike.           *)
PoliciesAlike == \A p, q \in Policies : p.fallback = q.fallback

LEMMA LoopsAlike ==
  ASSUME PoliciesAlike, NEW p \in Policies, NEW q \in Policies, NEW r, NEW T
  PROVE  Rerun(r, p, T) = Rerun(r, q, T)
  <1>1. p.fallback = q.fallback
    BY DEF PoliciesAlike
  <1>2. QED BY <1>1 DEF Rerun

(* A call's exclusions are some that the loop from scratch comes through; the *)
(* steps it has run pass; its hit is where the loop stays.                   *)
OnTrack(c) ==
  LET fresh == Rerun(req[c], policy[c], tools) IN
  /\ Running(c) => fresh[excluded[c]] = fresh[{}]
  /\ pc[c] = "lookup" => pos[c] = 1
  /\ pc[c] = "execute" => \A i \in 1..(pos[c] - 1) : Passes(req[c], route[c][i], tools)
  /\ answer[c].hit => answer[c].route = fresh[{}]

(* An entry is where the loop stays for each request whose key reaches it.   *)
EntriesRerun ==
  \A r \in Requests, rt \in Routes, q \in Policies :
    LET e == cache[CacheKey(r, rt)] IN e # NoEntry => e.route = Rerun(r, q, tools)[{}]

RerunInv == (\A c \in Clients : OnTrack(c)) /\ EntriesRerun

(* A client nobody touches stays on track.                                   *)
LEMMA OthersOnTrack ==
  ASSUME NEW d \in Clients, OnTrack(d), tools' = tools,
         pc'[d] = pc[d], req'[d] = req[d], policy'[d] = policy[d],
         excluded'[d] = excluded[d], route'[d] = route[d], pos'[d] = pos[d],
         answer'[d] = answer[d]
  PROVE  OnTrack(d)'
  BY DEF OnTrack, Running

(* A step whose solver fails makes it the one to blame.                      *)
LEMMA StepBlames ==
  ASSUME BlameInv, NEW c \in Clients, OnTrack(c), StepFails(c)
  PROVE  route[c][pos[c]] \in Blamable(req[c], route[c], tools)
  <1>1. pos[c] \in DOMAIN route[c] /\ pc[c] = "execute" /\ pos[c] \in Nat
    BY ConstantsAssumption DEF BlameInv, TypeInv, TypeOK, RouteInHand, StepFails
  <1>2. \A i \in 1..(pos[c] - 1) : Passes(req[c], route[c][i], tools)
    BY <1>1 DEF OnTrack
  <1>3. MayFail(req[c], route[c][pos[c]], tools)
    BY DEF StepFails, Installed, MayFail
  <1>4. QED BY <1>1, <1>2, <1>3 DEF Blamable

(* At the end of a route every step has passed.                              *)
LEMMA WholeAtEnd ==
  ASSUME BlameInv, NEW c \in Clients, OnTrack(c), pc[c] = "execute",
         pos[c] > Len(route[c])
  PROVE  PassesWhole(req[c], route[c], tools)
  <1>1. route[c] \in Seq(Solvers) /\ pos[c] \in Nat
    BY ConstantsAssumption DEF BlameInv, TypeInv, TypeOK, RouteInHand
  <1>2. \A i \in 1..(pos[c] - 1) : Passes(req[c], route[c][i], tools)
    BY DEF OnTrack
  <1>3. \A i \in DOMAIN route[c] : i \in 1..(pos[c] - 1)
    BY <1>1
  <1>4. QED BY <1>2, <1>3 DEF PassesWhole

(* A failure for which s is to blame leaves the call on track.               *)
LEMMA FailOnTrack ==
  ASSUME OneWayToFail, BlameInv, NEW c \in Clients, OnTrack(c), pc[c] = "execute",
         NEW s \in Blamable(req[c], route[c], tools), NEW err, Fail(c, s, err),
         req' = req, policy' = policy, tools' = tools
  PROVE  OnTrack(c)'
  <1>1. /\ req[c] \in Requests /\ excluded[c] \in SUBSET Solvers /\ tools \in SUBSET Tools
        /\ route[c] = Planned[req[c]][excluded[c]] /\ route[c] # NoRoute
    BY ConstantsAssumption DEF BlameInv, TypeInv, TypeOK, RoutePlanned, RouteInHand
  <1>2. CASE policy[c].fallback
    <2>1. /\ excluded'[c] = excluded[c] \cup {s} /\ pc'[c] = "plan"
          /\ answer' = answer
      BY <1>2 DEF Fail, Exclude, BlameInv, TypeInv, TypeOK
    <2> DEFINE r == req[c]  q == policy[c]  X == excluded[c]
    <2>2. /\ r \in Requests /\ q.fallback /\ X \in SUBSET Solvers /\ tools \in SUBSET Tools
          /\ Planned[r][X] # NoRoute /\ s \in Blamable(r, Planned[r][X], tools)
      BY <1>1, <1>2, Zenon
    <2> HIDE DEF r, q, X
    <2>3. Rerun(r, q, tools)[X \cup {s}] = Rerun(r, q, tools)[X]
      BY <2>2, LoopGoesOn
    <2> USE DEF r, q, X
    <2>4. QED BY <2>1, <2>3 DEF OnTrack, Running
  <1>3. CASE ~ policy[c].fallback
    <2>1. pc'[c] = "done" /\ ~ answer'[c].hit
      BY <1>3 DEF Fail, Return, Error, BlameInv, TypeInv, TypeOK
    <2>2. QED BY <2>1 DEF OnTrack, Running
  <1>4. QED BY <1>2, <1>3

(* What a call stores is where the loop stays from scratch.                  *)
LEMMA StoredReran ==
  ASSUME OneWayToFail, BlameInv, NEW c \in Clients, OnTrack(c), Succeed(c),
         Cacheable(route[c])
  PROVE  route[c] = Rerun(req[c], policy[c], tools)[{}]
  <1> USE DEF BlameInv, TypeInv, TypeOK
  <1>1. /\ req[c] \in Requests /\ excluded[c] \in SUBSET Solvers /\ tools \in SUBSET Tools
        /\ route[c] = Planned[req[c]][excluded[c]] /\ route[c] \in Routes /\ route[c] # NoRoute
        /\ pc[c] = "execute"
    BY ConstantsAssumption DEF RoutePlanned, RouteInHand, Succeed
  <1>2. PassesWhole(req[c], route[c], tools)
    BY <1>1, WholeAtEnd DEF Succeed
  <1>3. \E e \in Realized[req[c]][route[c]] : WithinBudget(req[c], e)
    BY DEF Succeed
  <1>4. Blamable(req[c], route[c], tools) = {}
    BY <1>1, <1>2, <1>3 DEF OneWayToFail
  <1>5. Rerun(req[c], policy[c], tools)[excluded[c]] = route[c]
    <2> DEFINE r == req[c]  q == policy[c]  X == excluded[c]
    <2>1. /\ r \in Requests /\ X \in SUBSET Solvers
          /\ Planned[r][X] # NoRoute /\ Blamable(r, Planned[r][X], tools) = {}
      BY <1>1, <1>4, Zenon
    <2> HIDE DEF r, q, X
    <2>2. Rerun(r, q, tools)[X] = Planned[r][X]
      BY <2>1, LoopStays
    <2> USE DEF r, q, X
    <2>3. QED BY <1>1, <2>2
  <1>6. QED BY <1>1, <1>5 DEF OnTrack, Running

(* Every step keeps the calls on track and the entries where the loop stays, *)
(* while no tool comes or goes.                                              *)
LEMMA RerunStep ==
  ASSUME OneWayToFail, PoliciesAlike, MaxToolChanges = 0, BlameInv, RerunInv, [Next]_vars
  PROVE  RerunInv'
  <1> DEFINE Still(d) == /\ pc'[d] = pc[d] /\ req'[d] = req[d] /\ policy'[d] = policy[d]
                         /\ excluded'[d] = excluded[d] /\ route'[d] = route[d]
                         /\ pos'[d] = pos[d] /\ answer'[d] = answer[d]
  <1>0. TypeOK
    BY DEF BlameInv, TypeInv
  <1>a. ASSUME tools' = tools, cache' = cache, NEW c \in Clients,
               \A d \in Clients \ {c} : Still(d), OnTrack(c)'
        PROVE  RerunInv'
    <2>1. ASSUME NEW d \in Clients PROVE OnTrack(d)'
      <3>1. CASE d = c
        BY <1>a, <3>1
      <3>2. CASE d # c
        BY <1>a, <3>2, OthersOnTrack DEF RerunInv
      <3>3. QED BY <3>1, <3>2
    <2>2. EntriesRerun'
      BY <1>a DEF RerunInv, EntriesRerun
    <2>3. QED BY <2>1, <2>2 DEF RerunInv
  <1>1. ASSUME NEW c \in Clients, NEW r \in Requests, NEW q \in Policies, Call(c, r, q)
        PROVE  RerunInv'
    <2>1. /\ tools' = tools /\ cache' = cache
          /\ \A d \in Clients \ {c} : Still(d)
          /\ excluded'[c] = {} /\ pc'[c] = "plan" /\ ~ answer'[c].hit
      BY <1>0, <1>1 DEF Call, TypeOK, world, NoAnswer
    <2>2. OnTrack(c)'
      BY <2>1 DEF OnTrack
    <2>3. QED BY <1>a, <2>1, <2>2
  <1>2. ASSUME NEW c \in Clients, PlanRoute(c) PROVE RerunInv'
    <2>1. /\ tools' = tools /\ cache' = cache
          /\ \A d \in Clients \ {c} : Still(d)
          /\ excluded' = excluded /\ req' = req /\ policy' = policy /\ answer' = answer
          /\ pc[c] = "plan" /\ pos'[c] = 1
      BY <1>0, <1>2 DEF PlanRoute, TypeOK, world
    <2>2. 1..(1 - 1) = {}
      OBVIOUS
    <2>3. OnTrack(c)'
      BY <2>1, <2>2 DEF RerunInv, OnTrack, Running
    <2>4. QED BY <1>a, <2>1, <2>3
  <1>3. ASSUME NEW c \in Clients, PlanFails(c) PROVE RerunInv'
    <2>1. /\ tools' = tools /\ cache' = cache
          /\ \A d \in Clients \ {c} : Still(d)
          /\ pc'[c] = "done" /\ ~ answer'[c].hit
      BY <1>0, <1>3 DEF PlanFails, Return, Error, TypeOK, world
    <2>2. OnTrack(c)'
      BY <2>1 DEF OnTrack, Running
    <2>3. QED BY <1>a, <2>1, <2>2
  <1>4. ASSUME NEW c \in Clients, LookupHit(c) PROVE RerunInv'
    <2> DEFINE e == cache[CacheKey(req[c], route[c])]
    <2>1. /\ tools' = tools /\ cache' = cache
          /\ \A d \in Clients \ {c} : Still(d)
          /\ req' = req /\ policy' = policy
          /\ pc'[c] = "done" /\ answer'[c].route = e.route
      BY <1>0, <1>4 DEF LookupHit, Return, TypeOK, world
    <2>2. /\ e # NoEntry /\ req[c] \in Requests /\ route[c] \in Routes
          /\ policy[c] \in Policies
      BY <1>4 DEF LookupHit, Hit, BlameInv, TypeInv, TypeOK, RouteInHand
    <2>3. e.route = Rerun(req[c], policy[c], tools)[{}]
      BY <2>2 DEF RerunInv, EntriesRerun
    <2>4. OnTrack(c)'
      BY <2>1, <2>3 DEF OnTrack, Running
    <2>5. QED BY <1>a, <2>1, <2>4
  <1>5. ASSUME NEW c \in Clients, LookupMiss(c) PROVE RerunInv'
    \* Execution starts at the first step, whichever way it is entered.
    <2>1. /\ tools' = tools /\ cache' = cache
          /\ \A d \in Clients \ {c} : Still(d)
          /\ req' = req /\ policy' = policy /\ excluded' = excluded /\ answer' = answer
          /\ pos'[c] = 1 /\ pc[c] = "lookup"
      BY <1>0, <1>5 DEF LookupMiss, TypeOK, world, RerunInv, OnTrack
    <2>2. 1..(1 - 1) = {}
      OBVIOUS
    <2>3. OnTrack(c)'
      BY <2>1, <2>2 DEF RerunInv, OnTrack, Running
    <2>4. QED BY <1>a, <2>1, <2>3
  <1>6. ASSUME NEW c \in Clients, StepSucceeds(c) PROVE RerunInv'
    <2>1. /\ tools' = tools /\ cache' = cache
          /\ \A d \in Clients \ {c} : Still(d)
          /\ req' = req /\ policy' = policy /\ excluded' = excluded /\ answer' = answer
          /\ route' = route /\ pc' = pc
          /\ pos'[c] = pos[c] + 1 /\ pos[c] \in Nat /\ pc[c] = "execute"
      BY <1>0, <1>6 DEF StepSucceeds, TypeOK, world
    <2>2. Passes(req[c], route[c][pos[c]], tools)
      BY <1>6 DEF StepSucceeds, Passes, Installed
    <2>3. \A i \in 1..(pos'[c] - 1) : Passes(req[c], route[c][i], tools)
      <3>1. \A i \in 1..(pos'[c] - 1) : i \in 1..(pos[c] - 1) \/ i = pos[c]
        BY <2>1
      <3>2. \A i \in 1..(pos[c] - 1) : Passes(req[c], route[c][i], tools)
        BY <2>1 DEF RerunInv, OnTrack
      <3>3. QED BY <2>2, <3>1, <3>2
    <2>4. OnTrack(c)'
      BY <2>1, <2>3 DEF RerunInv, OnTrack, Running
    <2>5. QED BY <1>a, <2>1, <2>4
  <1>7. ASSUME NEW c \in Clients, NEW s \in Blamable(req[c], route[c], tools),
               NEW err, Fail(c, s, err), pc[c] = "execute",
               UNCHANGED <<req, policy, route, pos, calls, cache, world>>
        PROVE  RerunInv'
    <2>1. /\ tools' = tools /\ cache' = cache /\ req' = req /\ policy' = policy
          /\ \A d \in Clients \ {c} : Still(d)
      BY <1>0, <1>7 DEF Fail, Return, TypeOK, world
    <2>2. OnTrack(c)'
      BY <1>7, <2>1, FailOnTrack DEF RerunInv
    <2>3. QED BY <1>a, <2>1, <2>2
  <1>8. ASSUME NEW c \in Clients, StepFails(c) PROVE RerunInv'
    <2>1. route[c][pos[c]] \in Blamable(req[c], route[c], tools)
      BY <1>8, StepBlames DEF RerunInv
    <2>2. \E err : Fail(c, route[c][pos[c]], err)
      BY <1>8 DEF StepFails
    <2>3. QED BY <1>7, <1>8, <2>1, <2>2 DEF StepFails
  <1>9. ASSUME NEW c \in Clients, Succeed(c) PROVE RerunInv'
    <2>1. PICK x \in Realized[req[c]][route[c]] :
            /\ Return(c, [kind |-> "solution", route |-> route[c], realized |-> x,
                          attempts |-> attempts[c], hit |-> FALSE])
            /\ cache' = IF policy[c].cache /\ Cacheable(route[c])
                          THEN [cache EXCEPT ![CacheKey(req[c], route[c])] =
                                  [route |-> route[c], realized |-> x, attempts |-> attempts[c]]]
                          ELSE cache
      BY <1>9 DEF Succeed
    <2>2. /\ tools' = tools
          /\ \A d \in Clients \ {c} : Still(d)
          /\ pc'[c] = "done" /\ ~ answer'[c].hit
      BY <1>0, <1>9, <2>1 DEF Succeed, Return, TypeOK, world
    <2>3. \A d \in Clients : OnTrack(d)'
      <3>1. OnTrack(c)'
        BY <2>2 DEF OnTrack, Running
      <3>2. \A d \in Clients \ {c} : OnTrack(d)'
        BY <2>2, OthersOnTrack DEF RerunInv
      <3>3. QED BY <3>1, <3>2
    <2>4. ASSUME NEW r \in Requests, NEW rt \in Routes, NEW q \in Policies,
                 cache'[CacheKey(r, rt)] # NoEntry
          PROVE  cache'[CacheKey(r, rt)].route = Rerun(r, q, tools)[{}]
      <3>1. CASE cache'[CacheKey(r, rt)] = cache[CacheKey(r, rt)]
        BY <2>4, <3>1 DEF RerunInv, EntriesRerun
      <3>2. CASE cache'[CacheKey(r, rt)] # cache[CacheKey(r, rt)]
        <4>1. CacheKey(r, rt) \in CacheKeys
          BY DEF CacheKeys
        <4>2. /\ CacheKey(r, rt) = CacheKey(req[c], route[c])
              /\ cache'[CacheKey(r, rt)].route = route[c] /\ Cacheable(route[c])
          BY <1>0, <2>1, <3>2, <4>1 DEF TypeOK
        <4>3. req[c] \in Requests /\ route[c] \in Routes /\ policy[c] \in Policies
          BY <1>9 DEF Succeed, BlameInv, TypeInv, TypeOK, RouteInHand
        <4>4. r = req[c]
          BY <4>2, <4>3, KeyNamesRequest
        <4>5. route[c] = Rerun(req[c], policy[c], tools)[{}]
          BY <1>9, <4>2, StoredReran DEF RerunInv
        <4>6. Rerun(r, policy[c], tools) = Rerun(r, q, tools)
          BY <4>3, LoopsAlike
        <4>7. QED BY <4>2, <4>4, <4>5, <4>6
      <3>3. QED BY <3>1, <3>2
    <2>5. EntriesRerun'
      BY <2>2, <2>4 DEF EntriesRerun
    <2>6. QED BY <2>3, <2>5 DEF RerunInv
  <1>10. ASSUME NEW c \in Clients, BudgetExceeded(c) PROVE RerunInv'
    <2>1. route[c] \in Seq(Solvers) /\ pc[c] = "execute" /\ pos[c] > Len(route[c])
      BY <1>10, ConstantsAssumption
         DEF BudgetExceeded, BlameInv, TypeInv, TypeOK, RouteInHand
    <2>2. CASE route[c] # <<>>
      <3> DEFINE n == Len(route[c])
      <3>1. n \in DOMAIN route[c]
        BY <2>1, <2>2
      <3>2. PassesWhole(req[c], route[c], tools)
        BY <2>1, WholeAtEnd DEF RerunInv
      <3>3. \E e \in Realized[req[c]][route[c]] : ~ WithinBudget(req[c], e)
        BY <1>10 DEF BudgetExceeded
      <3>4. route[c][n] \in Blamable(req[c], route[c], tools)
        BY <3>1, <3>2, <3>3 DEF Blamable
      <3>5. Fail(c, route[c][n], "BudgetExceeded")
        BY <1>10, <2>2 DEF BudgetExceeded
      <3>6. QED BY <1>7, <1>10, <2>1, <3>4, <3>5 DEF BudgetExceeded
    <2>3. CASE route[c] = <<>>
      <3>1. /\ tools' = tools /\ cache' = cache
            /\ \A d \in Clients \ {c} : Still(d)
            /\ pc'[c] = "done" /\ ~ answer'[c].hit
        BY <1>0, <1>10, <2>3 DEF BudgetExceeded, Return, Error, TypeOK, world
      <3>2. OnTrack(c)'
        BY <3>1 DEF OnTrack, Running
      <3>3. QED BY <1>a, <3>1, <3>2
    <2>4. QED BY <2>2, <2>3
  <1>11. ASSUME NEW t \in Tools, ToolChange(t) PROVE FALSE
    BY <1>0, <1>11 DEF ToolChange, TypeOK
  <1>12. CASE UNCHANGED vars
    <2>1. tools' = tools /\ cache' = cache /\ \A d \in Clients : Still(d)
      BY <1>12 DEF vars, local, world
    <2>2. \A d \in Clients : OnTrack(d)'
      BY <2>1, OthersOnTrack DEF RerunInv
    <2>3. EntriesRerun'
      BY <2>1 DEF RerunInv, EntriesRerun
    <2>4. QED BY <2>2, <2>3 DEF RerunInv
  <1>13. QED
    BY <1>1, <1>2, <1>3, <1>4, <1>5, <1>6, <1>8, <1>9, <1>10, <1>11, <1>12 DEF Next, Step

(* FINV-7, "a hit must equal a recompute": while no tool comes or goes and   *)
(* routes fail in one way, the route of a hit is the one the reroute loop    *)
(* would stay with without a cache, even where settings digests collide, if  *)
(* the policies in use fall back alike: the key holds no policy.             *)
THEOREM HitsAreRecomputes ==
  ASSUME OneWayToFail, PoliciesAlike, MaxToolChanges = 0
  PROVE  Spec => []HitEqualsRecompute
  <1>1. Init => BlameInv /\ RerunInv
    <2> SUFFICES ASSUME Init PROVE BlameInv /\ RerunInv
      OBVIOUS
    <2>1. BlameInv
      BY InitTypeInv DEF Init, BlameInv, TrailReconstructsReroutes, TrailOK, Running,
                         NoAnswer, RoutePlanned, NoSolverBlamedTwice
    <2>2. \A c \in Clients : OnTrack(c)
      BY DEF Init, OnTrack, Running, NoAnswer
    <2>3. EntriesRerun
      BY DEF Init, EntriesRerun, CacheKeys
    <2>4. QED BY <2>1, <2>2, <2>3 DEF RerunInv
  <1>2. BlameInv /\ [Next]_vars => BlameInv'
    BY TypeStep, TrailStep, BlameStep DEF BlameInv
  <1>3. BlameInv /\ RerunInv /\ [Next]_vars => RerunInv'
    BY RerunStep
  <1>4. RerunInv => HitEqualsRecompute
    BY DEF RerunInv, OnTrack, HitEqualsRecompute
  <1>5. QED BY <1>1, <1>2, <1>3, <1>4, PTL DEF Spec

----------------------------------------------------------------------------
(* A call comes closer to its end with each step. *)

(* What a running call has before it: the solvers not yet blamed, the stages *)
(* of this round of the loop, the steps of the route and its budget check.   *)
Stages == [plan |-> 2, lookup |-> 1, execute |-> 0]
StepsLeft(c) == IF pc[c] = "execute" THEN Len(route[c]) + 1 - pos[c] ELSE 0
Ahead(c) == <<Cardinality(Solvers \ excluded[c]), Stages[pc[c]], StepsLeft(c)>>

(* Less work, compared as words are.                                         *)
Less(v, w) ==
  \/ v[1] < w[1]
  \/ v[1] = w[1] /\ v[2] < w[2]
  \/ v[1] = w[1] /\ v[2] = w[2] /\ v[3] < w[3]

(* What belongs to one call.                                                 *)
Own(c) == <<pc[c], req[c], policy[c], excluded[c], attempts[c], route[c], pos[c],
            answer[c], calls[c]>>

(* "Iteration count is bounded by the registry's solver count" (solve.py),   *)
(* as a descent: whatever the tools and the other clients do, a step of a    *)
(* running call ends it or leaves it less to do, in an order without         *)
(* infinite descent.                                                         *)
CallsComeCloser ==
  [][\A c \in Clients : Running(c) =>
       /\ Ahead(c) \in Nat \X Nat \X Nat
       /\ \/ pc'[c] = "done"
          \/ Running(c)' /\ Less(Ahead(c)', Ahead(c))
          \/ Own(c)' = Own(c)]_vars

(* A client is never further than behind the last step of its route.         *)
PosFits ==
  \A c \in Clients : pc[c] \in {"lookup", "execute"} => pos[c] <= Len(route[c]) + 1

DescentInv == BlameInv /\ PosFits

Descends(c) ==
  \/ pc'[c] = "done"
  \/ Running(c)' /\ Less(Ahead(c)', Ahead(c))
  \/ Own(c)' = Own(c)

(* The measure of a running call is made of naturals.                        *)
LEMMA AheadIsNat ==
  ASSUME DescentInv, NEW c \in Clients, Running(c)
  PROVE  Ahead(c) \in Nat \X Nat \X Nat
  <1>1. excluded[c] \in SUBSET Solvers /\ pc[c] \in {"plan", "lookup", "execute"}
    BY DEF DescentInv, BlameInv, TypeInv, TypeOK, Running
  <1>2. Cardinality(Solvers \ excluded[c]) \in Nat
    BY <1>1, LeavingWhole
  <1>3. Stages[pc[c]] \in Nat
    BY <1>1 DEF Stages
  <1>4. StepsLeft(c) \in Nat
    <2>1. CASE pc[c] = "execute"
      <3>1. route[c] \in Seq(Solvers) /\ pos[c] \in Nat \ {0}
        BY <2>1, ConstantsAssumption
           DEF DescentInv, BlameInv, TypeInv, TypeOK, RouteInHand
      <3>2. pos[c] <= Len(route[c]) + 1
        BY <2>1 DEF DescentInv, PosFits
      <3>3. Len(route[c]) \in Nat
        BY <3>1
      <3>4. QED BY <2>1, <3>1, <3>2, <3>3 DEF StepsLeft
    <2>2. QED BY <2>1 DEF StepsLeft
  <1>5. QED BY <1>2, <1>3, <1>4 DEF Ahead

(* Blaming a step of the planned route ends the call or leaves a solver less.*)
LEMMA FailDescends ==
  ASSUME DescentInv, NEW c \in Clients, pc[c] = "execute",
         NEW i \in DOMAIN route[c], NEW err \in Errors, Fail(c, route[c][i], err)
  PROVE  Descends(c)
  <1> DEFINE s == route[c][i]
  <1>1. /\ TypeOK /\ route[c] \in Routes /\ route[c] \in Seq(Solvers)
        /\ req[c] \in Requests /\ excluded[c] \in SUBSET Solvers
    BY ConstantsAssumption DEF DescentInv, BlameInv, TypeInv, TypeOK, RouteInHand
  <1>2. route[c] = Planned[req[c]][excluded[c]] /\ route[c] # NoRoute
    BY <1>1, ConstantsAssumption DEF DescentInv, BlameInv, RoutePlanned
  <1>3. s \in Solvers \ excluded[c]
    BY <1>1, <1>2, PlannerAvoidsExcluded
  <1>4. CASE ~ policy[c].fallback
    BY <1>1, <1>4 DEF Fail, Return, TypeOK, Descends
  <1>5. CASE policy[c].fallback
    <2>1. excluded'[c] = excluded[c] \cup {s} /\ pc'[c] = "plan"
      BY <1>1, <1>5 DEF Fail, Exclude, TypeOK
    <2>2. PICK n \in Nat : n = Cardinality(Solvers \ excluded[c])
      BY <1>1, LeavingWhole
    <2>3. excluded[c] \in Leaving(n + 1)
      <3>1. Cardinality(Solvers \ excluded[c]) < n + 1
        BY <2>2
      <3>2. QED BY <1>1, <3>1 DEF Leaving
    <2> HIDE DEF s
    <2>4. excluded'[c] \in Leaving(n)
      BY <1>1, <1>3, <2>1, <2>2, <2>3, OneLess
    <2>5. Cardinality(Solvers \ excluded'[c]) < n
      BY <2>4 DEF Leaving
    <2>6. Ahead(c)'[1] < Ahead(c)[1]
      BY <2>2, <2>5 DEF Ahead
    <2>7. QED BY <2>1, <2>6 DEF Descends, Less, Running
  <1>6. QED BY <1>4, <1>5

(* A client nobody touches keeps what is its own.                            *)
LEMMA OthersStay ==
  ASSUME NEW d \in Clients, pc'[d] = pc[d], req'[d] = req[d],
         policy'[d] = policy[d], excluded'[d] = excluded[d],
         attempts'[d] = attempts[d], route'[d] = route[d], pos'[d] = pos[d],
         answer'[d] = answer[d], calls'[d] = calls[d]
  PROVE  Descends(d)
  BY DEF Descends, Own

(* A step of a call concerns no other.                                       *)
LEMMA StepIsLocal ==
  ASSUME TypeOK, NEW c \in Clients, NEW d \in Clients, d # c,
         Step(c) \/ \E r \in Requests, q \in Policies : Call(c, r, q)
  PROVE  Descends(d)
  <1> USE DEF TypeOK
  <1>1. CASE \E r \in Requests, q \in Policies : Call(c, r, q)
    BY <1>1, OthersStay DEF Call
  <1>2. CASE PlanRoute(c) \/ LookupMiss(c) \/ StepSucceeds(c)
    BY <1>2, OthersStay DEF PlanRoute, LookupMiss, StepSucceeds
  <1>3. CASE PlanFails(c) \/ LookupHit(c) \/ Succeed(c)
    BY <1>3, OthersStay DEF PlanFails, LookupHit, Succeed, Return
  <1>4. CASE StepFails(c)
    BY <1>4, OthersStay DEF StepFails, Fail, Return
  <1>5. CASE BudgetExceeded(c)
    BY <1>5, OthersStay DEF BudgetExceeded, Fail, Return
  <1>6. QED BY <1>1, <1>2, <1>3, <1>4, <1>5 DEF Step

(* Each step of a running call ends it or leaves it less to do.              *)
LEMMA StepDescends ==
  ASSUME DescentInv, NEW c \in Clients, Step(c)
  PROVE  Descends(c)
  <1> USE DEF DescentInv, BlameInv, TypeInv
  <1>1. CASE PlanRoute(c)
    <2>1. /\ pc[c] = "plan" /\ pc'[c] \in {"lookup", "execute"}
          /\ excluded'[c] = excluded[c]
      BY <1>1 DEF PlanRoute, TypeOK
    <2>2. Ahead(c)'[1] = Ahead(c)[1] /\ Ahead(c)'[2] < Ahead(c)[2]
      BY <2>1 DEF Ahead, Stages
    <2>3. QED BY <2>1, <2>2 DEF Descends, Less, Running
  <1>2. CASE PlanFails(c) \/ LookupHit(c) \/ Succeed(c)
    BY <1>2 DEF PlanFails, LookupHit, Succeed, Return, TypeOK, Descends
  <1>3. CASE LookupMiss(c)
    <2>1. pc[c] = "lookup" /\ pc'[c] = "execute" /\ excluded'[c] = excluded[c]
      BY <1>3 DEF LookupMiss, TypeOK
    <2>2. Ahead(c)'[1] = Ahead(c)[1] /\ Ahead(c)'[2] < Ahead(c)[2]
      BY <2>1 DEF Ahead, Stages
    <2>3. QED BY <2>1, <2>2 DEF Descends, Less, Running
  <1>4. CASE StepSucceeds(c)
    <2>1. /\ pc[c] = "execute" /\ pc'[c] = "execute" /\ excluded'[c] = excluded[c]
          /\ route'[c] = route[c] /\ pos'[c] = pos[c] + 1 /\ pos[c] \in Nat
      BY <1>4 DEF StepSucceeds, TypeOK
    <2>2. Len(route[c]) \in Nat
      BY <2>1, ConstantsAssumption DEF RouteInHand
    <2>3. StepsLeft(c)' < StepsLeft(c)
      BY <2>1, <2>2 DEF StepsLeft
    <2>4. /\ Ahead(c)'[1] = Ahead(c)[1] /\ Ahead(c)'[2] = Ahead(c)[2]
          /\ Ahead(c)'[3] < Ahead(c)[3]
      BY <2>1, <2>3 DEF Ahead
    <2>5. QED BY <2>1, <2>4 DEF Descends, Less, Running
  <1>5. CASE StepFails(c)
    <2>1. pc[c] = "execute" /\ pos[c] \in DOMAIN route[c]
      BY <1>5, ConstantsAssumption DEF StepFails, TypeOK, RouteInHand
    <2>2. PICK err \in Errors : Fail(c, route[c][pos[c]], err)
      BY <1>5 DEF StepFails, Errors
    <2>3. QED BY <2>1, <2>2, FailDescends
  <1>6. CASE BudgetExceeded(c)
    <2>1. pc[c] = "execute" /\ route[c] \in Seq(Solvers)
      BY <1>6, ConstantsAssumption DEF BudgetExceeded, RouteInHand
    <2>2. CASE route[c] # <<>>
      <3>1. Len(route[c]) \in DOMAIN route[c]
        BY <2>1, <2>2
      <3>2. Fail(c, route[c][Len(route[c])], "BudgetExceeded")
        BY <1>6, <2>2 DEF BudgetExceeded
      <3>3. QED BY <2>1, <3>1, <3>2, FailDescends DEF Errors
    <2>3. CASE route[c] = <<>>
      BY <1>6, <2>3 DEF BudgetExceeded, Return, TypeOK, Descends
    <2>4. QED BY <2>2, <2>3
  <1>7. QED BY <1>1, <1>2, <1>3, <1>4, <1>5, <1>6 DEF Step

(* No client gets past the end of its route.                                 *)
LEMMA PosStep == DescentInv /\ [Next]_vars => PosFits'
  <1> SUFFICES ASSUME DescentInv, [Next]_vars, NEW d \in Clients,
                      pc'[d] \in {"lookup", "execute"}
               PROVE  pos'[d] <= Len(route'[d]) + 1
    BY DEF PosFits
  <1> USE DEF DescentInv, BlameInv, TypeInv
  <1>1. CASE pc[d] \in {"lookup", "execute"} /\ pos'[d] = pos[d] /\ route'[d] = route[d]
    BY <1>1 DEF PosFits
  <1>2. CASE pos'[d] = 1 /\ route'[d] \in Routes
    <2>1. Len(route'[d]) \in Nat
      BY <1>2, ConstantsAssumption
    <2>2. QED BY <1>2, <2>1
  <1>3. CASE UNCHANGED vars
    BY <1>1, <1>3 DEF vars, local
  <1>4. ASSUME NEW c \in Clients, NEW r \in Requests, NEW q \in Policies, Call(c, r, q)
        PROVE  pos'[d] <= Len(route'[d]) + 1
    BY <1>1, <1>4 DEF Call, TypeOK
  <1>5. ASSUME NEW c \in Clients, Step(c)
        PROVE  pos'[d] <= Len(route'[d]) + 1
    <2>1. CASE PlanRoute(c)
      BY <1>1, <1>2, <2>1, ConstantsAssumption DEF PlanRoute, TypeOK
    <2>2. CASE PlanFails(c) \/ LookupHit(c) \/ Succeed(c)
      BY <1>1, <2>2 DEF PlanFails, LookupHit, Succeed, Return, TypeOK
    <2>3. CASE LookupMiss(c)
      BY <1>1, <2>3 DEF LookupMiss, TypeOK
    <2>4. CASE StepSucceeds(c)
      <3>1. CASE d # c
        BY <1>1, <2>4, <3>1 DEF StepSucceeds, TypeOK
      <3>2. CASE d = c
        <4>1. Len(route[c]) \in Nat /\ pos[c] \in Nat
          BY <2>4, ConstantsAssumption DEF StepSucceeds, RouteInHand, TypeOK
        <4>2. QED BY <2>4, <3>2, <4>1 DEF StepSucceeds, TypeOK
      <3>3. QED BY <3>1, <3>2
    <2>5. CASE StepFails(c)
      BY <1>1, <2>5 DEF StepFails, Fail, Return, TypeOK
    <2>6. CASE BudgetExceeded(c)
      BY <1>1, <2>6 DEF BudgetExceeded, Fail, Return, TypeOK
    <2>7. QED BY <1>5, <2>1, <2>2, <2>3, <2>4, <2>5, <2>6 DEF Step
  <1>6. ASSUME NEW t \in Tools, ToolChange(t)
        PROVE  pos'[d] <= Len(route'[d]) + 1
    BY <1>1, <1>6 DEF ToolChange, local
  <1>7. QED BY <1>3, <1>4, <1>5, <1>6 DEF Next

(* Each call works its way down to its answer.                               *)
THEOREM CallsDescend == Spec => CallsComeCloser
  <1>1. Init => DescentInv
    <2> SUFFICES ASSUME Init PROVE DescentInv
      OBVIOUS
    <2>1. BlameInv
      BY InitTypeInv DEF Init, BlameInv, TrailReconstructsReroutes, TrailOK, Running,
                         NoAnswer, RoutePlanned, NoSolverBlamedTwice
    <2>2. PosFits
      BY DEF Init, PosFits
    <2>3. QED BY <2>1, <2>2 DEF DescentInv
  <1>2. DescentInv /\ [Next]_vars => DescentInv'
    BY TypeStep, TrailStep, BlameStep, PosStep DEF DescentInv, BlameInv
  <1>3. DescentInv /\ [Next]_vars =>
          [\A c \in Clients : Running(c) =>
             Ahead(c) \in Nat \X Nat \X Nat /\ Descends(c)]_vars
    <2> SUFFICES ASSUME DescentInv, Next, NEW c \in Clients, Running(c)
                 PROVE  Ahead(c) \in Nat \X Nat \X Nat /\ Descends(c)
      OBVIOUS
    <2>1. Ahead(c) \in Nat \X Nat \X Nat
      BY AheadIsNat
    <2>2. TypeOK
      BY DEF DescentInv, BlameInv, TypeInv
    <2>3. ASSUME NEW d \in Clients, NEW r \in Requests, NEW q \in Policies, Call(d, r, q)
          PROVE  Descends(c)
      <3>1. d # c
        BY <2>3 DEF Call, Running
      <3>2. QED BY <2>2, <2>3, <3>1, StepIsLocal
    <2>4. ASSUME NEW d \in Clients, Step(d)
          PROVE  Descends(c)
      <3>1. CASE d = c
        BY <2>4, <3>1, StepDescends
      <3>2. CASE d # c
        BY <2>2, <2>4, <3>2, StepIsLocal
      <3>3. QED BY <3>1, <3>2
    <2>5. ASSUME NEW t \in Tools, ToolChange(t)
          PROVE  Descends(c)
      BY <2>5, OthersStay DEF ToolChange, local
    <2>6. QED BY <2>1, <2>3, <2>4, <2>5 DEF Next
  <1>4. [\A c \in Clients : Running(c) =>
           Ahead(c) \in Nat \X Nat \X Nat /\ Descends(c)]_vars =>
        [\A c \in Clients : Running(c) =>
           /\ Ahead(c) \in Nat \X Nat \X Nat
           /\ \/ pc'[c] = "done"
              \/ Running(c)' /\ Less(Ahead(c)', Ahead(c))
              \/ Own(c)' = Own(c)]_vars
    BY DEF Descends
  <1>5. QED BY <1>1, <1>2, <1>3, <1>4, PTL DEF Spec, CallsComeCloser
=============================================================================
