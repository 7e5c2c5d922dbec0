--------------------------- MODULE MCSolveFacade ---------------------------
(* Values for the constants of SolveFacade: a registry of a tool-backed       *)
(* solver "p", two plain ones "a" and "b", one that always errs "d" and a     *)
(* nondeterministic one "m", and the routes the planner ranks over them.      *)
EXTENDS SolveFacade

MCSolvers == {"a", "b", "d", "m", "p"}

Tight == [question |-> "q", budget |-> 2]
Loose == [question |-> "q", budget |-> 5]
Known == [question |-> "known", budget |-> 1]

\* The routes of each request, cheapest first.
Ranking(r) == CASE r = Tight -> <<<<"a", "p">>, <<"a", "b">>, <<"p", "m">>, <<"m">>>>
                [] r = Loose -> <<<<"d", "p">>, <<"a", "p">>, <<"a", "b">>, <<"p">>>>
                [] r = Known -> <<<<>>>>

MCRoutes == {<<"a", "p">>, <<"a", "b">>, <<"p", "m">>, <<"m">>, <<"d", "p">>, <<"p">>, <<>>}

Avoids(rt, X) == \A i \in DOMAIN rt : rt[i] \notin X
MCPlanned == [r \in Requests |-> [X \in SUBSET Solvers |->
  LET free == {i \in DOMAIN Ranking(r) : Avoids(Ranking(r)[i], X)} IN
  IF free = {} THEN NoRoute ELSE Ranking(r)[CHOOSE i \in free : \A j \in free : i <= j]]]

MCToolOf == [s \in MCSolvers |-> IF s = "p" THEN "ccx" ELSE NoTool]
MCDeterministic == MCSolvers \ {"m"}

\* Each solver declares its own settings; or none does (settings=None).
DistinctSettings == [s \in MCSolvers |-> s]
SharedSettings   == [s \in MCSolvers |-> "none"]

MCStepOutcomes == [r \in Requests |-> [s \in MCSolvers |->
  IF s = "d" THEN {"StepError"} ELSE IF s = "m" THEN {"ok", "StepError"} ELSE {"ok"}]]

MCRealized == [r \in Requests |-> [rt \in MCRoutes |->
  CASE rt = <<"a", "b">> -> {3}
    [] rt = <<"m">>      -> {2, 4}
    [] rt = <<>>         -> {2}
    [] OTHER             -> {1}]]

\* What some theorems suppose of the registry holds of this one.
ASSUME SettingsOf = DistinctSettings => SettingsTellApart
ASSUME OneWayToFail

Default   == [fallback |-> TRUE, cache |-> TRUE]
Strict    == [fallback |-> FALSE, cache |-> TRUE]
Uncached  == [fallback |-> TRUE, cache |-> FALSE]
BudgetedRequests == {Tight, Loose}
KnownRequest     == {Known}
AllPolicies      == {Default, Strict, Uncached}
DefaultPolicy    == {Default}
============================================================================
