----------------------------- MODULE MarginLoop -----------------------------
(***************************************************************************)
(* `_FeaModel.estimate` (pack/models.py): a claim `value <= limit` (upper) *)
(* or `value >= limit` (lower) is judged from engine solutions.  A         *)
(* solution too wide for the claim's margin is asked for again with the    *)
(* margin as its error budget, a bounded number of times.  The payload and *)
(* direct models return their first solution as it is.                     *)
(*                                                                         *)
(* The engine is `solve()`: it answers with any solution whose total error *)
(* fits the budget and which covers the true value, or with an Err.        *)
(***************************************************************************)
EXTENDS Integers

CONSTANTS
  Limits,       \* the claims' limits
  Truths,       \* the true worst values of the quantity asked about
  Solutions,    \* [lo, hi, eps]: the solutions solve() can return
  LooseBudget,  \* _EPS_BUDGET
  MaxAttempts,  \* _MAX_MARGIN_ATTEMPTS
  NoSolution    \* solution = None

VARIABLES
  claim,     \* [upper, limit, truth, refines]: the request being estimated
  budget,    \* the eps budget of the next solve()
  attempt,   \* solves that returned a solution
  solution,  \* the last solution, or NoSolution
  verdict    \* how the estimate stands

loopVars == <<claim, budget, attempt, solution, verdict>>

\* total_error: half the width of the value interval plus eps, against the
\* budget.
FitsEps(s, b)      == s.eps <= b
FitsBudget(s, b)   == (s.hi - s.lo) + 2 * s.eps <= 2 * b
Covers(s, t)       == s.lo - s.eps <= t /\ t <= s.hi + s.eps

\* Mutant of WorstCorner: the corner that suits the claim best.
BestCorner(c, s)   == IF c.upper THEN s.lo ELSE s.hi

\* The worst corner of a solution for the claim, and the eps the claim can
\* still absorb there.
WorstCorner(c, s)  == IF c.upper THEN s.hi ELSE s.lo
Needed(c, s)       == IF c.upper THEN c.limit - WorstCorner(c, s)
                                 ELSE WorstCorner(c, s) - c.limit

\* What the harness reads from the prediction, and what is the case.
Closes(c, s)       == s.eps <= Needed(c, s)
Holds(c)           == IF c.upper THEN c.truth <= c.limit ELSE c.truth >= c.limit

Claims == [upper : BOOLEAN, limit : Limits, truth : Truths, refines : BOOLEAN]

Predictions == {"predicted", "busted", "closes", "stuck", "bounded"}
Finished    == Predictions \cup {"error", "exhausted", "raised"}
Verdicts    == Finished \cup {"idle", "seeking"}

ASSUME SolutionsAssumption ==
  /\ Solutions \subseteq [lo : Int, hi : Int, eps : Nat]
  /\ \A s \in Solutions : s.lo <= s.hi
ASSUME LimitsAssumption == Limits \subseteq Int /\ Truths \subseteq Int
ASSUME BudgetAssumption == LooseBudget \in Nat /\ MaxAttempts \in Nat \ {0}
ASSUME NoSolutionAssumption == NoSolution \notin Solutions

LoopInit ==
  /\ claim \in Claims
  /\ budget = LooseBudget /\ attempt = 0
  /\ solution = NoSolution /\ verdict = "idle"

\* estimate(request) begins.
Ask(c) ==
  /\ verdict = "idle"
  /\ verdict' = "seeking"
  /\ claim' = c
  /\ UNCHANGED <<budget, attempt, solution>>

\* Mutant of Tighten: the attempts are not counted out.
TightenForever(s) ==
  /\ budget' = Needed(claim, s)
  /\ verdict' = "seeking"

\* The margin is positive and thinner than eps: ask for it as the budget.
Tighten(s) ==
  /\ budget' = Needed(claim, s)
  /\ verdict' = IF attempt + 1 = MaxAttempts THEN "bounded" ELSE "seeking"

\* solve() returned s.
Answered(s) ==
  /\ verdict = "seeking"
  /\ FitsBudget(s, budget) /\ Covers(s, claim.truth)
  /\ solution' = s /\ attempt' = attempt + 1
  /\ \/ ~ claim.refines /\ verdict' = "predicted" /\ UNCHANGED budget
     \/ /\ claim.refines
        /\ LET needed == Needed(claim, s) IN
             \/ needed <= 0 /\ verdict' = "busted" /\ UNCHANGED budget
             \/ needed > 0 /\ s.eps <= needed /\ verdict' = "closes" /\ UNCHANGED budget
             \/ /\ needed > 0 /\ s.eps > needed /\ needed >= budget
                /\ verdict' = "stuck" /\ UNCHANGED budget
             \/ needed > 0 /\ s.eps > needed /\ needed < budget /\ Tighten(s)
  /\ UNCHANGED claim

\* solve() returned an Err: the engine's error on the first attempt, the
\* honest indeterminate (margin_exhausted_error) afterwards.
Failed ==
  /\ verdict = "seeking"
  /\ verdict' = IF solution = NoSolution THEN "error" ELSE "exhausted"
  /\ UNCHANGED <<claim, budget, attempt, solution>>

\* An exception leaves estimate().
Raised ==
  /\ verdict = "seeking"
  /\ verdict' = "raised"
  /\ UNCHANGED <<claim, budget, attempt, solution>>

LoopNext == \/ \E c \in Claims : Ask(c)
            \/ \E s \in Solutions : Answered(s)
            \/ Failed
            \/ Raised

LoopSpec == LoopInit /\ [][LoopNext]_loopVars

----------------------------------------------------------------------------
(* Properties. *)

LoopTypeOK ==
  /\ claim \in Claims
  /\ budget \in Nat
  /\ attempt \in 0..MaxAttempts
  /\ solution \in Solutions \cup {NoSolution}
  /\ verdict \in Verdicts

\* Soundness of a discharge: when the prediction closes the claim (its eps
\* fits the margin left at its worst corner), the true value is within the
\* limit, for both senses.
ClosedClaimsHold ==
  verdict \in Predictions /\ Closes(claim, solution) => Holds(claim)

\* The `needed >= budget` branch of estimate(), "unreachable off the loose
\* first budget", is never taken.
NeverStuck == verdict # "stuck"

\* An answer that replaces an earlier one is strictly tighter, and the
\* budget it was asked with was strictly smaller than the one before.
RefinementTightens ==
  [][/\ solution' # solution /\ solution # NoSolution => solution'.eps < solution.eps
     /\ budget' # budget => budget' < budget]_loopVars
=============================================================================
