-------------------------- MODULE MarginLoopProofs --------------------------
(***************************************************************************)
(* Proofs about MarginLoop, for every set of solutions, limits, truths and *)
(* budgets: the loop's soundness and its progress, along one invariant.    *)
(***************************************************************************)
EXTENDS MarginLoop, TLAPS

\* The loop is asking again only because its last solution was too wide for
\* the margin, and the margin it asks for is thinner than that solution.
AskedForLess ==
  verdict = "seeking" /\ solution # NoSolution => budget < solution.eps

\* What solve() returned covers the truth.
SolutionCovers == solution # NoSolution => Covers(solution, claim.truth)

\* No solve() has returned before the first request.
NothingYet == verdict = "idle" => solution = NoSolution /\ attempt = 0

\* A request that is still open has solves left.
AttemptsLeft == verdict = "seeking" => attempt < MaxAttempts

\* A prediction is made from a solution.
PredictedFromSolution == verdict \in Predictions => solution # NoSolution

LoopInv == /\ LoopTypeOK /\ AskedForLess /\ SolutionCovers /\ NothingYet
           /\ AttemptsLeft /\ PredictedFromSolution /\ NeverStuck

\* The two bounds on a solution are about its whole width: a solution that
\* fits the budget has an eps within it.
LEMMA BudgetBoundsEps ==
  ASSUME NEW s \in Solutions, NEW b \in Nat, FitsBudget(s, b)
  PROVE  s.eps <= b
<1>1. /\ s.lo \in Int /\ s.hi \in Int /\ s.eps \in Int /\ s.lo <= s.hi
  BY SolutionsAssumption
<1> QED
  BY <1>1 DEF FitsBudget

\* The margin at the worst corner of a solution is a number.
LEMMA MarginIsNumber ==
  ASSUME NEW c \in Claims, NEW s \in Solutions
  PROVE  Needed(c, s) \in Int
<1>1. c.limit \in Int /\ s.lo \in Int /\ s.hi \in Int
  BY SolutionsAssumption, LimitsAssumption DEF Claims
<1> QED
  BY <1>1 DEF Needed, WorstCorner

\* A solution that covers the truth and whose eps fits the margin proves the
\* claim, in both senses.
LEMMA ClosingProves ==
  ASSUME NEW c \in Claims, NEW s \in Solutions,
         Covers(s, c.truth), Closes(c, s)
  PROVE  Holds(c)
<1>1. /\ s.lo \in Int /\ s.hi \in Int /\ s.eps \in Int /\ s.lo <= s.hi
  BY SolutionsAssumption
<1>2. c.limit \in Int /\ c.truth \in Int
  BY LimitsAssumption DEF Claims
<1> QED
  BY <1>1, <1>2 DEF Covers, Closes, Holds, Needed, WorstCorner

LEMMA LoopInitInv == LoopInit => LoopInv
BY BudgetAssumption
   DEF LoopInit, LoopInv, LoopTypeOK, AskedForLess, SolutionCovers, NothingYet,
       AttemptsLeft, PredictedFromSolution, NeverStuck, Verdicts,
       Finished, Predictions

LEMMA LoopStepInv == LoopInv /\ [LoopNext]_loopVars => LoopInv'
<1> SUFFICES ASSUME LoopInv, [LoopNext]_loopVars PROVE LoopInv'
  OBVIOUS
<1> USE DEF LoopInv, LoopTypeOK, AskedForLess, SolutionCovers, NothingYet,
            AttemptsLeft, PredictedFromSolution, NeverStuck
<1>1. ASSUME NEW c \in Claims, Ask(c) PROVE LoopInv'
  BY <1>1, BudgetAssumption DEF Ask, Verdicts, Finished, Predictions
<1>2. ASSUME NEW s \in Solutions, Answered(s) PROVE LoopInv'
  <2>1. /\ verdict = "seeking" /\ solution' = s /\ solution' # NoSolution
        /\ claim' = claim /\ attempt' = attempt + 1
        /\ Covers(s, claim.truth) /\ FitsBudget(s, budget)
    BY <1>2, NoSolutionAssumption DEF Answered
  <2>2. s.eps <= budget /\ s.eps \in Nat
    BY <2>1, BudgetBoundsEps, SolutionsAssumption
  <2>3. Needed(claim, s) \in Int
    BY MarginIsNumber
  <2>4. attempt' \in 0..MaxAttempts
    BY <2>1, BudgetAssumption
  <2>5. CASE ~ claim.refines /\ verdict' = "predicted" /\ UNCHANGED budget
    BY <2>1, <2>4, <2>5 DEF Verdicts, Finished, Predictions
  <2>6. CASE /\ verdict' \in {"busted", "closes"} /\ UNCHANGED budget
    BY <2>1, <2>4, <2>6 DEF Verdicts, Finished, Predictions
  <2>7. CASE s.eps > Needed(claim, s) /\ Needed(claim, s) >= budget
    \* Out of the question: eps is within the budget.
    BY <2>2, <2>3, <2>7
  <2>8. CASE /\ Needed(claim, s) > 0 /\ s.eps > Needed(claim, s)
             /\ Tighten(s)
    <3>1. budget' \in Nat /\ budget' < s.eps
      BY <2>3, <2>8 DEF Tighten
    <3>2. verdict' \in {"bounded", "seeking"}
      BY <2>8 DEF Tighten
    <3>3. verdict' = "seeking" => attempt' < MaxAttempts
      BY <2>1, <2>4, <2>8, BudgetAssumption DEF Tighten
    <3>4. Covers(solution', claim'.truth)
      BY <2>1
    <3> QED
      BY <2>1, <2>4, <3>1, <3>2, <3>3, <3>4
         DEF Verdicts, Finished, Predictions
  <2> QED
    BY <1>2, <2>5, <2>6, <2>7, <2>8 DEF Answered
<1>3. ASSUME Failed PROVE LoopInv'
  BY <1>3 DEF Failed, Verdicts, Finished, Predictions
<1>4. ASSUME Raised PROVE LoopInv'
  BY <1>4 DEF Raised, Verdicts, Finished, Predictions
<1>5. ASSUME UNCHANGED loopVars PROVE LoopInv'
  BY <1>5 DEF loopVars
<1> QED
  BY <1>1, <1>2, <1>3, <1>4, <1>5 DEF LoopNext

\* The invariant behind the three theorems below.
THEOREM LoopInvariant == LoopSpec => []LoopInv
BY LoopInitInv, LoopStepInv, PTL DEF LoopSpec

\* Every variable of estimate()'s loop keeps its type; the attempts stay
\* within _MAX_MARGIN_ATTEMPTS and the budget a margin can give stays a
\* natural number.
THEOREM LoopTypes == LoopSpec => []LoopTypeOK
<1>1. LoopInv => LoopTypeOK
  BY DEF LoopInv
<1> QED
  BY LoopInvariant, <1>1, PTL

\* A prediction whose eps fits the margin at its worst corner is about a
\* value within the limit: what the harness discharges is the case.
THEOREM DischargeIsSound == LoopSpec => []ClosedClaimsHold
<1>1. LoopInv => ClosedClaimsHold
  <2> SUFFICES ASSUME LoopInv, verdict \in Predictions, Closes(claim, solution)
               PROVE  Holds(claim)
    BY DEF ClosedClaimsHold
  <2>1. /\ solution \in Solutions /\ claim \in Claims
        /\ Covers(solution, claim.truth)
    BY DEF LoopInv, LoopTypeOK, SolutionCovers, PredictedFromSolution
  <2> QED
    BY <2>1, ClosingProves
<1> QED
  BY LoopInvariant, <1>1, PTL

\* estimate()'s "unreachable off the loose first budget" branch is
\* unreachable off every budget.
THEOREM StuckIsUnreachable == LoopSpec => []NeverStuck
<1>1. LoopInv => NeverStuck
  BY DEF LoopInv
<1> QED
  BY LoopInvariant, <1>1, PTL

\* Each re-solve of the loop is asked with a strictly smaller budget and its
\* answer is strictly tighter than the one it replaces.
THEOREM LoopTightens == LoopSpec => RefinementTightens
<1> DEFINE Tightens ==
      /\ solution' # solution /\ solution # NoSolution
           => solution'.eps < solution.eps
      /\ budget' # budget => budget' < budget
<1>1. LoopInv /\ [LoopNext]_loopVars => [Tightens]_loopVars
  <2> SUFFICES ASSUME LoopInv, LoopNext PROVE Tightens
    OBVIOUS
  <2> USE DEF LoopInv, LoopTypeOK, AskedForLess
  <2>1. ASSUME NEW c \in Claims, Ask(c) PROVE Tightens
    BY <2>1 DEF Ask
  <2>2. ASSUME NEW s \in Solutions, Answered(s) PROVE Tightens
    <3>1. /\ s.eps <= budget /\ s.eps \in Nat
          /\ verdict = "seeking" /\ solution' = s
      BY <2>2, BudgetBoundsEps, SolutionsAssumption DEF Answered
    <3>2. solution # NoSolution => s.eps < solution.eps
      BY <3>1, SolutionsAssumption
    <3>3. budget' # budget => budget' < budget
      BY <2>2 DEF Answered, Tighten
    <3> QED
      BY <3>1, <3>2, <3>3
  <2>3. ASSUME Failed PROVE Tightens
    BY <2>3 DEF Failed
  <2>4. ASSUME Raised PROVE Tightens
    BY <2>4 DEF Raised
  <2> QED
    BY <2>1, <2>2, <2>3, <2>4 DEF LoopNext
<1> QED
  BY LoopInvariant, <1>1, PTL DEF LoopSpec, RefinementTightens
=============================================================================
