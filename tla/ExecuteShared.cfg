SPECIFICATION FairSpec
CONSTANTS
  Runners = {r1, r2}
  Jobs <- SharedJobs
  Solvers <- MCSolvers
  Info <- MCInfo
  Answers <- MCAnswers
  Truth <- MCTruth
  Exact <- MCExact
  Refs <- MCRefs
  Tools = {"gmsh", "ccx"}
  NoTool = NoTool
  NoBudget = NoBudget
  NaN = NaN
  MaxChanges = 1
INVARIANT TypeOK
INVARIANT ErrorCoversTruth
INVARIANT ResultsInDomain
PROPERTY StepHitEqualsRecompute
PROPERTY ExecutionReturns
CHECK_DEADLOCK FALSE
