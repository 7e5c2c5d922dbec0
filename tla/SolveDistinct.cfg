SPECIFICATION FairSpec
CONSTANTS
  Clients = {c1, c2}
  Requests <- BudgetedRequests
  Policies <- AllPolicies
  Solvers <- MCSolvers
  Routes <- MCRoutes
  Planned <- MCPlanned
  ToolOf <- MCToolOf
  Deterministic <- MCDeterministic
  SettingsOf <- DistinctSettings
  StepOutcomes <- MCStepOutcomes
  Realized <- MCRealized
  Tools = {"ccx"}
  NoTool = NoTool
  NoSolver = NoSolver
  NoRoute = NoRoute
  NoEntry = NoEntry
  MaxCalls = 2
  MaxToolChanges = 2
INVARIANT TypeOK
INVARIANT TrailReconstructsReroutes
INVARIANT NoSolverBlamedTwice
INVARIANT AnswerWithinBudget
INVARIANT ExhaustionIsReal
INVARIANT HitMatchesPlannedRoute
PROPERTY HitUsesInstalledTools
PROPERTY CallsReturn
CHECK_DEADLOCK FALSE
