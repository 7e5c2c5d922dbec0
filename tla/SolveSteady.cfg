SPECIFICATION Spec
CONSTANTS
  Clients = {c1, c2}
  Requests <- BudgetedRequests
  Policies <- DefaultPolicy
  Solvers <- MCSolvers
  Routes <- MCRoutes
  Planned <- MCPlanned
  ToolOf <- MCToolOf
  Deterministic <- MCDeterministic
  SettingsOf <- SharedSettings
  StepOutcomes <- MCStepOutcomes
  Realized <- MCRealized
  Tools = {"ccx"}
  NoTool = NoTool
  NoSolver = NoSolver
  NoRoute = NoRoute
  NoEntry = NoEntry
  MaxCalls = 2
  MaxToolChanges = 0
INVARIANT HitEqualsRecompute
CHECK_DEADLOCK FALSE
