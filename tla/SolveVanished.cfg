SPECIFICATION Spec
CONSTANTS
  Clients = {c1}
  Requests <- BudgetedRequests
  Policies <- DefaultPolicy
  Solvers <- MCSolvers
  Routes <- MCRoutes
  Planned <- MCPlanned
  ToolOf <- MCToolOf
  Deterministic <- MCDeterministic
  SettingsOf <- SharedSettings
  StepOutcomes <- MCStepOutcomes
  Realized <- MCRealized
  Tools = {"ccx"}
  NoTool = NoTool
  NoSolver = NoSolver
  NoRoute = NoRoute
  NoEntry = NoEntry
  MaxCalls = 2
  MaxToolChanges = 2
PROPERTY HitUsesInstalledTools
CHECK_DEADLOCK FALSE
