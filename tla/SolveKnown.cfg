SPECIFICATION Spec
CONSTANTS
  Clients = {c1}
  Requests <- KnownRequest
  Policies <- DefaultPolicy
  Solvers <- MCSolvers
  Routes <- MCRoutes
  Planned <- MCPlanned
  ToolOf <- MCToolOf
  Deterministic <- MCDeterministic
  SettingsOf <- SharedSettings
  StepOutcomes <- MCStepOutcomes
  Realized <- MCRealized
  Tools = {"ccx"}
  NoTool = NoTool
  NoSolver = NoSolver
  NoRoute = NoRoute
  NoEntry = NoEntry
  MaxCalls = 1
  MaxToolChanges = 0
INVARIANT NeverRaises
CHECK_DEADLOCK FALSE
