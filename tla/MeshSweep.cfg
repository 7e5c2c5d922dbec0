CONSTANTS
  Callers = {1, 2}
  LastCorner = 4
  Top = 3
  Meshes <- MCMeshes
  Budgets <- MCBudgets
  NoBudget = NoBudget
  Fails = Fails
  Nothing = Nothing
  Pools <- MCPools
SPECIFICATION Spec
CHECK_DEADLOCK FALSE
INVARIANT TypeOK
 
INVARIANT LaddersAreHonest
 
PROPERTY SweepsReturn
