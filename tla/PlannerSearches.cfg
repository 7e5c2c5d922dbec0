SPECIFICATION FairSpec
CONSTANTS
  Ports <- MCPorts
  Instances <- AllInstances
  MaxNodes = 40
  MaxCost = 10
INVARIANT TypeOK
INVARIANT LabelsAntichain
INVARIANT PruningLosesNothing
INVARIANT RouteReplays
PROPERTY CommitsInCostOrder
PROPERTY SearchReturns
CHECK_DEADLOCK FALSE
