SPECIFICATION Spec
CONSTANTS
  Ports <- MCPorts
  Instances <- DiamondInstances
  MaxNodes = 10
  MaxCost = 10
INVARIANT CostMinimal
CHECK_DEADLOCK FALSE
