SPECIFICATION Spec
CONSTANTS
  Compositions <- Pairs
  Standard <- MCStandard
  Reviewed <- NoReview
  MaxFreeze = 1
INVARIANT TypeOK
INVARIANT OwnersAreTrue
INVARIANT GuardedPortsStay
PROPERTY AllOrNothing
CHECK_DEADLOCK FALSE
