CONSTANTS
  MaxAttempts = 2
  RunnerAttempts = 2
  MaxSteps = 2
  MaxCost = 3
  MaxCalls = 2
  MaxCrashes = 2
SPECIFICATION FairSpec
INVARIANTS
  LossBounded
  SpendingCeiling
PROPERTIES
  EventuallySettled
CHECK_DEADLOCK FALSE
