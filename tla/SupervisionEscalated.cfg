CONSTANTS
  e1 = e1
  e2 = e2
  Employees = {e1, e2}
  Tasks <- Three
  Offering <- AnyoneForOne
  Holding <- HoldersOfOne
  Shapes <- PlansOfThree
  MaxAttempts = 2
  MaxParallel = 2
  MaxRevisions = 2
SPECIFICATION Spec
INVARIANT
  NeighboursAreFinished
CHECK_DEADLOCK FALSE
