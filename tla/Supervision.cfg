CONSTANTS
  e1 = e1
  e2 = e2
  Employees = {e1, e2}
  Tasks <- Three
  Offering <- AnyoneForOne
  Holding <- HoldersOfOne
  Shapes <- PlansOfThree
  MaxAttempts = 2
  MaxParallel = 2
  MaxRevisions = 2
SPECIFICATION FairSpec
INVARIANTS
  WorksFromAcceptedResults
  AnswerEndsTheWork
  RecordsAgree
PROPERTY
  ManagerFinishes
CHECK_DEADLOCK FALSE
