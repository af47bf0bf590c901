CONSTANTS
  q1 = q1
  q2 = q2
  t1 = t1
  t2 = t2
  Questions = {q1, q2}
  Tasks = {t1, t2}
  TaskOf <- OneTaskEach
  MaxLate = 1
  Parts = {"approvals", "validation"}
  Order <- Listed
  Declared <- Scenarios
  Tools = {"write", "move"}
  Guarded = {"write"}
  Writer = "write"
  Errors = {"MODEL"}
  AuditLimit = 1
  HistoryLimit = 1
  Width = 2
  MaxAttempts = 2
  MaxCalls = 1
  MaxRuns = 2
  MaxCommands = 2
SPECIFICATION AllSpec
PROPERTIES
  ToldOnceWithConsent
  EveryQuestionEnds
  RowsAreClosed
INVARIANTS
  PassesAreEarned
  ConsentIsDeclared
CHECK_DEADLOCK FALSE
