SPECIFICATION AllSpec
CONSTANTS
  c1 = c1
  c2 = c2
  c3 = c3
  m1 = m1
  m2 = m2
  k1 = k1
  r1 = r1
  r2 = r2
  Conns = {c1, c2, c3}
  Models = {m1}
  Kinds = {k1}
  Shipped = {m1}
  Preferred <- SentFirst
  Requests = {r1, r2}
  Secret <- Named
  MaxChanges = 3
  MaxKills = 1
  d = d
  w = w
  ra = ra
  p1 = p1
  p2 = p2
  x1 = x1
  Spaces = {d, w}
  Default = d
  Roots = {ra}
  Processes = {p1, p2}
  Servers = {p1}
  Host <- HostOf
  Runs = {x1}
  Tasks = {t1, t2}
  SpaceOf <- WorkIn
  EmployeeOf <- WorkBy
  PlanOf <- WorkFor
  NoPlan = none
  MainSpace = d
  Threshold = 2
  Batch = 1
  MaxAnswers = 1
  MaxFaults = 1
  t1 = t1
  t2 = t2
  e1 = e1
  e2 = e2
  pl = pl
  none = none
  Ids = {d1, d2}
  Clients = {q1, q2, q3}
  Shelves = {s1}
  Editions <- Edits
  Wording <- Paragraphs
  Size = 3
  Overlap = 1
  Embedders = {em}
  NoModel = none
  MaxCalls = 3
  d1 = d1
  d2 = d2
  q1 = q1
  q2 = q2
  q3 = q3
  s1 = s1
  em = em
  Parts = {"providers", "workspaces", "memory", "knowledge"}
SYMMETRY Exchanged
CHECK_DEADLOCK FALSE
INVARIANTS
  RowsHaveTheirKeys
  OwnFiles
  NothingForgottenUntold
  OwnMemoriesOnly
  DeletedTextIsSilent
  NothingCutOut
