SPECIFICATION AllSpec
CONSTANTS
  d1 = d1
  p1 = p1
  o1 = o1
  Objectives = {o1}
  Direct = {d1}
  Delegated = {p1}
  Owner <- OneEach
  t1 = t1
  t2 = t2
  w1 = w1
  a = a
  b = b
  r1 = r1
  r2 = r2
  None = None
  Objective = o1
  Given = {t1, t2}
  Planned = {t1}
  Watchers = {w1}
  Buffer = 3
  QueueSize = 2
  MaxEvents = 5
  Threads = {a, b}
  Requests = {r1, r2}
  MaxReads = 2
  MaxOpens = 2
INVARIANTS
  NothingMissed
PROPERTIES
  SignalsAreObeyed
  AnswersReachTheScreen
CHECK_DEADLOCK FALSE
