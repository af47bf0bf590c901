SPECIFICATION AllSpec
CONSTANTS
  r1 = r1
  r2 = r2
  tool = tool
  k1 = k1
  k2 = k2
  c1 = c1
  c2 = c2
  t1 = t1
  t2 = t2
  a1 = a1
  a2 = a2
  p1 = p1
  Tools = {tool}
  Requests = {r1, r2}
  Conns = {k1, k2}
  MaxChanges = 1
  Calls = {c1, c2}
  MaxServers = 2
  MaxRequests = 3
  MaxNotes = 1
  Tasks = {t1, t2}
  Apps = {a1, a2}
  Allowed = {a1}
  Pages = {p1}
  Sizes = {1, 2}
  MaxActions = 1
  MaxLaunches = 2
  q1 = q1
  q2 = q2
  Questions = {q1, q2}
  MaxPresses = 2
  f = f
  g = g
  Files = {f, g}
  Declarations <- Staff
  ServiceEffects = {"READ", "SEND"}
  MaxCalls = 2
  MaxKills = 1
SYMMETRY Exchanged
CHECK_DEADLOCK FALSE
INVARIANTS
  RegistryFollowsRow
  OwnAnswers
  LandsInside
  NothingForgottenUnheard
  LossesWereAnswered
  DeclarationsHold
