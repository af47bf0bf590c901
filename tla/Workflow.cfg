SPECIFICATION AllSpec
CONSTANTS
  first = first
  second = second
  third = third
  ghost = ghost
  Declarations <- AllDeclarations
  cap = cap
  svc = svc
  e1 = e1
  e2 = e2
  e3 = e3
  Answers <- Said
  MaxTasks = 3
  Staff = {e1, e2, e3}
  Can <- CanDo
  Holds <- Holding
  Capabilities = {cap}
  Services = {svc}
  MaxAttempts = 2
  MaxKey = 4
  Registry <- Granted
  Sanitised <- OnTheWire
  Refusable = {"fs.read"}
  Wires = {"messages", "chat"}
  Retries = 3
  MaxSteps = 3
  MaxCalls = 2
  MaxRequests = 4
  MaxFaults = 1
  MaxKills = 1
INVARIANTS
  StepsFollowTheirNeeds
  VerdictTellsTheSteps
  RedoneOnlyWhenLost
  ContextFollowsTheEdges
  RequestsAreWhole
  CallsReachWhatWasShown
PROPERTY
  RunsReachAVerdict
CHECK_DEADLOCK FALSE
