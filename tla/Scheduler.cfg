CONSTANTS
  hourly = hourly
  daily = daily
  follow = follow
  Schedules = {hourly, daily, follow}
  Loops = {1}
  Interval <- EveryTwo
  DailyAt <- AtOne
  Day = 3
  MaxClock = 4
  MaxEvents = 2
  MaxKills = 1
  Edited = {hourly}
  Parts = {"scheduler", "migrations", "transfer"}
  Backends = {"sqlite", "postgresql"}
  Targets = {0, 7, 14, 22}
  note = note
  Notes = {note}
  MaxCommands = 3
  Items = {"employee", "task", "retry", "one", "two", "three", "plan", "edge", "other", "third"}
  TableOf <- RowTable
  Needs <- RowNeeds
  Leading <- RowKey
  Inserted = {"two", "three", "other", "third"}
  Edited2 = {"employee", "task"}
  There = "postgresql"
  Batch = 2
  MaxWrites = 2
  MaxFaults = 2
  MaxMoves = 2
SPECIFICATION AllSpec
INVARIANTS
  HeadIsDeclared
  IndexHoldsTheRows
  OnlyAKillSpoils
PROPERTIES
  SchedulesArePickedUp
  ErasedOnlyWhatArrived
CHECK_DEADLOCK FALSE
