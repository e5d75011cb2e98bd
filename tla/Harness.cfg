SPECIFICATION HarnessSpec
CONSTANTS
  Root = {r}
  Early <- EarlyIds
  Reporting <- EarlyIds
  Vector <- SomeVectors
  MaxDepth = 4
  MaxTasks = 5
  Width = 2
  Caller = {c1, c2}
  TreeBudget = 4
  BreadthCap = 3
  DayCap = 4
  LongMax = 1000
  Proc = {p1, p2}
  Key = {k1, k2, k3}
  Capacity = 2
  MaxPublish = 4
  Faults = {"fillDeath", "updateDeath", "noSegment"}
  RobustBuilds = {TRUE, FALSE}
  Corrupt = corrupt
  Nobody = nobody
  Team = {a, b}
  WorkTask = {t}
  MaxTries = 1
  MaxEdits = 1
  Layouts = {"flat"}
  Builds = {FALSE}
  Flat = flat
  MaxHarness = 3
  Limit = 2
  Client = {d1, d2}
  Line <- SomeLines
  MaxLines = 2
  Backlog = 2
  Room = 1
  IntMax = 7
  NoClient = noclient
  MaxNudgeDepth = 3
  MaxRounds = 2
  StallAfter = 1
  HasFallback = TRUE
  MaxNudgeClock = 5
  MaxPolls = 5
CHECK_DEADLOCK FALSE
INVARIANTS LineageIsCounted DayOvershootBounded
INVARIANTS OwnWorktree AppliedWasVerified PassIsEarned StopTakesOneMore DispatchIsPaidFor
PROPERTIES BusIsTable TornByDeathOnly QueueMoves VerifyEnds NudgesWithinBudget
