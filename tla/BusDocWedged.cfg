SPECIFICATION BusSpec
CONSTANTS
  Proc = {p1, p2}
  Key = {k1}
  Capacity = 1
  MaxPublish = 2
  Faults = {"fillDeath"}
  RobustBuilds = {FALSE}
  Corrupt = corrupt
  Nobody = nobody
CHECK_DEADLOCK FALSE
INVARIANT DeadOwnerIsReplaced
