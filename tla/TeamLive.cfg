SPECIFICATION LiveSpec
CONSTANTS
  Member = {m1, m2}
  Captain = captain
  None = none
  Call = {c1}
  MaxMembers = 2
  MaxTasks = 1
  MaxAttempts = 2
  Faults = {}
CHECK_DEADLOCK FALSE
PROPERTIES HandoffsEnd ReadyWorkIsTaken
