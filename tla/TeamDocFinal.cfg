SPECIFICATION Spec
CONSTANTS
  Member = {m1}
  Captain = captain
  None = none
  Call = {}
  MaxMembers = 2
  MaxTasks = 1
  MaxAttempts = 1
  Faults = {"delivery", "early"}
CHECK_DEADLOCK FALSE
PROPERTY CompletedIsFinal
