SPECIFICATION Spec
CONSTANTS
  Member = {m1}
  Captain = captain
  None = none
  Call = {c1}
  MaxMembers = 1
  MaxTasks = 1
  MaxAttempts = 1
  Faults = {}
CHECK_DEADLOCK FALSE
PROPERTIES StaleIsRejected
