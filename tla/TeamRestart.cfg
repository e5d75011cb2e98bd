SPECIFICATION Spec
CONSTANTS
  Member = {m1}
  Captain = captain
  None = none
  Call = {c1}
  MaxMembers = 2
  MaxTasks = 1
  MaxAttempts = 3
  Faults = {"delivery", "abort", "away", "early", "crash"}
CHECK_DEADLOCK FALSE
INVARIANT ResultOfPresentAttempt
PROPERTIES ParkedAttemptKept DeliveredCompletionIsFinal
