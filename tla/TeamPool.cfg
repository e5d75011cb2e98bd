SPECIFICATION Spec
CONSTANTS
  Member = {m1}
  Captain = captain
  None = none
  Call = {c1}
  MaxMembers = 2
  MaxTasks = 2
  MaxAttempts = 2
  Faults = {"delivery", "abort", "away"}
CHECK_DEADLOCK FALSE
CONSTRAINT FewEdges
INVARIANTS OneOpenTask DependenciesHold RemovedOwnNothing ReassigningHasItsCall
PROPERTY ImplementsLeases
