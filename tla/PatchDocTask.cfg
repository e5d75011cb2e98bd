SPECIFICATION WorkSpec
CONSTANTS
  Team = {a, b}
  WorkTask = {t}
  MaxTries = 1
  MaxEdits = 1
  Layouts = {"team"}
  Builds = {FALSE}
  Flat = flat
CHECK_DEADLOCK FALSE
INVARIANT MergedIsOwnWork
