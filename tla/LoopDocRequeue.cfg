SPECIFICATION LoopSpec
CONSTANTS
  Worker = {w1}
  Loop = loop
  MaxSplits = 3
  MaxBreadth = 1
  Budget = 64
  MaxCommands = 3
  MaxDeaths = 0
CHECK_DEADLOCK FALSE
INVARIANT PolledAwaitsClaim
