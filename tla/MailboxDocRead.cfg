SPECIFICATION Spec
CONSTANTS
  MaxMessages = 2
  MaxRestarts = 0
  CaptainShown = 2
  Poll = {p1}
CHECK_DEADLOCK FALSE
PROPERTY ReadWasSeen
