SPECIFICATION GolemSpec
CONSTANTS
  Task = {t1}
  Payload = {p1, p2, rm}
  Allowed = {p1, p2, rm}
  AutoRun = {p1, p2}
  None = none
  Host = {"none", "declared", "cli"}
  MaxCalls = 2
  MaxTurns = 1
  RouterConfig <- SomeConfigs
  RouterCall = {c1, c2}
  Failure = {"stall-no-bytes", "grammar-unsupported"}
  Endpoint = {"no scheme", "remote"}
  StallCap = 3
  Timeout = 1
  MaxChunks = 2
  MaxLlmPosts = 1
  MaxPrompt = 5
  MaxTokens = 3
  BatchRows = 2
  Context = 9
  HasEos = TRUE
  MaxAbiPosts = 2
  SpawnLimit = 2
  Output <- Texts
  MaxGates = 2
  Threshold = 16
  HeadAndTail = 4
  CutMark = 1
  SanitizeCap = 6
  MarkerReserve = 3
  MarkerSize = 2
  Frame = 1
  Size = {1, 5, 9}
  MaxBegun = 4
CHECK_DEADLOCK FALSE
INVARIANTS SpawnedWasApproved RetriesCapped LabelsAreHonest
INVARIANTS WarmUpIsSpared AliveIsNotStalled PositionsFit PostedFits
PROPERTIES CallsReturn DelegationWasJudged GateAnswers
