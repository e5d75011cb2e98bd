SPECIFICATION FilesSpec
CONSTANTS
  MaxMessages = 2
  MaxRestarts = 1
  CaptainShown = 2
  Poll = {p1}
  Worker = {w1, w2}
  Loop = loop
  MaxSplits = 1
  MaxBreadth = 2
  Budget = 1
  MaxCommands = 3
  MaxDeaths = 2
  Lead = {l1, l2}
  TeamId = {x, arch}
  Archive = arch
  Recruit = {k1}
  LifeCall = {d1, d2}
  MaxTeams = 2
  MaxTroubles = 2
CHECK_DEADLOCK FALSE
INVARIANTS HiddenMailIsCarried
INVARIANTS SplitHasChildren
INVARIANTS OneTeamEach ArchiveSurvives ArchivedAreRetired
PROPERTY MailArrives ImplementsDelivery ImplementsBoard
