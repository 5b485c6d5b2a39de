SPECIFICATION FairBootSpec
CONSTANTS
  p1 = p1
  p2 = p2
  admin = admin
  other = other
  None = None
  Process <- MCProcess
  Name <- MCName
  Role <- MCRole
  Admin <- admin
  InviteId <- MCNoId
  ResetId <- MCNoId
  MaxFresh <- MCMaxFresh
  MaxCommands = 3
  MaxCrashes = 2
INVARIANTS BootTypeOK NoFileMeansSetUp FileIsTheWayIn
PROPERTY EveryServerComesUp
CHECK_DEADLOCK FALSE
