SPECIFICATION WebSpec
CONSTANTS
  n1 = n1
  n2 = n2
  b1 = b1
  b2 = b2
  i1 = i1
  r1 = r1
  None = None
  Name <- MCName
  Role <- MCRole
  Browser <- MCBrowser
  InviteId <- MCInviteId
  ResetId <- MCResetId
  MaxFresh = 3
SYMMETRY Symmetry
INVARIANT EndedSessionsStayEnded
CHECK_DEADLOCK FALSE
