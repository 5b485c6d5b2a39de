SPECIFICATION Spec
CONSTANTS
  n1 = n1
  n2 = n2
  i1 = i1
  r1 = r1
  r2 = r2
  None = None
  Name <- MCName
  Role <- MCRole
  InviteId <- MCInviteId
  ResetId <- MCResetId
  MaxFresh = 4
SYMMETRY Symmetry
INVARIANTS TypeOK InvitesAreSpentOnce UnspentLinksAreCurrent
PROPERTY StaysAdministered
