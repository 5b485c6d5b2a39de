SPECIFICATION FairVoterSpec
CONSTANTS
  c1 = c1
  c2 = c2
  c3 = c3
  None = None
  Client <- MCClient
  Newcomer <- c3
  Burst = 2
  Ttl = 3
  SweepEvery = 2
  Ceiling = 2
  MaxCalls = 3
INVARIANTS TypeOK SweepingForgivesNothing
PROPERTY NewcomerGetsThrough
