SPECIFICATION FairSpec
CONSTANTS
  p1 = p1
  p2 = p2
  s1 = s1
  s2 = s2
  r1 = r1
  r2 = r2
  w1 = w1
  w2 = w2
  Process = {p1}
  SurveyId = {s1, s2}
  Reader = {r1, r2}
  Writer = {w1}
  None = None
  MaxWrites = 1
INVARIANTS
  TypeOK
  TallyReflectsReturnedWrites
PROPERTY
  CacheSettles
CHECK_DEADLOCK FALSE
