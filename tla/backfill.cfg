SPECIFICATION FairSpec
CONSTANTS
  p1 = p1
  p2 = p2
  a = a
  b = b
  r = r
  Process <- MCProcess
  SurveyId <- MCSurveyId
  OptionId <- MCOptionId
  ResponseId <- MCResponseId
  SurveyOf <- MCSurveyOf
  Downgrades = TRUE
INVARIANTS TypeOK MarkerClaimsOnlyCommitted ExposureIsReal
PROPERTY BackfillCompletes
CHECK_DEADLOCK FALSE
