SPECIFICATION WebSpec
CONSTANTS
  o1 = o1
  o2 = o2
  v1 = v1
  c1 = c1
  OptionId = {o1, o2}
  Voter = {v1}
  Previewer = {v1}
  Comment = {c1}
  NoComment = NoComment
  NoOption = NoOption
  Editor = Editor
  None = None
  MaxOptions = 2
  MaxWriteInsPerVoter = 1
  MaxPendingPerSurvey = 1
  Settings <- CommentsOnOrOff
  CloseTimes = {2}
  StateChoices = {"draft"}
  PreviewFlags = {TRUE, FALSE}
  MaxNow = 2
SYMMETRY OptionSymmetry
CHECK_DEADLOCK FALSE
INVARIANTS
  NeverOpenedHoldsOnlyPreviews
PROPERTIES
  RealAnswersAreKept
  SubmissionIsHonoured
  WriteInKeepsTheRest
  DraftsTakeOnlyPreviews
