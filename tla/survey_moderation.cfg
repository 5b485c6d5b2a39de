SPECIFICATION Spec
CONSTANTS
  o1 = o1
  o2 = o2
  o3 = o3
  v1 = v1
  v2 = v2
  c1 = c1
  o4 = o4
  OptionId = {o1, o2, o3, o4}
  Voter = {v1, v2}
  Comment = {}
  NoComment = NoComment
  NoOption = NoOption
  Editor = Editor
  MaxOptions = 3
  MaxWriteInsPerVoter = 1
  MaxPendingPerSurvey = 2
  Settings <- Plain
  CloseTimes = {0}
  StateChoices = {}
  PreviewFlags = {FALSE}
  MaxNow = 2
SYMMETRY Symmetry
CHECK_DEADLOCK FALSE
INVARIANTS
  TypeOK
  ChoicesWereShown
  TallyIsBounded
  MergesEnd
  ResolveReachesAnEnd
  PendingIsPrivate
  CeilingsHold
  ExportsAgree
  NoVoteWithoutAColumn
PROPERTIES
  MergeMovesEveryVote
  KeepsTheLedger
