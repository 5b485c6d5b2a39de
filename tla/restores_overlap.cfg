SPECIFICATION PortableSpec
CONSTANTS
  o1 = o1
  o2 = o2
  v1 = v1
  q1 = q1
  q2 = q2
  OptionId = {o1, o2}
  Voter = {v1}
  Comment = {}
  NoComment = NoComment
  NoOption = NoOption
  NoFile = NoFile
  Editor = Editor
  MaxOptions = 2
  MaxWriteInsPerVoter = 1
  MaxPendingPerSurvey = 1
  Settings <- Plain
  CloseTimes = {0}
  StateChoices = {}
  PreviewFlags = {FALSE}
  MaxNow = 1
  Restorer = {q1, q2}
  SaveAgain = FALSE
  Foreign = {}
SYMMETRY Symmetry
PROPERTY RestoreNeverOverwrites
CHECK_DEADLOCK FALSE
