SPECIFICATION FairSpec
CONSTANTS
  p = p  q = q  i = i  j = j
  Payload = {p, q}
  Issue = {i, j}
  NoFile = NoFile
  MaxRevisionCycles = 2
  MaxMainCalls = 7
  Answers <- OpenAnswers
  Refetchable = TRUE
  FlakyTargets = {}
  MaxFailures = 1
CHECK_DEADLOCK FALSE
PROPERTY
  RunFinishes
