SPECIFICATION Spec
CONSTANTS
  Documents <- MCDocuments
  Configs <- MCConfigs
  MaxLines = 4
CHECK_DEADLOCK FALSE
INVARIANTS
  LimitKept
  NothingLost
  BlocksKept
  SectionsKept
