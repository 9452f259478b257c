SPECIFICATION Spec
CONSTANTS
  s1 = s1  s2 = s2  h1 = h1  h2 = h2
  Source = {s1, s2}
  Hash = {h1, h2}
  NoHash = NoHash  NoSource = NoSource
  MaxRetitles = 1
  NoDocument = NoDocument
  MaxFaults = 1
  MaxChanges = 2
  MaxId = 4
  MaxRedirects = 1
  Oversized = {h2}
CHECK_DEADLOCK FALSE
INVARIANTS
  AnswersInTurn
  CheckedServerOnly
PROPERTIES
  ImplementsSource
  PreflightRecovers
  WebRecovers
