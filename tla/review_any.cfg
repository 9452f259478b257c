SPECIFICATION FairSpec
CONSTANTS
  a = a  b = b  h1 = h1  h2 = h2  i1 = i1  i2 = i2
  Note = {a, b}
  Hash = {h1, h2}
  Issue = {i1, i2}
  NoHash = NoHash  NoIssue = NoIssue  NoReview = NoReview
  MaxRevisionCycles = 2
CHECK_DEADLOCK FALSE
INVARIANTS
  UncontestedNotesFrozen
  ReviewedAtFinalHash
  CompletedMeansAnswered
PROPERTIES
  ImplementsLoop
  LoopEnds
