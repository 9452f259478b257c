SPECIFICATION Spec
CONSTANTS
  p = p  q = q  i = i  j = j
  Payload = {p, q}
  Issue = {i, j}
  NoFile = NoFile
  MaxRevisionCycles = 2
  MaxMainCalls = 7
  Answers <- OpenAnswers
  Refetchable = FALSE
  FlakyTargets = {"qdrant", "langfuse"}
  MaxFailures = 2
SYMMETRY Symmetry
CHECK_DEADLOCK FALSE
INVARIANTS
  ReferencesResolve
  ManifestMatchesStatus
  WarningsHaveRepairs
  BudgetSuffices
PROPERTIES
  ImplementsRun
  ImplementsLoop
  ArtifactsPreserved
