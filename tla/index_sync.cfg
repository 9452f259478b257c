SPECIFICATION FairSpec
CONSTANTS
  c1 = c1  c2 = c2  n1 = n1  n2 = n2  r1 = r1
  Commands = {c1}
  Paths = {n1, n2}
  Runs = {r1}
  None = None
  MaxAttempts = 2
  Faults = {"qdrant", "store", "telemetry", "crash", "loss", "mount"}
  Rewrites = FALSE
  MaxEdits = 1
  MaxFailures = 2
  MaxOpens = 1
CHECK_DEADLOCK FALSE
INVARIANTS
  OrphansAccounted
  AttemptsLimited
PROPERTIES
  GenerationKept
  CompletedRepairSynced
  IndexHeals
  RepairsSettle
