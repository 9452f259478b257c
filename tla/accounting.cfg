SPECIFICATION Spec
CONSTANTS
  MaxRevisionCycles = 2
  MaxMainCalls = 7
  MaxInputPerCall = 1
  MaxInputPerRun = 8
  MaxOutputPerRun = 25
  OutputLimit <- MCOutputLimit
  EstimatedInput <- MCEstimatedInput
  Input <- MCInput
  Output <- MCOutput
  MaxFailures = 1
CHECK_DEADLOCK FALSE
INVARIANTS
  BillAccounted
  OverspendBounded
  FirstRoundFits
  TelemetryDelivered
