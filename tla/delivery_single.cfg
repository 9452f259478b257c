SPECIFICATION FairSpec
CONSTANTS
  Worker = {w1}
  NoWorker = NoWorker
  m1 = m1  m2 = m2  m3 = m3  m4 = m4  m5 = m5
  r1 = r1  r2 = r2  k1 = k1  k2 = k2  u1 = u1
  w1 = w1  w2 = w2
  Message = {m1, m4, m5}
  RunId = {r1}
  Key = {k1, k2}
  Url = {u1}
  NoMessage = NoMessage
  Malformed = Malformed
  NoRequest = NoRequest
  Body <- MCBody
  LastNode = 3
  MaxReceive = 2
  LeaseTTL = 2
  VisibilityTTL = 2
  HeartbeatPeriod = 1
  Faults = {"node", "store"}
  MaxCrashes = 1
CHECK_DEADLOCK FALSE
PROPERTIES
  RunsKeepContract
  EveryMessageSettles
