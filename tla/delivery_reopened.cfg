SPECIFICATION Spec
CONSTANTS
  Worker = {w1, w2}
  NoWorker = NoWorker
  m1 = m1  m2 = m2  m3 = m3  m4 = m4  m5 = m5
  r1 = r1  r2 = r2  k1 = k1  k2 = k2  u1 = u1
  w1 = w1  w2 = w2
  Message = {m1, m2}
  RunId = {r1}
  Key = {k1}
  Url = {u1}
  NoMessage = NoMessage
  Malformed = Malformed
  NoRequest = NoRequest
  Body <- MCBody
  LastNode = 2
  MaxReceive = 3
  LeaseTTL = 2
  VisibilityTTL = 2
  HeartbeatPeriod = 1
  Faults = {}
  MaxCrashes = 0
CHECK_DEADLOCK FALSE
INVARIANT AcknowledgedRunIsTerminal
