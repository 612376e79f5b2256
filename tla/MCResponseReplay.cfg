SPECIFICATION Spec
CONSTANTS
  k1 = k1
  k2 = k2
  k3 = k3
  v1 = v1
  v2 = v2
  Keys <- MCKeys
  Responses <- MCResponses
  ReqIssued <- MCReqIssued
  ReqExpires <- MCReqExpires
  Skew = 1
  MaxEntries = 2
  Persistent = TRUE
  Verifiers = {v1, v2}
  MaxClock = 5
  MaxDeliveries = 3
INVARIANTS
  AtMostOnce
CHECK_DEADLOCK FALSE
