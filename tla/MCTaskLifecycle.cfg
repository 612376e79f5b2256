SPECIFICATION Spec
CONSTANTS
  k1 = k1
  k2 = k2
  t1 = t1
  t2 = t2
  Keys <- MCKeys
  Responses <- MCResponses
  ReqIssued <- MCReqIssued
  ReqExpires <- MCReqExpires
  Skew = 0
  MaxEntries = 2
  Persistent = TRUE
  Tasks = {t1, t2}
  TaskOf <- MCTaskOf
  Deadline <- MCDeadline
  Callers = {c1, c2}
  MaxClock = 3
INVARIANTS
  SealedSetAgreed
  OneTimelyAnswerPerRequest
PROPERTIES
  PhasesAdvance
  ImplementsCommitReveal
