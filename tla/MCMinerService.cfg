SPECIFICATION FairSpec
CONSTANTS
  h1 = h1
  h2 = h2
  h3 = h3
  q1 = q1
  q2 = q2
  q3 = q3
  q4 = q4
  q5 = q5
  Requests = {q1, q2, q3, q4, q5}
  Nonce <- MCNonce
  Issued <- MCIssued
  Expires <- MCExpires
  Deadline <- MCDeadline
  Defect <- MCDefect
  Handlers = {h1, h2, h3}
  MaxPending = 2
  MaxConcurrent = 1
  PoolSize = 2
  SyncStrategy = TRUE
  Skew = 1
  MaxLifetime = 3
  Window = 1
  NonceTTL = 2
  MaxNonces = 2
  MaxClock = 4
  MaxDeliveries = 3
INVARIANTS
  PendingExact
  ExecutedAtMostOnce
  SignedInTime
  ExcessOnlyExpired
PROPERTY
  AdmittedIsAnswered
CHECK_DEADLOCK FALSE
