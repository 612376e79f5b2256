SPECIFICATION FairSpec
CONSTANTS
  d1 = d1
  d2 = d2
  plain = plain
  wide = wide
  empty = empty
  refused = refused
  Requests = {wide, empty, refused}
  Defects <- MCDefects
  Indexes <- MCIndexes
  TrialCount = 6
  Digests = {d1, d2}
  QueryTimeout = 1
  Savings = {0, 1}
  None = None
  MaxFaults = 1
  MinimumTrials = 6
  MaxTimeoutShare = 5
INVARIANTS
  TypeOK
  AnswerScorable
  CorrectMeansAllAgree
  NoPartialBundleMeasured
  InterruptsAreOwn
PROPERTY
  EvaluationEnds
CHECK_DEADLOCK FALSE
