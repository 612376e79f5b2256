SPECIFICATION Spec
CONSTANTS
  f = f
  g = g
  m1 = m1
  m2 = m2
  m3 = m3
  a1 = a1
  a2 = a2
  b1 = b1
  c1 = c1
  n1 = n1
  A = A
  B = B
  C = C
  N = N
  p = p
  q = q
  r = r
  MinimumTrials = 6
  MaxTimeoutShare = 5
  Families = {f, g}
  Schedule <- MCSchedule
  MinimumTasks = 3
  MinimumFamilyTasks = 1
  MinAvailability = 75
  MinCompliance = 80
  MinCorrectness = 70
  WinsorShare = 3
  ConfidenceZ = 1
  Miners = {m1, m2, m3}
  Bundles = {a1, a2, b1, c1, n1}
  StrategyOf <- MCStrategyOf
  HasIndexes = {a1, a2, b1, c1}
  PlanOf <- MCPlanOf
  QueryFamilies = {f, g}
  HoldoutProfiles <- MCProfiles
  PublicTrainingSeed = PublicTrainingSeed
  DrawsOf <- MCDrawsOf
  Submissions <- MCSubmissions
  OutcomesOf <- MCOutcomesOf
  TrialCount = 6
  SavingsUnit = 2
  RewardUnit = 1
  MaxStrategies = 3
  MaxItems = 6
  MinDistinct = 1
  CapNum = 2
  CapDen = 3
INVARIANTS
  RewardHasItsEvidence
  TasksObservedWhole
  WeightNeedsEveryFamily
  CopiesShareOneReward
  SharesWithinCap
CHECK_DEADLOCK FALSE
