SPECIFICATION MCSpec
CONSTANTS
  v = v
  m1 = m1
  m2 = m2
  m3 = m3
  stranger = stranger
  u0 = u0
  u1 = u1
  u2 = u2
  p1 = p1
  p2 = p2
  Hotkeys <- MCHotkeys
  Validator = v
  Uids <- MCUids
  NoUid = NoUid
  FirstUids <- MCFirstUids
  Processes <- MCProcesses
  U16 = 15
  Tolerance = 2
  Miners <- MCMiners
  MaxScore = 9
  Scorings <- MCScorings
  ParamSets <- MCParamSets
  MaxAge = 1
  MinimumPositive = 2
  MaxPlans = 2
  MaxBlock = 3
SYMMETRY ProcessSymmetry
CHECK_DEADLOCK FALSE
INVARIANTS
  ReviewedStateStands
  EvidenceHasExtrinsic
  UnchangedPlanPasses
  ClipFillsToLimit
  RankingKept
  CappingsAgree
  GateMissedOnlyByRounding
