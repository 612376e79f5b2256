SPECIFICATION FairSpec
CONSTANTS
  N = 3
  Workers = 2
  Slow = Slow
  Quick = Quick
  Values <- MCValues
  Planned <- MCPlanned
  Failed = Failed
  None = None
  PauseFlags = {TRUE, FALSE}
  MaxStops = 2
  MaxFailures = 2
INVARIANTS
  SubmissionsFromCheckpoints
  NoPartialEvidence
  AuditedManifestIsOnChain
  ChainReleased
PROPERTIES
  ImplementsEvidenceRecord
  StoppedRunCompletes
