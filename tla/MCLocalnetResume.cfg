SPECIFICATION FairSpec
CONSTANTS
  N = 3
  Workers = 2
  Slow = Slow
  Quick = Quick
  Values <- MCValues
  Planned <- MCPlanned
  Failed = Failed
  None = None
  PauseFlags = {TRUE}
  MaxStops = 0
  MaxFailures = 1
PROPERTY
  ResumeCompletes
