SPECIFICATION FairSpec
CONSTANTS
  CB_OPEN_THRESHOLD = 2
  CB_OPEN_DURATION = 2
  CB_HALF_OPEN_PROBES = 1
  ErrCap = 3
  Requests = {r1, r2, r3}
  MaxAttempts = 2
INVARIANTS ClosedIffBelowThreshold TrialBound
PROPERTIES OpenEndsInTrial RecoversWithUpstream
