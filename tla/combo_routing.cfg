SPECIFICATION FairSpec
CONSTANTS
  CB_OPEN_THRESHOLD = 2
  CB_OPEN_DURATION = 1
  CB_HALF_OPEN_PROBES = 1
  ErrCap = 2
  Requests = {r1, r2}
  Models <- MCModels
  Kind <- MCKind
  Combos <- RotatingCombos
  Edits <- RotatingEdits
  Outages = {"codebuddy"}
  MaxUsage = 3
INVARIANTS UsageSpread
PROPERTY RotationReenters
