SPECIFICATION FairSpec
CONSTANTS
  Handlers = {h1, h2}
  Actors = {"ReenableCBWorker"}
  Objs = {o1}
  NoObj = NoObj
  RedisFails = FALSE
  Limit = 2
  MaxBusy = 3
  MaxBilled = 0
  MaxCrashes = 0
PROPERTY CooldownLifts
CHECK_DEADLOCK FALSE
