SPECIFICATION Spec
CONSTANTS
  Handlers = {h1, h2}
  Actors = {"ReenableCBWorker"}
  Objs = {o1, o2}
  NoObj = NoObj
  RedisFails = FALSE
  Limit = 2
  MaxBusy = 3
  MaxBilled = 0
  MaxCrashes = 0
INVARIANT PermanentNeverReenabled
CHECK_DEADLOCK FALSE
