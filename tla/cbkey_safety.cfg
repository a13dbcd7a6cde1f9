SPECIFICATION Spec
CONSTANTS
  Handlers = {h1, h2}
  Actors = {"ReenableCBWorker", "CBCreditSyncWorker", "CBOAuthRefreshWorker",
            "admin"}
  Objs = {o1, o2}
  NoObj = NoObj
  RedisFails = TRUE
  Limit = 2
  MaxBusy = 2
  MaxBilled = 1
  MaxCrashes = 1
SYMMETRY Symm
VIEW View
INVARIANTS OvercountBound PersistedUnlessRaced
