SPECIFICATION Spec
CONSTANTS
  Accounts = {"a"}
  Seeds = {"a"}
  NoKey = NoKey
  Handlers = {h1, h2}
  Actors = {"ReenableCFWorker", "admin"}
  Limits <- KnownLimits
  MaxCFAttempts = 2
  CFRunAttempts = 1
  Max404 = 2
  RedisFails = TRUE
  MaxBusy = 2
  MaxDay = 2
  MaxCrashes = 1
SYMMETRY Symm
INVARIANTS QuotaOverrun ChargedForTodayOnly
