SPECIFICATION FairSpec
CONSTANTS
  Accounts = {"a", "b"}
  Seeds = {"a", "b"}
  NoKey = NoKey
  Handlers = {h1, h2}
  Actors = {}
  Limits <- UnknownLimits
  MaxCFAttempts = 2
  CFRunAttempts = 1
  Max404 = 2
  RedisFails = FALSE
  MaxBusy = 2
  MaxDay = 1
  MaxCrashes = 0
PROPERTY EveryAccountUsed
