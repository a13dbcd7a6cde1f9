SPECIFICATION FairSpec
CONSTANTS
  Requests = {r1}
  Models <- MCModels
  Kind <- MCKind
  AliasEffort <- MCAliasEffort
  Combos <- MCCombos
  ClientsCancel = TRUE
INVARIANTS FallbackExhaustsChain StreamsSentOnce GivenEffortKept
PROPERTIES ErrorsCachedOnlyAfterFallback EveryRequestEnds
