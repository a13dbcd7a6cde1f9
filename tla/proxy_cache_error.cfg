SPECIFICATION Spec
CONSTANTS
  Requests = {r1}
  Models <- MCModels
  Kind <- MCKind
  AliasEffort <- MCAliasEffort
  Combos <- Chains
  ClientsCancel = FALSE
INVARIANT CachedBodyNoError
