SPECIFICATION ServicesSpec
CONSTANTS
  ToolIndexes = {0, 1}
  Chunks <- MCChunks
  TextLimit = 1
  MaxLines = 3
  CallIds = {1, 2}
  Contents <- MCContents
  MaxMessages = 4
  GrokHandlers = {g1}
  GrokActors = {"AutoRefreshWorker", "ReenableWorker", "go bestAcc.Refresh", "admin"}
  AccountObjs = {ga, gb}
  NoAccount = NoAccount
  MaxGrokBusy = 2
  MaxIssued = 2
  ProxyIds = {p1}
  Addresses = {1, 2}
  PoolClients = {c1}
  FailThreshold = 2
  GatewayKeyIds = {k1, k2}
  BootKey = k1
  KeyActors = {j1, j2}
  Quota = 2
  MaxTokens = 3
  MaxKeyRestarts = 1
  BufferSize = 2
  RequestBatch = 3
  EventBatch = 2
  MaxEntries = 4
  TunnelCallers = {t1, t2}
  MaxTunnels = 2
  CacheKeys = {q1, q2, q3}
  MaxItems = 2
  TTL = 1
  MaxClock = 4
  MaxInserts = 5
  Overrides <- MCOverrides
  GlobalRPM = 2
  GlobalBurst = 2
  Window = 2
  IdleTime = 2
  MaxRateTime = 6
  Minute = 2
  Hour = 5
  PerMinute = 2
  PerHour = 3
  MaxLoginTime = 10
  ModelIds = {m1, m2}
  AliasNames = {m2}
  CustomUpstreams = {u1}
  None = None
  RegistryCallers = {o1, o2}
INVARIANTS
  ServicesTypeOK
  AnsweredOnce
  
  CallsAnswered
  LiveTokenKept
  RevokedOnlyIfDead
  GrokPersisted
  TransportCurrent
  DeletedStaysOff
  EnabledBelowThreshold
  RemovedStaysInvalid
  TokensPersisted
  OverrunBounded
  
  EntriesAccounted
  NoOrphan
  RunsWhatIsSaved
  CacheBounded
  RateBound
  LoginBound
  RoutedAsStored
PROPERTIES
  FollowsProtocol
  EvictsOldest
VIEW ServicesView
CHECK_DEADLOCK FALSE
