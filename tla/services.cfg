CONSTANTS
  Emitters = {e1, e2}
  Clients = {c1, c2}
  MaxLog = 2
  MaxDrops = 1
  FastJobs = {a1}
  FastRuns = {r1, r2}
  Flushers = {f1, f2}
  MaxFastCrashes = 1
  MaxFlushes = 2
  PaidJobs = {q1}
  CreditThreads = {t1, t2}
  Prices = {1, 3}
  FullPrice = 3
  OpeningBalance = 3
  Grants <- GrantedAmounts
  MaxGrants = 2
  Processes = {p1, p2, p3}
  Nobody = Nobody
  MaxClaims = 3
  MaxDeaths = 3
  SharedJobs = {j1, j2, j3}
  PoolKeys = {k1}
  KeyOf <- OneKey
  DryRuns = {j3}
  MaxTries = 2
  Fetchers = {s, z}
  Chain <- VendorChain
  Permits = 1
  ScheduledMax = 1
  RateLimit = 1
  Window = 2
  MaxFetches = 1
  MaxTicks = 2
  QlibRuns = {1}
  QlibWorkers = {w1, w2}
  OrderIds = {o1}
  OrderAmount = 3
  Requests = {u1, u2}
  IdempotencyKeys = {i1, i2}
  MaxRequests = 4
SPECIFICATION Spec
INVARIANTS
  ServicesTypeOK HandOverComplete OneRunAtATime
  LedgerKept PoolsServe
  PermitsKept CallsHonest CompletedFromWhole OrderBooksAgree
PROPERTIES ImplementsLog FastTellsOneStory
CHECK_DEADLOCK FALSE
