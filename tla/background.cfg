CONSTANTS
  SchedTasks = {t1, t2}
  SchedRuns = {s1, s2}
  NoSchedRun = NoSchedRun
  Slots = 1
  MaxItems = 2
  FailLimit = 2
  LastDay = 1
  TradingDays = {1, 2}
  MaxEvents = 1
  Syncs = {"company_basic", "daily_bar", "limit_list", "north_money", "cyq_perf", "financial_report", "fina_forecast", "holdernumber", "disclosure_am"}
  Clock = {100, 1000, 1600, 1800, 2305, 2330}
  Days = {1, 2, 3}
  TradeDays = {1, 2}
  Mondays = {1}
  MidMonth = {2}
  MaxRaises = 1
  MaxRestarts = 1
  ScoredReports = {o1, o2}
  FastReports = {o2}
  NoBars = {}
  EndDay = 6
  BatchLimit = 2
  ReloadLimit = 1
  Analysts = {"market", "social", "news", "fundamentals", "macro", "smart_money", "volume_price"}
  DebateRounds = 1
  RiskRounds = 1
  MaxClaims = 2
  MaxPlans = 3
  MaxFails = 1
  Apis = {api1, api2}
  Schedulers = {}
  Engines = {"sqlite", "mysql", "postgresql"}
  MaxDeaths = 1
  LogDays = 3
  Retention = 2
  MetricsDays = 2
  RollDays = 4
  FirstRollDays = 1
  FlushAt = 2
  Requests = 2
  MaxFailures = 1
SPECIFICATION Spec
INVARIANTS
  BackgroundTypeOK  TickLeavesNothing
  FairHearing ClaimsAgree SchemaWhole
PROPERTIES  CountsStand 
CHECK_DEADLOCK FALSE
