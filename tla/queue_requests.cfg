CONSTANTS
  Jobs = {j1, j2}
  FastJobs = {j2}
  Dispatchers = {d1}
  Clients = {c1}
  MaxQueue = 1
  MaxKicks = 1
  MaxCrashes = 1
  NoJob = NoJob
SPECIFICATION Spec
INVARIANTS RowMeansWaiting 
CHECK_DEADLOCK FALSE
