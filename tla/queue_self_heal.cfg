CONSTANTS
  Jobs = {j1, j2}
  FastJobs = {}
  Dispatchers = {d1}
  Clients = {}
  MaxQueue = 1
  MaxKicks = 1
  MaxCrashes = 1
  NoJob = NoJob
SPECIFICATION FairSpec
PROPERTIES QueuedJobsHeal
CHECK_DEADLOCK FALSE
