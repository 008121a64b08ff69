CONSTANTS
  Jobs = {j1, j2}
  FastJobs = {j2}
  Dispatchers = {d1}
  Clients = {}
  MaxQueue = 1
  MaxKicks = 1
  MaxCrashes = 1
  NoJob = NoJob
SPECIFICATION FairSpec
PROPERTIES QueueSettles
CHECK_DEADLOCK FALSE
