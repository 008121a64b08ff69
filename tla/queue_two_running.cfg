CONSTANTS
  Jobs = {j1, j2, j3}
  FastJobs = {}
  Dispatchers = {d1}
  Clients = {}
  MaxQueue = 2
  MaxKicks = 1
  MaxCrashes = 0
  NoJob = NoJob
SPECIFICATION Spec
INVARIANTS NeverTwoRunning
SYMMETRY Symmetry
CHECK_DEADLOCK FALSE
