CONSTANTS
  Jobs = {j1, j2, j3}
  FastJobs = {j3}
  Dispatchers = {d1, d2}
  Clients = {}
  MaxQueue = 2
  MaxKicks = 1
  MaxCrashes = 0
  NoJob = NoJob
SPECIFICATION Spec
INVARIANTS TypeOK DirectStartExclusion NoJobStranded
SYMMETRY Symmetry
CHECK_DEADLOCK FALSE
