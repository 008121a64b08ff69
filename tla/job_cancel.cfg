CONSTANTS
  Runs = {r1}
  NoRun = NoRun
  MaxAttempts = 1
  MaxCrashes = 0
SPECIFICATION Spec
INVARIANTS CancelFails
CHECK_DEADLOCK FALSE
