CONSTANTS
  Runs = {r1, r2}
  NoRun = NoRun
  MaxAttempts = 1
  MaxCrashes = 0
SPECIFICATION Spec
INVARIANTS CommitOrRefund
CHECK_DEADLOCK FALSE
