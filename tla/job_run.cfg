CONSTANTS
  Runs = {r1, r2}
  NoRun = NoRun
  MaxAttempts = 2
  MaxCrashes = 1
SPECIFICATION FairSpec
INVARIANTS TypeOK CompletedHasReport   DebitedOnce
PROPERTIES OutcomeFinal 
CHECK_DEADLOCK FALSE
