CONSTANTS
  Jobs = {j1}
  Runs = {r1, r2}
  MaxRetries = 1
  MaxFaults = 0
  NoJob = NoJob
SPECIFICATION Spec
CHECK_DEADLOCK FALSE
INVARIANT CompletedMeansSucceeded
