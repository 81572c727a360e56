CONSTANTS
  Jobs = {j1}
  Runs = {r1, r2}
  MaxRetries = 1
  MaxFaults = 1
  NoJob = NoJob
SPECIFICATION FairSpec
CHECK_DEADLOCK FALSE
INVARIANTS OneRunPerAttempt WithinRetries OneActiveAttempt
PROPERTIES EndedStaysEnded FailureIsHandled
