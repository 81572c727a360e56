CONSTANTS
  MaxBudget = 2
  MaxJobs = 1
  MaxPods = 3
  MaxFaults = 1
  MaxLag = 2

SPECIFICATION FairSpec

CHECK_DEADLOCK FALSE

INVARIANTS
  TypeOK
  FailedBeforeRetry
  FailuresCountedOnce
  WithinBudget
  CompleteMeansSucceeded

PROPERTIES
  TerminalIsFinal
  JobsEnd
  ImplementsLifecycle
