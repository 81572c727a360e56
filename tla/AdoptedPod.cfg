CONSTANTS
  MaxBudget = 1
  MaxJobs = 2
  MaxPods = 2
  MaxFaults = 0
  MaxLag = 2

SPECIFICATION Spec

CHECK_DEADLOCK FALSE

INVARIANTS
  CompleteMeansSucceeded
