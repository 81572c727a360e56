CONSTANTS
  MaxBudget = 2
  MaxJobs = 2
  MaxPods = 2
  MaxFaults = 0
  MaxLag = 1

SPECIFICATION Spec

CHECK_DEADLOCK FALSE

INVARIANTS
  ReadsAreOld

PROPERTIES
  ImplementsLifecycle
