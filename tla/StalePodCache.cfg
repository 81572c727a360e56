CONSTANTS
  MaxBudget = 2
  MaxJobs = 1
  MaxPods = 3
  MaxFaults = 0
  MaxLag = 2

SPECIFICATION Spec

CHECK_DEADLOCK FALSE

PROPERTIES
  OnlyLostPodsFail
