CONSTANTS
  MaxAttempts = 3
  MaxSeq = 4
  MaxWork = 1
  MaxFaults = 2

SPECIFICATION Spec

CHECK_DEADLOCK FALSE

INVARIANTS
  RestoreNeverBlocks
