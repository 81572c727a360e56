CONSTANTS
  Steps = {s1, s2}
  FileLines = 2
  MaxLines = 5
  MaxFaults = 2

SYMMETRY Symmetry

SPECIFICATION Spec

CHECK_DEADLOCK FALSE

INVARIANTS
  SkippedWasDone
  AckedNeverRerun
  RefusedMeansDamage
