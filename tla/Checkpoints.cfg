CONSTANTS
  MaxAttempts = 3
  MaxSeq = 4
  MaxWork = 1
  MaxFaults = 2

SPECIFICATION FairSpec

CHECK_DEADLOCK FALSE

INVARIANTS
  TypeOK
  RestoredIsWhole
  FinalCheckpointIsExact
  SidecarOutlivesMain

PROPERTIES
  NothingSavedIsLost
  SidecarLeaves
