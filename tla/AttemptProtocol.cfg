SPECIFICATION Spec
CONSTANTS
  Kinds = {"file", "outside"}
  MaxAttempts = 2
  Limits <- MCLimits
INVARIANTS ResultsAreFenced CompleteMeansRan KilledIsNotUserError SnapshotsAreValid
PROPERTIES OutcomeIsSettledOnce RestoreNeverRegresses
CHECK_DEADLOCK FALSE
