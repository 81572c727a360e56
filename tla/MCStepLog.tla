----------------------------- MODULE MCStepLog -----------------------------
(* Model checking of StepLog; the bounds are in the configuration.          *)
EXTENDS StepLog, TLC

\* Step IDs are interchangeable.
Symmetry == Permutations(Steps)

=============================================================================
