--------------------------- MODULE MCCheckpoints ---------------------------
(* Model checking of Checkpoints; the bounds are in the configurations.     *)
EXTENDS Checkpoints

=============================================================================
