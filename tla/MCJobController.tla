-------------------------- MODULE MCJobController --------------------------
(* Model checking JobController: the bounds are given in the cfg files.     *)
EXTENDS JobRefinement
=============================================================================
