--------------------------- MODULE JobRefinement ---------------------------
(***************************************************************************)
(* The reconciler of JobController implements JobLifecycle: every step of  *)
(* the worker, the users, the kubelet, the garbage collector and the watch *)
(* streams is a step of the lifecycle or leaves it alone.                  *)
(***************************************************************************)
EXTENDS JobController

\* How an attempt of the live job looks from outside; attempts of earlier jobs of the
\* name, which wait for the garbage collector, are not seen.
RunOf(o) ==
  IF ~Owned(o) THEN "none"
  ELSE IF attempts[o].conds = {} THEN "open"
  ELSE IF "Complete" \in attempts[o].conds THEN "complete" ELSE "failed"

OutcomeOf(j) ==
  IF j.conds = {} THEN "none"
  ELSE IF "Complete" \in j.conds THEN "complete"
  ELSE IF j.reason = "RetriesExhausted" THEN "exhausted" ELSE "givenUp"

Lifecycle == INSTANCE JobLifecycle WITH
  Budget  <- MaxBudget,
  uid     <- job.uid,
  max     <- job.max,
  runs    <- [o \in Ordinals |-> RunOf(o)],
  outcome <- OutcomeOf(job)

\* However stale its caches are and wherever its writes conflict, what the reconciler
\* stores goes through the lifecycle of docs/architecture.md: attempts one at a time,
\* each after the failure of all before it and within the budget, a job that ends once
\* and with the outcome of its attempts, and nothing carried over to the next job of
\* the same name.
ImplementsLifecycle == Lifecycle!Spec

-----------------------------------------------------------------------------
(* Why an attempt is not opened for a job that is complete or exhausted,    *)
(* although the version the reconcile works on shows neither.               *)

\* The active attempt of a job that is Complete is.
CompleteHasAttempt ==
  job.uid # 0 /\ "Complete" \in job.conds =>
    job.active \in Ordinals /\ Owned(job.active) /\ attempts[job.active].conds = {"Complete"}

\* A version of the job from before its retries were exhausted, however old, allows no
\* attempt after the last one.
NothingLeft(j) ==
  Live(j.uid) /\ job.reason = "RetriesExhausted" /\ j.conds = {} => j.max <= job.active

BudgetIsSpent ==
  /\ NothingLeft(jobCache) /\ NothingLeft(snapJob)
  /\ \A i \in 1 .. Len(jobEvents) : NothingLeft(jobEvents[i])

=============================================================================
