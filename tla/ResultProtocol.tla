--------------------------- MODULE ResultProtocol ---------------------------
(***************************************************************************)
(* What the helpers of internal/controller decide about the end of an      *)
(* attempt: fencing.go, result_reconciler.go, error_classifier.go,         *)
(* cancel.go, deadline.go and ttl.go, with state/invariants.go, as         *)
(* operators on jobs, attempts and result envelopes.  They keep no state   *)
(* of their own; AttemptProtocol calls them.                               *)
(***************************************************************************)
EXTENDS Integers

Categories == {"Infra", "User", "Timeout", "OOM", "Unknown"}

IsTerminal(object) == object.conds \cap {"Complete", "Failed"} # {}

\* Seeded fault: the last word wins.
SetJobCondition(j, cond, reason) == [j EXCEPT !.conds = @ \cup {cond}, !.reason = reason]

TrySetJobTerminal(j, cond, reason) ==
  IF IsTerminal(j) THEN j ELSE [j EXCEPT !.conds = @ \cup {cond}, !.reason = reason]

-----------------------------------------------------------------------------
(* Results.                                                                 *)

\* r is a ProcessResult, oomInPod what isOOMKilledFromPod finds in the pod.
ClassifyError(r, oomInPod) ==
  IF r.code = 0 /\ ~r.oomKilled THEN ""
  ELSE IF r.oomKilled \/ oomInPod THEN "OOM"
  ELSE IF r.error = "timeout" THEN "Timeout"
  ELSE IF r.code \in 1 .. 127 THEN "User"
  ELSE IF r.code >= 128 THEN "Infra"
  ELSE "Unknown"

\* Seeded fault: an envelope is known by the name of its attempt, job and ordinal.
FenceByName(j, a, e) == e.ordinal = a.ordinal /\ ~IsTerminal(j)

\* The five layers: job, attempt, ordinal, spec hash, and a job that is not over.
ValidateFencing(j, a, e) ==
  /\ e.job = j.uid
  /\ e.attempt = a.uid
  /\ e.ordinal = a.ordinal
  /\ e.hash = j.hash
  /\ ~IsTerminal(j)

\* The attempt after an envelope that passed the fence.  The pod is not consulted,
\* and the category of the envelope counts where the exit code tells nothing.
ReconcileResult(a, e) ==
  LET found == ClassifyError([code |-> e.code, oomKilled |-> FALSE, error |-> ""], FALSE) IN
  [a EXCEPT !.exit = {e.code},
            !.category = IF found = "Unknown" /\ e.category # "" THEN e.category ELSE found,
            !.conds = @ \cup {IF e.code = 0 THEN "Complete" ELSE "Failed"}]

-----------------------------------------------------------------------------
(* The other ends of a job.  passed names the deadlines that are over.      *)

HandleCancel(j) == IF j.cancel THEN TrySetJobTerminal(j, "Failed", "Cancelled") ELSE j

\* activeDeadlineSeconds and timeout ("job") run from the start of the job.
CheckDeadline(j, a, passed) ==
  IF j.started /\ "job" \in passed THEN "job"
  ELSE IF a.uid # 0 /\ "attempt" \in passed THEN "attempt"
  ELSE ""

\* The time to live runs from the end of the job.
CheckTTL(j, passed) == IsTerminal(j) /\ "ttl" \in passed

-----------------------------------------------------------------------------
(* What a snapshot of the job uid and its attempts S must be.               *)

ValidateSnapshot(uid, S) ==
  /\ \A a, b \in S : ~IsTerminal(a) /\ ~IsTerminal(b) => a = b
  /\ \A a, b \in S : a.ordinal = b.ordinal => a = b
  /\ \A a \in S : a.job = uid

=============================================================================
