---------------------------- MODULE JobLifecycle ----------------------------
(***************************************************************************)
(* What the AgentJob reconciler promises of one job name, with no caches,  *)
(* no informers, no conflicts and no crashes: docs/architecture.md, "State *)
(* Machine", and the invariants of docs/fault-model.md.                    *)
(*                                                                         *)
(* Attempts are made one at a time, each only after all earlier ones have  *)
(* failed and while the budget lasts; an attempt ends once; the job ends   *)
(* once, complete with a complete attempt, exhausted when all of its       *)
(* budget has failed, or given up.  A job that is deleted takes its        *)
(* attempts with it, and the next job of that name starts from nothing.    *)
(***************************************************************************)
EXTENDS Integers

CONSTANTS Budget

VARIABLES
  uid,      \* the UID of the live job, 0: none
  max,      \* its maxAttempts
  runs,     \* its attempts: "none", "open", "failed" or "complete"
  outcome   \* "none", "complete", "exhausted" or "givenUp"

lifecycle == <<uid, max, runs, outcome>>

NoRuns == [o \in 1 .. Budget |-> "none"]

Init == uid = 0 /\ max = 0 /\ runs = NoRuns /\ outcome = "none"

Create ==
  /\ uid = 0
  /\ uid' \in Nat \ {0} /\ max' \in 0 .. Budget
  /\ runs' = NoRuns /\ outcome' = "none"

Raise ==
  /\ uid # 0
  /\ max' \in max + 1 .. Budget
  /\ UNCHANGED <<uid, runs, outcome>>

Delete ==
  /\ uid # 0
  /\ uid' = 0 /\ max' = 0 /\ runs' = NoRuns /\ outcome' = "none"

\* The attempt is the next one, every earlier one has failed, and there is budget for
\* it; the first attempt is made whatever the budget.  A reconcile that has not seen yet
\* that the job was given up can still open one.
Open(o) ==
  /\ outcome \in {"none", "givenUp"}
  /\ runs[o] = "none" /\ (o = 1 \/ o <= max)
  /\ \A p \in 1 .. o - 1 : runs[p] = "failed"
  /\ runs' = [runs EXCEPT ![o] = "open"]
  /\ UNCHANGED <<uid, max, outcome>>

\* An attempt can end after its job was given up, and never changes again.
End(o) ==
  /\ runs[o] = "open"
  /\ \E how \in {"failed", "complete"} : runs' = [runs EXCEPT ![o] = how]
  /\ UNCHANGED <<uid, max, outcome>>

Complete ==
  /\ outcome = "none"
  /\ \E o \in 1 .. Budget : runs[o] = "complete"
  /\ outcome' = "complete"
  /\ UNCHANGED <<uid, max, runs>>

\* No attempt is open, none is complete, and the budget is used up.
Exhaust ==
  /\ outcome = "none"
  /\ runs[1] = "failed"
  /\ \A o \in 1 .. Budget : runs[o] = "failed" \/ (runs[o] = "none" /\ o > max)
  /\ outcome' = "exhausted"
  /\ UNCHANGED <<uid, max, runs>>

\* The job is given up over objects of an earlier job of its name.
GiveUp ==
  /\ uid # 0 /\ outcome = "none"
  /\ outcome' = "givenUp"
  /\ UNCHANGED <<uid, max, runs>>

Next ==
  \/ Create \/ Raise \/ Delete
  \/ \E o \in 1 .. Budget : Open(o) \/ End(o)
  \/ Complete \/ Exhaust \/ GiveUp

Spec == Init /\ [][Next]_lifecycle

=============================================================================
