--------------------------- MODULE JobController ---------------------------
(***************************************************************************)
(* The AgentJob reconciler of the operator: internal/controller            *)
(* (job_controller.go, attempt_reconciler.go, job_snapshot.go,             *)
(* ownership.go) with the condition helpers of internal/state.             *)
(*                                                                         *)
(* One AgentJob name is followed: the objects the API server stores under  *)
(* it (the job, its attempts job-1, job-2, ... and their pods, which carry *)
(* the same names), the three informer caches the operator reads instead   *)
(* of the API server, and the one worker that reconciles the name.  Users, *)
(* the kubelet and the garbage collector act on the stored objects at any  *)
(* moment; each informer trails the store by its own watch stream.         *)
(*                                                                         *)
(* Every call of the worker that writes to the API server is a step of its *)
(* own.  Reads of the caches are merged with the next step of the worker:  *)
(* nobody else reads them, so a delivery that falls between two reads can  *)
(* as well be made before the first or after the second.                   *)
(***************************************************************************)
EXTENDS Integers, Sequences, FiniteSets

CONSTANTS
  MaxBudget,   \* largest spec.execution.maxAttempts a user asks for
  MaxJobs,     \* how many jobs are created, one after another, under the name
  MaxPods,     \* how many pods the operator creates
  MaxFaults,   \* operator crashes, pod losses and cancellations, together
  MaxLag       \* watch events an informer can be behind the API server

ASSUME BudgetAssumption == MaxBudget \in Nat \ {0}
ASSUME JobsAssumption   == MaxJobs \in Nat \ {0}
ASSUME PodsAssumption   == MaxPods \in Nat
ASSUME FaultsAssumption == MaxFaults \in Nat
ASSUME LagAssumption    == MaxLag \in Nat \ {0}

VARIABLES
  job, attempts, pods,                     \* what the API server stores
  jobEvents, attemptEvents, podEvents,     \* watch events not yet delivered
  jobCache, attemptCache, podCache,        \* the operator's informer caches
  pc,                                      \* where the worker is in Reconcile
  snapJob, attempt, pod,                   \* its snapshot: job, active attempt, pod
  cli,                                     \* a user's "agentctl cancel" under way
  lastJobUID, lastPodUID,                  \* UIDs handed out so far
  faults,                                  \* faults that happened so far
  succeeded                                \* history: UIDs of the jobs one of whose
                                           \* own pods ended in phase Succeeded

stored  == <<job, attempts, pods>>
watches == <<jobEvents, attemptEvents, podEvents>>
caches  == <<jobCache, attemptCache, podCache>>
local   == <<pc, snapJob, attempt, pod>>
vars == <<stored, watches, caches, local, cli, lastJobUID, lastPodUID, faults, succeeded>>

-----------------------------------------------------------------------------
(* Objects.  An object is named by its ordinal (the job by nothing at all), *)
(* and a UID of 0 stands for "no such object".  resourceVersions are not    *)
(* stored: no object ever returns to an earlier content (see SameVersion).  *)

Ordinals == 1 .. MaxBudget
Terminal == {"Complete", "Failed"}
Reasons  == {"None", "Succeeded", "RetriesExhausted", "OwnershipViolation", "Cancelled"}
Phases   == {"Pending", "Running", "Succeeded", "Failed"}

\* spec.execution.maxAttempts, the counters, the ordinal of status.activeAttempt
\* (0: nil), the Running condition, the terminal conditions and their reason.
Jobs == [uid : Nat, max : 0 .. MaxBudget, failedAttempts : Nat,
         completedAttempts : Nat, active : Nat, running : BOOLEAN,
         conds : SUBSET Terminal, reason : Reasons]

\* The UID of the owning job, the recorded PodUID (0: none, and PodName is ""),
\* whether StartTime is set, and the terminal conditions.
Attempts == [owner : Nat, podUID : Nat, started : BOOLEAN, conds : SUBSET Terminal]

\* A pod carries the UID of the job whose attempt it was built for.
Pods == [uid : Nat, owner : Nat, phase : Phases]

NoJob == [uid |-> 0, max |-> 0, failedAttempts |-> 0, completedAttempts |-> 0,
          active |-> 0, running |-> FALSE, conds |-> {}, reason |-> "None"]
NoAttempt == [owner |-> 0, podUID |-> 0, started |-> FALSE, conds |-> {}]
NoPod == [uid |-> 0, owner |-> 0, phase |-> "Pending"]

\* A cancel command: between which of its calls it is, and for which active attempt.
Commands == [pc : {"idle", "cancelled", "delete"}, ordinal : 0 .. MaxBudget]
NoCommand == [pc |-> "idle", ordinal |-> 0]

NewJob(uid, max) == [NoJob EXCEPT !.uid = uid, !.max = max]

IsJobTerminal(j) == j.conds \cap {"Complete", "Failed"} # {}

IsAttemptTerminal(a) == a.conds \cap {"Complete", "Failed"} # {}

\* Seeded fault: any terminal condition passes for success.
SucceededIfTerminal(a) == IsAttemptTerminal(a)

IsAttemptSucceeded(a) == "Complete" \in a.conds

TrySetJobTerminal(j, cond, reason) ==
  IF IsJobTerminal(j) THEN j ELSE [j EXCEPT !.conds = @ \cup {cond}, !.reason = reason]

\* Seeded faults: the condition is not set; it is set under a type nobody reads.
MarkNothing(a) == a
MarkUnknownType(a) == [a EXCEPT !.conds = @ \cup {"Error"}]

markAttemptFailed(a) == [a EXCEPT !.conds = @ \cup {"Failed"}]

\* Seeded fault: attempts are told apart by name only.
VerifyByName(j, a) == TRUE

\* The owner reference and the JobRef of an attempt both carry the UID of the
\* job it was created for.
VerifyAttemptOwnership(j, a) == a.owner = j.uid

\* Seeded fault: the failure just counted is left out of the number.
OrdinalBeforeCounting(j, retry) == j.failedAttempts + j.completedAttempts + 1

\* createAttempt: an attempt is numbered after the attempts counted before it.
\* retry is 1 when the active attempt has just been counted as failed.
AttemptOrdinal(j, retry) == j.failedAttempts + retry + j.completedAttempts + 1

\* Seeded fault: the budget is compared before the failure is counted.
RetryBeforeCounting(j) == j.failedAttempts < j.max

\* After the active attempt failed: is there budget for one more?
RetryAllowed(j) == j.failedAttempts + 1 < j.max

\* Seeded fault: PodUID is left empty when the pod is recorded.
RecordNameOnly(a, p) == a

\* What ReconcileAttempt writes of the pod it found or created.
Recorded(a, p) == [a EXCEPT !.podUID = p.uid]

BuildPod(j, uid) == [uid |-> uid, owner |-> j.uid, phase |-> "Pending"]

-----------------------------------------------------------------------------
(* The API server (external): create, optimistic update, delete, watch.     *)

CanWatch(events) == Len(events) < MaxLag

PutJob(j) ==
  /\ CanWatch(jobEvents)
  /\ job' = j
  /\ jobEvents' = Append(jobEvents, j)

PutAttempt(o, a) ==
  /\ CanWatch(attemptEvents)
  /\ attempts' = [attempts EXCEPT ![o] = a]
  /\ attemptEvents' = Append(attemptEvents, [attempts EXCEPT ![o] = a])

PutPod(o, p) ==
  /\ CanWatch(podEvents)
  /\ pods' = [pods EXCEPT ![o] = p]
  /\ podEvents' = Append(podEvents, [pods EXCEPT ![o] = p])

\* An update is accepted only by the version it was made from.  Versions are
\* compared by content: no stored object returns to a content it had before.
SameVersion(current, read) == current = read

-----------------------------------------------------------------------------
(* The worker.  "idle" between two calls of Reconcile; any error returns    *)
(* there, for controller-runtime queues the name again.                     *)

Positions == {"idle", "ownership", "loaded", "podRace", "attemptRace",
              "attemptReady", "running", "decide"}

ReturnIdle ==
  /\ pc' = "idle"
  /\ snapJob' = NoJob
  /\ attempt' = NoAttempt
  /\ pod' = NoPod

Goto(position) == pc' = position /\ UNCHANGED <<snapJob, attempt, pod>>

\* 1 when createAttempt is called for a retry, 0 when no active attempt exists.
Retry == IF attempt.owner # 0 THEN 1 ELSE 0

\* r.Status().Update(ctx, job), always the last write of a reconcile.
UpdateJobStatus(j) ==
  /\ IF SameVersion(job, snapJob) THEN PutJob(j) ELSE UNCHANGED <<job, jobEvents>>
  /\ ReturnIdle
  /\ UNCHANGED <<attempts, pods, attemptEvents, podEvents, caches,
                 cli, lastJobUID, lastPodUID, faults, succeeded>>

\* r.Status().Update(ctx, attempt); on success the reconcile goes on.
UpdateAttemptStatus(a, position) ==
  /\ IF SameVersion(attempts[snapJob.active], attempt)
       THEN /\ PutAttempt(snapJob.active, a)
            /\ attempt' = a
            /\ pc' = position
            /\ UNCHANGED <<snapJob, pod>>
       ELSE /\ ReturnIdle
            /\ UNCHANGED <<attempts, attemptEvents>>
  /\ UNCHANGED <<job, pods, jobEvents, podEvents, caches,
                 cli, lastJobUID, lastPodUID, faults, succeeded>>

\* Seeded fault: a terminal job is reconciled again.
AnyJob(j) == j.uid # 0

\* Reconcile leaves a job alone that is gone or terminal.
NeedsReconcile(j) == j.uid # 0 /\ ~IsJobTerminal(j)

ActiveAttempt(j, as) == IF j.active = 0 THEN NoAttempt ELSE as[j.active]

PodForAttempt(j, ps) == IF j.active = 0 THEN NoPod ELSE ps[j.active]

\* Steps 1, 2 and 4 of Reconcile.
LoadJobSnapshot ==
  LET a == ActiveAttempt(jobCache, attemptCache) IN
  /\ pc = "idle"
  /\ NeedsReconcile(jobCache)
  /\ snapJob' = jobCache
  /\ attempt' = a
  /\ pod' = PodForAttempt(jobCache, podCache)
  /\ pc' = CASE \E o \in Ordinals : /\ attemptCache[o].owner # 0
                                    /\ ~VerifyAttemptOwnership(jobCache, attemptCache[o])
                                       -> "ownership"
             [] OTHER -> IF IsAttemptTerminal(a) THEN "decide" ELSE "loaded"
  /\ UNCHANGED <<stored, watches, caches, cli, lastJobUID, lastPodUID, faults, succeeded>>

FailOnOwnership ==
  /\ pc = "ownership"
  /\ UpdateJobStatus(TrySetJobTerminal(snapJob, "Failed", "OwnershipViolation"))

\* Step 5, and the retry of step 7: no attempt, or a failed one with budget left.
WantsAttempt ==
  \/ pc = "loaded" /\ attempt.owner = 0
  \/ pc = "decide" /\ ~IsAttemptSucceeded(attempt) /\ RetryAllowed(snapJob)

\* createAttempt: reuse the attempt of that name in the cache, or create it.
CreateAttempt ==
  LET o == AttemptOrdinal(snapJob, Retry) IN
  /\ WantsAttempt
  /\ IF attemptCache[o].owner = 0 /\ attempts[o].owner = 0
       THEN PutAttempt(o, [NoAttempt EXCEPT !.owner = snapJob.uid])
       ELSE UNCHANGED <<attempts, attemptEvents>>
  /\ Goto(IF attemptCache[o].owner = 0 /\ attempts[o].owner # 0
            THEN "attemptRace" ELSE "attemptReady")
  /\ UNCHANGED <<job, pods, jobEvents, podEvents, caches,
                 cli, lastJobUID, lastPodUID, faults, succeeded>>

\* The Create found the name taken: read the cache once more, or give up.
GetAttemptAfterRace ==
  /\ pc = "attemptRace"
  /\ IF attemptCache[AttemptOrdinal(snapJob, Retry)].owner # 0
       THEN Goto("attemptReady")
       ELSE ReturnIdle
  /\ UNCHANGED <<stored, watches, caches, cli, lastJobUID, lastPodUID, faults, succeeded>>

\* The status write after createAttempt, with the failure counted on a retry.
SetActiveAttempt ==
  /\ pc = "attemptReady"
  /\ UpdateJobStatus([snapJob EXCEPT !.failedAttempts = @ + Retry,
                                     !.active = AttemptOrdinal(snapJob, Retry),
                                     !.running = IF Retry = 0 THEN @ ELSE FALSE])

\* ReconcileAttempt, the pod is neither in the snapshot nor recorded.
CreatePod ==
  LET o == snapJob.active
      p == BuildPod(snapJob, lastPodUID + 1)
  IN
  /\ pc = "loaded" /\ attempt.owner # 0
  /\ pod.uid = 0 /\ attempt.podUID = 0
  /\ \/ /\ podCache[o].uid # 0
        /\ pod' = podCache[o]
        /\ UNCHANGED <<pc, snapJob, attempt, pods, podEvents, lastPodUID>>
     \/ /\ podCache[o].uid = 0 /\ pods[o].uid = 0
        /\ lastPodUID < MaxPods
        /\ PutPod(o, p)
        /\ pod' = p
        /\ lastPodUID' = p.uid
        /\ UNCHANGED <<pc, snapJob, attempt>>
     \/ /\ podCache[o].uid = 0 /\ pods[o].uid # 0
        /\ Goto("podRace")
        /\ UNCHANGED <<pods, podEvents, lastPodUID>>
  /\ UNCHANGED <<job, attempts, jobEvents, attemptEvents, caches,
                 cli, lastJobUID, faults, succeeded>>

GetPodAfterRace ==
  /\ pc = "podRace"
  /\ IF podCache[snapJob.active].uid # 0
       THEN /\ pc' = "loaded"
            /\ pod' = podCache[snapJob.active]
            /\ UNCHANGED <<snapJob, attempt>>
       ELSE ReturnIdle
  /\ UNCHANGED <<stored, watches, caches, cli, lastJobUID, lastPodUID, faults, succeeded>>

\* Step 2 of ReconcileAttempt: record the pod, look again in five seconds.
RecordPod ==
  /\ pc = "loaded" /\ attempt.owner # 0
  /\ pod.uid # 0 /\ attempt.podUID = 0
  /\ IF SameVersion(attempts[snapJob.active], attempt)
       THEN PutAttempt(snapJob.active, Recorded(attempt, pod))
       ELSE UNCHANGED <<attempts, attemptEvents>>
  /\ ReturnIdle
  /\ UNCHANGED <<job, pods, jobEvents, podEvents, caches,
                 cli, lastJobUID, lastPodUID, faults, succeeded>>

\* The pod the attempt recorded is the one in hand.
HasOwnPod ==
  /\ pc = "loaded" /\ attempt.owner # 0
  /\ attempt.podUID # 0
  /\ pod.uid = attempt.podUID

\* The pod is recorded but not in the snapshot: read the cache once more.
GetRecordedPod ==
  /\ pc = "loaded" /\ attempt.owner # 0
  /\ pod.uid = 0 /\ attempt.podUID # 0
  /\ podCache[snapJob.active].uid # 0
  /\ pod' = podCache[snapJob.active]
  /\ UNCHANGED <<pc, snapJob, attempt>>
  /\ UNCHANGED <<stored, watches, caches, cli, lastJobUID, lastPodUID, faults, succeeded>>

\* "Pod disappeared", and the UID fencing of step 3.
FailLostPod ==
  /\ pc = "loaded" /\ attempt.owner # 0
  /\ attempt.podUID # 0
  /\ IF pod.uid = 0 THEN podCache[snapJob.active].uid = 0 ELSE pod.uid # attempt.podUID
  /\ UpdateAttemptStatus(markAttemptFailed(attempt), "decide")

ObservePending ==
  /\ HasOwnPod /\ pod.phase = "Pending"
  /\ IF attempt.started THEN Goto("running") ELSE ReturnIdle
  /\ UNCHANGED <<stored, watches, caches, cli, lastJobUID, lastPodUID, faults, succeeded>>

ObserveRunning ==
  /\ HasOwnPod /\ pod.phase = "Running"
  /\ IF attempt.started
       THEN /\ Goto("running")
            /\ UNCHANGED <<stored, watches, caches, cli, lastJobUID, lastPodUID, faults, succeeded>>
       ELSE UpdateAttemptStatus([attempt EXCEPT !.started = TRUE], "running")

ObserveSucceeded ==
  /\ HasOwnPod /\ pod.phase = "Succeeded"
  /\ UpdateAttemptStatus([attempt EXCEPT !.started = TRUE,
                                         !.conds = @ \cup {"Complete"}], "decide")

ObserveFailed ==
  /\ HasOwnPod /\ pod.phase = "Failed"
  /\ UpdateAttemptStatus(markAttemptFailed([attempt EXCEPT !.started = TRUE]), "decide")

\* Step 6, a started attempt that goes on: the job is Running.  Setting what is
\* set already is an update the API server does not store.
SetJobRunning ==
  /\ pc = "running"
  /\ IF snapJob.running
       THEN /\ ReturnIdle
            /\ UNCHANGED <<stored, watches, caches, cli, lastJobUID, lastPodUID, faults, succeeded>>
       ELSE UpdateJobStatus([snapJob EXCEPT !.running = TRUE])

\* Step 7.
CompleteJob ==
  /\ pc = "decide" /\ IsAttemptSucceeded(attempt)
  /\ UpdateJobStatus(TrySetJobTerminal([snapJob EXCEPT !.completedAttempts = @ + 1],
                                       "Complete", "Succeeded"))

ExhaustRetries ==
  /\ pc = "decide" /\ ~IsAttemptSucceeded(attempt) /\ ~RetryAllowed(snapJob)
  /\ UpdateJobStatus(TrySetJobTerminal([snapJob EXCEPT !.failedAttempts = @ + 1],
                                       "Failed", "RetriesExhausted"))

Reconcile ==
  \/ LoadJobSnapshot \/ FailOnOwnership
  \/ CreateAttempt \/ GetAttemptAfterRace \/ SetActiveAttempt
  \/ CreatePod \/ GetPodAfterRace \/ RecordPod \/ GetRecordedPod \/ FailLostPod
  \/ ObservePending \/ ObserveRunning \/ ObserveSucceeded \/ ObserveFailed
  \/ SetJobRunning \/ CompleteJob \/ ExhaustRetries

\* The operator dies between two calls and starts again; what it read is lost.
\* Its first lists may be served as stale as its last reads, so the caches stay.
CrashOperator ==
  /\ pc # "idle"
  /\ faults < MaxFaults
  /\ faults' = faults + 1
  /\ ReturnIdle
  /\ UNCHANGED <<stored, watches, caches, cli, lastJobUID, lastPodUID, succeeded>>

-----------------------------------------------------------------------------
(* Everyone else: users, the kubelet and nodes, the garbage collector, the  *)
(* watch streams (external).                                                *)

\* Admission (AgentJobValidator) lets any non-negative maxAttempts through.
SubmitJob ==
  /\ job.uid = 0 /\ lastJobUID < MaxJobs
  /\ \E max \in 0 .. MaxBudget : PutJob(NewJob(lastJobUID + 1, max))
  /\ lastJobUID' = lastJobUID + 1
  /\ UNCHANGED <<attempts, pods, attemptEvents, podEvents, caches, local,
                 cli, lastPodUID, faults, succeeded>>

\* ValidateImmutableFields: maxAttempts may only grow.
RaiseMaxAttempts ==
  /\ job.uid # 0
  /\ \E max \in job.max + 1 .. MaxBudget : PutJob([job EXCEPT !.max = max])
  /\ UNCHANGED <<attempts, pods, attemptEvents, podEvents, caches, local,
                 cli, lastJobUID, lastPodUID, faults, succeeded>>

\* No finalizer is ever added to a job: it is gone at once.  A user deletes a job
\* to create it anew.
DeleteJob ==
  /\ job.uid # 0 /\ lastJobUID < MaxJobs
  /\ PutJob(NoJob)
  /\ UNCHANGED <<attempts, pods, attemptEvents, podEvents, caches, local,
                 cli, lastJobUID, lastPodUID, faults, succeeded>>

\* cmdCancel of agentctl, which reads the API server and no cache: the job is failed,
\* refused when it has changed since it was read ...
CancelJob ==
  /\ cli.pc = "idle"
  /\ job.uid # 0 /\ ~IsJobTerminal(job)
  /\ faults < MaxFaults
  /\ faults' = faults + 1
  /\ PutJob(TrySetJobTerminal(job, "Failed", "Cancelled"))
  /\ cli' = IF job.active = 0 THEN NoCommand ELSE [pc |-> "cancelled", ordinal |-> job.active]
  /\ UNCHANGED <<attempts, pods, attemptEvents, podEvents, caches, local,
                 lastJobUID, lastPodUID, succeeded>>

\* ... then its active attempt is read, by name, for the pod it recorded ...
CancelGetsAttempt ==
  /\ cli.pc = "cancelled"
  /\ cli' = IF attempts[cli.ordinal].podUID = 0 THEN NoCommand ELSE [cli EXCEPT !.pc = "delete"]
  /\ UNCHANGED <<stored, watches, caches, local, lastJobUID, lastPodUID, faults, succeeded>>

\* ... and that pod is deleted, by name.
CancelDeletesPod ==
  /\ cli.pc = "delete"
  /\ IF pods[cli.ordinal].uid = 0 THEN UNCHANGED <<pods, podEvents>> ELSE PutPod(cli.ordinal, NoPod)
  /\ cli' = NoCommand
  /\ UNCHANGED <<job, attempts, jobEvents, attemptEvents, caches, local,
                 lastJobUID, lastPodUID, faults, succeeded>>

\* The garbage collector removes what refers to an owner that is gone.
CollectAttempt(o) ==
  /\ attempts[o].owner \notin {0, job.uid}
  /\ PutAttempt(o, NoAttempt)
  /\ UNCHANGED <<job, pods, jobEvents, podEvents, caches, local,
                 cli, lastJobUID, lastPodUID, faults, succeeded>>

CollectPod(o) ==
  /\ pods[o].uid # 0 /\ attempts[o].owner # pods[o].owner
  /\ PutPod(o, NoPod)
  /\ UNCHANGED <<job, attempts, jobEvents, attemptEvents, caches, local,
                 cli, lastJobUID, lastPodUID, faults, succeeded>>

\* The kubelet runs a pod once (RestartPolicyNever); a pod can fail before it runs.
PodMoves(o, from, to) ==
  /\ pods[o].uid # 0 /\ pods[o].phase = from
  /\ PutPod(o, [pods[o] EXCEPT !.phase = to])
  /\ succeeded' = IF to = "Succeeded" THEN succeeded \cup {pods[o].owner} ELSE succeeded
  /\ UNCHANGED <<job, attempts, jobEvents, attemptEvents, caches, local,
                 cli, lastJobUID, lastPodUID, faults>>

PodStarts(o) == PodMoves(o, "Pending", "Running")

PodEnds(o) ==
  \/ PodMoves(o, "Running", "Succeeded")
  \/ PodMoves(o, "Running", "Failed")
  \/ PodMoves(o, "Pending", "Failed")

\* Node drain, preemption, eviction: the pod disappears from the API server.
LosePod(o) ==
  /\ pods[o].uid # 0
  /\ faults < MaxFaults
  /\ faults' = faults + 1
  /\ PutPod(o, NoPod)
  /\ UNCHANGED <<job, attempts, jobEvents, attemptEvents, caches, local,
                 cli, lastJobUID, lastPodUID, succeeded>>

DeliverJob ==
  /\ jobEvents # <<>>
  /\ jobCache' = Head(jobEvents)
  /\ jobEvents' = Tail(jobEvents)
  /\ UNCHANGED <<stored, attemptEvents, podEvents, attemptCache, podCache, local,
                 cli, lastJobUID, lastPodUID, faults, succeeded>>

DeliverAttempts ==
  /\ attemptEvents # <<>>
  /\ attemptCache' = Head(attemptEvents)
  /\ attemptEvents' = Tail(attemptEvents)
  /\ UNCHANGED <<stored, jobEvents, podEvents, jobCache, podCache, local,
                 cli, lastJobUID, lastPodUID, faults, succeeded>>

DeliverPods ==
  /\ podEvents # <<>>
  /\ podCache' = Head(podEvents)
  /\ podEvents' = Tail(podEvents)
  /\ UNCHANGED <<stored, jobEvents, attemptEvents, jobCache, attemptCache, local,
                 cli, lastJobUID, lastPodUID, faults, succeeded>>

Environment ==
  \/ SubmitJob \/ RaiseMaxAttempts \/ DeleteJob
  \/ CancelJob \/ CancelGetsAttempt \/ CancelDeletesPod
  \/ \E o \in Ordinals :
       CollectAttempt(o) \/ CollectPod(o) \/ PodStarts(o) \/ PodEnds(o) \/ LosePod(o)
  \/ DeliverJob \/ DeliverAttempts \/ DeliverPods

Init ==
  /\ job = NoJob /\ jobCache = NoJob /\ jobEvents = <<>>
  /\ attempts = [o \in Ordinals |-> NoAttempt]
  /\ attemptCache = attempts /\ attemptEvents = <<>>
  /\ pods = [o \in Ordinals |-> NoPod]
  /\ podCache = pods /\ podEvents = <<>>
  /\ pc = "idle" /\ snapJob = NoJob /\ attempt = NoAttempt /\ pod = NoPod
  /\ cli = NoCommand
  /\ lastJobUID = 0 /\ lastPodUID = 0 /\ faults = 0 /\ succeeded = {}

Next == Reconcile \/ CrashOperator \/ Environment

Spec == Init /\ [][Next]_vars

\* controller-runtime requeues the name after every outcome but a terminal or
\* deleted job, watch streams deliver, the kubelet runs pods, workloads end.
Fairness ==
  /\ WF_vars(Reconcile)
  /\ WF_vars(DeliverJob) /\ WF_vars(DeliverAttempts) /\ WF_vars(DeliverPods)
  /\ \A o \in Ordinals : WF_vars(PodStarts(o)) /\ WF_vars(PodEnds(o))
  /\ \A o \in Ordinals : WF_vars(CollectAttempt(o)) /\ WF_vars(CollectPod(o))

FairSpec == Spec /\ Fairness

-----------------------------------------------------------------------------
(* Properties.                                                              *)

\* The one type invariant: conditions, reasons and phases stay those the API types
\* declare, and every name the operator makes up is one of an ordinal in the budget.
TypeOK ==
  /\ job \in Jobs /\ jobCache \in Jobs /\ snapJob \in Jobs
  /\ jobEvents \in Seq(Jobs)
  /\ attempts \in [Ordinals -> Attempts] /\ attemptCache \in [Ordinals -> Attempts]
  /\ attemptEvents \in Seq([Ordinals -> Attempts])
  /\ attempt \in Attempts
  /\ pods \in [Ordinals -> Pods] /\ podCache \in [Ordinals -> Pods]
  /\ podEvents \in Seq([Ordinals -> Pods])
  /\ pod \in Pods
  /\ pc \in Positions
  /\ cli \in Commands /\ (cli.pc # "idle" => cli.ordinal \in Ordinals)
  /\ lastJobUID \in Nat /\ lastPodUID \in Nat /\ faults \in Nat
  /\ succeeded \subseteq Nat

Live(uid) == uid # 0 /\ uid = job.uid

Owned(o) == Live(attempts[o].owner)

\* "The failed attempt is marked terminal before the new attempt is created.  At
\* most one active attempt exists at any time" (docs/fault-model.md, 1), whatever is
\* stale, lost or retried: when attempt o of the live job exists, createAttempt made
\* it after every earlier attempt of that job had Failed for good.
FailedBeforeRetry ==
  \A o, p \in Ordinals : Owned(o) /\ p < o => Owned(p) /\ attempts[p].conds = {"Failed"}

\* Each failed attempt is counted once in status.failedAttempts: the counter of a
\* job is the number of its attempts before the active one, all of them Failed,
\* and the active one too once retries are exhausted.
FailuresCountedOnce ==
  job.uid # 0 =>
    /\ job.failedAttempts =
          IF job.active = 0 \/ job.reason = "RetriesExhausted" THEN job.active
                                                              ELSE job.active - 1
    /\ \A o \in 1 .. job.failedAttempts : Owned(o) /\ attempts[o].conds = {"Failed"}

\* A job never gets more attempts than spec.execution.maxAttempts (one if it is 0).
WithinBudget ==
  \A o \in Ordinals : Owned(o) => o = 1 \/ o <= job.max

\* A job is Complete only if a pod built for that very job ended in Succeeded.
CompleteMeansSucceeded ==
  job.uid # 0 /\ "Complete" \in job.conds => job.uid \in succeeded

JobFinal ==
  job.uid # 0 /\ IsJobTerminal(job) /\ job'.uid = job.uid
     => job' = [job EXCEPT !.max = job'.max]

AttemptsFinal ==
  \A o \in Ordinals : IsAttemptTerminal(attempts[o]) /\ attempts'[o].owner # 0
     => attempts'[o] = attempts[o]

\* Terminal conditions are set once (TrySetJobTerminal, docs/architecture.md): with
\* any stale status write, neither the outcome, the counters nor the active attempt
\* of a terminal job change, and a terminal attempt does not change at all until it
\* is collected with its job.
TerminalIsFinal == [][JobFinal /\ AttemptsFinal]_stored

\* An attempt is failed as lost only when its pod is lost: never while the pod it
\* recorded is still there, waiting or running.
OnlyLostPodsFail ==
  [][\A o \in Ordinals :
        /\ attempts[o].owner # 0 /\ "Failed" \notin attempts[o].conds
        /\ "Failed" \in attempts'[o].conds
        => ~(pods[o].uid = attempts[o].podUID /\ pods[o].phase \in {"Pending", "Running"})
    ]_stored

\* Every job ends: Complete or Failed, unless it is deleted.
JobsEnd == \A u \in 1 .. MaxJobs :
  job.uid = u ~> job.uid # u \/ IsJobTerminal(job)

-----------------------------------------------------------------------------
(* Why the properties hold: whatever the operator reads is an earlier       *)
(* version of what is stored, and what it concludes from it stays true.     *)

\* What every version of a job satisfies by itself.
JobSane(j) ==
  /\ j.failedAttempts = IF j.active = 0 \/ j.reason = "RetriesExhausted" THEN j.active
                                                                        ELSE j.active - 1
  /\ j.completedAttempts = IF j.reason = "Succeeded" THEN 1 ELSE 0
  /\ j.active <= 1 \/ j.active <= j.max
  /\ j.conds = {} <=> j.reason = "None"
  /\ j.reason = "RetriesExhausted" => j.active # 0

AttemptSane(a) ==
  /\ a.conds \in {{}, {"Complete"}, {"Failed"}}
  /\ a.owner = 0 => a.conds = {}

\* j is an earlier version of the stored job, or of one that is gone for good.
JobOld(j) ==
  /\ j.uid <= lastJobUID
  /\ Live(j.uid) =>
       /\ j.max <= job.max
       /\ \A o \in Ordinals : o <= j.failedAttempts =>
             attempts[o].owner = j.uid /\ attempts[o].conds = {"Failed"}

\* a is an earlier version of the stored attempt o, or of one whose job is gone.
AttemptOld(o, a) ==
  /\ a.owner <= lastJobUID
  /\ Live(a.owner) =>
       /\ attempts[o].owner = a.owner
       /\ IsAttemptTerminal(a) => attempts[o] = a

JobVersion(j) == JobSane(j) /\ JobOld(j)

AttemptVersion(o, a) == AttemptSane(a) /\ AttemptOld(o, a)

\* The operator acts on earlier versions only.
ReadsAreOld ==
  /\ JobVersion(job) /\ JobVersion(jobCache) /\ JobVersion(snapJob)
  /\ \A i \in 1 .. Len(jobEvents) : JobVersion(jobEvents[i])
  /\ \A o \in Ordinals : /\ AttemptVersion(o, attempts[o])
                         /\ AttemptVersion(o, attemptCache[o])
  /\ \A i \in 1 .. Len(attemptEvents) : \A o \in Ordinals :
       AttemptVersion(o, attemptEvents[i][o])

\* What the worker knows at each point of a reconcile.
WorkerKnows ==
  /\ pc # "idle" => snapJob.uid # 0 /\ ~IsJobTerminal(snapJob)
  /\ attempt.owner # 0 => /\ snapJob.active \in Ordinals
                          /\ AttemptVersion(snapJob.active, attempt)
  /\ attempt.owner = 0 => attempt.conds = {}
  /\ pc \notin {"idle", "ownership"} => attempt.owner \in {0, snapJob.uid}
  /\ pc \in {"loaded", "podRace", "running"} => ~IsAttemptTerminal(attempt)
  /\ pc \in {"podRace", "running", "decide"} => attempt.owner # 0
  /\ pc = "decide" => IsAttemptTerminal(attempt)
  /\ pc \in {"attemptRace", "attemptReady"} /\ attempt.owner # 0 =>
       attempt.conds = {"Failed"} /\ RetryAllowed(snapJob)

Inv == TypeOK /\ ReadsAreOld /\ WorkerKnows /\ FailedBeforeRetry /\ WithinBudget

\* Pods and their successes are those of jobs that were created.
OwnersExist ==
  /\ succeeded \subseteq 1 .. lastJobUID
  /\ \A o \in Ordinals : pods[o].uid # 0 => pods[o].owner \in 1 .. lastJobUID

\* No pod, stored, on its way or read, ended in Succeeded, and no attempt is Complete.
PodsQuiet ==
  /\ pod.phase # "Succeeded"
  /\ \A o \in Ordinals : pods[o].phase # "Succeeded" /\ podCache[o].phase # "Succeeded"
  /\ \A i \in 1 .. Len(podEvents) : \A o \in Ordinals : podEvents[i][o].phase # "Succeeded"

AttemptsQuiet ==
  /\ "Complete" \notin attempt.conds
  /\ \A o \in Ordinals :
       "Complete" \notin attempts[o].conds /\ "Complete" \notin attemptCache[o].conds
  /\ \A i \in 1 .. Len(attemptEvents) : \A o \in Ordinals :
       "Complete" \notin attemptEvents[i][o].conds

\* Before the first success nothing tells of one.
NoneSucceeded ==
  succeeded = {} => PodsQuiet /\ AttemptsQuiet /\ "Complete" \notin job.conds

Evidence == OwnersExist /\ NoneSucceeded

=============================================================================
