-------------------------- MODULE AttemptProtocol --------------------------
(***************************************************************************)
(* From the end of a process to the end of its job: the runners of         *)
(* RunnerCheckpoints report to the operator, which settles attempts and    *)
(* jobs with the helpers of ResultProtocol and finalizer.go.               *)
(*                                                                         *)
(* In this commit only tests call the helpers, so they are given the most  *)
(* general caller: whoever calls one may do so at any moment, on the       *)
(* stored objects, and saves what it returns; nothing says that anybody    *)
(* ever does, so no step here is fair.  What Reconcile does to the same    *)
(* objects in many steps (JobController) is here one step per decision.    *)
(* A save is refused if the object has changed since it was read, so       *)
(* reading, deciding and saving one object is a step; a result is judged   *)
(* by a copy of the job that may be older than the attempt it is written   *)
(* to, and HandleFinalization works on its copy in several steps.  What a  *)
(* job leaves behind stays until the garbage collector comes, and the next *)
(* job of that name may find it: attempts, which it refuses, and pods,     *)
(* which it takes for its own.                                             *)
(***************************************************************************)
EXTENDS ResultProtocol, RunnerCheckpoints

CONSTANTS
  MaxAttempts,   \* the greatest spec.execution.maxAttempts a user gives a job
  Limits         \* the bounds of the behaviours

\* Besides those of runners: attempts started in all, jobs created under the name one
\* after another, their values of maxAttempts and whether they have the finalizer, exit
\* codes of other containers in a pod, and how many things of which kinds go wrong.
FaultKinds == {"runner", "pod", "edit", "delete", "deadline", "call"}

ASSUME BoundsAssumption ==
  /\ MaxAttempts \in Nat \ {0}
  /\ \A l \in Limits : /\ RunnerLimit(l)
                       /\ l.attempts \in Nat /\ l.jobs \in Nat /\ l.faults \in Nat
                       /\ l.budgets \subseteq 0 .. MaxAttempts
                       /\ l.finalizer \subseteq BOOLEAN /\ l.codes \subseteq 0 .. 255
                       /\ l.kinds \subseteq FaultKinds

VARIABLES
  job, attempts,   \* stored objects; attempts by ordinal, which is their name
  pods,            \* status of the pod of each runner
  envelopes,       \* results submitted, delivered in any order and any number of times
  held,            \* the result that is being judged, with the copy of the job used
  fin,             \* HandleFinalization: its place, the names it has still to delete, and
                   \* the job it was called with
  passed,          \* deadlines that are over
  lastJob, lastAttempt, faults

operator == <<job, attempts, envelopes, held, fin, passed, lastJob, lastAttempt>>
vars == <<operator, pods, faults, runnerVars, limit>>

Ordinals == 1 .. MaxAttempts
Deadlines == {"job", "attempt", "ttl"}

\* max is spec.execution.maxAttempts; adopted are the pods the job has taken over under
\* the names of its own (history).
NoJob == [uid |-> 0, max |-> 0, hash |-> {}, failed |-> 0, active |-> 0, started |-> FALSE,
          conds |-> {}, reason |-> "None", cancel |-> FALSE, finalizer |-> FALSE,
          deleting |-> FALSE, adopted |-> {}]
NoAttempt == [uid |-> 0, job |-> 0, pod |-> 0, ordinal |-> 0, conds |-> {}, exit |-> {},
              category |-> ""]
Idle == [pc |-> "idle", todo |-> {}, read |-> NoJob]

\* exit is what extractExitCode finds: the code of the first container that terminated.
NewPod == [gone |-> FALSE, phase |-> "Running", exit |-> {}]

Active == IF job.active = 0 THEN NoAttempt ELSE attempts[job.active]

Stored == {attempts[o] : o \in {p \in Ordinals : attempts[p].uid # 0}}

\* Runners are followed until the last job is gone.
Watched == job.uid # 0 \/ lastJob < limit.jobs

Fault(kind) == kind \in limit.kinds /\ faults < limit.faults /\ faults' = faults + 1

\* Of the spec only maxAttempts can change.  No hash is recorded before the first status.
ComputeSpecHash(j) == {j.max}

-----------------------------------------------------------------------------
(* Reconcile, one step per decision.  Whatever it writes to the status of   *)
(* the job, it writes the hash of the spec with it.                         *)

\* EnsureFinalizer may have been called on the job or not.
CreateJob ==
  /\ job.uid = 0 /\ lastJob < limit.jobs
  /\ \E max \in limit.budgets, finalizer \in limit.finalizer :
       job' = [NoJob EXCEPT !.uid = lastJob + 1, !.max = max, !.finalizer = finalizer]
  /\ lastJob' = lastJob + 1
  /\ UNCHANGED <<attempts, pods, envelopes, held, fin, passed, lastAttempt, faults, runnerVars>>

\* Seeded fault: attempts are not verified.
NotVerified == TRUE

\* All attempts under the name of the job are its own; pods are not verified.
VerifyAttemptOwnership == \A a \in Stored : a.job = job.uid

Reconciles == job.uid # 0 /\ ~IsTerminal(job) /\ VerifyAttemptOwnership

FailOnOwnership ==
  /\ job.uid # 0 /\ ~IsTerminal(job) /\ ~VerifyAttemptOwnership
  /\ job' = TrySetJobTerminal([job EXCEPT !.hash = ComputeSpecHash(job)],
                              "Failed", "OwnershipViolation")
  /\ UNCHANGED <<attempts, pods, envelopes, held, fin, passed, lastJob, lastAttempt, faults, runnerVars>>

\* The rule of Reconcile for a retry; ShouldRetry, which nobody calls, takes 0 for 3.
RetryAllowed(j) == j.failed + 1 < j.max

\* The failure of the active attempt is counted before the ordinal of the next is taken.
NextOrdinal == job.failed + (IF Active.uid = 0 THEN 0 ELSE 1) + 1

\* An attempt is opened when there is none, or the active one failed; r is its pod.
OpenAttempt(r, adopted) ==
  /\ Reconciles /\ lastAttempt < limit.attempts
  /\ \/ Active.uid = 0
     \/ IsTerminal(Active) /\ "Complete" \notin Active.conds /\ RetryAllowed(job)
  /\ job' = [job EXCEPT !.failed = NextOrdinal - 1, !.active = NextOrdinal,
                        !.hash = ComputeSpecHash(job), !.adopted = @ \cup adopted]
  /\ attempts' = [attempts EXCEPT ![NextOrdinal] =
       [NoAttempt EXCEPT !.uid = lastAttempt + 1, !.job = job.uid, !.pod = r,
                         !.ordinal = NextOrdinal]]
  /\ lastAttempt' = lastAttempt + 1
  /\ passed' = passed \ {"attempt"}
  /\ UNCHANGED <<envelopes, held, fin, lastJob, faults, objects>>

\* The pod of an attempt has the name of the job and the ordinal, whichever job it is of.
PodsNamed(o) == {r \in DOMAIN runners : ~pods[r].gone /\ runners[r].ordinal = o}

StartAttempt ==
  /\ PodsNamed(NextOrdinal) = {}
  /\ OpenAttempt(Len(runners) + 1, {})
  /\ runners' = Append(runners, NewRunner(job.uid, ComputeSpecHash(job), attempts'[NextOrdinal]))
  /\ pods' = Append(pods, NewPod)

\* A pod of that name is there already.
AdoptPod ==
  /\ \E r \in PodsNamed(NextOrdinal) : OpenAttempt(r, {r})
  /\ UNCHANGED <<runners, pods>>

ReportRunning ==
  /\ Reconciles /\ Active.uid # 0 /\ ~IsTerminal(Active)
  /\ ~pods[Active.pod].gone /\ pods[Active.pod].phase = "Running"
  /\ job' = [job EXCEPT !.started = TRUE, !.hash = ComputeSpecHash(job)]
  /\ UNCHANGED <<attempts, pods, envelopes, held, fin, passed, lastJob, lastAttempt, faults, runnerVars>>

\* ReconcileAttempt: the attempt follows the pod it has recorded.  One that is gone, or
\* was replaced by another of its name, leaves no exit code, and neither does one of
\* which no container is known to have terminated.
Observed(a, p) ==
  LET code == IF p.gone THEN {} ELSE p.exit IN
  [a EXCEPT !.conds = {IF ~p.gone /\ p.phase = "Succeeded" THEN "Complete" ELSE "Failed"},
            !.exit = IF code = {} THEN a.exit ELSE code]

ObservePod ==
  LET p == pods[Active.pod] IN
  /\ Reconciles /\ Active.uid # 0 /\ ~IsTerminal(Active)
  /\ p.gone \/ p.phase \in {"Succeeded", "Failed"}
  /\ attempts' = [attempts EXCEPT ![job.active] = Observed(Active, p)]
  /\ UNCHANGED <<job, pods, envelopes, held, fin, passed, lastJob, lastAttempt, faults, runnerVars>>

\* Step 7 of Reconcile, when no retry follows.
FinishJob ==
  LET j == [job EXCEPT !.hash = ComputeSpecHash(job)] IN
  /\ Reconciles /\ IsTerminal(Active)
  /\ \/ /\ "Complete" \in Active.conds
        /\ job' = TrySetJobTerminal(j, "Complete", "Succeeded")
     \/ /\ "Complete" \notin Active.conds /\ ~RetryAllowed(job)
        /\ job' = TrySetJobTerminal([j EXCEPT !.failed = @ + 1], "Failed", "RetriesExhausted")
  /\ UNCHANGED <<attempts, pods, envelopes, held, fin, passed, lastJob, lastAttempt, faults, runnerVars>>

-----------------------------------------------------------------------------
(* Results.                                                                 *)

\* The category a runner adds of its own, where the exit code tells nothing.
Hints(result) == IF result.code = -1 THEN {"", "OOM"} ELSE {""}

SubmitResult(r) ==
  /\ runners[r].pc = "ended" /\ ~\E e \in envelopes : e.attempt = runners[r].attempt
  /\ \E result \in runners[r].result : \E category \in Hints(result) :
       envelopes' = envelopes \cup
         {[job |-> runners[r].job, attempt |-> runners[r].attempt, ordinal |-> runners[r].ordinal,
           hash |-> runners[r].hash, code |-> result.code,
           category |-> category]}
  /\ UNCHANGED <<job, attempts, pods, held, fin, passed, lastJob, lastAttempt, faults, runnerVars>>

\* What ValidateFencing reads of a job.
FencedBy(j) == [uid |-> j.uid, hash |-> j.hash, conds |-> j.conds, active |-> j.active]

\* A result arrives: the job it names is read ...
DeliverResult ==
  /\ held = {} /\ job.uid # 0
  /\ \E e \in envelopes : held' = {[job |-> FencedBy(job), envelope |-> e]}
  /\ UNCHANGED <<job, attempts, pods, envelopes, fin, passed, lastJob, lastAttempt, faults, runnerVars>>

\* ... then the attempt that is active in it, which the result is written to if it
\* passes the fence.
ApplyResult ==
  /\ \E h \in held :
       LET o == h.job.active IN
       IF /\ o # 0
          /\ attempts[o].uid # 0
          /\ ValidateFencing(h.job, attempts[o], h.envelope)
         THEN attempts' = [attempts EXCEPT ![o] = ReconcileResult(@, h.envelope)]
         ELSE UNCHANGED attempts
  /\ held' = {}
  /\ UNCHANGED <<job, pods, envelopes, fin, passed, lastJob, lastAttempt, faults, runnerVars>>

-----------------------------------------------------------------------------
(* Cancellation, deadlines, deletion.                                       *)

\* A user sets the annotation or raises maxAttempts; the webhook refuses to lower it.
EditJob ==
  /\ job.uid # 0 /\ Fault("edit")
  /\ \/ job' = [job EXCEPT !.cancel = TRUE]
     \/ \E max \in limit.budgets : max > job.max /\ job' = [job EXCEPT !.max = max]
  /\ UNCHANGED <<attempts, pods, envelopes, held, fin, passed, lastJob, lastAttempt, runnerVars>>

\* The job is gone.  What it owned is still there.
JobGone == job' = NoJob /\ passed' = {}

\* A job with the finalizer waits for its removal.
MarkDeleted ==
  /\ ~job.deleting
  /\ IF job.finalizer THEN job' = [job EXCEPT !.deleting = TRUE] /\ UNCHANGED passed ELSE JobGone

DeleteJob ==
  /\ job.uid # 0 /\ MarkDeleted /\ Fault("delete")
  /\ UNCHANGED <<attempts, pods, envelopes, held, fin, lastJob, lastAttempt, runnerVars>>

Cancel ==
  /\ job.cancel
  /\ job' = HandleCancel(job)
  /\ UNCHANGED <<attempts, pods, envelopes, held, fin, passed, lastJob, lastAttempt, faults, runnerVars>>

DeadlinePasses ==
  /\ job.uid # 0 /\ Fault("deadline")
  /\ \E d \in Deadlines \ passed : passed' = passed \cup {d}
  /\ UNCHANGED <<job, attempts, pods, envelopes, held, fin, lastJob, lastAttempt, runnerVars>>

\* A deadline of the job fails it, one of the attempt fails the attempt.
TimeOut ==
  /\ ~IsTerminal(job)
  /\ \/ /\ CheckDeadline(job, Active, passed) = "job"
        /\ job' = TrySetJobTerminal(job, "Failed", "DeadlineExceeded")
        /\ UNCHANGED attempts
     \/ /\ CheckDeadline(job, Active, passed) = "attempt" /\ ~IsTerminal(Active)
        /\ attempts' = [attempts EXCEPT ![job.active] =
                          [@ EXCEPT !.conds = {"Failed"}, !.category = "Timeout"]]
        /\ UNCHANGED job
  /\ UNCHANGED <<pods, envelopes, held, fin, passed, lastJob, lastAttempt, faults, runnerVars>>

ExpireJob ==
  /\ CheckTTL(job, passed) /\ MarkDeleted
  /\ UNCHANGED <<attempts, pods, envelopes, held, fin, lastJob, lastAttempt, faults, runnerVars>>

\* The garbage collector (external): attempts of a job that is gone, pods of an attempt
\* that is gone.  An adopted pod still belongs to the attempt it was created for.
CollectAttempt ==
  /\ \E o \in Ordinals : /\ attempts[o].uid # 0 /\ attempts[o].job # job.uid
                         /\ attempts' = [attempts EXCEPT ![o] = NoAttempt]
  /\ UNCHANGED <<job, pods, envelopes, held, fin, passed, lastJob, lastAttempt, faults, runnerVars>>

CollectPod ==
  /\ \E r \in DOMAIN pods : /\ ~pods[r].gone /\ \A a \in Stored : a.uid # runners[r].attempt
                            /\ pods' = [pods EXCEPT ![r].gone = TRUE]
  /\ UNCHANGED <<operator, faults, runnerVars>>

-----------------------------------------------------------------------------
(* HandleFinalization and its caller, who saves the job.  Reconcile goes    *)
(* on meanwhile.                                                            *)

ListPods ==
  /\ fin.pc = "idle" /\ job.deleting
  /\ fin' = [pc |-> "pods", read |-> job,
             todo |-> {runners[r].ordinal : r \in {s \in DOMAIN runners : ~pods[s].gone}}]
  /\ UNCHANGED <<job, attempts, pods, envelopes, held, passed, lastJob, lastAttempt, faults, runnerVars>>

\* Pods and attempts are deleted by name, whatever has that name by then.
DeletePod ==
  /\ fin.pc = "pods"
  /\ \E o \in fin.todo :
       /\ pods' = [r \in DOMAIN pods |->
                     IF runners[r].ordinal = o THEN [pods[r] EXCEPT !.gone = TRUE] ELSE pods[r]]
       /\ fin' = [fin EXCEPT !.todo = @ \ {o}]
  /\ UNCHANGED <<job, attempts, envelopes, held, passed, lastJob, lastAttempt, faults, runnerVars>>

ListAttempts ==
  /\ fin.pc = "pods" /\ fin.todo = {}
  /\ fin' = [fin EXCEPT !.pc = "attempts", !.todo = {o \in Ordinals : attempts[o].uid # 0}]
  /\ UNCHANGED <<job, attempts, pods, envelopes, held, passed, lastJob, lastAttempt, faults, runnerVars>>

DeleteAttempt ==
  /\ fin.pc = "attempts"
  /\ \E o \in fin.todo :
       /\ attempts' = [attempts EXCEPT ![o] = NoAttempt]
       /\ fin' = [fin EXCEPT !.todo = @ \ {o}]
  /\ UNCHANGED <<job, pods, envelopes, held, passed, lastJob, lastAttempt, faults, runnerVars>>

\* RemoveFinalizer edits the copy of the job in memory, no more: at the end, or when
\* maxWait is over in one of the calls.
RemoveFinalizer ==
  /\ \/ fin.pc = "attempts" /\ fin.todo = {} /\ UNCHANGED faults
     \/ fin.pc \in {"pods", "attempts"} /\ Fault("call")
  /\ fin' = [fin EXCEPT !.pc = "save", !.todo = {}]
  /\ UNCHANGED <<job, attempts, pods, envelopes, held, passed, lastJob, lastAttempt, runnerVars>>

\* The caller saves the copy, which is refused if the job has changed since.
SaveJob ==
  /\ fin.pc = "save"
  /\ IF fin.read = job THEN JobGone ELSE UNCHANGED <<job, passed>>
  /\ fin' = Idle
  /\ UNCHANGED <<attempts, pods, envelopes, held, lastJob, lastAttempt, faults, runnerVars>>

\* A call fails otherwise: the caller may come back later.
FinalizationFails ==
  /\ fin.pc # "idle" /\ Fault("call")
  /\ fin' = Idle
  /\ UNCHANGED <<job, attempts, pods, envelopes, held, passed, lastJob, lastAttempt, runnerVars>>

HandleFinalization ==
  ListPods \/ DeletePod \/ ListAttempts \/ DeleteAttempt \/ RemoveFinalizer \/ SaveJob
    \/ FinalizationFails

-----------------------------------------------------------------------------
(* Runners and their pods (kubelet, nodes: external).                       *)

RunnerSteps(r) ==
  /\ RestoreCheckpoint(r) \/ Work(r) \/ CreateCheckpoint(r) \/ ProcessEnds(r)
  /\ UNCHANGED <<operator, pods, faults>>

RunnerFails(r) ==
  /\ RestoreFails(r) \/ CheckpointFails(r)
  /\ Fault("runner")
  /\ UNCHANGED <<operator, pods>>

\* A pod has Succeeded if all its containers exited with 0, the runner's among them.
\* Else it may be the code of another container that is found first.
PodEnds(r) ==
  /\ ~pods[r].gone /\ pods[r].phase = "Running"
  /\ \E result \in runners[r].result :
       \/ result.code = 0 /\ pods' = [pods EXCEPT ![r] = [@ EXCEPT !.phase = "Succeeded", !.exit = {0}]]
       \/ \E code \in limit.codes \cup ({result.code} \ {-1}) :
            /\ result.code # 0 \/ limit.codes # {}
            /\ pods' = [pods EXCEPT ![r] = [@ EXCEPT !.phase = "Failed", !.exit = {code}]]
  /\ UNCHANGED <<operator, faults, runnerVars>>

\* A pod is killed for its memory (137), evicted, with or without the status of its
\* containers, or gone.  In every case its runner may go on unseen for a while.
LosePod(r) ==
  /\ ~pods[r].gone /\ pods[r].phase = "Running" /\ Fault("pod")
  /\ \/ \E exit \in {{}, {128 + SIGKILL}} :
          pods' = [pods EXCEPT ![r] = [@ EXCEPT !.phase = "Failed", !.exit = exit]]
     \/ pods' = [pods EXCEPT ![r] = [@ EXCEPT !.gone = TRUE]]
  /\ UNCHANGED <<operator, runnerVars>>

-----------------------------------------------------------------------------

Init ==
  /\ job = NoJob /\ attempts = [o \in Ordinals |-> NoAttempt] /\ pods = <<>>
  /\ envelopes = {} /\ held = {} /\ fin = Idle /\ passed = {}
  /\ lastJob = 0 /\ lastAttempt = 0 /\ faults = 0
  /\ objects = {} /\ runners = <<>> /\ limit \in Limits

Next ==
  /\ \/ CreateJob \/ FailOnOwnership \/ StartAttempt \/ AdoptPod \/ ReportRunning
     \/ ObservePod \/ FinishJob \/ DeliverResult \/ ApplyResult
     \/ EditJob \/ DeleteJob \/ Cancel \/ DeadlinePasses \/ TimeOut \/ ExpireJob
     \/ CollectAttempt \/ CollectPod \/ HandleFinalization
     \/ \E r \in DOMAIN runners : Watched /\
          (RunnerSteps(r) \/ RunnerFails(r) \/ SubmitResult(r) \/ PodEnds(r) \/ LosePod(r))
  /\ UNCHANGED limit

Spec == Init /\ [][Next]_vars

-----------------------------------------------------------------------------
(* Properties.                                                              *)

\* The process of runner r ended with code.
EndedWith(r, code) == \E result \in runners[r].result : result.code = code

\* "Only results matching all five fencing layers can mutate job state"
\* (docs/fault-model.md, 4): with results late, repeated or from a job that is gone, and
\* with pods adopted, the exit code of an attempt is the one the process that was started
\* for that very attempt ended with, or one of a container of the pod it has recorded.
ResultsAreFenced ==
  \A o \in Ordinals : \A code \in attempts[o].exit :
     \/ code \in pods[attempts[o].pod].exit
     \/ \E r \in DOMAIN runners : runners[r].attempt = attempts[o].uid /\ EndedWith(r, code)

\* A job is Complete only if a process of its last attempt exited with 0: one of that very
\* job, or in a pod the job has adopted.  A result that arrives after the failure of its
\* attempt was counted does not count any more, whichever copy of the job judges it.
CompleteMeansRan ==
  "Complete" \in job.conds =>
    \E r \in DOMAIN runners : /\ EndedWith(r, 0) /\ runners[r].ordinal = job.active
                              /\ runners[r].job = job.uid \/ r \in job.adopted

\* A process that was killed is never booked as an error of the user's
\* (Supervisor.Run, ExitToResult and ClassifyError together).
KilledIsNotUserError ==
  \A o \in Ordinals : attempts[o].category = "User" =>
     \E r \in DOMAIN runners :
        runners[r].attempt = attempts[o].uid /\ \E result \in runners[r].result : result.signal = 0

\* Once a job has an attempt, the invariants of state/invariants.go hold of it: one attempt
\* that is not over at most, and none of another job, with attempts being deleted,
\* collected and opened in any order.
SnapshotsAreValid == job.active # 0 => ValidateSnapshot(job.uid, Stored)

\* The outcome of a job is settled once, whoever comes first: a result, the retry
\* budget, a cancellation or a deadline (docs/fault-model.md, 9, 10 and 13).
OutcomeIsSettledOnce ==
  [][IsTerminal(job) /\ job'.uid = job.uid
       => job'.conds = job.conds /\ job'.reason = job.reason]_vars

\* The runner that was started for the attempt that is active in a job nobody deletes.
IsCurrent(r) == ~job.deleting /\ runners[r].attempt = Active.uid

\* A retry resumes at least where the attempt before it left off: a restore that
\* succeeds brings back every file that attempt had uploaded by then.  (Not in a runner
\* that was replaced before it came to restore: the latest checkpoint may then be that
\* of its successor, which lacks what a process further back has uploaded since.)
RestoreNeverRegresses ==
  [][\A r \in DOMAIN runners :
       IsCurrent(r) /\ runners[r].pc = "restore" /\ runners'[r].pc = "run" /\ faults' = faults =>
         \A c \in objects : c.job = runners[r].job /\ c.ordinal = runners[r].ordinal - 1
           => Files(c.content) \subseteq runners'[r].dir]_vars

-----------------------------------------------------------------------------
(* Why the properties hold.                                                 *)

Conditions == {"Complete", "Failed"}
Reasons == {"None", "Succeeded", "RetriesExhausted", "Cancelled", "DeadlineExceeded",
            "OwnershipViolation"}
Entries == [n : Nat, kind : Kinds]
Results == [code : Int, signal : Nat]

JobType ==
  [uid : Nat, max : 0 .. MaxAttempts, hash : SUBSET Nat, failed : 0 .. MaxAttempts,
   active : 0 .. MaxAttempts, started : BOOLEAN, conds : SUBSET Conditions, reason : Reasons,
   cancel : BOOLEAN, finalizer : BOOLEAN, deleting : BOOLEAN, adopted : SUBSET Nat]
AttemptType ==
  [uid : Nat, job : Nat, pod : Nat, ordinal : Nat, conds : SUBSET Conditions,
   exit : SUBSET Int, category : Categories \cup {""}]
PodType ==
  [gone : BOOLEAN, phase : {"Running", "Succeeded", "Failed"}, exit : SUBSET Int]
RunnerType ==
  [job : Nat, attempt : Nat, ordinal : Nat, hash : SUBSET Nat, pc : {"restore", "run", "ended"},
   dir : SUBSET Entries, seq : Nat, result : SUBSET Results]
ObjectType == [job : Nat, ordinal : Nat, seq : Nat, content : SUBSET Entries]
EnvelopeType ==
  [job : Nat, attempt : Nat, ordinal : Nat, hash : SUBSET Nat, code : Int, category : {"", "OOM"}]
FencedType ==
  [uid : Nat, hash : SUBSET Nat, conds : SUBSET Conditions, active : 0 .. MaxAttempts]
FinType ==
  [pc : {"idle", "pods", "attempts", "save"}, todo : SUBSET Nat, read : JobType]

TypeOK ==
  /\ job \in JobType
  /\ attempts \in [Ordinals -> AttemptType]
  /\ pods \in Seq(PodType)
  /\ runners \in Seq(RunnerType)
  /\ objects \subseteq ObjectType
  /\ envelopes \subseteq EnvelopeType
  /\ held \subseteq [job : FencedType, envelope : EnvelopeType]
  /\ fin \in FinType
  /\ passed \subseteq Deadlines
  /\ lastJob \in Nat /\ lastAttempt \in Nat /\ faults \in Nat /\ limit \in Limits

\* Runner n has pod n, and no two were started for one attempt; the result of a process is
\* known from its end on, and only a process that exited has a code of its own.
RunnerShape ==
  /\ Len(pods) = Len(runners)
  /\ \A r \in DOMAIN runners :
       /\ runners[r].attempt \in 1 .. lastAttempt /\ runners[r].job \in 1 .. lastJob
       /\ runners[r].result # {} => runners[r].pc = "ended"
       /\ \A result \in runners[r].result : result.code # -1 => result.signal = 0
       /\ pods[r].phase = "Succeeded" => EndedWith(r, 0)
       /\ pods[r].phase = "Running" => pods[r].exit = {}
       /\ \A s \in DOMAIN runners : runners[r].attempt = runners[s].attempt => r = s

\* The job: nothing is left of one that is gone, and it has a retry to spend until it ends.
JobShape ==
  /\ job.uid <= lastJob
  /\ job.uid = 0 => job = NoJob
  /\ ~IsTerminal(job) => job.failed < MaxAttempts
  /\ ~IsTerminal(job) /\ job.active # 0 => job.active = job.failed + 1
  /\ fin.pc # "idle" => job.deleting

\* The process that was started for a attempt: there is none if its pod was adopted.
OwnProcess(a, r) == r \in DOMAIN runners /\ runners[r].attempt = a.uid

\* What is recorded of the end of an attempt is what its own process or its pod did.
EndIsTrue(a) ==
  /\ \A code \in a.exit : code \in pods[a.pod].exit
                           \/ \E r \in DOMAIN runners : OwnProcess(a, r) /\ EndedWith(r, code)
  /\ "Complete" \in a.conds => EndedWith(a.pod, 0)
  /\ a.category = "User" => \E r \in DOMAIN runners :
       OwnProcess(a, r) /\ \E result \in runners[r].result : result.signal = 0

\* Where a stored attempt belongs: its pod has its name; its own process, if it has one, is
\* in that pod and of its job; and the pod is the job's or adopted.
Belongs(a) ==
  /\ a.uid \in 1 .. lastAttempt /\ a.job \in 1 .. lastJob
  /\ a.pod \in DOMAIN runners /\ runners[a.pod].ordinal = a.ordinal
  /\ \A r \in DOMAIN runners : OwnProcess(a, r) => r = a.pod /\ runners[r].job = a.job
  /\ a.job = job.uid => runners[a.pod].job = job.uid \/ a.pod \in job.adopted

\* A job that has an attempt has no other's, and only the active one may not be over.
Accounted(o) ==
  LET a == attempts[o] IN
  IF a.uid = 0 THEN a = NoAttempt
  ELSE /\ a.ordinal = o /\ Belongs(a) /\ EndIsTrue(a)
       /\ job.active # 0 => a.job = job.uid
       /\ a.job = job.uid => o <= job.active /\ (o # job.active => IsTerminal(a))

AttemptsAccounted == \A o \in Ordinals : Accounted(o)

\* An envelope tells what the process of its attempt ended with.
Truthful(e) ==
  \E r \in DOMAIN runners : runners[r].attempt = e.attempt /\ EndedWith(r, e.code)

ResultsTruthful ==
  /\ \A e \in envelopes : Truthful(e)
  /\ \A h \in held : Truthful(h.envelope)

Inv ==
  /\ TypeOK /\ RunnerShape /\ JobShape /\ AttemptsAccounted /\ ResultsTruthful
  /\ CompleteMeansRan

\* The runners of a job nobody deletes: one for each ordinal up to the active one.
OneRunnerPerOrdinal ==
  job.uid # 0 /\ ~job.deleting =>
    /\ job.active # 0 => Active.uid # 0
    /\ \A r \in DOMAIN runners : runners[r].job = job.uid =>
         /\ runners[r].ordinal \in 1 .. job.active
         /\ \A s \in DOMAIN runners :
              runners[s].job = job.uid /\ runners[s].ordinal = runners[r].ordinal => s = r

\* c was uploaded by runner r; as long as r runs, the number of c is used up and the
\* files of c are in its directory.
UploadedBy(c, r) ==
  /\ c.job = runners[r].job /\ c.ordinal = runners[r].ordinal
  /\ runners[r].pc # "restore"
  /\ runners[r].pc = "run" => c.seq < runners[r].seq /\ Files(c.content) \subseteq runners[r].dir

\* c is the last checkpoint of its attempt, and has the files of those before it.
LastOfAttempt(c) ==
  \A d \in objects : d.job = c.job /\ d.ordinal = c.ordinal =>
     d.seq <= c.seq /\ Files(d.content) \subseteq Files(c.content)

\* In the job that is there, every checkpoint is one of its runners' and there is a last
\* one for its attempt.
CheckpointsGrow ==
  \A c \in objects :
    /\ c.job \in 1 .. lastJob
    /\ c.job = job.uid /\ ~job.deleting =>
         /\ \E r \in DOMAIN runners : UploadedBy(c, r)
         /\ \E d \in objects : d.job = c.job /\ d.ordinal = c.ordinal /\ LastOfAttempt(d)

RestoreInv == OneRunnerPerOrdinal /\ CheckpointsGrow

=============================================================================
