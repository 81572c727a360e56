------------------------ MODULE JobRefinementProofs ------------------------
(***************************************************************************)
(* The reconciler of JobController implements JobLifecycle, for any        *)
(* budget, number of jobs, pods and faults, and any lag of the informers.  *)
(*                                                                         *)
(* A step writes the job, or one attempt, or neither (JobWrites,           *)
(* AttemptWrites).  What it writes follows from an old version of the job; *)
(* Inv of JobController says what such a version may lack, and two more    *)
(* invariants say that a version from before the job ended is no reason to *)
(* open another attempt (CompleteHasAttempt, BudgetIsSpent).               *)
(***************************************************************************)
EXTENDS JobRefinement, JobControllerProofs

-----------------------------------------------------------------------------
(* What a step writes.                                                      *)

\* The versions of the job move on: from the store to the stream, from there to the
\* cache, from there to the worker.
VersionsMove ==
  Streams(job, jobEvents, jobCache) /\ snapJob' \in {snapJob, jobCache, NoJob}

\* An attempt that has not ended is written.
AttemptMoves ==
  /\ UNCHANGED job
  /\ \E o \in Ordinals, a \in Attempts :
       /\ attempts' = [attempts EXCEPT ![o] = a]
       /\ attempts[o].conds = {} /\ a.owner = attempts[o].owner /\ AttemptSane(a)

\* An attempt of a job that is gone is removed.
AttemptCollected ==
  /\ UNCHANGED job
  /\ \E o \in Ordinals : ~Owned(o) /\ attempts' = [attempts EXCEPT ![o] = NoAttempt]

\* createAttempt stores a new one.
AttemptMade ==
  /\ UNCHANGED job /\ WantsAttempt
  /\ \E o \in Ordinals :
       /\ o = AttemptOrdinal(snapJob, Retry) /\ attempts[o].owner = 0
       /\ attempts' = [attempts EXCEPT ![o] = [NoAttempt EXCEPT !.owner = snapJob.uid]]

\* A write of the live job, of the fields a status update may change.
JobMoves ==
  UNCHANGED attempts /\ job.uid # 0 /\ job'.uid = job.uid /\ job'.max = job.max

\* The job goes on.
JobGoesOn == JobMoves /\ job.conds = {} /\ job'.conds = {} /\ job'.reason = "None"

\* The job is failed, for another reason than its attempts.
JobGivenUp ==
  /\ JobMoves /\ job.conds = {} /\ job'.conds = {"Failed"}
  /\ job'.reason \in {"OwnershipViolation", "Cancelled"}

\* The job is complete with its active attempt.
JobCompletes ==
  /\ JobMoves /\ job.conds = {} /\ job'.conds = {"Complete"} /\ job'.reason = "Succeeded"
  /\ job'.active \in Ordinals /\ Owned(job'.active) /\ attempts[job'.active].conds = {"Complete"}

\* The job is failed with its active attempt, the last one its budget allows.
JobExhausted ==
  /\ JobMoves /\ job.conds = {} /\ job'.conds = {"Failed"} /\ job'.reason = "RetriesExhausted"
  /\ job'.active \in Ordinals /\ job.max <= job'.active
  /\ \A o \in Ordinals : o <= job'.active => Owned(o) /\ attempts[o].conds = {"Failed"}

\* Each step moves versions forward only.
LEMMA VersionsStep ==
  ASSUME Inv, [Next]_vars
  PROVE  VersionsMove
<1> USE DEF VersionsMove, Streams
<1>1. CASE UNCHANGED vars
  BY <1>1 DEF vars, watches, caches, local
<1>2. CASE CrashOperator
  BY <1>2 DEF CrashOperator, ReturnIdle, watches, caches
<1>3. ASSUME NEW j, UpdateJobStatus(j) PROVE VersionsMove
  BY <1>3 DEF UpdateJobStatus, PutJob, ReturnIdle, caches
<1>4. ASSUME NEW a, NEW position, UpdateAttemptStatus(a, position) PROVE VersionsMove
  BY <1>4 DEF UpdateAttemptStatus, ReturnIdle, caches
<1>5. CASE Reconcile
  <2>1. CASE FailOnOwnership \/ SetActiveAttempt \/ CompleteJob \/ ExhaustRetries
    BY <1>3, <2>1 DEF FailOnOwnership, SetActiveAttempt, CompleteJob, ExhaustRetries
  <2>2. CASE FailLostPod \/ ObserveSucceeded \/ ObserveFailed
    BY <1>4, <2>2 DEF FailLostPod, ObserveSucceeded, ObserveFailed
  <2>3. CASE SetJobRunning
    BY <1>3, <2>3 DEF SetJobRunning, ReturnIdle, watches, caches
  <2>4. CASE ObserveRunning
    BY <1>4, <2>4 DEF ObserveRunning, Goto, watches, caches
  <2>5. CASE LoadJobSnapshot
    BY <2>5 DEF LoadJobSnapshot, watches, caches
  <2>6. CASE CreateAttempt \/ GetAttemptAfterRace \/ ObservePending
    BY <2>6 DEF CreateAttempt, GetAttemptAfterRace, ObservePending, Goto, ReturnIdle, watches, caches
  <2>7. CASE CreatePod \/ GetPodAfterRace \/ RecordPod \/ GetRecordedPod
    BY <2>7 DEF CreatePod, GetPodAfterRace, RecordPod, GetRecordedPod, Goto, ReturnIdle, watches, caches
  <2> QED BY <1>5, <2>1, <2>2, <2>3, <2>4, <2>5, <2>6, <2>7 DEF Reconcile
<1>6. CASE Environment
  <2>1. CASE SubmitJob \/ RaiseMaxAttempts \/ DeleteJob \/ CancelJob
    BY <2>1 DEF SubmitJob, RaiseMaxAttempts, DeleteJob, CancelJob, PutJob, caches, local
  <2>2. CASE CancelGetsAttempt \/ CancelDeletesPod
    BY <2>2 DEF CancelGetsAttempt, CancelDeletesPod, watches, caches, local
  <2>3. CASE DeliverJob \/ DeliverAttempts \/ DeliverPods
    BY <2>3 DEF DeliverJob, DeliverAttempts, DeliverPods, local
  <2>4. ASSUME NEW o \in Ordinals,
               CollectAttempt(o) \/ CollectPod(o) \/ PodStarts(o) \/ PodEnds(o) \/ LosePod(o)
        PROVE  VersionsMove
    BY <2>4 DEF CollectAttempt, CollectPod, PodStarts, PodEnds, PodMoves, LosePod, caches, local
  <2> QED BY <1>6, <2>1, <2>2, <2>3, <2>4 DEF Environment
<1> QED BY <1>1, <1>2, <1>5, <1>6 DEF Next

\* Every step of the worker, by what it writes.
LEMMA ReconcileWrites ==
  ASSUME Inv, Reconcile
  PROVE  \/ UNCHANGED <<job, attempts>>
         \/ AttemptMoves \/ AttemptMade
         \/ FailOnOwnership \/ SetActiveAttempt \/ SetJobRunning \/ CompleteJob \/ ExhaustRetries
<1>1. CASE \/ LoadJobSnapshot \/ GetAttemptAfterRace \/ CreatePod \/ GetPodAfterRace
           \/ GetRecordedPod \/ ObservePending
  BY <1>1 DEF LoadJobSnapshot, GetAttemptAfterRace, CreatePod, GetPodAfterRace, GetRecordedPod,
              ObservePending, stored
<1>2. CASE CreateAttempt
  <2>1. WantsAttempt /\ UNCHANGED job
    BY <1>2 DEF CreateAttempt
  <2>2. PICK o \in Ordinals : o = AttemptOrdinal(snapJob, Retry)
    BY <2>1, NewOrdinal
  <2>3. \/ UNCHANGED attempts
        \/ /\ attempts[o].owner = 0
           /\ attempts' = [attempts EXCEPT ![o] = [NoAttempt EXCEPT !.owner = snapJob.uid]]
    BY <1>2, <2>2 DEF CreateAttempt, PutAttempt
  <2> QED BY <2>1, <2>2, <2>3 DEF AttemptMade
<1>3. ASSUME pc = "loaded", attempt.owner # 0, UNCHANGED job, NEW a \in Attempts,
             AttemptSane(a), a.owner = attempt.owner,
             \/ UNCHANGED attempts
             \/ attempts[snapJob.active] = attempt /\ PutAttempt(snapJob.active, a)
      PROVE  UNCHANGED <<job, attempts>> \/ AttemptMoves
  <2>1. /\ snapJob.active \in Ordinals /\ ~IsAttemptTerminal(attempt)
        /\ attempt \in Attempts /\ AttemptSane(attempt)
    BY <1>3, HeldAttempt
  <2>2. attempt.conds = {}
    BY <1>3, <2>1, AttemptFields
  <2>3. CASE UNCHANGED attempts
    BY <1>3, <2>3
  <2>4. CASE attempts[snapJob.active] = attempt /\ PutAttempt(snapJob.active, a)
    BY <1>3, <2>1, <2>2, <2>4 DEF AttemptMoves, PutAttempt
  <2> QED BY <1>3, <2>3, <2>4
<1>4. CASE RecordPod
  <2>1. pc = "loaded" /\ attempt.owner # 0 /\ UNCHANGED job
    BY <1>4 DEF RecordPod
  <2>2. attempt \in Attempts /\ AttemptSane(attempt)
    BY <2>1, HeldAttempt
  <2>3. Recorded(attempt, pod) \in Attempts /\ Recorded(attempt, pod).owner = attempt.owner
        /\ Recorded(attempt, pod).conds = attempt.conds
    BY <2>2 DEF Recorded, Inv, TypeOK, Attempts, Pods
  <2>4. AttemptSane(Recorded(attempt, pod))
    BY <2>2, <2>3 DEF AttemptSane
  <2> QED BY <1>3, <1>4, <2>1, <2>3, <2>4 DEF RecordPod, SameVersion
<1>5. ASSUME pc = "loaded", attempt.owner # 0, NEW a \in Attempts, NEW position,
             AttemptSane(a), a.owner = attempt.owner, UpdateAttemptStatus(a, position)
      PROVE  UNCHANGED <<job, attempts>> \/ AttemptMoves
  BY <1>3, <1>5 DEF UpdateAttemptStatus, SameVersion
<1>6. ASSUME pc = "loaded", attempt.owner # 0
      PROVE  /\ \A c \in Terminal : LET b == [attempt EXCEPT !.started = TRUE, !.conds = @ \cup {c}] IN
                  b \in Attempts /\ AttemptSane(b) /\ b.owner = attempt.owner
             /\ LET b == [attempt EXCEPT !.conds = @ \cup {"Failed"}] IN
                  b \in Attempts /\ AttemptSane(b) /\ b.owner = attempt.owner
             /\ LET b == [attempt EXCEPT !.started = TRUE] IN
                  b \in Attempts /\ AttemptSane(b) /\ b.owner = attempt.owner
  <2>1. attempt \in Attempts /\ AttemptSane(attempt) /\ ~IsAttemptTerminal(attempt)
    BY <1>6, HeldAttempt
  <2>2. attempt.conds = {}
    BY <1>6, <2>1, AttemptFields
  <2>3. /\ \A c \in Terminal : [attempt EXCEPT !.started = TRUE, !.conds = @ \cup {c}]
                             = [attempt EXCEPT !.started = TRUE, !.conds = {c}]
        /\ [attempt EXCEPT !.conds = @ \cup {"Failed"}] = [attempt EXCEPT !.conds = {"Failed"}]
    BY <2>1, <2>2 DEF Attempts
  <2>4. /\ \A c \in Terminal : LET b == [attempt EXCEPT !.started = TRUE, !.conds = {c}] IN
             b \in Attempts /\ AttemptSane(b) /\ b.owner = attempt.owner
        /\ LET b == [attempt EXCEPT !.conds = {"Failed"}] IN
             b \in Attempts /\ AttemptSane(b) /\ b.owner = attempt.owner
        /\ LET b == [attempt EXCEPT !.started = TRUE] IN
             b \in Attempts /\ AttemptSane(b) /\ b.owner = attempt.owner
    BY <1>6, <2>1, AttemptFields
  <2> QED BY <2>3, <2>4
<1>7. CASE FailLostPod
  BY <1>5, <1>6, <1>7 DEF FailLostPod, markAttemptFailed
<1>8. CASE ObserveRunning
  BY <1>5, <1>6, <1>8 DEF ObserveRunning, HasOwnPod, stored
<1>9. CASE ObserveSucceeded
  BY <1>5, <1>6, <1>9 DEF ObserveSucceeded, HasOwnPod, Terminal
<1>10. CASE ObserveFailed
  <2>1. markAttemptFailed([attempt EXCEPT !.started = TRUE])
          = [attempt EXCEPT !.started = TRUE, !.conds = @ \cup {"Failed"}]
    BY TypeFacts DEF markAttemptFailed, Inv, Attempts
  <2> QED BY <1>5, <1>6, <1>10, <2>1 DEF ObserveFailed, HasOwnPod, Terminal
<1> QED BY <1>1, <1>2, <1>4, <1>7, <1>8, <1>9, <1>10 DEF Reconcile

\* Every step of everyone else, by what it writes.
LEMMA EnvironmentWrites ==
  ASSUME Inv, Environment
  PROVE  \/ UNCHANGED <<job, attempts>>
         \/ AttemptCollected
         \/ SubmitJob \/ RaiseMaxAttempts \/ DeleteJob \/ CancelJob
<1>1. ASSUME NEW o \in Ordinals, CollectAttempt(o) PROVE AttemptCollected
  BY <1>1 DEF CollectAttempt, PutAttempt, AttemptCollected, Owned, Live
<1>2. ASSUME NEW o \in Ordinals, CollectPod(o) \/ PodStarts(o) \/ PodEnds(o) \/ LosePod(o)
      PROVE  UNCHANGED <<job, attempts>>
  BY <1>2 DEF CollectPod, PodStarts, PodEnds, PodMoves, LosePod
<1>3. CASE CancelGetsAttempt \/ CancelDeletesPod \/ DeliverJob \/ DeliverAttempts \/ DeliverPods
  BY <1>3 DEF CancelGetsAttempt, CancelDeletesPod, DeliverJob, DeliverAttempts, DeliverPods, stored
<1> QED BY <1>1, <1>2, <1>3 DEF Environment

\* Every status write of the worker.
LEMMA StatusWrites ==
  ASSUME Inv,
         FailOnOwnership \/ SetActiveAttempt \/ SetJobRunning \/ CompleteJob \/ ExhaustRetries
  PROVE  UNCHANGED <<job, attempts>> \/ JobGoesOn \/ JobGivenUp \/ JobCompletes \/ JobExhausted
<1>1. pc # "idle"
  BY DEF FailOnOwnership, SetActiveAttempt, SetJobRunning, CompleteJob, ExhaustRetries
<1>2. /\ snapJob \in Jobs /\ snapJob.uid # 0 /\ snapJob.conds = {} /\ snapJob.reason = "None"
      /\ ~IsJobTerminal(snapJob)
  BY <1>1, SnapFacts DEF Inv, WorkerKnows
<1>3. ASSUME NEW j, UpdateJobStatus(j), ~UNCHANGED <<job, attempts>>
      PROVE  job = snapJob /\ job' = j /\ UNCHANGED attempts
  BY <1>3 DEF UpdateJobStatus, SameVersion, PutJob
<1> SUFFICES ASSUME ~UNCHANGED <<job, attempts>>
             PROVE  JobGoesOn \/ JobGivenUp \/ JobCompletes \/ JobExhausted
  OBVIOUS
<1>4. CASE FailOnOwnership
  <2> DEFINE j == TrySetJobTerminal(snapJob, "Failed", "OwnershipViolation")
  <2>1. /\ j.uid = snapJob.uid /\ j.max = snapJob.max /\ j.conds = {"Failed"}
        /\ j.reason = "OwnershipViolation"
    BY <1>2 DEF TrySetJobTerminal, Jobs
  <2>2. job = snapJob /\ job' = j /\ UNCHANGED attempts
    BY <1>3, <1>4 DEF FailOnOwnership
  <2> QED BY <1>2, <2>1, <2>2 DEF JobGivenUp, JobMoves
<1>5. CASE SetActiveAttempt
  <2> DEFINE j == [snapJob EXCEPT !.failedAttempts = @ + Retry,
                                  !.active = AttemptOrdinal(snapJob, Retry),
                                  !.running = IF Retry = 0 THEN @ ELSE FALSE]
  <2>1. j.uid = snapJob.uid /\ j.max = snapJob.max /\ j.conds = {} /\ j.reason = "None"
    BY <1>2 DEF Jobs
  <2>2. job = snapJob /\ job' = j /\ UNCHANGED attempts
    BY <1>3, <1>5 DEF SetActiveAttempt
  <2> QED BY <1>2, <2>1, <2>2 DEF JobGoesOn, JobMoves
<1>6. CASE SetJobRunning
  <2> DEFINE j == [snapJob EXCEPT !.running = TRUE]
  <2>1. j.uid = snapJob.uid /\ j.max = snapJob.max /\ j.conds = {} /\ j.reason = "None"
    BY <1>2 DEF Jobs
  <2>2. job = snapJob /\ job' = j /\ UNCHANGED attempts
    BY <1>3, <1>6 DEF SetJobRunning, stored
  <2> QED BY <1>2, <2>1, <2>2 DEF JobGoesOn, JobMoves
<1>7. CASE CompleteJob
  <2> DEFINE s == [snapJob EXCEPT !.completedAttempts = @ + 1]
             j == TrySetJobTerminal(s, "Complete", "Succeeded")
  <2>1. /\ j.uid = snapJob.uid /\ j.max = snapJob.max /\ j.conds = {"Complete"}
        /\ j.reason = "Succeeded" /\ j.active = snapJob.active
    BY <1>2 DEF TrySetJobTerminal, Jobs, IsJobTerminal
  <2>2. job = snapJob /\ job' = j /\ UNCHANGED attempts
    BY <1>3, <1>7 DEF CompleteJob
  <2>3. /\ attempt.owner = snapJob.uid /\ IsAttemptTerminal(attempt) /\ "Complete" \in attempt.conds
        /\ snapJob.active \in Ordinals /\ AttemptVersion(snapJob.active, attempt)
    BY <1>2, <1>7 DEF CompleteJob, IsAttemptSucceeded, Inv, WorkerKnows
  <2>4. Live(attempt.owner) /\ attempt.conds = {"Complete"}
    BY <1>2, <2>2, <2>3 DEF Live, AttemptVersion, AttemptSane
  <2>5. attempts[snapJob.active] = attempt
    BY <2>3, <2>4 DEF AttemptVersion, AttemptOld
  <2> QED BY <1>2, <2>1, <2>2, <2>3, <2>4, <2>5 DEF JobCompletes, JobMoves, Owned
<1>8. CASE ExhaustRetries
  <2> DEFINE s == [snapJob EXCEPT !.failedAttempts = @ + 1]
             j == TrySetJobTerminal(s, "Failed", "RetriesExhausted")
  <2>1. /\ j.uid = snapJob.uid /\ j.max = snapJob.max /\ j.conds = {"Failed"}
        /\ j.reason = "RetriesExhausted" /\ j.active = snapJob.active
    BY <1>2 DEF TrySetJobTerminal, Jobs, IsJobTerminal
  <2>2. job = snapJob /\ job' = j /\ UNCHANGED attempts
    BY <1>3, <1>8 DEF ExhaustRetries
  <2>3. attempt.owner = snapJob.uid /\ IsAttemptTerminal(attempt) /\ ~IsAttemptSucceeded(attempt)
    BY <1>2, <1>8 DEF ExhaustRetries, Inv, WorkerKnows
  <2>4. Live(snapJob.uid)
    BY <1>2, <2>2 DEF Live
  <2>5. /\ attempt.conds = {"Failed"}
        /\ snapJob.active \in Ordinals /\ snapJob.failedAttempts + 1 = snapJob.active
        /\ attempts[snapJob.active] = attempt
    BY <1>1, <1>2, <2>3, <2>4, NextFailure
  <2>6. snapJob.max <= snapJob.active
    BY <1>2, <1>8, <2>5, JobFields DEF ExhaustRetries, RetryAllowed
  <2>7. ASSUME NEW o \in Ordinals, o <= snapJob.active
        PROVE  Owned(o) /\ attempts[o].conds = {"Failed"}
    <3>1. o = snapJob.active \/ o <= snapJob.failedAttempts
      BY <1>2, <2>5, <2>7, JobFields, BudgetAssumption DEF Ordinals
    <3>2. CASE o = snapJob.active
      BY <2>3, <2>4, <2>5, <3>2 DEF Owned
    <3>3. CASE o <= snapJob.failedAttempts
      BY <2>4, <3>3, CountedFailures DEF Owned
    <3> QED BY <3>1, <3>2, <3>3
  <2> QED BY <1>2, <2>1, <2>2, <2>5, <2>6, <2>7 DEF JobExhausted, JobMoves
<1> QED BY <1>4, <1>5, <1>6, <1>7, <1>8

\* agentctl cancel gives the job up.
LEMMA CancelWrites == ASSUME Inv, CancelJob PROVE JobGivenUp
<1>1. job \in Jobs /\ job.uid # 0 /\ ~IsJobTerminal(job) /\ UNCHANGED attempts
      /\ job' = TrySetJobTerminal(job, "Failed", "Cancelled")
  BY TypeFacts DEF CancelJob, PutJob, Inv
<1>2. job.conds = {}
  BY <1>1, JobFields DEF IsJobTerminal, Terminal
<1>3. /\ job'.uid = job.uid /\ job'.max = job.max /\ job'.conds = {"Failed"}
      /\ job'.reason = "Cancelled"
  BY <1>1, <1>2 DEF TrySetJobTerminal, Jobs
<1> QED BY <1>1, <1>2, <1>3 DEF JobGivenUp, JobMoves

\* All steps, by what they write.
LEMMA StepWrites ==
  ASSUME Inv, [Next]_vars
  PROVE  \/ UNCHANGED <<job, attempts>>
         \/ AttemptMoves \/ AttemptMade \/ AttemptCollected
         \/ JobGoesOn \/ JobGivenUp \/ JobCompletes \/ JobExhausted
         \/ SubmitJob \/ RaiseMaxAttempts \/ DeleteJob
<1>1. CASE Reconcile
  BY <1>1, ReconcileWrites, StatusWrites
<1>2. CASE CrashOperator \/ UNCHANGED vars
  BY <1>2 DEF CrashOperator, vars, stored
<1>3. CASE Environment
  BY <1>3, EnvironmentWrites, CancelWrites
<1> QED BY <1>1, <1>2, <1>3 DEF Next

-----------------------------------------------------------------------------
(* The two invariants.                                                      *)

\* A write to an attempt leaves the others alone.
LEMMA OneAttempt ==
  ASSUME Inv, NEW o \in Ordinals, NEW a, attempts' = [attempts EXCEPT ![o] = a]
  PROVE  attempts'[o] = a /\ \A p \in Ordinals : p # o => attempts'[p] = attempts[p]
  BY TypeFacts DEF Inv

\* What RaiseMaxAttempts changes.
LEMMA RaiseWrites ==
  ASSUME Inv, RaiseMaxAttempts
  PROVE  /\ job.uid # 0 /\ UNCHANGED attempts
         /\ \E m \in job.max + 1 .. MaxBudget : job' = [job EXCEPT !.max = m]
         /\ job'.max \in job.max + 1 .. MaxBudget
         /\ job'.uid = job.uid /\ job'.conds = job.conds /\ job'.reason = job.reason
         /\ job'.active = job.active
<1>1. PICK m \in job.max + 1 .. MaxBudget : job' = [job EXCEPT !.max = m]
  BY DEF RaiseMaxAttempts, PutJob
<1> QED BY <1>1, TypeFacts DEF RaiseMaxAttempts, Inv, Jobs

\* What SubmitJob and DeleteJob store.
LEMMA SubmitWrites ==
  ASSUME Inv, SubmitJob
  PROVE  /\ job.uid = 0 /\ UNCHANGED attempts
         /\ job'.uid = lastJobUID + 1 /\ job'.max \in 0 .. MaxBudget
         /\ job'.conds = {} /\ job'.reason = "None"
<1>1. PICK m \in 0 .. MaxBudget : job' = NewJob(lastJobUID + 1, m)
  BY DEF SubmitJob, PutJob
<1>2. /\ job'.uid = lastJobUID + 1 /\ job'.max = m
      /\ job'.conds = {} /\ job'.reason = "None"
  BY <1>1 DEF NewJob, NoJob
<1> QED BY <1>2 DEF SubmitJob

\* DeleteJob removes a job that is there, and no attempt.
LEMMA DeleteWrites ==
  ASSUME Inv, DeleteJob
  PROVE  job.uid # 0 /\ UNCHANGED attempts /\ job' = NoJob
  BY DEF DeleteJob, PutJob

\* The attempt of a complete job stays complete, for it is the job's as long as it lives.
LEMMA CompleteKept ==
  ASSUME Inv, CompleteHasAttempt, [Next]_vars
  PROVE  CompleteHasAttempt'
<1> USE DEF CompleteHasAttempt
<1>1. CASE UNCHANGED <<job, attempts>>
  BY <1>1 DEF Owned, Live
<1>2. ASSUME UNCHANGED job, NEW o \in Ordinals, NEW a, attempts' = [attempts EXCEPT ![o] = a],
             ~Owned(o) \/ attempts[o].conds = {}
      PROVE  CompleteHasAttempt'
  BY <1>2, OneAttempt DEF Owned, Live
<1>3. CASE AttemptMoves
  BY <1>2, <1>3 DEF AttemptMoves
<1>4. CASE AttemptMade
  BY <1>2, <1>4 DEF AttemptMade, Owned, Live
<1>5. CASE AttemptCollected
  BY <1>2, <1>5 DEF AttemptCollected
<1>6. CASE JobGoesOn \/ JobGivenUp \/ JobExhausted
  BY <1>6 DEF JobGoesOn, JobGivenUp, JobExhausted
<1>7. CASE JobCompletes
  BY <1>7 DEF JobCompletes, JobMoves, Owned, Live
<1>8. CASE SubmitJob \/ DeleteJob
  BY <1>8, SubmitWrites, DeleteWrites DEF NoJob
<1>9. CASE RaiseMaxAttempts
  BY <1>9, RaiseWrites DEF Owned, Live
<1> QED BY <1>1, <1>3, <1>4, <1>5, <1>6, <1>7, <1>8, <1>9, StepWrites

\* A job is exhausted, and its last attempt known, or was so before.
LEMMA ExhaustedBefore ==
  ASSUME Inv, [Next]_vars, job'.uid # 0, job'.reason = "RetriesExhausted"
  PROVE  /\ job'.uid = job.uid
         /\ \/ job.reason = "RetriesExhausted" /\ job'.active = job.active
            \/ job.max <= job'.active
<1>1. CASE UNCHANGED <<job, attempts>> \/ AttemptMoves \/ AttemptMade \/ AttemptCollected
  BY <1>1 DEF AttemptMoves, AttemptMade, AttemptCollected
<1>2. CASE JobGoesOn \/ JobGivenUp \/ JobCompletes
  BY <1>2 DEF JobGoesOn, JobGivenUp, JobCompletes
<1>3. CASE JobExhausted
  BY <1>3 DEF JobExhausted, JobMoves
<1>4. CASE SubmitJob \/ DeleteJob
  BY <1>4, SubmitWrites, DeleteWrites DEF NoJob
<1>5. CASE RaiseMaxAttempts
  BY <1>5, RaiseWrites
<1> QED BY <1>1, <1>2, <1>3, <1>4, <1>5, StepWrites

\* A version from before the job was exhausted has no larger budget than the job then had.
LEMMA SpentKept ==
  ASSUME Inv, Inv', BudgetIsSpent, [Next]_vars
  PROVE  BudgetIsSpent'
<1>1. ASSUME NEW j \in Jobs, JobOld(j), NothingLeft(j) PROVE NothingLeft(j)'
  <2> SUFFICES ASSUME Live(j.uid)', job'.reason = "RetriesExhausted", j.conds = {}
               PROVE  j.max <= job'.active
    BY DEF NothingLeft
  <2>1. job'.uid # 0 /\ j.uid = job'.uid /\ job'.uid = job.uid /\ Live(j.uid)
    BY ExhaustedBefore DEF Live
  <2>2. CASE job.reason = "RetriesExhausted" /\ job'.active = job.active
    BY <1>1, <2>1, <2>2 DEF NothingLeft
  <2>3. CASE job.max <= job'.active
    <3>1. j.max <= job.max
      BY <1>1, <2>1 DEF JobOld
    <3>2. j.max \in Nat /\ job.max \in Nat /\ job'.active \in Nat
      BY TypeFacts, JobFields DEF Inv, TypeOK
    <3> QED BY <2>3, <3>1, <3>2
  <2> QED BY <2>1, <2>2, <2>3, ExhaustedBefore
<1>2. NothingLeft(job)' /\ NothingLeft(NoJob)'
  <2>1. JobSane(job)'
    BY DEF Inv, ReadsAreOld, JobVersion
  <2> QED BY <2>1 DEF JobSane, NothingLeft, Live, NoJob
<1>3. /\ jobCache \in Jobs /\ JobOld(jobCache) /\ snapJob \in Jobs /\ JobOld(snapJob)
      /\ jobEvents \in Seq(Jobs) /\ \A i \in 1 .. Len(jobEvents) : JobOld(jobEvents[i])
      /\ job' \in Jobs
  BY DEF Inv, TypeOK, ReadsAreOld, JobVersion
<1>4. /\ NothingLeft(jobCache) /\ NothingLeft(snapJob)
      /\ \A i \in 1 .. Len(jobEvents) : NothingLeft(jobEvents[i])
  BY DEF BudgetIsSpent
<1> DEFINE N(j) == /\ j.uid # 0 /\ j.uid = job'.uid
                   /\ job'.reason = "RetriesExhausted" /\ j.conds = {}
                   => j.max <= job'.active
<1>a. \A j \in Jobs : JobOld(j) /\ NothingLeft(j) => N(j)
  BY <1>1 DEF NothingLeft, Live
<1>b. N(job') /\ N(NoJob)
  BY <1>2 DEF NothingLeft, Live, NoJob
<1> HIDE DEF N
<1>5. /\ N(jobCache) /\ N(snapJob) /\ N(job') /\ N(NoJob)
      /\ \A i \in 1 .. Len(jobEvents) : N(jobEvents[i])
  BY <1>a, <1>b, <1>3, <1>4
<1>6. VersionsMove
  BY VersionsStep
<1>7. N(snapJob')
  BY <1>5, <1>6 DEF VersionsMove
<1>8. N(jobCache') /\ \A i \in 1 .. Len(jobEvents') : N(jobEvents'[i])
  <2>1. CASE UNCHANGED <<jobEvents, jobCache>>
    BY <1>5, <2>1
  <2>2. CASE jobEvents' = Append(jobEvents, job') /\ UNCHANGED jobCache
    BY <1>3, <1>5, <2>2, AppendLemma
  <2>3. CASE jobEvents # <<>> /\ jobCache' = Head(jobEvents) /\ jobEvents' = Tail(jobEvents)
    BY <1>3, <1>5, <2>3, TailLemma
  <2> QED BY <1>6, <2>1, <2>2, <2>3 DEF VersionsMove, Streams
<1> QED BY <1>7, <1>8 DEF BudgetIsSpent, NothingLeft, N, Live

-----------------------------------------------------------------------------
(* The refinement, step by step.                                            *)

\* A step of the lifecycle, or none.
LifecycleStep == [Lifecycle!Next]_(Lifecycle!lifecycle)

\* How an attempt looks depends on its owner and its conditions.
LEMMA RunSame ==
  ASSUME NEW o \in Ordinals, job'.uid = job.uid,
         \/ ~Owned(o) /\ ~Owned(o)'
         \/ attempts'[o].owner = attempts[o].owner /\ attempts'[o].conds = attempts[o].conds
  PROVE  RunOf(o)' = RunOf(o)
  BY DEF RunOf, Owned, Live

\* The lifecycle is where it was.
LEMMA Stutter ==
  ASSUME UNCHANGED <<job.uid, job.max>>, OutcomeOf(job)' = OutcomeOf(job),
         \A o \in Ordinals : RunOf(o)' = RunOf(o)
  PROVE  LifecycleStep
  BY DEF LifecycleStep, Lifecycle!lifecycle

\* The outcome of a job, by its conditions and reason.
LEMMA Outcomes ==
  ASSUME NEW j
  PROVE  /\ j.conds = {} => OutcomeOf(j) = "none"
         /\ j.conds = {"Complete"} => OutcomeOf(j) = "complete"
         /\ j.conds = {"Failed"} /\ j.reason = "RetriesExhausted" => OutcomeOf(j) = "exhausted"
         /\ j.conds = {"Failed"} /\ j.reason # "RetriesExhausted" => OutcomeOf(j) = "givenUp"
  BY DEF OutcomeOf

\* An attempt of the live job ends, or only its pod or start is noted.
LEMMA AttemptMovesRefines ==
  ASSUME Inv, AttemptMoves
  PROVE  LifecycleStep
<1>1. PICK o \in Ordinals, a \in Attempts :
        /\ attempts' = [attempts EXCEPT ![o] = a]
        /\ attempts[o].conds = {} /\ a.owner = attempts[o].owner /\ AttemptSane(a)
  BY DEF AttemptMoves
<1>2. UNCHANGED job /\ OutcomeOf(job)' = OutcomeOf(job)
  BY DEF AttemptMoves, OutcomeOf
<1>3. attempts'[o] = a /\ \A p \in Ordinals : p # o => attempts'[p] = attempts[p]
  BY <1>1, OneAttempt
<1>4. \A p \in Ordinals : p # o => RunOf(p)' = RunOf(p)
  BY <1>2, <1>3, RunSame
<1>5. CASE ~Owned(o) \/ a.conds = {}
  <2>1. RunOf(o)' = RunOf(o)
    BY <1>1, <1>2, <1>3, <1>5, RunSame DEF Owned, Live
  <2> QED BY <1>2, <1>4, <2>1, Stutter
<1>6. CASE Owned(o) /\ a.conds # {}
  <2>1. RunOf(o) = "open"
    BY <1>1, <1>6 DEF RunOf
  <2>2. Owned(o)' /\ a.conds \in {{"Complete"}, {"Failed"}}
    BY <1>1, <1>2, <1>3, <1>6 DEF Owned, Live, AttemptSane
  <2>3. RunOf(o)' \in {"failed", "complete"}
    BY <1>3, <2>2 DEF RunOf
  <2>4. [p \in Ordinals |-> RunOf(p)]' = [[p \in Ordinals |-> RunOf(p)] EXCEPT ![o] = RunOf(o)']
    BY <1>4
  <2>5. Lifecycle!End(o)
    BY <1>2, <2>1, <2>3, <2>4 DEF Lifecycle!End
  <2> QED BY <2>5 DEF LifecycleStep, Lifecycle!Next, Ordinals
<1> QED BY <1>5, <1>6

\* What the garbage collector removes is not seen.
LEMMA CollectRefines ==
  ASSUME Inv, AttemptCollected
  PROVE  LifecycleStep
<1>1. PICK o \in Ordinals : ~Owned(o) /\ attempts' = [attempts EXCEPT ![o] = NoAttempt]
  BY DEF AttemptCollected
<1>2. UNCHANGED job /\ OutcomeOf(job)' = OutcomeOf(job)
  BY DEF AttemptCollected, OutcomeOf
<1>3. attempts'[o] = NoAttempt /\ \A p \in Ordinals : p # o => attempts'[p] = attempts[p]
  BY <1>1, OneAttempt
<1>4. ~Owned(o)'
  BY <1>3 DEF Owned, Live, NoAttempt
<1>5. \A p \in Ordinals : RunOf(p)' = RunOf(p)
  BY <1>1, <1>2, <1>3, <1>4, RunSame
<1> QED BY <1>2, <1>5, Stutter

\* A new attempt is opened: those before it have failed, it is within the budget, and
\* the job is neither complete nor exhausted.
LEMMA AttemptMadeRefines ==
  ASSUME Inv, CompleteHasAttempt, BudgetIsSpent, AttemptMade
  PROVE  LifecycleStep
<1>1. PICK o \in Ordinals :
        /\ o = AttemptOrdinal(snapJob, Retry) /\ attempts[o].owner = 0
        /\ attempts' = [attempts EXCEPT ![o] = [NoAttempt EXCEPT !.owner = snapJob.uid]]
  BY DEF AttemptMade
<1>2. UNCHANGED job /\ OutcomeOf(job)' = OutcomeOf(job) /\ WantsAttempt /\ pc # "idle"
  BY DEF AttemptMade, OutcomeOf, WantsAttempt
<1>3. /\ attempts'[o].owner = snapJob.uid /\ attempts'[o].conds = {}
      /\ \A p \in Ordinals : p # o => attempts'[p] = attempts[p]
  <2> DEFINE a == [NoAttempt EXCEPT !.owner = snapJob.uid]
  <2>1. a.owner = snapJob.uid /\ a.conds = {}
    BY DEF NoAttempt
  <2>2. attempts' = [attempts EXCEPT ![o] = a]
    BY <1>1
  <2> HIDE DEF a
  <2>3. attempts'[o] = a /\ \A p \in Ordinals : p # o => attempts'[p] = attempts[p]
    BY <2>2, OneAttempt
  <2> QED BY <2>1, <2>3
<1>4. \A p \in Ordinals : p # o => RunOf(p)' = RunOf(p)
  BY <1>2, <1>3, RunSame
<1>5. ~Owned(o) /\ RunOf(o) = "none"
  BY <1>1 DEF Owned, Live, RunOf
<1>6. CASE ~Live(snapJob.uid)
  <2>1. ~Owned(o)'
    BY <1>2, <1>3, <1>6 DEF Owned, Live
  <2>2. RunOf(o)' = RunOf(o)
    BY <1>2, <1>5, <2>1, RunSame
  <2> QED BY <1>2, <1>4, <2>2, Stutter
<1>7. CASE Live(snapJob.uid)
  <2>1. /\ o = 1 \/ o <= snapJob.max
        /\ \A p \in Ordinals : p < o => attempts[p].owner = snapJob.uid /\ attempts[p].conds = {"Failed"}
    BY <1>1, <1>2, <1>7, NewOrdinal
  <2>2. RunOf(o)' = "open"
    BY <1>2, <1>3, <1>7 DEF RunOf, Owned, Live
  <2>3. \A p \in 1 .. o - 1 : RunOf(p) = "failed"
    <3>1. \A p \in 1 .. o - 1 : p \in Ordinals /\ p < o
      BY BudgetAssumption DEF Ordinals
    <3> QED BY <1>7, <2>1, <3>1 DEF RunOf, Owned
  <2>4. o = 1 \/ o <= job.max
    <3>1. snapJob.max <= job.max
      BY <1>7 DEF Inv, ReadsAreOld, JobVersion, JobOld
    <3>2. snapJob.max \in Nat /\ job.max \in Nat /\ o \in Nat
      BY TypeFacts, JobFields, BudgetAssumption DEF Inv, Ordinals
    <3> QED BY <2>1, <3>1, <3>2
  <2>5. job \in Jobs /\ job.uid # 0 /\ job.uid = snapJob.uid
    BY <1>7, TypeFacts DEF Live, Inv
  <2>6. "Complete" \notin job.conds
    <3> SUFFICES ASSUME "Complete" \in job.conds PROVE FALSE
      OBVIOUS
    <3>1. /\ job.active \in Ordinals /\ Owned(job.active)
          /\ attempts[job.active].conds = {"Complete"}
      BY <2>5 DEF CompleteHasAttempt
    <3>2. ~(job.active < o)
      BY <2>1, <3>1
    <3>3. ~(o < job.active)
      BY <1>5, <3>1 DEF Inv, FailedBeforeRetry
    <3>4. job.active = o
      BY <3>1, <3>2, <3>3, BudgetAssumption DEF Ordinals
    <3> QED BY <1>5, <3>1, <3>4
  <2>7. job.reason # "RetriesExhausted"
    <3> SUFFICES ASSUME job.reason = "RetriesExhausted" PROVE FALSE
      OBVIOUS
    <3>1. /\ job.active # 0 /\ job.failedAttempts = job.active
          /\ \A p \in Ordinals : p <= job.active => Owned(p)
      BY <2>5 DEF Inv, ReadsAreOld, JobVersion, JobSane, JobOld, Live, Owned
    <3>2. snapJob.max <= job.active
      BY <1>2, <1>7, SnapFacts DEF BudgetIsSpent, NothingLeft
    <3>3. /\ snapJob.max \in Nat /\ job.active \in Nat /\ o \in Nat
      BY TypeFacts, JobFields, BudgetAssumption DEF Inv, Ordinals
    <3>4. o <= job.active
      BY <2>1, <3>1, <3>2, <3>3
    <3> QED BY <1>5, <3>1, <3>4
  <2>8. OutcomeOf(job) \in {"none", "givenUp"}
    BY <2>6, <2>7 DEF OutcomeOf
  <2>9. [p \in Ordinals |-> RunOf(p)]' = [[p \in Ordinals |-> RunOf(p)] EXCEPT ![o] = "open"]
    BY <1>4, <2>2
  <2>10. \A p \in 1 .. o - 1 : p \in Ordinals
    BY BudgetAssumption DEF Ordinals
  <2>11. Lifecycle!Open(o)
    BY <1>2, <1>5, <2>3, <2>4, <2>8, <2>9, <2>10 DEF Lifecycle!Open
  <2> QED BY <2>11 DEF LifecycleStep, Lifecycle!Next, Ordinals
<1> QED BY <1>6, <1>7

\* Status writes: the job goes on, is given up, completes, or is exhausted.
LEMMA StatusRefines ==
  ASSUME Inv, JobGoesOn \/ JobGivenUp \/ JobCompletes \/ JobExhausted
  PROVE  LifecycleStep
<1>1. JobMoves /\ job.conds = {} /\ OutcomeOf(job) = "none"
  BY Outcomes DEF JobGoesOn, JobGivenUp, JobCompletes, JobExhausted
<1>2. UNCHANGED <<attempts, job.uid, job.max>> /\ job.uid # 0
  BY <1>1 DEF JobMoves
<1>3. \A o \in Ordinals : RunOf(o)' = RunOf(o)
  BY <1>2, RunSame
<1>4. UNCHANGED [o \in Ordinals |-> RunOf(o)]
  BY <1>3
<1>5. CASE JobGoesOn
  <2>1. OutcomeOf(job)' = "none"
    BY <1>5 DEF JobGoesOn, OutcomeOf
  <2> QED BY <1>1, <1>2, <1>3, <2>1, Stutter
<1>6. CASE JobGivenUp
  <2>1. OutcomeOf(job)' = "givenUp"
    BY <1>6 DEF JobGivenUp, OutcomeOf
  <2>2. Lifecycle!GiveUp
    BY <1>1, <1>2, <1>4, <2>1 DEF Lifecycle!GiveUp
  <2> QED BY <2>2 DEF LifecycleStep, Lifecycle!Next
<1>7. CASE JobCompletes
  <2>1. OutcomeOf(job)' = "complete"
    BY <1>7 DEF JobCompletes, OutcomeOf
  <2>2. job'.active \in Ordinals /\ RunOf(job'.active) = "complete"
    BY <1>7 DEF JobCompletes, RunOf
  <2>3. \E o \in 1 .. MaxBudget : [p \in Ordinals |-> RunOf(p)][o] = "complete"
    BY <2>2 DEF Ordinals
  <2>4. Lifecycle!Complete
    BY <1>1, <1>2, <1>4, <2>1, <2>3 DEF Lifecycle!Complete
  <2> QED BY <2>4 DEF LifecycleStep, Lifecycle!Next
<1>8. CASE JobExhausted
  <2>1. OutcomeOf(job)' = "exhausted"
    BY <1>8 DEF JobExhausted, OutcomeOf
  <2>2. /\ job'.active \in Ordinals /\ job.max <= job'.active
        /\ \A o \in Ordinals : o <= job'.active => Owned(o) /\ attempts[o].conds = {"Failed"}
    BY <1>8 DEF JobExhausted
  <2>3. /\ job.max \in Nat /\ job'.active \in Nat /\ 1 <= job'.active /\ 1 \in Ordinals
    BY <2>2, TypeFacts, JobFields, BudgetAssumption DEF Inv, Ordinals
  <2>4. \A o \in Ordinals : o <= job'.active => RunOf(o) = "failed"
    BY <2>2 DEF RunOf
  <2>5. ASSUME NEW o \in Ordinals, ~(o <= job'.active) PROVE RunOf(o) = "none" /\ o > job.max
    <3>1. o > job.max /\ o # 1 /\ ~(o <= job.max)
      BY <2>2, <2>3, <2>5, BudgetAssumption DEF Ordinals
    <3>2. ~Owned(o)
      BY <3>1 DEF Inv, WithinBudget
    <3> QED BY <3>1, <3>2 DEF RunOf
  <2>6. \A o \in 1 .. MaxBudget : LET r == [p \in Ordinals |-> RunOf(p)][o] IN
          r = "failed" \/ (r = "none" /\ o > job.max)
    BY <2>4, <2>5 DEF Ordinals
  <2>7. [p \in Ordinals |-> RunOf(p)][1] = "failed"
    BY <2>3, <2>4
  <2>8. Lifecycle!Exhaust
    BY <1>1, <1>2, <1>4, <2>1, <2>6, <2>7 DEF Lifecycle!Exhaust
  <2> QED BY <2>8 DEF LifecycleStep, Lifecycle!Next
<1> QED BY <1>5, <1>6, <1>7, <1>8

\* Users: a new job owns nothing, a larger budget changes nothing else, and with the job
\* go its attempts.
LEMMA UserRefines ==
  ASSUME Inv, SubmitJob \/ RaiseMaxAttempts \/ DeleteJob
  PROVE  LifecycleStep
<1>1. CASE SubmitJob
  <2>1. /\ job.uid = 0 /\ UNCHANGED attempts
        /\ job'.uid = lastJobUID + 1 /\ job'.max \in 0 .. MaxBudget
        /\ job'.conds = {} /\ job'.reason = "None"
    BY <1>1, SubmitWrites
  <2>2. lastJobUID \in Nat /\ \A o \in Ordinals : attempts[o].owner \in Nat /\ attempts[o].owner <= lastJobUID
    <3>1. \A o \in Ordinals : AttemptOld(o, attempts[o]) /\ attempts[o] \in Attempts
      BY TypeFacts DEF Inv, ReadsAreOld, AttemptVersion
    <3> QED BY <3>1, TypeFacts DEF AttemptOld, Attempts, Inv
  <2>3. \A o \in Ordinals : RunOf(o)' = "none"
    <3>1. \A o \in Ordinals : attempts[o].owner # lastJobUID + 1
      BY <2>2
    <3> QED BY <2>1, <3>1 DEF RunOf, Owned, Live
  <2>4. OutcomeOf(job)' = "none"
    BY <2>1 DEF OutcomeOf
  <2>5. job'.uid \in Nat \ {0}
    BY <2>1, <2>2
  <2>6. [o \in Ordinals |-> RunOf(o)]' = [o \in 1 .. MaxBudget |-> "none"]
    BY <2>3 DEF Ordinals
  <2>7. Lifecycle!Create
    BY <2>1, <2>4, <2>5, <2>6 DEF Lifecycle!Create, Lifecycle!NoRuns
  <2> QED BY <2>7 DEF LifecycleStep, Lifecycle!Next
<1>2. CASE RaiseMaxAttempts
  <2>1. /\ job.uid # 0 /\ UNCHANGED attempts /\ job'.max \in job.max + 1 .. MaxBudget
        /\ job'.uid = job.uid /\ job'.conds = job.conds /\ job'.reason = job.reason
    BY <1>2, RaiseWrites
  <2>2. OutcomeOf(job)' = OutcomeOf(job)
    BY <2>1 DEF OutcomeOf
  <2>3. \A o \in Ordinals : RunOf(o)' = RunOf(o)
    BY <2>1, RunSame
  <2>4. UNCHANGED [o \in Ordinals |-> RunOf(o)]
    BY <2>3
  <2>5. Lifecycle!Raise
    BY <2>1, <2>2, <2>4 DEF Lifecycle!Raise
  <2> QED BY <2>5 DEF LifecycleStep, Lifecycle!Next
<1>3. CASE DeleteJob
  <2>1. job.uid # 0 /\ UNCHANGED attempts /\ job' = NoJob
    BY <1>3, DeleteWrites
  <2>2. job'.uid = 0 /\ job'.max = 0 /\ job'.conds = {}
    BY <2>1 DEF NoJob
  <2>3. OutcomeOf(job)' = "none"
    BY <2>2 DEF OutcomeOf
  <2>4. \A o \in Ordinals : RunOf(o)' = "none"
    BY <2>2 DEF RunOf, Owned, Live
  <2>5. [o \in Ordinals |-> RunOf(o)]' = [o \in 1 .. MaxBudget |-> "none"]
    BY <2>4 DEF Ordinals
  <2>6. Lifecycle!Delete
    BY <2>1, <2>2, <2>3, <2>5 DEF Lifecycle!Delete, Lifecycle!NoRuns
  <2> QED BY <2>6 DEF LifecycleStep, Lifecycle!Next
<1> QED BY <1>1, <1>2, <1>3

\* Every step is a step of the lifecycle or leaves it alone.
LEMMA StepRefines ==
  ASSUME Inv, CompleteHasAttempt, BudgetIsSpent, [Next]_vars
  PROVE  LifecycleStep
<1>1. CASE UNCHANGED <<job, attempts>>
  <2>1. OutcomeOf(job)' = OutcomeOf(job) /\ UNCHANGED <<job.uid, job.max>>
    BY <1>1 DEF OutcomeOf
  <2>2. \A o \in Ordinals : RunOf(o)' = RunOf(o)
    BY <1>1, RunSame
  <2> QED BY <2>1, <2>2, Stutter
<1> QED BY <1>1, AttemptMovesRefines, AttemptMadeRefines, CollectRefines, StatusRefines,
           UserRefines, StepWrites

\* The states the program starts in are those the lifecycle starts in.
LEMMA InitRefines == Init => Lifecycle!Init /\ CompleteHasAttempt /\ BudgetIsSpent
<1> SUFFICES ASSUME Init PROVE Lifecycle!Init /\ CompleteHasAttempt /\ BudgetIsSpent
  OBVIOUS
<1>1. /\ job.uid = 0 /\ job.max = 0 /\ job.conds = {} /\ job.reason = "None"
      /\ jobEvents = <<>>
  BY DEF Init, NoJob
<1>2. OutcomeOf(job) = "none" /\ \A o \in Ordinals : RunOf(o) = "none"
  BY <1>1 DEF OutcomeOf, RunOf, Owned, Live
<1>3. [o \in Ordinals |-> RunOf(o)] = [o \in 1 .. MaxBudget |-> "none"]
  BY <1>2 DEF Ordinals
<1>4. Lifecycle!Init
  BY <1>1, <1>2, <1>3 DEF Lifecycle!Init, Lifecycle!NoRuns
<1> QED BY <1>1, <1>4 DEF CompleteHasAttempt, BudgetIsSpent, NothingLeft, Live

\* However stale its caches are and wherever its writes conflict or its process dies, what
\* the reconciler stores goes through the lifecycle: attempts one at a time, each after the
\* failure of all before it and within the budget, a job that ends once and with the
\* outcome of its attempts, and nothing carried over to the next job of the name.
THEOREM Refinement == Spec => ImplementsLifecycle
<1> DEFINE I == Inv /\ CompleteHasAttempt /\ BudgetIsSpent
<1>1. Inv /\ [Next]_vars => Inv'
  BY ReconcileKeepsInv, CrashKeepsInv, EnvironmentKeepsInv, StutterKeepsInv DEF Next
<1>2. Init => I /\ Lifecycle!Init
  BY InitInv, InitRefines
<1>3. I /\ [Next]_vars => I'
  BY <1>1, CompleteKept, SpentKept
<1>4. I /\ [Next]_vars => [Lifecycle!Next]_(Lifecycle!lifecycle)
  BY StepRefines DEF LifecycleStep
<1> HIDE DEF I
<1> QED BY <1>2, <1>3, <1>4, PTL DEF Spec, ImplementsLifecycle, Lifecycle!Spec

=============================================================================
