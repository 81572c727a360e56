----------------------------- MODULE Scheduler -----------------------------
(***************************************************************************)
(* The first generation of the system: an API server, a scheduler that     *)
(* reconciles on a timer, and workers that poll, sharing one SQL database  *)
(* and, between the executions on one host, one work directory per job.    *)
(*                                                                         *)
(* Each store call is one transaction and one step.  Nothing ties two of   *)
(* them together: the lists the scheduler works through grow old, a worker *)
(* that the scheduler has given up may still be at work, and every process *)
(* may die, or have a call refused, between any two calls.                 *)
(***************************************************************************)
EXTENDS Integers, Sequences, FiniteSets

CONSTANTS
  Jobs,        \* job IDs
  Runs,        \* goroutines that can be executing at one time
  MaxRetries,  \* Spec.MaxRetries
  MaxFaults,   \* failed calls and dead processes, together
  NoJob        \* no job

ASSUME RetriesAssumption == MaxRetries \in Nat
ASSUME StoreFaultsAssumption == MaxFaults \in Nat
ASSUME NoJobAssumption == NoJob \notin Jobs

VARIABLES
  job,         \* jobs.state, "absent" before the job is submitted
  attempts,    \* the attempts of each job, their states by number
  sched,       \* the scheduler's pass: phase, listed items, the job in hand
  run,         \* the executions of the workers
  orphans,     \* attempts whose worker died and left their container running
  dir,         \* the work directory of each job: "absent", or what result.json says
  faults,      \* faults so far
  succeeded    \* history: jobs of which a sandbox exited with code 0

store == <<job, attempts>>
worker == <<run, orphans, dir>>
vars == <<store, sched, worker, faults, succeeded>>

JobStates == {"Pending", "Scheduled", "Running", "Completed", "Failed", "Terminated"}
AttemptStates == {"New", "Executing", "Completed", "Failed", "TimedOut"}
Ended == {"Completed", "Failed", "Terminated"}

Attempt == {a \in Jobs \X (1 .. MaxRetries + 1 + MaxFaults) : a[2] <= Len(attempts[a[1]])}

State(a) == attempts[a[1]][a[2]]

-----------------------------------------------------------------------------
(* The store.                                                               *)

\* Seeded fault: the current state of the job is not compared.
MoveJob(j, from, to) == job' = [job EXCEPT ![j] = to]

\* A transition is refused unless the job is in the state it starts from.
TransitionJobState(j, from, to) ==
  job' = [job EXCEPT ![j] = IF @ = from THEN to ELSE @]

TransitionAttemptState(a, from, to) ==
  attempts' = [attempts EXCEPT ![a[1]][a[2]] = IF @ = from THEN to ELSE @]

CreateAttempt(j) == attempts' = [attempts EXCEPT ![j] = Append(@, "New")]

Fault == faults < MaxFaults /\ faults' = faults + 1

-----------------------------------------------------------------------------
(* The API server.                                                          *)

CreateJob(j) ==
  /\ job[j] = "absent"
  /\ job' = [job EXCEPT ![j] = "Pending"]
  /\ UNCHANGED <<attempts, sched, worker, faults, succeeded>>

TerminateJob(j) ==
  /\ job[j] \in JobStates \ Ended
  /\ TransitionJobState(j, job[j], "Terminated")
  /\ UNCHANGED <<attempts, sched, worker, faults, succeeded>>

-----------------------------------------------------------------------------
(* The scheduler: three lists in a pass, and for each item a few calls.     *)

NoPass == [phase |-> "idle", todo |-> {}, cur |-> NoJob, from |-> "", to |-> ""]

Free(phase) == sched.phase = phase /\ sched.cur = NoJob

List(phase, items) ==
  /\ sched' = [NoPass EXCEPT !.phase = phase, !.todo = items]
  /\ UNCHANGED <<store, worker, faults, succeeded>>

\* The pass takes item x in hand, to move job j from one state to another, or drops it.
Hand(x, j, from, to) ==
  sched' = [sched EXCEPT !.todo = @ \ {x}, !.cur = j, !.from = from, !.to = to]
Drop(x) == Hand(x, NoJob, "", "")

\* Seeded fault: a job that waits for a worker is listed again.
ListUnstarted ==
  /\ Free("idle")
  /\ List("pending", {j \in Jobs : job[j] \in {"Pending", "Scheduled"}})

\* schedulePendingJobs.
ListPending ==
  /\ Free("idle")
  /\ List("pending", {j \in Jobs : job[j] = "Pending"})

Schedule(j) ==
  /\ Free("pending") /\ j \in sched.todo
  /\ CreateAttempt(j)
  /\ Hand(j, j, "Pending", "Scheduled")
  /\ UNCHANGED <<job, worker, faults, succeeded>>

\* handleStaleAttempts: any attempt that executes may be past its heartbeat, which is
\* set when the attempt is created and not again before its container has ended.
FindStaleAttempts ==
  /\ Free("pending") /\ sched.todo = {}
  /\ \E S \in SUBSET {a \in Attempt : State(a) = "Executing"} : List("stale", S)

TimeOut(a) ==
  /\ Free("stale") /\ a \in sched.todo
  /\ TransitionAttemptState(a, "Executing", "TimedOut")
  /\ IF State(a) = "Executing" THEN Hand(a, a[1], "Running", "") ELSE Drop(a)
  /\ UNCHANGED <<job, worker, faults, succeeded>>

\* handleFailedAttempts.
ListRunning ==
  /\ Free("stale") /\ sched.todo = {}
  /\ List("failed", {j \in Jobs : job[j] = "Running"})

\* Seeded fault: a timeout is looked for instead of a failure.
LatestTimedOut(j) ==
  attempts[j] # <<>> /\ attempts[j][Len(attempts[j])] = "TimedOut"

LatestFailed(j) ==
  attempts[j] # <<>> /\ attempts[j][Len(attempts[j])] = "Failed"

GetAttempts(j) ==
  /\ Free("failed") /\ j \in sched.todo
  /\ IF LatestFailed(j) THEN Hand(j, j, "Running", "") ELSE Drop(j)
  /\ UNCHANGED <<store, worker, faults, succeeded>>

\* Seeded fault: the first attempt is taken for a retry.
OneMore(j) == Len(attempts[j]) <= MaxRetries + 1

MayRetry(j) == Len(attempts[j]) < MaxRetries + 1

\* CountAttempts, and the attempt of a retry if one is left.
Retry ==
  /\ sched.cur # NoJob /\ sched.to = ""
  /\ IF MayRetry(sched.cur)
       THEN CreateAttempt(sched.cur) /\ sched' = [sched EXCEPT !.to = "Scheduled"]
       ELSE UNCHANGED attempts /\ sched' = [sched EXCEPT !.to = "Failed"]
  /\ UNCHANGED <<job, worker, faults, succeeded>>

\* The job in hand moves, unless it is no longer where it was.
Move ==
  /\ sched.cur # NoJob /\ sched.to # ""
  /\ TransitionJobState(sched.cur, sched.from, sched.to)
  /\ sched' = [sched EXCEPT !.cur = NoJob, !.from = "", !.to = ""]
  /\ UNCHANGED <<attempts, worker, faults, succeeded>>

EndPass ==
  /\ Free("failed") /\ sched.todo = {}
  /\ List("idle", {})

\* A call fails, which ends the work on the item; or the scheduler starts again.
SchedulerFault ==
  /\ sched.phase # "idle" /\ Fault
  /\ \/ sched' = NoPass
     \/ sched.cur # NoJob /\ sched' = [sched EXCEPT !.cur = NoJob, !.from = "", !.to = ""]
     \/ sched.cur = NoJob /\ \E x \in sched.todo : Drop(x)
  /\ UNCHANGED <<store, worker, succeeded>>

-----------------------------------------------------------------------------
(* A worker's execution of an attempt.                                      *)

NoRun == [pc |-> "idle", attempt |-> <<NoJob, 0>>]

JobOf(r) == run[r].attempt[1]

Goto(r, pc) == run' = [run EXCEPT ![r].pc = pc]

\* ClaimScheduledAttempt notes the worker and leaves the attempt New.
Claim(r) ==
  /\ run[r].pc = "idle"
  /\ \E a \in Attempt : /\ State(a) = "New"
                        /\ run' = [run EXCEPT ![r] = [pc |-> "claimed", attempt |-> a]]
  /\ UNCHANGED <<store, sched, orphans, dir, faults, succeeded>>

\* Seeded fault: the claim is trusted, and the refused transition ignored.
TrustClaim(r) ==
  /\ run[r].pc = "claimed"
  /\ TransitionAttemptState(run[r].attempt, "New", "Executing")
  /\ Goto(r, "executing")
  /\ UNCHANGED <<job, sched, orphans, dir, faults, succeeded>>

\* Of the executions that claimed an attempt, one gets to execute it.
Execute(r) ==
  /\ run[r].pc = "claimed"
  /\ TransitionAttemptState(run[r].attempt, "New", "Executing")
  /\ IF State(run[r].attempt) = "New"
       THEN Goto(r, "executing")
       ELSE run' = [run EXCEPT ![r] = NoRun]
  /\ UNCHANGED <<job, sched, orphans, dir, faults, succeeded>>

\* Refused when the scheduler has not moved the job yet; the error is ignored.
StartJob(r) ==
  /\ run[r].pc = "executing"
  /\ TransitionJobState(JobOf(r), "Scheduled", "Running")
  /\ Goto(r, "preparing")
  /\ UNCHANGED <<attempts, sched, orphans, dir, faults, succeeded>>

\* The work directory, the runner and a pod of the pool are had, and the container runs.
StartSandbox(r) ==
  /\ run[r].pc = "preparing"
  /\ dir' = [dir EXCEPT ![JobOf(r)] = IF @ = "absent" THEN "empty" ELSE @]
  /\ Goto(r, "sandbox")
  /\ UNCHANGED <<store, sched, orphans, faults, succeeded>>

\* One of those cannot be had, or the container does not end in time and is removed.
failAndCleanup(r) ==
  /\ run[r].pc \in {"preparing", "sandbox"}
  /\ TransitionAttemptState(run[r].attempt, "Executing", "Failed")
  /\ Goto(r, "removing")
  /\ UNCHANGED <<job, sched, orphans, dir, faults, succeeded>>

\* A container of job j ends; it may have left an exit code in the work directory, if
\* that was there.
Result(j, code) ==
  /\ dir' = [dir EXCEPT ![j] = IF @ = "absent" \/ code = "none" THEN @ ELSE code]
  /\ succeeded' = IF code = "zero" THEN succeeded \cup {j} ELSE succeeded

SandboxEnds(r, code) ==
  /\ run[r].pc = "sandbox"
  /\ Result(JobOf(r), code)
  /\ Goto(r, "waiting")
  /\ UNCHANGED <<store, sched, orphans, faults>>

OrphanEnds(a, code) ==
  /\ a \in orphans
  /\ Result(a[1], code)
  /\ orphans' = orphans \ {a}
  /\ UNCHANGED <<store, sched, run, faults>>

\* result.json is there, or the job's timeout is over.
StopWaiting(r) ==
  /\ run[r].pc = "waiting"
  /\ \/ dir[JobOf(r)] \in {"zero", "nonzero"} /\ Goto(r, "reading")
     \/ Goto(r, "failing")
  /\ UNCHANGED <<store, sched, orphans, dir, faults, succeeded>>

\* The exit code is 0 unless result.json says otherwise, or is gone again.
ReadResult(r) ==
  /\ run[r].pc = "reading"
  /\ Goto(r, IF dir[JobOf(r)] = "nonzero" THEN "failing" ELSE "succeeding")
  /\ UNCHANGED <<store, sched, orphans, dir, faults, succeeded>>

FailAttempt(r) ==
  /\ run[r].pc = "failing"
  /\ TransitionAttemptState(run[r].attempt, "Executing", "Failed")
  /\ Goto(r, "removing")
  /\ UNCHANGED <<job, sched, orphans, dir, faults, succeeded>>

CompleteAttempt(r) ==
  /\ run[r].pc = "succeeding"
  /\ TransitionAttemptState(run[r].attempt, "Executing", "Completed")
  /\ Goto(r, "completing")
  /\ UNCHANGED <<job, sched, orphans, dir, faults, succeeded>>

\* Whether or not the attempt was refused, the job is completed.
CompleteJob(r) ==
  /\ run[r].pc = "completing"
  /\ TransitionJobState(JobOf(r), "Running", "Completed")
  /\ Goto(r, "removing")
  /\ UNCHANGED <<attempts, sched, orphans, dir, faults, succeeded>>

RemoveAll(r) ==
  /\ run[r].pc = "removing"
  /\ dir' = [dir EXCEPT ![JobOf(r)] = "absent"]
  /\ run' = [run EXCEPT ![r] = NoRun]
  /\ UNCHANGED <<store, sched, orphans, faults, succeeded>>

\* The worker dies, or a call fails: one whose error is ignored, or one that ends the
\* execution and leaves the work directory.
WorkerFault(r) ==
  /\ run[r].pc # "idle" /\ Fault
  /\ \/ /\ run' = [run EXCEPT ![r] = NoRun]
        /\ orphans' = IF run[r].pc = "sandbox" THEN orphans \cup {run[r].attempt} ELSE orphans
     \/ /\ \/ run[r].pc = "executing"  /\ Goto(r, "preparing")
           \/ run[r].pc = "succeeding" /\ Goto(r, "completing")
           \/ run[r].pc \in {"failing", "completing"} /\ Goto(r, "removing")
        /\ UNCHANGED orphans
  /\ UNCHANGED <<store, sched, dir, succeeded>>

-----------------------------------------------------------------------------

Init ==
  /\ job = [j \in Jobs |-> "absent"]
  /\ attempts = [j \in Jobs |-> <<>>]
  /\ sched = NoPass
  /\ run = [r \in Runs |-> NoRun]
  /\ orphans = {} /\ dir = [j \in Jobs |-> "absent"]
  /\ faults = 0 /\ succeeded = {}

Pass ==
  \/ ListPending \/ FindStaleAttempts \/ ListRunning \/ Retry \/ Move \/ EndPass
  \/ \E j \in Jobs : Schedule(j) \/ GetAttempts(j)
  \/ \E a \in Attempt : TimeOut(a)

Work(r) ==
  \/ Claim(r) \/ Execute(r) \/ StartJob(r) \/ StartSandbox(r) \/ failAndCleanup(r)
  \/ \E code \in {"zero", "nonzero", "none"} : SandboxEnds(r, code)
  \/ StopWaiting(r) \/ ReadResult(r) \/ FailAttempt(r) \/ CompleteAttempt(r) \/ CompleteJob(r) \/ RemoveAll(r)

Next ==
  \/ Pass \/ SchedulerFault
  \/ \E j \in Jobs : CreateJob(j) \/ TerminateJob(j)
  \/ \E r \in Runs : Work(r) \/ WorkerFault(r)
  \/ \E a \in orphans, code \in {"zero", "nonzero"} : OrphanEnds(a, code)

Spec == Init /\ [][Next]_vars

\* The scheduler's timer keeps ticking, and it comes back after a crash.
FairSpec == Spec /\ WF_vars(Pass)

-----------------------------------------------------------------------------
(* Properties.                                                              *)

Executing == {"executing", "preparing", "sandbox", "waiting", "reading", "failing",
              "succeeding", "completing", "removing"}

Passes == [phase : {"idle", "pending", "stale", "failed"}, todo : SUBSET (Jobs \cup Jobs \X Nat),
           cur : Jobs \cup {NoJob}, from : {"", "Pending", "Running"},
           to : {"", "Scheduled", "Failed"}]

Executions == [pc : Executing \cup {"idle", "claimed"}, attempt : (Jobs \cup {NoJob}) \X Nat]

\* States, lists and executions stay within their types; an execution, and the item
\* the scheduler has in hand, belong to something that exists.
TypeOK ==
  /\ job \in [Jobs -> JobStates \cup {"absent"}]
  /\ attempts \in [Jobs -> Seq(AttemptStates)]
  /\ sched \in Passes
  /\ sched.todo \subseteq (IF sched.phase = "stale" THEN Attempt ELSE Jobs)
  /\ run \in [Runs -> Executions]
  /\ \A r \in Runs : run[r] = NoRun \/ (run[r].pc # "idle" /\ run[r].attempt \in Attempt)
  /\ orphans \subseteq Attempt
  /\ dir \in [Jobs -> {"absent", "empty", "zero", "nonzero"}]
  /\ faults \in 0 .. MaxFaults /\ succeeded \subseteq Jobs

\* A job or an attempt that has ended stays as it is, although the scheduler, the API
\* and workers that were given up all write states they decided on earlier.
EndedStaysEnded ==
  [][/\ \A j \in Jobs : job[j] \in Ended => job'[j] = job[j]
     /\ \A a \in Attempt : State(a) \notin {"New", "Executing"} => State(a)' = State(a)]_vars

\* However many workers claim an attempt, one execution of it at most is under way.
OneRunPerAttempt ==
  \A r, q \in Runs :
    run[r].pc \in Executing /\ run[q].pc \in Executing /\ run[r].attempt = run[q].attempt
      => r = q

\* A job has as many attempts as its retries allow; only a fault between creating the
\* first attempt and moving the job on can add another.
WithinRetries == \A j \in Jobs : Len(attempts[j]) <= MaxRetries + 1 + faults

ActiveAttempts(j) == {n \in DOMAIN attempts[j] : attempts[j][n] \in {"New", "Executing"}}

\* Barring such faults, at most one attempt of a job is New or Executing.
OneActiveAttempt == \A j \in Jobs : Cardinality(ActiveAttempts(j)) <= 1 + faults

\* A running job whose last attempt failed does not stay so: it is retried or ended,
\* whatever the scheduler's pass was doing, or lost, when the attempt failed.
FailureIsHandled ==
  \A j \in Jobs :
    LET left == /\ job[j] = "Running"
                /\ Len(attempts[j]) > 0 /\ attempts[j][Len(attempts[j])] = "Failed"
    IN  left ~> ~left

\* A job is completed only if a sandbox of it exited with code 0.
CompletedMeansSucceeded == \A j \in Jobs : job[j] = "Completed" => j \in succeeded

-----------------------------------------------------------------------------
(* Why the properties hold.                                                 *)

\* A job the scheduler may still schedule: it is Pending, or was when it was listed.
Unscheduled(j) ==
  /\ job[j] \in {"absent", "Pending"} \/ (sched.phase = "pending" /\ j \in sched.todo)
  /\ ~(sched.cur = j /\ sched.from = "Pending")

\* A retry of j has been decided on and not made yet.
Retrying(j) == sched.cur = j /\ sched.to = ""

\* What a pass has in hand at each point.
PassShape ==
  /\ sched.cur = NoJob => sched.from = "" /\ sched.to = ""
  /\ sched.cur # NoJob =>
       \/ /\ sched.phase = "pending" /\ sched.from = "Pending" /\ sched.to = "Scheduled"
          /\ sched.cur \notin sched.todo
       \/ /\ sched.phase \in {"stale", "failed"} /\ sched.from = "Running"
          /\ attempts[sched.cur] # <<>>
  /\ \A j \in Jobs : j \in sched.todo \/ j = sched.cur =>
       /\ sched.phase = "pending" => job[j] # "absent"
       /\ sched.phase = "failed" => job[j] \notin {"absent", "Pending"}

\* An execution that is under way has taken its attempt out of New.
ExecutingIsNotNew == \A r \in Runs : run[r].pc \in Executing => State(run[r].attempt) # "New"

\* A job that can still be scheduled has an attempt only after a fault.
SpareAttempts ==
  \A j \in Jobs :
    /\ job[j] = "absent" => attempts[j] = <<>>
    /\ Unscheduled(j) =>
         attempts[j] = <<>> \/ (faults >= 1 /\ Len(attempts[j]) <= MaxRetries + faults)

LatestEnded(j) ==
  attempts[j] # <<>> /\ attempts[j][Len(attempts[j])] \notin {"New", "Executing"}

\* An attempt is made only when fewer are active than the faults account for.
SpareActive ==
  \A j \in Jobs :
    /\ LatestEnded(j) \/ Unscheduled(j) \/ Retrying(j)
         => Cardinality(ActiveAttempts(j)) <= faults
    /\ Unscheduled(j) /\ Retrying(j) => Cardinality(ActiveAttempts(j)) + 1 <= faults

Inv ==
  /\ TypeOK /\ PassShape /\ ExecutingIsNotNew /\ OneRunPerAttempt
  /\ WithinRetries /\ SpareAttempts /\ OneActiveAttempt /\ SpareActive

=============================================================================
