# TLA+ specifications of durarun-operator

This directory specifies the durable core of durarun-operator in TLA+, checks it
with TLC on small instances, and proves the central safety properties with TLAPS
for every value of the constants. `PROJECT.json` is the index: components, runs,
mutants, the source lines behind every definition, findings, hazards, theorems.

To check a run: `tlc -config JobLifecycle.cfg MCJobController`. To check the
proofs: `tlapm JobControllerProofs.tla`, and likewise for the other modules called
`...Proofs`; none takes more than a few minutes.

## 1. The system

durarun runs long agent jobs that survive the loss of the pod they run in. The
repository holds two generations of it, plus libraries both use.

**AgentJob reconciler** (`internal/controller/job_controller.go`,
`attempt_reconciler.go`, `job_snapshot.go`, `ownership.go`, `internal/state`).
*State*: the AgentJob, its AgentAttempts `<job>-<ordinal>`, their pods, all in the
API server; nothing of its own. *Operations*: `Reconcile` loads a snapshot of
three informer caches, verifies ownership, creates attempt and pod, copies the
phase of the pod into the attempt, and on the end of an attempt completes the job,
fails it, or creates the next attempt. *Hard*: every decision rests on caches that
trail the API server and each other; every write may conflict; the operator may
die between two writes; a job may be deleted and created again under its name.
*Correct when*: one attempt is active at a time, each failure is counted once, the
budget holds, outcomes are final and true, and every job ends. `agentctl cancel`
(`cmd/agentctl`) writes the same objects from outside: it fails the job, then reads its
attempt, then deletes the pod.

**Results, retries and deletion** (`internal/controller`: `fencing.go`,
`result_reconciler.go`, `error_classifier.go`, `retry.go`, `loss_detector.go`,
`cancel.go`, `deadline.go`, `ttl.go`, `finalizer.go`). *State*: none of its own; the
conditions, exit code and category of attempts, the outcome of jobs, the finalizer.
*Operations*: judge a result envelope by five layers of fencing and write it to its
attempt, classify an end, decide on a retry and its delay, settle a job by
cancellation or deadline, delete what a job owns. Only tests call them so far.
*Hard*: envelopes arrive late, twice, or for a job that was replaced; several of these
ends race; the clean-up fails half-way, and what a job leaves behind meets the next job
of its name. *Correct when*: a result reaches only the attempt whose process it is of, a
job completes only on a process that succeeded and is settled once, and its attempts are
one at a time and its own.

**Runner checkpoints and supervisor** (`internal/runner`: `checkpoint.go`,
`restore.go`, `archive.go`, `supervisor.go`, `signals_unix.go`, `result.go`).
*State*: objects `<job UID>/checkpoints/<ordinal>/ckpt-<n>.tar.gz` in the artifact
store; a working directory and a process per runner. *Operations*: restore the latest
checkpoint, upload one per tick, run the process and tell how it ended. *Hard*: a
replaced runner goes on uploading beside its successor; a restore fails half-way; an
archive leaves things out or cannot be made. *Correct when*: a retry resumes at least
where the attempt before it left off, and the end of a process is told apart by cause.

**Checkpoint store and agent-runner** (`internal/checkpoint`, `cmd/agent-runner`).
*State*: directories `ckpt-<seq>` with an archive and a manifest, and a file
`LATEST`, shared by the attempts of a job; a workspace per attempt with
`.exit-code`. *Operations*: restore (init container), periodic checkpoints and a
final one (sidecar). *Hard*: a kill or a failed write between any two file
operations, checkpoints overwritten in place by the next attempt, the workload
writing while its files are archived, a sidecar that decides by a file when to
leave, containers that die alone. *Correct when*: nothing torn or truncated is restored,
what was saved is not lost, the final checkpoint is the final workspace, and the pod can
end.

**Write-ahead log and runner hooks** (`wal`, `internal/runner`, `runtime`).
*State*: numbered log files of JSON lines with a global sequence, and the runner's
set of completed steps. *Operations*: append with rotation, sync, read, recover;
begin and end of a step. *Hard*: crashes that cut files, also inside a line; failed
appends; replies that are lost; rotation; restart in the middle of a file, with or
without recovery. *Correct when*: a step is skipped only if it was done, a runner in
recovery runs no acknowledged step again, and a log is refused only if it was damaged.

**SandboxPool controller** (`internal/controller/pool_controller.go`). *State*: warm
pods with an `idle`/`claimed` label, `lastScaleTime`. *Operations*: `Reconcile`
(scale up, scale down, status) and `ClaimPoolPod`. *Hard*: a stale list, creation
and deletion one by one with any of them failing, claims while it deletes.
*Correct when*: the pool leaves its sizes by no more than its list was wrong, and an
empty pool is filled.

**Legacy scheduler, store and worker** (`internal/scheduler`, `internal/store`,
`internal/worker`, `internal/api`, `internal/model`). *State*: rows of jobs and
attempts in PostgreSQL, a work directory per job on the worker's host. *Operations*:
submit, terminate; a scheduler pass (schedule pending jobs, time out stale attempts,
retry or fail); a worker's claim, execution and clean-up. *Hard*: each store call is
a transaction of its own, the lists a pass works through grow old, a worker that was
given up is still at work. *Correct when*: one execution per attempt, bounded
retries, ended stays ended, a failed attempt is dealt with, success is real.

**Artifact commit and gateway** (`internal/artifact`, `internal/gateway`). *State*:
objects under `<namespace>/<job UID>/<attempt UID>/`, among them `manifest.json` and
`result-manifest.json`; session tokens in the gateway's memory. *Operations*:
`CommitArtifacts` (files first, manifest last), `ValidateCommit`, and the gateway's
sessions, uploads, downloads and results. *Hard*: each is several calls of an object
store, with others writing the same keys between them and any call failing, and no name
is reserved. *Correct when*: the manifest of a commit never names what is not there, a
validation of it accepts exactly what that commit wrote, and a session reaches no other
attempt.

**Other parts**, not modelled (section 5): the legacy pod pool (`internal/pool`);
capacity admission; parsing in the HTTP API, sandboxes and isolation; metrics, tracing,
other commands, experiments.

**Interaction.** Users write AgentJobs and SandboxPools; the reconcilers and the
kubelet meet only in the API server. An attempt's pod runs the workload under the
agent-runner; attempts meet only in the checkpoint directory. The workload talks to
the runner through hooks or the SDK; runners of successive attempts meet in the log.
Legacy scheduler, workers and API meet in the database, and executions on one host
in the work directory.

## 2. Modules

| Module | Models | Composed with |
|---|---|---|
| `JobController` | the AgentJob reconciler, `agentctl cancel`, API server, informers, kubelet, garbage collector | `JobRefinement`, `MCJobController` (runs), `JobControllerProofs` |
| `JobLifecycle` | what the reconciler promises of one job name | `JobRefinement` |
| `JobRefinement` | how `JobController` implements `JobLifecycle` | `MCJobController`, `JobRefinementProofs` |
| `ResultProtocol` | the helpers on results and ends of jobs, as operators | `AttemptProtocol` |
| `RunnerCheckpoints` | runners: restore, checkpoints, process | `AttemptProtocol` |
| `AttemptProtocol` | runners, pods, results, helpers, finalization, collection and `Reconcile` by decisions | `MCAttemptProtocol`, `AttemptProtocolProofs` |
| `Checkpoints` | checkpoint store, agent-runner and the attempts of one job | `MCCheckpoints`, `CheckpointsProofs` |
| `StepLog` | log writer and reader, runner hooks, SDK steps | `MCStepLog`, `StepLogProofs` |
| `ArtifactCommit` | commit, validation, gateway | `MCArtifactCommit`, `ArtifactCommitProofs` |
| `PoolController` | SandboxPool reconciler, claims, its cache | `PoolControllerProofs` |
| `Scheduler` | legacy scheduler, store, workers, API | `SchedulerProofs` |

Each module holds its state, one action per handler or per call of a handler that
others can see, and its properties; where a proof needs more, a last section, *Why the
properties hold*, adds the parts of the inductive invariant. Definitions keep the names of the source. A
definition marked *Seeded fault* is not part of the specification: it is a wrong
version of the definition that follows it, and shows that the properties notice.

### JobController

`job`, `attempts`, `pods` are what the API server stores under one name; a UID of 0
is "not there". `jobEvents` ... are the watch events on their way to the caches
`jobCache` ..., one stream per kind, so that kinds arrive in any relative order.
`pc`, `snapJob`, `attempt`, `pod` are the worker in the middle of `Reconcile`.
Every write is a step: `CreateAttempt`, `SetActiveAttempt`, `CreatePod`,
`RecordPod`, `FailLostPod`, `ObservePending/Running/Succeeded/Failed`,
`SetJobRunning`, `CompleteJob`, `ExhaustRetries`, `FailOnOwnership`, and the reads
after a lost race, `GetAttemptAfterRace`, `GetPodAfterRace`, `GetRecordedPod`.
`LoadJobSnapshot` is the beginning with its early returns. Around it:
`CrashOperator`, `SubmitJob`, `RaiseMaxAttempts`, `DeleteJob`, collection, the
kubelet (`PodStarts`, `PodEnds`, `LosePod`) and the three deliveries. `CancelJob`,
`CancelGetsAttempt` and `CancelDeletesPod` are the calls of one `agentctl cancel`, with
its place in `cli`; the command may stop after any of them.

* Reads of the caches are merged with the worker's next step: nobody else reads
  them, so a delivery between two reads may be moved before or after both.
* `resourceVersion` is abstracted to equality of content (`SameVersion`): no object
  returns to an earlier content, so the two refuse the same writes.
* An attempt is identified by its owner's UID and its ordinal. The hash of the
  spec, annotations, events and metrics are left out.
* One worker: controller-runtime never runs one name twice at once, the deployment
  has one replica, and leader election is off by default.
* A crash loses the worker's position. The new process relists; the relisted
  caches, being some state between the old cache and the store, need no step of
  their own.
* `cmd/operator/main.go` registers no webhook and calls no defaulting, so
  `maxAttempts` may be 0. That it is only raised is the rule of
  `ValidateImmutableFields`; without the webhook nothing enforces it.
* No finalizer is ever added, so a deletion is immediate and children are collected
  later.

### JobLifecycle and JobRefinement

`JobLifecycle` knows no caches, conflicts or crashes: a job is created, raised and
deleted; attempts are opened one at a time, each after the failure of all before it and
within the budget; each ends once; the job ends once, complete, exhausted or given up.
`JobRefinement` reads this off the stored objects (attempts of an earlier job of the name
are not there), and `ImplementsLifecycle` says that each step of `JobController` is such
a step or none. Two things the abstract module admits are what the code does and not
what one would write first: an attempt may still be opened, and one may still end, after
the job was given up (by `agentctl cancel`, or over ownership), because a reconcile that
is under way has not seen it.

### ResultProtocol, RunnerCheckpoints, AttemptProtocol

`ResultProtocol` holds the helpers one operator each: `ValidateFencing`,
`ReconcileResult`, `ClassifyError`, `HandleCancel`, `CheckDeadline`, `CheckTTL`, and
`ValidateSnapshot`. `RunnerCheckpoints` has the store's checkpoints in `objects` and
every runner started so far in `runners`, with one action per step of a runner; runners
of replaced attempts stay. `AttemptProtocol` puts them together with `Reconcile`.

* Since no reconciler calls the helpers, they get the most general caller: any of them
  at any moment, on the stored objects, its result saved. What is shown holds for any
  caller that reads, decides and saves under the API server's conflict check. Nothing
  says that a caller ever comes, so no step of this module is fair and it has no
  liveness property.
* A result is judged in two steps: `DeliverResult` reads the job, `ApplyResult` the
  attempt; in between everything may happen. Envelopes are never used up, so each may
  arrive any number of times.
* `Reconcile` appears with one step per decision (`FailOnOwnership`, `StartAttempt`,
  `AdoptPod`, `ReportRunning`, `ObservePod`, `FinishJob`); its many steps and stale reads
  are `JobController`'s subject. Each writes the hash of the spec with the job, and a
  raised `maxAttempts` (`EditJob`) changes both the budget and that hash.
* A pod has the exit code `extractExitCode` finds, that of the first container that
  terminated: the runner's, another container's, 137 after an out-of-memory kill, or
  none. The exit code of the runner's process travels in the envelope only.
* What a job owned stays until the garbage collector takes it (`CollectAttempt`,
  `CollectPod`). A second job of the name refuses attempts of the first
  (`FailOnOwnership`) but adopts pods (`AdoptPod`), as `adopted_pod` shows for the full
  reconciler; `job.adopted` remembers them for the properties.
* `HandleFinalization` works on its copy of the job, lists and deletes call by call by
  name, and may fail or run out of time in each. `RemoveFinalizer` edits that copy only;
  `SaveJob` is the caller's update, which is refused when the job has changed. Nothing is
  removed with it but the job. That a deletion ends is not claimed: the function has no
  caller, `maxWait` is per call, and a call that fails without running out of time is
  only reported.
* Entries of a working directory are numbered and have a kind; a socket is left out of
  an archive, a link is not extracted, and a link that points out of the directory
  makes the archive fail, as in `archive.go`. A runner that is killed takes no further
  step.
* Seen while modelling: a result that arrives after its attempt was failed as lost, and
  before the retry was counted, passes all five layers and makes the attempt `Complete`
  beside `Failed`, after which `Reconcile` completes the job. `docs/fault-model.md:21`
  says the fence rejects such a result because the attempt is no longer the active one;
  it still is, until the retry is opened (a finding in `PROJECT.json`). What holds is
  `CompleteMeansRan`: that process did exit with 0. Raising `maxAttempts`
  changes the hash of the spec, so results under way are refused. A process killed by a
  signal has exit code -1 and is `Unknown`. A runner whose restore failed uploads poorer
  checkpoints that outrank the richer ones of earlier ordinals, which is why
  `RestoreNeverRegresses` speaks of restores that succeed and of the attempt right
  before. It also speaks of the current attempt of a job that is not being deleted: a
  runner that was replaced before it came to restore finds its successor's checkpoint as
  the latest, which lacks what a process still further back has uploaded since, and a
  half-done deletion leaves two runners of one ordinal. The proof showed this; with two
  attempts, as in the run, the first cannot happen.

### Checkpoints

`ckpt` and `latest` are the shared directory, with every file absent, torn, cut or whole;
a manifest stands for the archive whose hash it holds. A checkpoint is `TarBegins`,
`TarEnds` (the workload may write between them), then for each of archive, manifest
and `LATEST` the steps `CreateFile`, `WriteFile`, `SyncFile`; `FailCheckpoint` is an
error at any of them. `StartSidecar`, `Tick`, `Shutdown` and `AfterCheckpoint` are the
sidecar, `Restore` the init container. `Terminate`, `PodEnds`, `StartAttempt` and
`MainWorks`, `MainExits`, `MainKilled` surround it.

* `LATEST` is followed as the code does. `docs/workload-protocol.md:70` and
  `docs/architecture.md:152` speak of the highest `checkpointSeq`; the seeded fault
  `HighestSeq` does that, and loses saved work, since attempts count from 1 again.
* `TarWorkspace` drops the errors of its deferred closes: `TarEnds` may leave an archive
  that is cut short, is saved with a matching hash, and fails in `UntarWorkspace`
  (`Verified` but not `Intact`).
* `StartSidecar` may die of an error of `NewRunner` or `StartHookServer`, and a drain
  that comes before the signal handler is set kills it; main then runs on without
  checkpoints, and the pod ends when main does.
* A main container that is killed leaves no `.exit-code` (`MainKilled`). The sidecar
  then goes on until the pod is drained or killed: `SidecarLeaves` is about main
  containers that exit by themselves and about drains, and says nothing of this case,
  which the code does not handle (`docs/fault-model.md:9` counts on a failed pod).
* One agent-runner at a time. The reconciler does not guarantee it: by
  `stale_pod_cache` a second attempt may start beside a live pod, and the two would
  then write the same directory. That case is outside this module, and so is the
  adoption of a pod of an older job. That a file
  survives a kill once it is synced holds for its directory entry too: directory
  syncs are not modelled.
* `BuildPod` starts `/tools/agent-runner -- cmd`, mounts no checkpoint volume and
  adds no sidecar, and agent-runner requires `--job-name`. The module models the
  agent-runner as it is written, for a pod that has both containers and the volume.

### StepLog

`log` is the lines of all files in order, each with its file and whether it was
synced. `StepBegin`, `StepEnd`, `StepNote`, `SkipStep` are hook calls (or SDK calls),
`JobCancelled` the record a cancelled `Runtime.Run` writes, `NewRunner` opens the log
with its checks, `Close`, `Kill` and `Crash` end a runner. A crash keeps the synced
lines and may cut every file anywhere after them. `ReplyLost` is a hook call that was
logged and whose answer never arrived.

* A failed rotation is a failed append. `manifest.json`, which recovery does not
  read, is left out. Files are taken in order; beyond 9999 files their names would
  not sort that way.
* A `NewWriter` that finds the last file full starts the next one without syncing
  the full one, so a crash after that can take lines before those of a later file:
  `damaged` records it, and such a log is refused rather than misread.
* `NextRunner` leaves `recovery` free. A legacy worker sets it only if the newest
  checkpoint row of the job has completed steps (`worker.go:109-140`), the agent-runner
  if `.wal` exists, the SDK as its caller configures. A runner without it starts the
  steps over and writes on behind what it finds: an acknowledged step then does run
  again. `AckedNeverRerun` says what recovery mode guarantees; a step leaves `acked` when
  a runner without recovery begins it, and returns when it ends again.

### PoolController

`pods` is the API server, `events` and `cache` the trailing view. `BeginPass` is the
listing and the arithmetic, then `CreatePod`, `DeletePod`, `UpdateStatus` one call at
a time; `PassFails` is any call that returns an error. `ChoosePod` and `PatchPod` are
the two halves of `ClaimPoolPod`. Ratios are in tenths; counters in the status, which
nobody reads, are left out. The cached pool may not yet show the last
`lastScaleTime`, so a pass may take the cooldown for over while it is not.

* A stale list can make the pool exceed `maxSize` or fall below `minSize`. The size
  properties say by how much: `unseen` counts the live pods the list missed, `lost`
  the pods it still showed though they were gone and those that end during the pass.
* Neither the CRD nor the code puts `minSize` and `maxSize` in order: an empty list
  starts `minSize` pods whatever `maxSize` is (`Limit`), and the module assumes nothing.
* Seen while modelling: a pool of one to `minSize - 1` pods that are all idle is not
  filled up to `minSize`; a pass whose ratio is between the thresholds both creates
  and deletes; `ClaimPoolPod` is called by no reconciler, does not look at the
  phase or the deletion of a pod, and patches without a resourceVersion: two callers
  that list the same idle pod both succeed, where `pool_controller.go:312` expects the
  second to get an error; and a pod that is claimed between the list of a pass and its
  deletion is deleted.

### ArtifactCommit

`store` has the objects of each attempt by name. A commit is
`StartCommit`, a `PutBlob` for each file in the order of the names, `PutManifest`; it may
end at any point (`CommitFails`), and storing the manifest may report an error although
it was stored. A validation is `BeginValidation`, which reads the manifest,
`CheckArtifact` for each file, `EndValidation`. `CreateSession`, `SessionExpires`,
`HandleUpload`, `HandleResult` and `PutRequest` are the gateway: a
request is let in, and stores later. `writers` and `visible`, and `read`, `from` and
`quiet` of a validation, are histories for the properties.

* A hash stands for what it is a hash of; the content hash of a manifest is the sequence
  of those of its files. Nothing deletes objects, so the checks that an object exists
  are merged with the calls after them. A `Put` replaces an object at once, as an object
  store does.
* No name is reserved: artifacts and uploads may be called `manifest.json` or
  `result-manifest.json` and hold a manifest or an envelope. So `ValidIsOneCommit` is
  about validations that read the manifest of a commit: one that was uploaded, and names
  what is stored, validates as well, and `ValidateCommit` cannot tell. `LoneCommitIsValid`
  excludes a commit with an artifact called `manifest.json`, which `CommitArtifacts`
  overwrites before it returns nil. `RequestsStayInScope` is about where a request writes;
  what an object called `result-manifest.json` says is up to the session.
* A download changes nothing and is left out.
* Seen while modelling: a commit repeated with other contents overwrites the files in
  place, so that when it dies half way the earlier, complete commit no longer validates;
  the gateway stores results as `result-manifest.json`, which `ValidateCommit` does not
  read; and the keys of checkpoints, `<namespace>/<job UID>/checkpoints/...`, never pass
  the gateway's check of the attempt.

### Scheduler

`job` and `attempts` are the two tables; `sched` is a pass with the list it works
through, `run` the goroutines of the workers, `dir` the work directory of each job,
`orphans` the containers whose worker died. Every store call is a step and may be
refused or lost (`SchedulerFault`, `WorkerFault`).

* The order of lists and of claims (`ORDER BY`, `SKIP LOCKED`) is abstracted to a
  free choice. Rows of checkpoints, artifacts and logs, and the pool the scheduler
  asks, are left out; of these only the newest checkpoint row is read back, for the
  recovery mode that `StepLog` leaves free.
* The heartbeat is set at creation and not again before the container has ended,
  because `StartSandbox` blocks; so a live attempt may be found stale at any time.
* Seen while modelling, without a run of its own: a worker that claims an attempt
  before the scheduler has moved the job ignores the refusal of its own transition
  (`worker.go:97`) and the job stays Scheduled; a timed-out attempt whose retry could
  not be created leaves its job Running, since `handleFailedAttempts` looks for
  Failed attempts; the attempts of a terminated job still run.

## 3. Runs

Passing runs. All but `artifacts` set `CHECK_DEADLOCK FALSE` because the systems do
stop: when the jobs have ended, the attempts are used up, or the bound on created
objects is reached.

| Run | Instance | What it shows |
|---|---|---|
| `job_lifecycle` | budget 2, one job, 3 pods, one fault, caches 2 events behind, fairness | one attempt at a time, failures counted once, budget, truthful and final outcomes; every job ends; `JobLifecycle` is implemented |
| `job_recreate` | two jobs under one name, budget 2, 2 pods, lag 1 | each job has a lifecycle of its own, nothing of the old one in the new; every read is an earlier version |
| `attempt_protocol` | budgets 0 to 2, up to 3 attempts in all, two jobs of a name, four scenarios | exit codes come from the attempt's own process or recorded pod, completion from a process that exited with 0, snapshots are valid, jobs settled once, a retry resumes where it should |
| `checkpoints` | 3 attempts, 4 checkpoints each, 2 faults, fairness | whole restores, no saved work lost, final checkpoint exact or not restorable, sidecar leaves, and not too early |
| `step_log` | 2 steps, files of 2 lines, 5 lines, 2 faults, lost replies among them | skipped was done, acknowledged is not rerun in recovery, refused means damaged |
| `artifacts` | two attempts, two commits of 2 files, one request, one validation at a time, colliding names | manifests of commits name stored files, a validation of one accepts that commit only and refuses no undisturbed one, requests write for their own attempt |
| `pool` | sizes 1 to 2, 3 pods, lag 1, one fault, fairness | sizes are left by no more than the list was wrong, an empty pool is filled |
| `scheduler` | one job, one retry, two goroutines, one fault, fairness | one execution per attempt, bounded retries, ended stays ended, failures are handled |

Runs that end in a counterexample. Each states what the code's own comments or the
documents say, and is a finding in `PROJECT.json`. (A further finding there, on late
results, belongs to `attempt_protocol`: see section 2.)

| Run | Trace |
|---|---|
| `stale_pod_cache` | the attempt with its recorded pod arrives before the pod: a live pod is taken for a lost one, and its attempt is failed |
| `adopted_pod` | a recreated job adopts the old job's pod by name and takes its success for its own |
| `restore_blocks` | a kill inside `Save` tears the checkpoint `LATEST` names, and the restore container dies |
| `lost_result` | a timed-out execution removes the directory it shares with the retry, whose worker then reports success |

**Why the bounds are enough.** A budget of two is the least with a retry, so that a
failure is counted while the next attempt exists; three pods allow one adoption or
replacement more than attempts. A lag of two lets an informer miss its own last two
writes; lag is counted per stream, so the streams also disagree with each other. One
fault reaches every point between two writes of a run; interactions of several faults
are left to the proofs, which do not bound them. Three attempts are needed for a checkpoint of
the second to overwrite the first's and be read by the third; a workload of one step
tells old from new contents. Files of two lines rotate twice in five lines, so that a
full file, a new file and a resumed file all occur. Two
commits of two files are the least that can mix; one of the files is called like the
result or like the manifest. In `AttemptProtocol` a behaviour
follows one of four scenarios that `Init` picks (`MCAttemptProtocol`): recovery with two
checkpoints and a lost pod or failed call; settlement, with two of lost pods, edits,
cancellations and deadlines around late results, with a budget of 0 or 2 that may be
raised and another container in the pod; finalization, with two of deletions, deadlines
and failed calls; recreation, with a second job under the name before the first was
collected, and a third attempt. Each holds the least that its races need,
and what it leaves out is in another. In the pool, sizes one and two
with three pods have passes that create, delete and leave alone. Symmetry is used for
the step IDs of `StepLog` and for the contents, attempts and commits of
`ArtifactCommit`, which no definition tells apart and whose runs have no temporal
property.

**Fairness.** `JobController`: the work queue requeues after every outcome but a
terminal or deleted job, watch streams deliver, the kubelet runs pods to an end and
the collector collects; crashes, losses and users are not fair. `Checkpoints`: only
the agent-runner, whose ticker ticks. `PoolController`: reconciling, since every pass
asks to be requeued, and delivery. `Scheduler`: only the scheduler's timer; nothing
is assumed of workers, since the property is about what the scheduler does with them.
`AttemptProtocol`: nothing, since its helpers have no caller.
Weak fairness suffices everywhere.

## 4. Proofs

Proved by TLAPS for all values of the constants that satisfy the named assumptions
(bounds are natural numbers, where the code needs it not zero).

**JobControllerProofs.** `Inv` is inductive (`Invariance`). From it: `Types`,
`RetriesFollowFailures`, `Budget`, `Counting` and the action property `Finality`. The
properties alone are not inductive, because the worker acts on what it read. The heart
of `Inv` is `ReadsAreOld`: every version of the job and of an attempt in a cache, in a
watch stream or in the worker's hands is one the store has passed through, in the
sense that what cannot be undone (a terminal condition, a counted failure, an
ordinal's owner) has stayed as that version shows it. `WorkerKnows` adds what each
position of the worker implies, and `FailedBeforeRetry` and `WithinBudget` complete
it. That old versions stay old under every write of the store is proved once, as
lemmas, and cited by each action.

**CheckpointsProofs.** `Inv` of `Checkpoints` is inductive. From it: `Types`,
`WholeRestore`, `NoSavedWorkLost`, `ExactFinalCheckpoint`, `SidecarOrder`. It needs
`SaveOrder` (while a file is being written, those before it are whole and match),
`Progress` (the checkpoint `LATEST` names holds at least the saved work, or is
cannot be restored), `ExitCodes` (no archive holds `.exit-code`), `Numbers` (which
checkpoints the attempt may still write), `Fresh` and `Final`.

**ArtifactCommitProofs.** `Inv` of `ArtifactCommit` is inductive. From it: `TypeCorrect`,
`ManifestLastHolds`, `NoMixtureValidates`, `LoneCommitsValidate`, `ScopesHold`. It follows
a file: `CommitsStore` (what a commit is done with is stored), `ManifestsComeLast` (where
a commit is `visible`, its manifest is stored and it had put all its files), `ReadsMatch` (a validation has
read what its manifest says), `LoneWriter` and `StillQuiet` (where one commit alone has
written, the store is as it left it), `RequestsFit`. Besides the shape of the constants it
assumes that commits and requests are different things and that no manifest is `None`.

**JobControllerProofs**, continued. `EarlierVersions` states `ReadsAreOld` itself.
`FirstJobCompletes` is about where success comes from: as long as no pod has ended in
`Succeeded`, none of the stored, delivered or read versions of pods and attempts tells of
a success (`PodsQuiet`, `AttemptsQuiet`), so no job completes (`Evidence`). Its
hypothesis, that the name has been used for one job only, cannot go: `adopted_pod` is the
counterexample with two.

**JobRefinementProofs.** `Refinement`: `JobController` implements `JobLifecycle`. Each
action is summed up by what it writes (`JobWrites`, `AttemptWrites`): one attempt that has
not ended moves on, a new one is opened, the job goes on, ends, is replaced. That an
abstract step is allowed follows from `Inv` and from two more invariants:
`CompleteHasAttempt` (a complete job has its complete attempt) and `BudgetIsSpent` (after
the last failure no older version of the job is a reason to open another attempt).
Deliveries, reads and crashes write nothing and are stuttering steps.

**AttemptProtocolProofs.** `Inv` ties everything that is said of an end to what ended:
`RunnerShape` (a runner, its pod, its result), `AttemptsAccounted` (an attempt's pod has
its name, its own process is in that pod, and its exit code, conditions and category are
theirs; no attempt of another job is there once the job has one, and none but the active
one is open), `ResultsTruthful` (envelopes, also those being judged, tell what their
process did), `JobShape`, and `CompleteMeansRan` itself. From it: `TypeCorrect`, `Fencing`,
`CompleteJobs`, `Classification`, `ValidSnapshots`, and the action property `SettledOnce`.
Adopted pods are what makes "its own process or its pod" two cases throughout. The
fence is needed once, in `ApplyResult`: an envelope that passes names the attempt it is
written to. For `Resumption` a second invariant, `RestoreInv`, follows the checkpoints: in
a job nobody deletes every ordinal has one runner, whose directory only grows, so its last
checkpoint has the files of all before it (`Checkpointing`); the latest checkpoint the
current attempt finds is the last one of the attempt before, if that has any.

**StepLogProofs.** The argument is about one line. When a step is acknowledged, its end is
synced, and from then on the log has either that line with its number (`ShowsDone`) or
something for which every reader in recovery refuses: junk, or a number larger than the
line's place (`Shown`). A crash can only drop lines that are not synced, which moves later
lines forward and makes the gap permanent, and an append that fails has used up its
number. `BegunOrBroken` carries the same for the begin of a step, and `WholeLog` says that
without damage numbers and places agree, which is `Refusals`. Most lemmas are about
`Merged`, `Refreshed` and `Appended`: how cutting, syncing and appending move lines.

**SchedulerProofs.** `Inv` has `PassShape` (what a pass holds at each point, and of which
rows), `ExecutingIsNotNew` (an execution has taken its attempt out of `New`, hence
`AttemptRunsOnce`), and two counts, `SpareAttempts` and `SpareActive`: whoever may still
create an attempt finds fewer attempts than the bound allows, or a fault that accounts for
one. They give `RetriesBound` and `ActiveBound`. `NoComeback` is an action property over
all store calls. The faults in the two bounds are not slack: one lost reply is
enough for a second active attempt, and for one attempt more than the retries allow.

**PoolControllerProofs.** The list of a pass gives it a margin below `Limit` and above
`minSize` (lemmas on the arithmetic of `Reconcile`), short of what the list got wrong,
which `unseen` and `lost` count. `RoomLeft` and `EnoughLeft` follow the margin call by
call: a creation uses up one, a deletion at most one, a pod that ends by itself is in
`lost`, claims and starts use none. From them: `TypeCorrect`, `WithinMax`, `KeepsMin`. The
sizes are any two natural numbers.

**Model-checked only.** Liveness (`JobsEnd`, `SidecarLeaves`, `FailureIsHandled`,
`EmptyPoolRefills`), which is out of the prover's reach. Every invariant
and every action property of a passing run is a theorem; `CompleteMeansSucceeded` for the
first job of a name, as above.

## 5. Not modelled

* `status_patch.go`: each patch is computed against a copy of the object it is given,
  so it is empty.
* `ShouldRetry`, `ComputeBackoff` and `DetectPodLoss`: only tests call them, and nothing
  uses what they answer. For a `maxAttempts` of 0 `ShouldRetry` takes 3, where `Reconcile`
  makes one attempt; `ComputeBackoff` leaves the range of int64 at ordinal 31.
* The legacy pod pool: records in the memory of one process that stand for no pod; each
  binary has a pool of its own, and in none do operations that could disturb each other
  meet.
* Capacity admission: a counter under a mutex without a caller.
* In the legacy store: rows of artifacts, logs and pool metadata, which no decision
  reads, and rows of checkpoints, which a worker reads to decide on recovery mode; `StepLog`
  leaves that decision free.
* Contents: path checks, compression, formatting, spec hashes, security contexts,
  network policies, pod templates.
* Pure I/O and wiring: HTTP request parsing, sandboxes, isolation, metrics, tracing,
  command-line tools, experiments.

## 6. Plan

1. Done: the modules of section 2, their runs, and proofs of all safety properties the
   passing runs check, among them the refinement of `JobLifecycle`.
2. Left: a second job under a name in `FirstJobCompletes`, with the hypothesis that the
   pods of the first were collected; two agent-runners at once on one checkpoint
   directory; an abstract specification of the step log (a set of
   steps done, skipped only when in it).
