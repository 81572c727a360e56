------------------------- MODULE RunnerCheckpoints -------------------------
(***************************************************************************)
(* The pod side of an attempt: internal/runner (restore.go, checkpoint.go, *)
(* archive.go, supervisor.go, signals_unix.go, result.go).  A runner       *)
(* restores the latest checkpoint of its job into its working directory,   *)
(* supervises the process of the workload, uploads checkpoints while it    *)
(* runs, and keeps what became of it for the result envelope.              *)
(*                                                                         *)
(* Runners of replaced attempts may go on for a while, side by side with   *)
(* their successors; the artifact store is all they share.                 *)
(***************************************************************************)
EXTENDS Integers, Sequences, FiniteSets, FiniteSetsExt

CONSTANT Kinds    \* kinds of entries a workload makes in its working directory

ASSUME KindsAssumption == Kinds \subseteq {"file", "link", "outside", "socket"}

VARIABLES
  objects,     \* checkpoints in the artifact store
  runners,     \* every runner started so far
  limit        \* what a behaviour is bounded to (named below); it never changes

runnerVars == <<objects, runners>>

\* ForwardSignals relays SIGINT and SIGTERM to the group of the process; the kernel and
\* the end of the context kill it.
ForwardSignals == {2, 15}
SIGKILL == 9

\* An entry is numbered; "link" points into the working directory, "outside" out of it.
Files(dir) == {e \in dir : e.kind = "file"}

\* A checkpoint is named by its job, ordinal and sequence number.
SameKey(c, d) == c.job = d.job /\ c.ordinal = d.ordinal /\ c.seq = d.seq

\* How a process ends: it exited, died of a signal, or could not be started or waited for.
Ends == [how : {"exit"}, value : 0 .. 255]
          \cup [how : {"signal"}, value : ForwardSignals \cup {SIGKILL}]
          \cup {[how |-> "error", value |-> 0]}

\* Bounds: entries a workload makes, checkpoints a runner tries and all runners store,
\* and the ends of processes that are looked at.
RunnerLimit(l) == l.work \in Nat /\ l.seq \in Nat /\ l.objects \in Nat /\ l.ends \subseteq Ends

NewRunner(uid, hash, a) ==
  [job |-> uid, attempt |-> a.uid, ordinal |-> a.ordinal, hash |-> hash,
   pc |-> "restore", dir |-> {}, seq |-> 0, result |-> {}]

-----------------------------------------------------------------------------
(* archive.go: the archives a directory gives (none: an error).             *)

CreateArchive(dir) ==
  IF \E e \in dir : e.kind = "outside" THEN {} ELSE {{e \in dir : e.kind # "socket"}}

\* Links are skipped.
ExtractArchive(archive) == Files(archive)

\* Seeded fault: the first checkpoint of the last attempt.
FirstCheckpoint(uid) ==
  {c \in objects : c.job = uid /\ \A d \in objects : d.job = uid =>
       d.ordinal < c.ordinal \/ (d.ordinal = c.ordinal /\ d.seq >= c.seq)}

\* By ordinal, then by sequence number.
LatestCheckpoint(uid) ==
  {c \in objects : c.job = uid /\ \A d \in objects : d.job = uid =>
       d.ordinal < c.ordinal \/ (d.ordinal = c.ordinal /\ d.seq <= c.seq)}

\* Seeded fault: a process that died of a signal passes for one that exited with it.
ExitWithSignal(end) ==
  CASE end.how = "exit"   -> [code |-> end.value, signal |-> 0]
    [] end.how = "signal" -> [code |-> end.value, signal |-> end.value]
    [] end.how = "error"  -> [code |-> -1, signal |-> 0]

\* What Start and Wait tell of the process; an error of theirs may come at any time.
ExitToResult(end) ==
  CASE end.how = "exit"   -> [code |-> end.value, signal |-> 0]
    [] end.how = "signal" -> [code |-> -1, signal |-> end.value]
    [] end.how = "error"  -> [code |-> -1, signal |-> 0]

-----------------------------------------------------------------------------
(* The steps of runner r.                                                   *)

Update(r, runner) == runners' = [runners EXCEPT ![r] = runner]

Started(r, dir) == Update(r, [runners[r] EXCEPT !.pc = "run", !.dir = dir])

\* RestoreCheckpoint lists the checkpoints of the job, downloads the latest and extracts
\* it.  Nobody else writes to that key, so the three are a step.
RestoreCheckpoint(r) ==
  /\ runners[r].pc = "restore"
  /\ Started(r, UNION {ExtractArchive(c.content) : c \in LatestCheckpoint(runners[r].job)})
  /\ UNCHANGED objects

\* A call fails, or the extraction does half-way; the workload starts with what is there.
RestoreFails(r) ==
  /\ runners[r].pc = "restore"
  /\ \E part \in SUBSET UNION {ExtractArchive(c.content) : c \in LatestCheckpoint(runners[r].job)} :
       Started(r, part)
  /\ UNCHANGED objects

\* The process is alive, and with it the goroutine of CheckpointManager.Start.
Runs(r) == runners[r].pc = "run"

\* The workload (external) makes the next entry it misses.
Work(r) ==
  LET missing == (1 .. limit.work) \ {e.n : e \in runners[r].dir} IN
  /\ Runs(r) /\ missing # {}
  /\ \E kind \in Kinds :
       Update(r, [runners[r] EXCEPT !.dir = @ \cup {[n |-> Min(missing), kind |-> kind]}])
  /\ UNCHANGED objects

\* A tick of the goroutine: the next checkpoint gets the next number.
Tick(r) ==
  /\ Runs(r) /\ runners[r].seq < limit.seq /\ Cardinality(objects) < limit.objects
  /\ Update(r, [runners[r] EXCEPT !.seq = @ + 1])

\* The directory is archived in memory and stored in one Put; an object of that name is
\* replaced.  Nothing is stored of a directory that cannot be archived.
CreateCheckpoint(r) ==
  /\ Tick(r)
  /\ LET me  == runners[r]
         new == {[job |-> me.job, ordinal |-> me.ordinal, seq |-> me.seq, content |-> content] :
                   content \in CreateArchive(me.dir)}
     IN objects' = {c \in objects : \A d \in new : ~SameKey(c, d)} \cup new

\* The upload fails, which uses the number up all the same.
CheckpointFails(r) == Tick(r) /\ UNCHANGED objects

\* Supervisor.Run returns and the checkpoints are stopped.  A runner that is killed
\* itself just takes no further step.
ProcessEnds(r) ==
  /\ Runs(r)
  /\ \E end \in limit.ends :
       Update(r, [runners[r] EXCEPT !.pc = "ended", !.dir = {}, !.seq = 0,
                                    !.result = {ExitToResult(end)}])
  /\ UNCHANGED objects

=============================================================================
