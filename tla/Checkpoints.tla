---------------------------- MODULE Checkpoints ----------------------------
(***************************************************************************)
(* Checkpoints of a workspace: the file system store of                    *)
(* internal/checkpoint (fs.go, tar.go) and the agent-runner                *)
(* (cmd/agent-runner/main.go) that restores a workspace before the         *)
(* workload starts and saves it, as a sidecar, while the workload runs.    *)
(*                                                                         *)
(* Attempts of one job follow one another.  Each has a fresh workspace     *)
(* (an emptyDir); the checkpoint directory outlives them.  A pod can be    *)
(* killed between any two steps; a file that was created but not synced by *)
(* then is torn.  The contents of a workspace are the number of steps the  *)
(* workload did in it.                                                     *)
(***************************************************************************)
EXTENDS Integers

CONSTANTS
  MaxAttempts,   \* attempts of the job
  MaxSeq,        \* checkpoints of one attempt
  MaxWork,       \* steps of the workload, over all attempts
  MaxFaults      \* killed pods and containers and failed calls, together

ASSUME AttemptsAssumption == MaxAttempts \in Nat
ASSUME SeqAssumption      == MaxSeq \in Nat /\ MaxSeq >= 3
ASSUME WorkAssumption     == MaxWork \in Nat
ASSUME CkptFaultsAssumption == MaxFaults \in Nat

VARIABLES
  ckpt,        \* the files of each directory ckpt-<seq>
  latest,      \* the file LATEST
  attempt,     \* number of the attempt
  pc,          \* where the agent-runner of that attempt is
  seq,         \* the sidecar's checkpoint number
  last,        \* this checkpoint is the sidecar's final one
  open,        \* Save has created the next file and not synced it yet
  archive,     \* the archive in the temporary file
  workspace,   \* the workspace of the attempt
  main,        \* the main container: "up" or "exited"
  term,        \* SIGTERM was received
  faults,      \* faults that happened so far
  saved,       \* history: the work archived by the last Save that returned nil
  failed       \* history: the last checkpoint returned an error

disk == <<ckpt, latest>>
history == <<saved, failed>>
vars == <<disk, attempt, pc, seq, last, open, archive, workspace, main, term, faults, history>>

-----------------------------------------------------------------------------
(* Files.  A manifest stands for the archive whose SHA256 it holds, a hash  *)
(* for the contents hashed.                                                 *)

Seqs == 1 .. MaxSeq
Work == 0 .. MaxWork

\* steps of the workload, whether files of different steps are mixed in it, and
\* whether it holds .exit-code.  An archive that was cut short when it was closed is
\* a file like any other; one that a crash kept from being synced is torn.
Files == [state : {"absent", "torn", "cut", "whole"}, work : Work, mixed : BOOLEAN, exit : BOOLEAN]

NoWork(state) == [state |-> state, work |-> 0, mixed |-> FALSE, exit |-> FALSE]

Absent == NoWork("absent")
Torn   == NoWork("torn")
Empty  == NoWork("whole")

NoLatest   == 0    \* LATEST does not exist
TornLatest == -1   \* LATEST does not parse

\* Seeded fault: .exit-code is archived with the rest.
TarAll(w) == w

\* TarWorkspace skips .exit-code.
TarWorkspace(w) == [w EXCEPT !.exit = FALSE]

\* What TarWorkspace can have written when it returns nil: the errors of the deferred
\* tw.Close() and gw.Close() are dropped, and with them the end of the archive.
Cut(f) == [f EXCEPT !.state = "cut"]
Archives(w) == {TarWorkspace(w), Cut(TarWorkspace(w))}

\* The manifest parses and its hash is the hash of the archive.
Verified(c) == c.man.state \in {"cut", "whole"} /\ c.ws = c.man

\* Seeded fault: the archive is not verified.
WholeManifest(c) == c.man.state = "whole"

\* The archive is the one the manifest describes, and UntarWorkspace comes to its end.
Intact(c) == Verified(c) /\ c.ws.state = "whole"

\* Seeded fault: the latest checkpoint is the one with the highest number.
HighestSeq(l) ==
  IF l = NoLatest THEN NoLatest
  ELSE CHOOSE s \in Seqs : /\ ckpt[s].man.state # "absent"
                           /\ \A r \in Seqs : ckpt[r].man.state # "absent" => r <= s

\* The checkpoint that is restored is the one LATEST names.
readLatestSeq(l) == l

-----------------------------------------------------------------------------
(* The restore container.                                                   *)

\* RestoreLatest: start fresh, extract, or die of the error.
Restore ==
  LET l == readLatestSeq(latest) IN
  /\ pc = "restore"
  /\ \/ /\ l = NoLatest
        /\ pc' = "start"
        /\ workspace' = Empty
     \/ /\ l \in Seqs /\ Intact(ckpt[l])
        /\ pc' = "start"
        /\ workspace' = ckpt[l].ws
     \/ /\ l # NoLatest
        /\ l \in Seqs => ~Intact(ckpt[l])
        /\ pc' = "restoreFailed"
        /\ UNCHANGED workspace
  /\ UNCHANGED <<disk, attempt, seq, last, open, archive, main, term, faults,
                 history>>

-----------------------------------------------------------------------------
(* The sidecar.  doCheckpoint: tar the workspace into a temporary file,     *)
(* then Save it: archive, manifest, LATEST, each created and then synced.   *)

SaveSteps == {"workspace", "manifest", "latest"}

\* The sidecar comes up beside the main container, or dies of the error of NewRunner or
\* StartHookServer and leaves the pod without checkpoints.
StartSidecar ==
  /\ pc = "start"
  /\ \/ pc' = "wait" /\ UNCHANGED faults
     \/ /\ faults < MaxFaults
        /\ faults' = faults + 1
        /\ pc' = "died"
  /\ UNCHANGED <<disk, attempt, seq, last, open, archive, workspace, main, term, history>>

\* The main loop wakes up.  The last two numbers are kept for the end.
Tick ==
  /\ pc = "wait"
  /\ seq < MaxSeq - 1
  /\ seq < MaxSeq - 2 \/ workspace.exit \/ term
  /\ seq' = seq + 1
  /\ pc' = "tar"
  /\ UNCHANGED <<disk, attempt, last, open, archive, workspace, main, term, faults, history>>

\* ctx.Done(): one final checkpoint.
Shutdown ==
  /\ pc = "wait" /\ term
  /\ seq' = seq + 1
  /\ last' = TRUE
  /\ pc' = "tar"
  /\ UNCHANGED <<disk, attempt, open, archive, workspace, main, term, faults, history>>

TarBegins ==
  /\ pc = "tar"
  /\ archive' = TarWorkspace(workspace)
  /\ failed' = FALSE
  /\ pc' = "walk"
  /\ UNCHANGED <<disk, attempt, seq, last, open, workspace, main, term, faults, saved>>

\* What the workload wrote while the files were copied is partly in the archive.  The
\* archive is closed, or cut short by an error nobody looks at.
TarEnds ==
  LET copied == [archive EXCEPT !.mixed = @ \/ workspace.work # archive.work] IN
  /\ pc = "walk"
  /\ \/ archive' = copied /\ UNCHANGED faults
     \/ /\ faults < MaxFaults
        /\ faults' = faults + 1
        /\ archive' = Cut(copied)
  /\ pc' = "workspace"
  /\ UNCHANGED <<disk, attempt, seq, last, open, workspace, main, term, history>>

\* os.Create truncates what the file held.
CreateFile ==
  /\ pc \in SaveSteps /\ ~open
  /\ open' = TRUE
  /\ ckpt' = CASE pc = "workspace" -> [ckpt EXCEPT ![seq].ws = Torn]
               [] pc = "manifest"  -> [ckpt EXCEPT ![seq].man = Torn]
               [] OTHER            -> ckpt
  /\ latest' = IF pc = "latest" THEN TornLatest ELSE latest
  /\ UNCHANGED <<attempt, pc, seq, last, archive, workspace, main, term, faults, history>>

\* The file that is open gets its contents; a manifest, the hash of the archive
\* as it is read back.
WriteFile ==
  /\ ckpt' = CASE pc = "workspace" -> [ckpt EXCEPT ![seq].ws = archive]
               [] pc = "manifest"  -> [ckpt EXCEPT ![seq].man = ckpt[seq].ws]
               [] OTHER            -> ckpt
  /\ latest' = IF pc = "latest" THEN seq ELSE latest

\* The file is written and synced, and Save goes on to the next.
SyncFile ==
  /\ pc \in SaveSteps /\ open
  /\ open' = FALSE
  /\ WriteFile
  /\ pc' = CASE pc = "workspace" -> "manifest"
             [] pc = "manifest"  -> "latest"
             [] OTHER            -> "done"
  /\ saved' = IF pc = "latest" THEN archive.work ELSE saved
  /\ archive' = IF pc = "latest" THEN Absent ELSE archive
  /\ UNCHANGED <<attempt, seq, last, workspace, main, term, faults, failed>>

\* Any step of doCheckpoint returns an error, which is logged.  A file that could
\* not be written or synced may be complete all the same.
FailCheckpoint ==
  /\ pc \in {"tar", "walk"} \cup SaveSteps
  /\ faults < MaxFaults
  /\ faults' = faults + 1
  /\ pc' = "done"
  /\ open' = FALSE
  /\ failed' = TRUE
  /\ archive' = Absent
  /\ UNCHANGED disk \/ (open /\ WriteFile)
  /\ UNCHANGED <<attempt, seq, last, workspace, main, term, saved>>

\* Seeded faults: a sidecar that sees .exit-code leaves at once, ignores it, or
\* forgets that the checkpoint it then makes is the final one.
LeaveAtOnce ==
  /\ pc = "done"
  /\ pc' = IF last \/ workspace.exit THEN "exited" ELSE "wait"
  /\ UNCHANGED <<disk, attempt, seq, last, open, archive, workspace, main, term, faults,
                 history>>
IgnoreExitCode ==
  /\ pc = "done"
  /\ pc' = IF last THEN "exited" ELSE "wait"
  /\ UNCHANGED <<disk, attempt, seq, last, open, archive, workspace, main, term, faults,
                 history>>
FinalNotLast ==
  /\ pc = "done"
  /\ pc' = IF last THEN "exited" ELSE IF workspace.exit THEN "tar" ELSE "wait"
  /\ seq' = IF workspace.exit THEN seq + 1 ELSE seq
  /\ UNCHANGED <<disk, attempt, last, open, archive, workspace, main, term, faults, history>>

\* After a checkpoint: exit after the final one, make the final one when
\* .exit-code is there, or wait for the next tick.
AfterCheckpoint ==
  /\ pc = "done"
  /\ pc' = IF last THEN "exited" ELSE IF workspace.exit THEN "tar" ELSE "wait"
  /\ last' = (last \/ workspace.exit)
  /\ seq' = IF ~last /\ workspace.exit THEN seq + 1 ELSE seq
  /\ UNCHANGED <<disk, attempt, open, archive, workspace, main, term, faults, history>>

Sidecar ==
  \/ StartSidecar \/ Tick \/ Shutdown \/ TarBegins \/ TarEnds \/ CreateFile \/ SyncFile
  \/ FailCheckpoint \/ AfterCheckpoint

-----------------------------------------------------------------------------
(* The workload and the cluster (external).                                 *)

Running == pc \notin {"none", "restore", "restoreFailed"}

MainWorks ==
  /\ Running /\ main = "up"
  /\ workspace.work < MaxWork
  /\ workspace' = [workspace EXCEPT !.work = @ + 1]
  /\ UNCHANGED <<disk, attempt, pc, seq, last, open, archive, main, term, faults, history>>

\* docs/workload-protocol.md: the main container leaves its exit code behind.
MainExits ==
  /\ Running /\ main = "up"
  /\ main' = "exited"
  /\ workspace' = [workspace EXCEPT !.exit = TRUE]
  /\ UNCHANGED <<disk, attempt, pc, seq, last, open, archive, term, faults, history>>

\* The main container is killed (out of memory) and leaves nothing behind.
MainKilled ==
  /\ Running /\ main = "up"
  /\ faults < MaxFaults
  /\ faults' = faults + 1
  /\ main' = "exited"
  /\ UNCHANGED <<disk, attempt, pc, seq, last, open, archive, workspace, term, history>>

\* A drain: the kubelet signals the containers before it kills them.  A sidecar that
\* has not asked for the signal yet dies of it.
Terminate ==
  /\ Running /\ pc \notin {"exited", "died"} /\ ~term
  /\ faults < MaxFaults
  /\ faults' = faults + 1
  /\ term' = TRUE
  /\ pc' = IF pc = "start" THEN "died" ELSE pc
  /\ UNCHANGED <<disk, attempt, seq, last, open, archive, workspace, main, history>>

\* An agent-runner knows nothing of the ones before it, and its workspace is empty.
NewPod ==
  /\ seq' = 0 /\ last' = FALSE /\ open' = FALSE /\ archive' = Absent
  /\ workspace' = Empty /\ main' = "up" /\ term' = FALSE /\ failed' = FALSE

\* The pod is over: killed, failed to restore, or with no container left.
PodEnds ==
  /\ pc # "none"
  /\ \/ /\ faults < MaxFaults
        /\ faults' = faults + 1
     \/ /\ pc \in {"restoreFailed", "exited"} \/ (pc = "died" /\ main = "exited")
        /\ UNCHANGED faults
  /\ pc' = "none"
  /\ NewPod
  /\ UNCHANGED <<disk, attempt, saved>>

\* The operator starts the pod of the next attempt.
StartAttempt ==
  /\ pc = "none" /\ attempt < MaxAttempts
  /\ attempt' = attempt + 1
  /\ pc' = "restore"
  /\ UNCHANGED <<disk, seq, last, open, archive, workspace, main, term, faults, history>>

Init ==
  /\ ckpt = [s \in Seqs |-> [ws |-> Absent, man |-> Absent]]
  /\ latest = NoLatest
  /\ attempt = 0 /\ pc = "none" /\ seq = 0 /\ last = FALSE /\ open = FALSE
  /\ archive = Absent /\ workspace = Empty
  /\ main = "up" /\ term = FALSE /\ faults = 0
  /\ saved = 0 /\ failed = FALSE

Next ==
  \/ Restore \/ Sidecar
  \/ MainWorks \/ MainExits \/ MainKilled \/ Terminate \/ PodEnds \/ StartAttempt

Spec == Init /\ [][Next]_vars

\* The ticker ticks and the sidecar runs; nothing else is promised.
FairSpec == Spec /\ WF_vars(Restore \/ Sidecar)

-----------------------------------------------------------------------------
(* Properties.                                                              *)

\* Files hold an archive or nothing, and the sidecar never numbers a checkpoint
\* beyond the ones kept for its end.
TypeOK ==
  /\ ckpt \in [Seqs -> [ws : Files, man : Files]]
  /\ latest \in Seqs \cup {NoLatest, TornLatest}
  /\ attempt \in 0 .. MaxAttempts /\ seq \in 0 .. MaxSeq
  /\ pc \in {"none", "restore", "restoreFailed", "start", "died", "wait", "tar", "walk",
              "done", "exited"} \cup SaveSteps
  /\ last \in BOOLEAN /\ open \in BOOLEAN /\ term \in BOOLEAN /\ failed \in BOOLEAN
  /\ archive \in Files /\ workspace \in Files /\ main \in {"up", "exited"}
  /\ faults \in 0 .. MaxFaults
  /\ saved \in Work

\* The workload never starts on a workspace from a torn archive or one cut short,
\* whatever crash or failed write interrupted the Save of that checkpoint, an overwrite
\* of an older one included.
RestoredIsWhole == workspace.state = "whole"

\* A restore that succeeds brings back at least the work of the last Save that
\* returned nil, although each attempt numbers its checkpoints from 1 again.
NothingSavedIsLost ==
  [][pc = "restore" /\ pc' = "start" => workspace'.work >= saved]_vars

\* When the sidecar leaves after the main container has exited, and its final
\* checkpoint reported no error, LATEST names that checkpoint and it passes the hash
\* check; and unless its archive was cut short, so that every restore of it fails, it
\* is the whole final workspace: no write of the workload raced it.
FinalCheckpointIsExact ==
  pc = "exited" /\ ~term /\ ~failed =>
    /\ latest \in Seqs /\ Verified(ckpt[latest])
    /\ Intact(ckpt[latest]) => ckpt[latest].ws = TarWorkspace(workspace)

\* A sidecar that came up and was not drained leaves its main loop only when the main
\* container of its own attempt has exited: .exit-code of an earlier attempt never comes
\* back with a checkpoint.
SidecarOutlivesMain ==
  pc = "exited" /\ ~term => main = "exited"

\* The sidecar leaves once .exit-code is there or the pod is drained, so that the pod
\* can end.  (A main container that is killed leaves no .exit-code: then only a drain
\* ends the sidecar.)
SidecarLeaves ==
  Running /\ (workspace.exit \/ term) ~> pc \in {"exited", "died", "none"}

\* "A failed restore does not block execution" (docs/fault-model.md, 8).
RestoreNeverBlocks == pc # "restoreFailed"

-----------------------------------------------------------------------------
(* Why the properties hold: the inductive invariant.                        *)

Saving == pc \in {"walk"} \cup SaveSteps

\* Nothing has happened in a pod before its restore is over.
Fresh == ~Running => workspace = Empty /\ main = "up" /\ ~last /\ seq = 0

\* .exit-code is in the workspace of an attempt only when its main container has
\* exited, and in no archive.
ExitCodes ==
  /\ workspace.exit => main = "exited"
  /\ ~archive.exit
  /\ \A s \in Seqs : ~ckpt[s].ws.exit

\* A number is left for the final checkpoint, which follows the exit or SIGTERM.
Numbers ==
  /\ pc = "tar" \/ Saving => seq \in Seqs
  /\ ~last => seq < MaxSeq
  /\ pc \in {"start", "wait"} => ~last
  /\ pc = "exited" => last
  /\ last /\ ~term => main = "exited"

\* Save writes its archive first and its manifest next.
SaveOrder ==
  /\ Saving => archive.state \in {"cut", "whole"}
  /\ pc \in {"manifest", "latest"} => ckpt[seq].ws = archive
  /\ pc = "latest" => ckpt[seq].man = archive

\* Nothing that can be restored, or is about to be saved, is older than saved.
Progress ==
  /\ latest = NoLatest => saved = 0
  /\ latest \in Seqs /\ Intact(ckpt[latest]) => ckpt[latest].ws.work >= saved
  /\ Running => workspace.work >= saved
  /\ Saving => archive.work >= saved /\ archive.work <= workspace.work

\* The final checkpoint is made of a workspace nobody writes to.
Final ==
  last /\ ~term =>
    /\ Saving => archive \in Archives(workspace)
    /\ pc \in {"done", "exited"} /\ ~failed =>
         /\ latest \in Seqs /\ Verified(ckpt[latest])
         /\ ckpt[latest].ws \in Archives(workspace)

Inv == TypeOK /\ RestoredIsWhole /\ Fresh /\ ExitCodes /\ Numbers /\ SaveOrder /\ Progress /\ Final

=============================================================================
