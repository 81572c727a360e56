------------------------- MODULE CheckpointsProofs -------------------------
(***************************************************************************)
(* The safety properties of Checkpoints hold for any number of attempts,   *)
(* of checkpoints, of steps of the workload and of faults.                 *)
(*                                                                         *)
(* The proof is by the invariant Inv: what Save has written of a           *)
(* checkpoint is the archive of a workspace that is no older than the last *)
(* one saved, and a checkpoint that is neither the one nor the other is    *)
(* not Intact.                                                             *)
(***************************************************************************)
EXTENDS Checkpoints, TLAPS

Directories == [ws : Files, man : Files]

-----------------------------------------------------------------------------
(* Files.                                                                   *)

\* What the fixed files hold.
LEMMA FixedFiles ==
  /\ Absent \in Files /\ Torn \in Files /\ Empty \in Files
  /\ Torn.state = "torn" /\ Absent.state = "absent" /\ Empty.state = "whole"
  /\ Empty.work = 0 /\ ~Empty.exit /\ ~Torn.exit /\ ~Absent.exit
<1>1. Absent \in Files /\ Absent.state = "absent" /\ Absent.exit = FALSE
  BY WorkAssumption DEF Files, Work, Absent, NoWork
<1>2. Torn \in Files /\ Torn.state = "torn" /\ Torn.exit = FALSE
  BY WorkAssumption DEF Files, Work, Torn, NoWork
<1>3. Empty \in Files /\ Empty.state = "whole" /\ Empty.exit = FALSE /\ Empty.work = 0
  BY WorkAssumption DEF Files, Work, Empty, NoWork
<1> QED BY <1>1, <1>2, <1>3

\* The fields of a file.
LEMMA FileFields ==
  ASSUME NEW f \in Files
  PROVE  /\ f.work \in Int /\ f.work >= 0 /\ f.work <= MaxWork
         /\ f.exit \in BOOLEAN /\ f.mixed \in BOOLEAN
<1>1. f.work \in 0 .. MaxWork
  BY DEF Files, Work
<1> QED BY <1>1, WorkAssumption DEF Files

\* TarWorkspace leaves .exit-code out and the rest as it is.
LEMMA Archived ==
  ASSUME NEW w \in Files
  PROVE  /\ TarWorkspace(w) \in Files
         /\ TarWorkspace(w).state = w.state /\ TarWorkspace(w).work = w.work
         /\ ~TarWorkspace(w).exit
  BY DEF TarWorkspace, Files

\* Cutting an archive short changes nothing else of it.
LEMMA CutFile ==
  ASSUME NEW f \in Files
  PROVE  /\ Cut(f) \in Files
         /\ Cut(f).state = "cut" /\ Cut(f).work = f.work /\ Cut(f).exit = f.exit
         /\ Cut(f).mixed = f.mixed
  BY DEF Cut, Files

\* Cutting an archive short twice is the same as once.
LEMMA CutTwice ==
  ASSUME NEW f \in Files
  PROVE  Cut(Cut(f)) = Cut(f)
  BY DEF Cut, Files

\* The types the steps below use.
LEMMA TypeFacts ==
  ASSUME TypeOK
  PROVE  /\ ckpt \in [Seqs -> Directories]
         /\ \A s \in Seqs : ckpt[s].ws \in Files /\ ckpt[s].man \in Files
         /\ archive \in Files /\ workspace \in Files
         /\ seq \in Int /\ seq >= 0 /\ seq <= MaxSeq
         /\ saved \in Int /\ saved >= 0
         /\ last \in BOOLEAN /\ term \in BOOLEAN /\ open \in BOOLEAN /\ failed \in BOOLEAN
  BY SeqAssumption, WorkAssumption DEF TypeOK, Directories, Work

-----------------------------------------------------------------------------
(* The invariant, step by step.                                             *)

\* The first pod has not started and nothing is saved.
LEMMA InitInv == Init => Inv
<1> SUFFICES ASSUME Init PROVE Inv
  OBVIOUS
<1> USE FixedFiles
<1>1. ckpt \in [Seqs -> Directories] /\ \A s \in Seqs : ckpt[s].ws = Absent
  BY DEF Init, Directories
<1>2. TypeOK
  <2>1. attempt \in 0 .. MaxAttempts /\ seq \in 0 .. MaxSeq /\ faults \in 0 .. MaxFaults
        /\ saved \in Work
    BY AttemptsAssumption, SeqAssumption, WorkAssumption, CkptFaultsAssumption DEF Init, Work
  <2> QED BY <1>1, <2>1 DEF Init, TypeOK, Directories, SaveSteps
<1>3. RestoredIsWhole /\ Fresh /\ SaveOrder /\ Numbers
  BY SeqAssumption DEF Init, RestoredIsWhole, Fresh, SaveOrder, Saving, SaveSteps, Numbers
<1>4. ExitCodes
  BY <1>1 DEF Init, ExitCodes
<1>5. Progress /\ Final
  BY DEF Init, Progress, Running, Saving, SaveSteps, Final, NoLatest, Seqs
<1> QED BY <1>2, <1>3, <1>4, <1>5 DEF Inv

\* RestoreLatest extracts an intact checkpoint, which holds all that was saved.
LEMMA RestoreKeepsInv == ASSUME Inv, Restore PROVE Inv'
<1> USE FixedFiles
<1>1. Fresh /\ TypeOK /\ ~Running /\ main = "up" /\ ~last /\ seq = 0
  BY DEF Inv, Fresh, Restore, Running
<1>2. UNCHANGED <<ckpt, latest, attempt, seq, last, open, archive, main, term, faults,
                  saved, failed>>
  BY DEF Restore, disk, history
<1>3. CASE pc' = "restoreFailed" /\ UNCHANGED workspace
  <2>1. TypeOK'
    BY <1>1, <1>2, <1>3 DEF TypeOK
  <2>2. RestoredIsWhole' /\ Fresh' /\ ExitCodes'
    BY <1>1, <1>2, <1>3 DEF Inv, RestoredIsWhole, Fresh, ExitCodes
  <2>3. Numbers' /\ SaveOrder' /\ Final'
    BY <1>1, <1>2, <1>3 DEF Inv, Numbers, SaveOrder, Saving, SaveSteps, Final
  <2>4. Progress'
    BY <1>1, <1>2, <1>3 DEF Inv, Progress, Saving, SaveSteps, Running, Intact, Verified
  <2> QED BY <2>1, <2>2, <2>3, <2>4 DEF Inv
<1>4. CASE /\ pc' = "start"
           /\ workspace' \in Files /\ workspace'.state = "whole" /\ ~workspace'.exit
           /\ workspace'.work >= saved
  <2>1. TypeOK'
    BY <1>1, <1>2, <1>4 DEF TypeOK
  <2>2. RestoredIsWhole' /\ Fresh' /\ ExitCodes'
    BY <1>1, <1>2, <1>4 DEF Inv, RestoredIsWhole, Fresh, Running, ExitCodes
  <2>3. Numbers' /\ SaveOrder' /\ Final'
    BY <1>1, <1>2, <1>4, SeqAssumption
       DEF Inv, Numbers, SaveOrder, Saving, SaveSteps, Final
  <2>4. Progress'
    BY <1>1, <1>2, <1>4 DEF Inv, Progress, Saving, SaveSteps, Intact, Verified
  <2> QED BY <2>1, <2>2, <2>3, <2>4 DEF Inv
<1>5. CASE latest = NoLatest /\ pc' = "start" /\ workspace' = Empty
  <2>1. saved = 0
    BY <1>5 DEF Inv, Progress
  <2> QED BY <1>4, <1>5, <2>1
<1>6. CASE /\ latest \in Seqs /\ Intact(ckpt[latest])
           /\ pc' = "start" /\ workspace' = ckpt[latest].ws
  <2>1. workspace' \in Files
    BY <1>1, <1>6, TypeFacts
  <2>2. workspace'.state = "whole"
    BY <1>6 DEF Intact
  <2>3. ~workspace'.exit
    BY <1>6 DEF Inv, ExitCodes
  <2>4. workspace'.work >= saved
    BY <1>6 DEF Inv, Progress
  <2> QED BY <1>4, <1>6, <2>1, <2>2, <2>3, <2>4
<1> QED BY <1>3, <1>5, <1>6 DEF Restore, readLatestSeq

\* The sidecar comes up, or dies and touches nothing.
LEMMA StartSidecarKeepsInv == ASSUME Inv, StartSidecar PROVE Inv'
<1>1. /\ TypeOK /\ pc = "start" /\ pc' \in {"wait", "died"}
      /\ UNCHANGED <<ckpt, latest, attempt, seq, last, open, archive, workspace, main, term,
                     saved, failed>>
  BY DEF Inv, StartSidecar, disk, history
<1>2. faults' \in 0 .. MaxFaults
  BY <1>1, CkptFaultsAssumption DEF TypeOK, StartSidecar
<1>3. TypeOK'
  BY <1>1, <1>2 DEF TypeOK
<1>4. RestoredIsWhole' /\ Fresh' /\ ExitCodes'
  BY <1>1 DEF Inv, RestoredIsWhole, Fresh, Running, ExitCodes
<1>5. Numbers' /\ SaveOrder' /\ Final'
  BY <1>1 DEF Inv, Numbers, SaveOrder, Saving, SaveSteps, Final
<1>6. Progress'
  BY <1>1 DEF Inv, Progress, Saving, SaveSteps, Running, Intact, Verified
<1> QED BY <1>3, <1>4, <1>5, <1>6 DEF Inv

\* A tick, or the shutdown, takes a number that is free.
LEMMA WakeKeepsInv == ASSUME Inv, Tick \/ Shutdown PROVE Inv'
<1>1. /\ TypeOK /\ pc = "wait" /\ pc' = "tar" /\ ~last /\ seq < MaxSeq
      /\ seq' = seq + 1
      /\ UNCHANGED <<ckpt, latest, attempt, open, archive, workspace, main, term, faults,
                     saved, failed>>
  BY DEF Inv, Numbers, Tick, Shutdown, disk, history
<1>2. last' \in BOOLEAN /\ (~last' => seq' < MaxSeq) /\ (last' => term)
  <2>1. CASE Tick
    BY <1>1, <2>1, TypeFacts, SeqAssumption DEF Tick
  <2>2. CASE Shutdown
    BY <1>1, <2>2 DEF Shutdown
  <2> QED BY <2>1, <2>2
<1>3. seq' \in Seqs /\ seq' \in 0 .. MaxSeq
  BY <1>1, TypeFacts, SeqAssumption DEF Seqs
<1>4. TypeOK'
  BY <1>1, <1>2, <1>3 DEF TypeOK
<1>5. RestoredIsWhole' /\ Fresh' /\ ExitCodes'
  BY <1>1 DEF Inv, RestoredIsWhole, Fresh, Running, ExitCodes
<1>6. Numbers' /\ SaveOrder' /\ Final'
  BY <1>1, <1>2, <1>3 DEF Inv, Numbers, SaveOrder, Saving, SaveSteps, Final
<1>7. Progress'
  BY <1>1 DEF Inv, Progress, Saving, SaveSteps, Running, Intact, Verified
<1> QED BY <1>4, <1>5, <1>6, <1>7 DEF Inv

\* The archive begins as a copy of the workspace without .exit-code.
LEMMA TarBeginsKeepsInv == ASSUME Inv, TarBegins PROVE Inv'
<1>1. /\ TypeOK /\ pc = "tar" /\ pc' = "walk" /\ archive' = TarWorkspace(workspace)
      /\ failed' = FALSE /\ seq \in Seqs
      /\ UNCHANGED <<ckpt, latest, attempt, seq, last, open, workspace, main, term, faults,
                     saved>>
  BY DEF Inv, Numbers, TarBegins, disk
<1>2. /\ archive' \in Files /\ archive'.state = "whole" /\ archive'.work = workspace.work
      /\ ~archive'.exit
  BY <1>1, TypeFacts, Archived DEF Inv, RestoredIsWhole
<1>3. workspace.work \in Int /\ workspace.work >= saved
  BY <1>1, TypeFacts, FileFields DEF Inv, Progress, Running
<1>4. TypeOK'
  BY <1>1, <1>2 DEF TypeOK
<1>5. RestoredIsWhole' /\ Fresh' /\ ExitCodes'
  BY <1>1, <1>2 DEF Inv, RestoredIsWhole, Fresh, Running, ExitCodes
<1>6. Numbers' /\ SaveOrder' /\ Final'
  BY <1>1, <1>2 DEF Inv, Numbers, SaveOrder, Saving, SaveSteps, Final, Archives
<1>7. Progress'
  BY <1>1, <1>2, <1>3 DEF Inv, Progress, Saving, SaveSteps, Running, Intact, Verified
<1> QED BY <1>4, <1>5, <1>6, <1>7 DEF Inv

\* The archive is marked as mixed only if the workload wrote meanwhile, and it writes
\* nothing once it has exited; a failed close cuts it short.
LEMMA TarEndsKeepsInv == ASSUME Inv, TarEnds PROVE Inv'
<1> DEFINE copied == [archive EXCEPT !.mixed = archive.mixed \/ workspace.work # archive.work]
<1>1. /\ TypeOK /\ pc = "walk" /\ pc' = "workspace"
      /\ UNCHANGED <<ckpt, latest, attempt, seq, last, open, workspace, main, term,
                     saved, failed>>
      /\ seq \in Seqs /\ archive.state \in {"cut", "whole"}
      /\ archive' = copied \/ archive' = Cut(copied)
  BY DEF Inv, Numbers, SaveOrder, Saving, TarEnds, disk, history
<1>2. /\ copied \in Files /\ copied.state = archive.state
      /\ copied.work = archive.work /\ copied.exit = archive.exit
      /\ workspace.work = archive.work => copied = archive
  <2>1. PICK m \in BOOLEAN : /\ copied = [archive EXCEPT !.mixed = m]
                             /\ workspace.work = archive.work => m = archive.mixed
    BY <1>1, TypeFacts, FileFields
  <2> QED BY <1>1, <2>1, TypeFacts DEF Files
<1> HIDE DEF copied
<1>3. /\ archive' \in Files /\ archive'.state \in {"cut", "whole"}
      /\ archive'.work = archive.work /\ archive'.exit = archive.exit
  BY <1>1, <1>2, CutFile
<1>4. last /\ ~term => archive' \in Archives(workspace)
  <2>1. SUFFICES ASSUME last, ~term PROVE archive' \in Archives(workspace)
    OBVIOUS
  <2>2. archive \in Archives(workspace)
    BY <1>1, <2>1 DEF Inv, Final, Saving
  <2>3. TarWorkspace(workspace) \in Files /\ TarWorkspace(workspace).work = workspace.work
    BY <1>1, TypeFacts, Archived
  <2>4. archive.work = workspace.work /\ Cut(archive) \in Archives(workspace)
    BY <2>2, <2>3, CutFile, CutTwice DEF Archives
  <2> QED BY <1>1, <1>2, <2>2, <2>4
<1>5. faults' \in 0 .. MaxFaults
  BY <1>1, CkptFaultsAssumption DEF TypeOK, TarEnds
<1>6. TypeOK'
  BY <1>1, <1>3, <1>5 DEF TypeOK, SaveSteps
<1>7. RestoredIsWhole' /\ Fresh' /\ ExitCodes'
  BY <1>1, <1>3 DEF Inv, RestoredIsWhole, Fresh, Running, ExitCodes
<1>8. Numbers' /\ SaveOrder' /\ Final'
  BY <1>1, <1>3, <1>4 DEF Inv, Numbers, SaveOrder, Saving, SaveSteps, Final
<1>9. Progress'
  BY <1>1, <1>3 DEF Inv, Progress, Saving, SaveSteps, Running, Intact, Verified
<1> QED BY <1>6, <1>7, <1>8, <1>9 DEF Inv

\* What a step of Save does not disturb on the disk.
DiskKept ==
  /\ ckpt' \in [Seqs -> Directories]
  /\ latest' \in Seqs \cup {NoLatest, TornLatest}
  /\ \A s \in Seqs : ~ckpt'[s].ws.exit
  /\ latest' = NoLatest => latest = NoLatest
  /\ latest' \in Seqs /\ Intact(ckpt'[latest']) => ckpt'[latest'].ws.work >= saved

\* A checkpoint whose archive or manifest was truncated is not intact.
LEMMA CreateFileEffect ==
  ASSUME Inv, CreateFile
  PROVE  /\ DiskKept
         /\ pc = "manifest" => ckpt'[seq].ws = ckpt[seq].ws
         /\ pc = "latest" => ckpt' = ckpt
<1> USE FixedFiles
<1>1. /\ TypeOK /\ seq \in Seqs /\ pc \in SaveSteps
      /\ latest \in Seqs \cup {NoLatest, TornLatest}
      /\ \A s \in Seqs : ~ckpt[s].ws.exit
      /\ latest \in Seqs /\ Intact(ckpt[latest]) => ckpt[latest].ws.work >= saved
  BY DEF Inv, TypeOK, Numbers, Saving, CreateFile, ExitCodes, Progress
<1>2. CASE pc = "workspace"
  <2>1. ckpt' = [ckpt EXCEPT ![seq].ws = Torn] /\ latest' = latest
    BY <1>2 DEF CreateFile
  <2>2. /\ ckpt' \in [Seqs -> Directories]
        /\ ckpt'[seq].ws = Torn
        /\ \A r \in Seqs : r # seq => ckpt'[r] = ckpt[r]
    BY <1>1, <2>1, TypeFacts DEF Directories
  <2>3. ~Intact(ckpt'[seq])
    BY <2>2 DEF Intact, Verified
  <2> QED BY <1>1, <1>2, <2>1, <2>2, <2>3 DEF DiskKept
<1>3. CASE pc = "manifest"
  <2>1. ckpt' = [ckpt EXCEPT ![seq].man = Torn] /\ latest' = latest
    BY <1>3 DEF CreateFile
  <2>2. /\ ckpt' \in [Seqs -> Directories]
        /\ ckpt'[seq].man = Torn /\ ckpt'[seq].ws = ckpt[seq].ws
        /\ \A r \in Seqs : r # seq => ckpt'[r] = ckpt[r]
    BY <1>1, <2>1, TypeFacts DEF Directories
  <2>3. ~Intact(ckpt'[seq])
    BY <2>2 DEF Intact, Verified
  <2> QED BY <1>1, <1>3, <2>1, <2>2, <2>3 DEF DiskKept
<1>4. CASE pc = "latest"
  <2>1. ckpt' = ckpt /\ latest' = TornLatest
    BY <1>4 DEF CreateFile
  <2>2. TornLatest \notin Seqs /\ TornLatest # NoLatest
    BY SeqAssumption DEF TornLatest, NoLatest, Seqs
  <2> QED BY <1>1, <1>4, <2>1, <2>2, TypeFacts DEF DiskKept
<1> QED BY <1>1, <1>2, <1>3, <1>4 DEF SaveSteps

\* A file is written with the archive at hand, or its hash, or its number.
LEMMA WriteFileEffect ==
  ASSUME Inv, pc \in SaveSteps, WriteFile
  PROVE  /\ DiskKept
         /\ ckpt'[seq].ws = archive
         /\ pc = "manifest" => ckpt'[seq].man = archive
         /\ pc = "latest" => ckpt' = ckpt /\ latest' = seq
<1>1. /\ TypeOK /\ seq \in Seqs
      /\ latest \in Seqs \cup {NoLatest, TornLatest}
      /\ \A s \in Seqs : ~ckpt[s].ws.exit
      /\ ~archive.exit /\ archive.work >= saved
      /\ latest \in Seqs /\ Intact(ckpt[latest]) => ckpt[latest].ws.work >= saved
  BY DEF Inv, TypeOK, Numbers, Saving, ExitCodes, Progress
<1>2. pc \in {"manifest", "latest"} => ckpt[seq].ws = archive
  BY DEF Inv, SaveOrder
<1>3. CASE pc = "workspace"
  <2>1. ckpt' = [ckpt EXCEPT ![seq].ws = archive] /\ latest' = latest
    BY <1>3 DEF WriteFile
  <2>2. /\ ckpt' \in [Seqs -> Directories]
        /\ ckpt'[seq].ws = archive
        /\ \A r \in Seqs : r # seq => ckpt'[r] = ckpt[r]
    BY <1>1, <2>1, TypeFacts DEF Directories
  <2> QED BY <1>1, <1>3, <2>1, <2>2 DEF DiskKept
<1>4. CASE pc = "manifest"
  <2>1. ckpt' = [ckpt EXCEPT ![seq].man = archive] /\ latest' = latest
    BY <1>2, <1>4 DEF WriteFile
  <2>2. /\ ckpt' \in [Seqs -> Directories]
        /\ ckpt'[seq].man = archive /\ ckpt'[seq].ws = archive
        /\ \A r \in Seqs : r # seq => ckpt'[r] = ckpt[r]
    BY <1>1, <1>2, <1>4, <2>1, TypeFacts DEF Directories
  <2> QED BY <1>1, <1>4, <2>1, <2>2 DEF DiskKept
<1>5. CASE pc = "latest"
  <2>1. ckpt' = ckpt /\ latest' = seq
    BY <1>5 DEF WriteFile
  <2>2. seq # NoLatest
    BY <1>1 DEF NoLatest, Seqs
  <2> QED BY <1>1, <1>2, <1>5, <2>1, <2>2, TypeFacts DEF DiskKept
<1> QED BY <1>3, <1>4, <1>5 DEF SaveSteps

\* Save goes on with the file it has created.
LEMMA CreateFileKeepsInv == ASSUME Inv, CreateFile PROVE Inv'
<1>1. /\ TypeOK /\ pc \in SaveSteps /\ open' = TRUE /\ seq \in Seqs
      /\ UNCHANGED <<attempt, pc, seq, last, archive, workspace, main, term, faults, saved,
                     failed>>
  BY DEF Inv, Numbers, Saving, CreateFile, history
<1>2. /\ DiskKept
      /\ pc = "manifest" => ckpt'[seq].ws = ckpt[seq].ws
      /\ pc = "latest" => ckpt' = ckpt
  BY CreateFileEffect
<1>3. TypeOK'
  BY <1>1, <1>2 DEF TypeOK, DiskKept, Directories
<1>4. RestoredIsWhole' /\ Fresh' /\ ExitCodes'
  BY <1>1, <1>2 DEF Inv, RestoredIsWhole, Fresh, Running, SaveSteps, ExitCodes, DiskKept
<1>5. Numbers' /\ Final'
  BY <1>1 DEF Inv, Numbers, Saving, SaveSteps, Final
<1>6. SaveOrder'
  BY <1>1, <1>2 DEF Inv, SaveOrder, Saving
<1>7. Progress'
  BY <1>1, <1>2 DEF Inv, Progress, Saving, Running, DiskKept
<1> QED BY <1>3, <1>4, <1>5, <1>6, <1>7 DEF Inv

\* A file is complete; with LATEST the checkpoint counts as saved.
LEMMA SyncFileKeepsInv == ASSUME Inv, SyncFile PROVE Inv'
<1> USE FixedFiles
<1>1. /\ TypeOK /\ pc \in SaveSteps /\ open' = FALSE /\ seq \in Seqs
      /\ UNCHANGED <<attempt, seq, last, workspace, main, term, faults, failed>>
  BY DEF Inv, Numbers, Saving, SyncFile
<1>2. /\ DiskKept
      /\ ckpt'[seq].ws = archive
      /\ pc = "manifest" => ckpt'[seq].man = archive
      /\ pc = "latest" => ckpt' = ckpt /\ latest' = seq
  BY WriteFileEffect DEF SyncFile
<1>3. CASE pc \in {"workspace", "manifest"}
  <2>1. /\ UNCHANGED <<archive, saved>>
        /\ pc' \in {"manifest", "latest"}
        /\ pc' = "latest" => pc = "manifest"
    BY <1>3 DEF SyncFile
  <2>2. TypeOK'
    BY <1>1, <1>2, <2>1 DEF TypeOK, DiskKept, Directories, SaveSteps
  <2>3. RestoredIsWhole' /\ Fresh' /\ ExitCodes'
    BY <1>1, <1>2, <1>3, <2>1 DEF Inv, RestoredIsWhole, Fresh, Running, ExitCodes, DiskKept
  <2>4. Numbers' /\ SaveOrder' /\ Final'
    BY <1>1, <1>2, <1>3, <2>1 DEF Inv, Numbers, SaveOrder, Saving, SaveSteps, Final
  <2>5. Progress'
    BY <1>1, <1>2, <1>3, <2>1 DEF Inv, Progress, Saving, SaveSteps, Running, DiskKept
  <2> QED BY <2>2, <2>3, <2>4, <2>5 DEF Inv
<1>4. CASE pc = "latest"
  <2>1. pc' = "done" /\ saved' = archive.work /\ archive' = Absent
    BY <1>4 DEF SyncFile
  <2>2. TypeOK'
    <3>1. saved' \in Work
      BY <1>1, <2>1, TypeFacts DEF Files
    <3> QED BY <1>1, <1>2, <2>1, <3>1 DEF TypeOK, DiskKept, Directories
  <2>3. RestoredIsWhole' /\ Fresh' /\ ExitCodes'
    BY <1>1, <1>2, <1>4, <2>1 DEF Inv, RestoredIsWhole, Fresh, Running, ExitCodes, DiskKept
  <2>4. Numbers' /\ SaveOrder'
    BY <1>1, <1>4, <2>1 DEF Inv, Numbers, SaveOrder, Saving, SaveSteps
  <2>5. Final'
    BY <1>1, <1>2, <1>4, <2>1 DEF Inv, Final, Saving, SaveSteps, SaveOrder, Verified
  <2>6. Progress'
    <3>1. archive.work \in Int /\ archive.work <= workspace.work
      BY <1>1, <1>4, TypeFacts, FileFields DEF Inv, Progress, Saving, SaveSteps
    <3>2. seq # NoLatest
      BY <1>1 DEF NoLatest, Seqs
    <3>3. workspace.work \in Int
      BY <1>1, TypeFacts, FileFields
    <3> QED BY <1>1, <1>2, <1>4, <2>1, <3>1, <3>2, <3>3
            DEF Progress, Saving, SaveSteps, Running
  <2> QED BY <2>2, <2>3, <2>4, <2>5, <2>6 DEF Inv
<1> QED BY <1>1, <1>3, <1>4 DEF SaveSteps

\* An error leaves the files as they are, or the open one complete.
LEMMA FailCheckpointKeepsInv == ASSUME Inv, FailCheckpoint PROVE Inv'
<1> USE FixedFiles
<1>1. /\ TypeOK /\ (pc = "tar" \/ Saving)
      /\ pc' = "done" /\ open' = FALSE /\ failed' = TRUE /\ archive' = Absent
      /\ UNCHANGED <<attempt, seq, last, workspace, main, term, saved>>
  BY DEF Inv, FailCheckpoint, Saving
<1>2. DiskKept
  <2>1. CASE UNCHANGED disk
    BY <1>1, <2>1, TypeFacts DEF Inv, TypeOK, disk, DiskKept, ExitCodes, Progress, Intact, Verified
  <2>2. CASE open /\ WriteFile /\ pc \in SaveSteps
    BY <2>2, WriteFileEffect
  <2>3. CASE open /\ WriteFile /\ pc \notin SaveSteps
    <3>1. UNCHANGED disk
      BY <2>3 DEF WriteFile, SaveSteps, disk
    <3> QED BY <2>1, <3>1
  <2> QED BY <2>1, <2>2, <2>3 DEF FailCheckpoint
<1>3. faults' \in 0 .. MaxFaults
  BY <1>1, CkptFaultsAssumption DEF TypeOK, FailCheckpoint
<1>4. TypeOK'
  BY <1>1, <1>2, <1>3 DEF TypeOK, DiskKept, Directories
<1>5. RestoredIsWhole' /\ Fresh' /\ ExitCodes'
  BY <1>1, <1>2 DEF Inv, RestoredIsWhole, Fresh, Running, ExitCodes, DiskKept
<1>6. Numbers' /\ SaveOrder' /\ Final'
  BY <1>1 DEF Inv, Numbers, SaveOrder, Saving, SaveSteps, Final
<1>7. Progress'
  BY <1>1, <1>2 DEF Inv, Progress, Saving, SaveSteps, Running, DiskKept
<1> QED BY <1>4, <1>5, <1>6, <1>7 DEF Inv

\* The final checkpoint is announced only after the main container has exited.
LEMMA AfterCheckpointKeepsInv == ASSUME Inv, AfterCheckpoint PROVE Inv'
<1>1. /\ TypeOK /\ pc = "done"
      /\ UNCHANGED <<ckpt, latest, attempt, open, archive, workspace, main, term, faults,
                     saved, failed>>
      /\ workspace.exit \in BOOLEAN /\ (workspace.exit => main = "exited")
      /\ last \in BOOLEAN
  BY TypeFacts, FileFields DEF Inv, AfterCheckpoint, disk, history, ExitCodes
<1>2. CASE last
  <2>1. pc' = "exited" /\ last' = TRUE /\ seq' = seq
    BY <1>2 DEF AfterCheckpoint
  <2>2. TypeOK' /\ RestoredIsWhole' /\ Fresh' /\ ExitCodes'
    BY <1>1, <2>1 DEF Inv, TypeOK, RestoredIsWhole, Fresh, Running, ExitCodes
  <2>3. Numbers' /\ SaveOrder' /\ Final'
    BY <1>1, <1>2, <2>1 DEF Inv, Numbers, SaveOrder, Saving, SaveSteps, Final
  <2>4. Progress'
    BY <1>1, <2>1 DEF Inv, Progress, Saving, SaveSteps, Running, Intact, Verified
  <2> QED BY <2>2, <2>3, <2>4 DEF Inv
<1>3. CASE ~last /\ workspace.exit
  <2>1. pc' = "tar" /\ last' = TRUE /\ seq' = seq + 1
    BY <1>1, <1>3 DEF AfterCheckpoint
  <2>2. seq' \in Seqs /\ seq' \in 0 .. MaxSeq
    BY <1>1, <1>3, <2>1, TypeFacts, SeqAssumption DEF Inv, Numbers, Seqs
  <2>3. TypeOK' /\ RestoredIsWhole' /\ Fresh' /\ ExitCodes'
    BY <1>1, <2>1, <2>2 DEF Inv, TypeOK, RestoredIsWhole, Fresh, Running, ExitCodes
  <2>4. Numbers' /\ SaveOrder' /\ Final'
    BY <1>1, <1>3, <2>1, <2>2 DEF Inv, Numbers, SaveOrder, Saving, SaveSteps, Final
  <2>5. Progress'
    BY <1>1, <2>1 DEF Inv, Progress, Saving, SaveSteps, Running, Intact, Verified
  <2> QED BY <2>3, <2>4, <2>5 DEF Inv
<1>4. CASE ~last /\ ~workspace.exit
  <2>1. pc' = "wait" /\ last' = FALSE /\ seq' = seq
    BY <1>1, <1>4 DEF AfterCheckpoint
  <2>2. TypeOK' /\ RestoredIsWhole' /\ Fresh' /\ ExitCodes'
    BY <1>1, <2>1 DEF Inv, TypeOK, RestoredIsWhole, Fresh, Running, ExitCodes
  <2>3. Numbers' /\ SaveOrder' /\ Final'
    BY <1>1, <1>4, <2>1 DEF Inv, Numbers, SaveOrder, Saving, SaveSteps, Final
  <2>4. Progress'
    BY <1>1, <2>1 DEF Inv, Progress, Saving, SaveSteps, Running, Intact, Verified
  <2> QED BY <2>2, <2>3, <2>4 DEF Inv
<1> QED BY <1>2, <1>3, <1>4

\* The workload only adds to the workspace, and not after it has exited.
LEMMA MainWorksKeepsInv == ASSUME Inv, MainWorks PROVE Inv'
<1>1. /\ TypeOK /\ Running /\ main = "up" /\ workspace.work < MaxWork
      /\ workspace' = [workspace EXCEPT !.work = workspace.work + 1]
      /\ UNCHANGED <<ckpt, latest, attempt, pc, seq, last, open, archive, main, term, faults,
                     saved, failed>>
  BY DEF Inv, MainWorks, disk, history
<1>2. workspace.work + 1 \in Work
  BY <1>1, TypeFacts, FileFields, WorkAssumption DEF Work
<1>3. /\ workspace' \in Files /\ workspace'.work = workspace.work + 1
      /\ workspace'.state = workspace.state /\ workspace'.exit = workspace.exit
  BY <1>1, <1>2, TypeFacts DEF Files
<1>4. TypeOK'
  BY <1>1, <1>3 DEF TypeOK
<1>5. RestoredIsWhole' /\ Fresh' /\ ExitCodes'
  BY <1>1, <1>3 DEF Inv, RestoredIsWhole, Fresh, Running, ExitCodes
<1>6. Numbers' /\ SaveOrder'
  BY <1>1 DEF Inv, Numbers, SaveOrder, Saving, SaveSteps
<1>7. Final'
  BY <1>1 DEF Inv, Numbers, Final
<1>8. Progress'
  <2>1. /\ workspace.work \in Int /\ archive.work \in Int /\ saved \in Int
    BY <1>1, TypeFacts, FileFields
  <2> QED BY <1>1, <1>3, <2>1 DEF Inv, Progress, Saving, Running, Intact, Verified
<1> QED BY <1>4, <1>5, <1>6, <1>7, <1>8 DEF Inv

\* The main container leaves .exit-code and nothing else.
LEMMA MainExitsKeepsInv == ASSUME Inv, MainExits PROVE Inv'
<1>1. /\ TypeOK /\ Running /\ main = "up" /\ main' = "exited"
      /\ workspace' = [workspace EXCEPT !.exit = TRUE]
      /\ UNCHANGED <<ckpt, latest, attempt, pc, seq, last, open, archive, term, faults,
                     saved, failed>>
  BY DEF Inv, MainExits, disk, history
<1>2. /\ workspace' \in Files /\ workspace'.work = workspace.work
      /\ workspace'.state = workspace.state /\ workspace'.exit = TRUE
  BY <1>1, TypeFacts DEF Files
<1>3. TypeOK'
  BY <1>1, <1>2 DEF TypeOK
<1>4. RestoredIsWhole' /\ Fresh' /\ ExitCodes'
  BY <1>1, <1>2 DEF Inv, RestoredIsWhole, Fresh, Running, ExitCodes
<1>5. Numbers' /\ SaveOrder'
  BY <1>1 DEF Inv, Numbers, SaveOrder, Saving, SaveSteps
<1>6. Final'
  BY <1>1 DEF Inv, Numbers, Final
<1>7. Progress'
  BY <1>1, <1>2 DEF Inv, Progress, Saving, Running, Intact, Verified
<1> QED BY <1>3, <1>4, <1>5, <1>6, <1>7 DEF Inv

\* A main container that is killed leaves everything as it is.
LEMMA MainKilledKeepsInv == ASSUME Inv, MainKilled PROVE Inv'
<1>1. /\ TypeOK /\ Running /\ main = "up" /\ main' = "exited"
      /\ UNCHANGED <<ckpt, latest, attempt, pc, seq, last, open, archive, workspace, term,
                     saved, failed>>
  BY DEF Inv, MainKilled, disk, history
<1>2. faults' \in 0 .. MaxFaults
  BY <1>1, CkptFaultsAssumption DEF TypeOK, MainKilled
<1>3. TypeOK'
  BY <1>1, <1>2 DEF TypeOK
<1>4. RestoredIsWhole' /\ Fresh' /\ ExitCodes'
  BY <1>1 DEF Inv, RestoredIsWhole, Fresh, Running, ExitCodes
<1>5. Numbers' /\ SaveOrder'
  BY <1>1 DEF Inv, Numbers, SaveOrder, Saving, SaveSteps
<1>6. Final'
  BY <1>1 DEF Inv, Numbers, Final
<1>7. Progress'
  BY <1>1 DEF Inv, Progress, Saving, Running, Intact, Verified
<1> QED BY <1>3, <1>4, <1>5, <1>6, <1>7 DEF Inv

\* SIGTERM only changes what the sidecar does next, or ends one that is starting.
LEMMA TerminateKeepsInv == ASSUME Inv, Terminate PROVE Inv'
<1>1. /\ TypeOK /\ Running /\ term' = TRUE
      /\ pc' = pc \/ (pc = "start" /\ pc' = "died")
      /\ UNCHANGED <<ckpt, latest, attempt, seq, last, open, archive, workspace, main,
                     saved, failed>>
  BY DEF Inv, Terminate, disk, history
<1>2. faults' \in 0 .. MaxFaults
  BY <1>1, CkptFaultsAssumption DEF TypeOK, Terminate
<1>3. TypeOK'
  BY <1>1, <1>2 DEF TypeOK
<1>4. RestoredIsWhole' /\ Fresh' /\ ExitCodes' /\ Final'
  BY <1>1 DEF Inv, RestoredIsWhole, Fresh, Running, ExitCodes, Final
<1>5. Numbers' /\ SaveOrder'
  BY <1>1 DEF Inv, Numbers, SaveOrder, Saving, SaveSteps
<1>6. Progress'
  BY <1>1 DEF Inv, Progress, Saving, SaveSteps, Running, Intact, Verified
<1> QED BY <1>3, <1>4, <1>5, <1>6 DEF Inv

\* The disk outlives the pod, whatever Save had done by then.
LEMMA PodEndsKeepsInv == ASSUME Inv, PodEnds PROVE Inv'
<1> USE FixedFiles
<1>1. /\ TypeOK /\ pc' = "none" /\ seq' = 0 /\ last' = FALSE /\ open' = FALSE
      /\ archive' = Absent /\ workspace' = Empty /\ main' = "up" /\ term' = FALSE
      /\ failed' = FALSE
      /\ UNCHANGED <<ckpt, latest, attempt, saved>>
  BY DEF Inv, PodEnds, NewPod, disk
<1>2. faults' \in 0 .. MaxFaults /\ 0 \in 0 .. MaxSeq
  BY <1>1, CkptFaultsAssumption, SeqAssumption DEF TypeOK, PodEnds
<1>3. TypeOK'
  BY <1>1, <1>2 DEF TypeOK
<1>4. RestoredIsWhole' /\ Fresh' /\ ExitCodes' /\ Final'
  BY <1>1 DEF Inv, RestoredIsWhole, Fresh, ExitCodes, Final
<1>5. Numbers' /\ SaveOrder'
  BY <1>1, SeqAssumption DEF Numbers, SaveOrder, Saving, SaveSteps
<1>6. Progress'
  BY <1>1 DEF Inv, Progress, Saving, SaveSteps, Running, Intact, Verified
<1> QED BY <1>3, <1>4, <1>5, <1>6 DEF Inv

\* The next pod starts with its restore.
LEMMA StartAttemptKeepsInv == ASSUME Inv, StartAttempt PROVE Inv'
<1>1. /\ TypeOK /\ pc = "none" /\ pc' = "restore"
      /\ UNCHANGED <<ckpt, latest, seq, last, open, archive, workspace, main, term, faults,
                     saved, failed>>
  BY DEF Inv, StartAttempt, disk, history
<1>2. attempt' \in 0 .. MaxAttempts
  BY <1>1, AttemptsAssumption DEF TypeOK, StartAttempt
<1>3. TypeOK'
  BY <1>1, <1>2 DEF TypeOK
<1>4. RestoredIsWhole' /\ Fresh' /\ ExitCodes' /\ Final'
  BY <1>1 DEF Inv, RestoredIsWhole, Fresh, Running, ExitCodes, Final, Saving, SaveSteps
<1>5. Numbers' /\ SaveOrder'
  BY <1>1 DEF Inv, Numbers, SaveOrder, Saving, SaveSteps
<1>6. Progress'
  BY <1>1 DEF Inv, Progress, Saving, SaveSteps, Running, Intact, Verified
<1> QED BY <1>3, <1>4, <1>5, <1>6 DEF Inv

\* A step that changes nothing.
LEMMA IdleKeepsInv == ASSUME Inv, UNCHANGED vars PROVE Inv'
  BY DEF Inv, vars, disk, history, TypeOK, RestoredIsWhole, Fresh, Running, ExitCodes,
         Numbers, SaveOrder, Saving, Progress, Intact, Verified, Final, Archives, Cut, TarWorkspace

-----------------------------------------------------------------------------
(* The theorems.                                                            *)

\* Inv holds in every reachable state, however Save was interrupted.
THEOREM Invariance == Spec => []Inv
<1>1. Init => Inv
  BY InitInv
<1>2. Inv /\ [Next]_vars => Inv'
  BY RestoreKeepsInv, StartSidecarKeepsInv, WakeKeepsInv, TarBeginsKeepsInv, TarEndsKeepsInv, CreateFileKeepsInv,
     SyncFileKeepsInv, FailCheckpointKeepsInv, AfterCheckpointKeepsInv, MainWorksKeepsInv,
     MainExitsKeepsInv, MainKilledKeepsInv, TerminateKeepsInv, PodEndsKeepsInv, StartAttemptKeepsInv, IdleKeepsInv
     DEF Next, Sidecar
<1> QED BY <1>1, <1>2, PTL DEF Spec

\* The sidecar stays within its numbers, and every file is an archive or nothing.
THEOREM Types == Spec => []TypeOK
<1>1. Inv => TypeOK
  BY DEF Inv
<1> QED BY <1>1, Invariance, PTL

\* RestoreLatest never completes with a torn archive or one cut short.
THEOREM WholeRestore == Spec => []RestoredIsWhole
<1>1. Inv => RestoredIsWhole
  BY DEF Inv
<1> QED BY <1>1, Invariance, PTL

\* A sidecar that came up leaves after the main container of its own attempt.
THEOREM SidecarOrder == Spec => []SidecarOutlivesMain
<1>1. Inv => SidecarOutlivesMain
  BY DEF Inv, Numbers, SidecarOutlivesMain
<1> QED BY <1>1, Invariance, PTL

\* The final checkpoint that can be restored is the whole final workspace.
THEOREM ExactFinalCheckpoint == Spec => []FinalCheckpointIsExact
<1>1. Inv => FinalCheckpointIsExact
  <2>1. SUFFICES ASSUME Inv, pc = "exited", ~term, ~failed
                 PROVE  /\ latest \in Seqs /\ Verified(ckpt[latest])
                        /\ Intact(ckpt[latest]) => ckpt[latest].ws = TarWorkspace(workspace)
    BY DEF FinalCheckpointIsExact
  <2>2. /\ latest \in Seqs /\ Verified(ckpt[latest])
        /\ ckpt[latest].ws \in Archives(workspace)
    BY <2>1 DEF Inv, Numbers, Final
  <2>3. Cut(TarWorkspace(workspace)).state = "cut"
    BY <2>1, TypeFacts, Archived, CutFile DEF Inv
  <2> QED BY <2>2, <2>3 DEF Archives, Intact
<1> QED BY <1>1, Invariance, PTL

\* A restore brings back all that any earlier Save of the job promised.
THEOREM NoSavedWorkLost == Spec => NothingSavedIsLost
<1>1. Inv /\ [Next]_vars => [pc = "restore" /\ pc' = "start" => workspace'.work >= saved]_vars
  <2>1. SUFFICES ASSUME Inv, Next, pc = "restore", pc' = "start"
                 PROVE  workspace'.work >= saved
    OBVIOUS
  <2>2. Restore
    BY <2>1 DEF Next, Sidecar, StartSidecar, Tick, Shutdown, TarBegins, TarEnds, CreateFile, SyncFile,
                FailCheckpoint, AfterCheckpoint, MainWorks, MainExits, MainKilled, Terminate, PodEnds,
                StartAttempt, SaveSteps
  <2>3. Progress' /\ Running' /\ saved' = saved
    BY <2>1, <2>2, RestoreKeepsInv DEF Inv, Running, Restore, history
  <2> QED BY <2>3 DEF Progress
<1> QED BY <1>1, Invariance, PTL DEF Spec, NothingSavedIsLost

=============================================================================
