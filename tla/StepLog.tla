------------------------------ MODULE StepLog ------------------------------
(***************************************************************************)
(* The write-ahead log of steps: wal.Writer and wal.Reader, and the Runner *)
(* (internal/runner) that a workload asks, through its hook server, to     *)
(* begin and end its steps, or the SDK (runtime.Step) that does so in the  *)
(* workload's own process.                                                 *)
(*                                                                         *)
(* A runner lives until it is closed, killed, or its machine crashes; the  *)
(* next one opens the same log.  Its caller decides whether it does so in  *)
(* recovery mode and skips the steps that the log shows as completed, or   *)
(* starts the steps over and writes on behind what it found.  A crash      *)
(* keeps the synced lines and cuts every file anywhere after them, inside  *)
(* a line too.  A hook call runs under the runner's mutex and is one step  *)
(* here.                                                                   *)
(***************************************************************************)
EXTENDS Integers, Sequences, FiniteSets

CONSTANTS
  Steps,       \* step IDs
  FileLines,   \* lines that fit in a log file (maxFileSize)
  MaxLines,    \* lines of the log
  MaxFaults    \* kills, crashes, failed writes and failed syncs, together

ASSUME FileLinesAssumption == FileLines \in Nat \ {0}
ASSUME LinesAssumption     == MaxLines \in Nat
ASSUME LogFaultsAssumption == MaxFaults \in Nat

VARIABLES
  log,         \* the lines of all log files, oldest first
  fileNum,     \* the number of the last file
  pc,          \* the runner: "down", "up" or "refused"
  seq,         \* the writer's last sequence number
  recovery,    \* cfg.RecoveryMode
  completed,   \* the completed steps the runner read when it started
  step,        \* where the workload is in each step
  faults,      \* faults that happened so far
  ended,       \* history: steps that ended with exit code 0
  acked,       \* history: steps whose StepEnd with exit code 0 was acknowledged, and
               \* that no runner without recovery mode was told to begin since
  damaged      \* history: a line was torn, an append failed, or a crash took lines
               \* from the end of a file that was not the last

disk == <<log, fileNum>>
history == <<ended, acked, damaged>>
vars == <<disk, pc, seq, recovery, completed, step, faults, history>>

-----------------------------------------------------------------------------
(* Lines and what a reader makes of them.                                   *)

Kinds == {"begin", "endOK", "endError", "other", "junk"}

\* A line holds a record, or is junk that is no JSON; it may lack its newline.
Lines == [seq : Nat, kind : Kinds, step : Steps, newline : BOOLEAN, file : Nat,
          synced : BOOLEAN]

Line(n, kind, s, f) ==
  [seq |-> n, kind |-> kind, step |-> s, newline |-> TRUE, file |-> f, synced |-> FALSE]

Torn(line) == [line EXCEPT !.seq = 0, !.kind = "junk", !.newline = FALSE]

readWALFile(lines) == \A i \in DOMAIN lines : lines[i].kind # "junk"

\* ReadAll, of lines that parse: the sequence numbers have no gap.
Continuous(lines) == \A i \in DOMAIN lines : lines[i].seq = i

\* Seeded fault: the numbers of the last file are counted from 1.
LastInFile(lines) == Cardinality({i \in DOMAIN lines : lines[i].file = fileNum})

\* n is the largest sequence number in the log.
lastSeqInDir(lines) ==
  CHOOSE n \in {0} \cup {lines[i].seq : i \in DOMAIN lines} :
    \A i \in DOMAIN lines : lines[i].seq <= n

\* Seeded fault: the exit code of a step is not looked at.
AnyExit(lines) ==
  {s \in Steps : \E b, e \in DOMAIN lines :
     /\ b < e /\ lines[b].step = s /\ lines[b].kind = "begin"
     /\ lines[e].step = s /\ lines[e].kind \in {"endOK", "endError"}}

\* BuildManifest: a step is completed if it has begun, and its last begin or end is
\* an end with exit code 0.
CompletedSteps(lines) ==
  {s \in Steps : \E b, e \in DOMAIN lines :
     /\ b < e /\ lines[b].step = s /\ lines[b].kind = "begin"
     /\ lines[e].step = s /\ lines[e].kind = "endOK"
     /\ \A i \in DOMAIN lines :
          i > e => lines[i].step # s \/ lines[i].kind \notin {"begin", "endOK", "endError"}}

-----------------------------------------------------------------------------
(* The writer.                                                              *)

Full == Cardinality({i \in DOMAIN log : log[i].file = fileNum}) >= FileLines

\* Seeded fault: nothing is synced.
NotSynced(lines, f) == lines

\* fsync of file f.
Synced(lines, f) ==
  [i \in DOMAIN lines |->
     IF lines[i].file = f THEN [lines[i] EXCEPT !.synced = TRUE] ELSE lines[i]]

\* append closes a full file, synced, and goes on with the next.
Rotated == IF Full THEN Synced(log, fileNum) ELSE log

\* Bytes that follow an unfinished line of the file become part of it.
Written(line) ==
  LET n == Len(log) IN
  IF n > 0 /\ ~log[n].newline /\ log[n].file = line.file
    THEN [Rotated EXCEPT ![n] = [Torn(@) EXCEPT !.newline = line.newline]]
    ELSE Append(Rotated, line)

Record(kind, s) == Line(seq + 1, kind, s, fileNum')

Logged(kind, s) ==
  log' = IF kind = "begin" THEN Written(Record(kind, s))
                           ELSE Synced(Written(Record(kind, s)), fileNum')

Succeeds(kind, s) == Logged(kind, s) /\ UNCHANGED <<faults, damaged>>

\* The write fails, before or after some bytes, or else the sync that follows it;
\* a begin is not synced.
Fails(kind, s) ==
  /\ faults < MaxFaults
  /\ faults' = faults + 1
  /\ \/ /\ log' \in {Rotated, Written(Torn(Record(kind, s)))}
        /\ damaged' = TRUE
     \/ /\ kind # "begin"
        /\ log' = Written(Record(kind, s))
        /\ UNCHANGED damaged

\* A number is taken whatever happens to the write.
append ==
  /\ pc = "up"
  /\ Len(log) < MaxLines
  /\ seq' = seq + 1
  /\ fileNum' = IF Full THEN fileNum + 1 ELSE fileNum
  /\ UNCHANGED <<pc, recovery, completed>>

-----------------------------------------------------------------------------
(* The runner.                                                              *)

\* NewWriter resumes in the last file of the directory.
LastFile == fileNum

\* What NewRunner needs of a log it recovers from.
Readable(lines) == readWALFile(lines) /\ Continuous(lines)

\* NewRunner: open the writer after the last record, and in recovery mode read what
\* is completed.  An error of either is final for this log.
NewRunner ==
  /\ pc = "down"
  /\ IF readWALFile(log) /\ (recovery => Readable(log))
       THEN /\ pc' = "up"
            /\ seq' = lastSeqInDir(log)
            /\ fileNum' = IF Full THEN LastFile + 1 ELSE LastFile
            /\ completed' = IF recovery THEN CompletedSteps(log) ELSE {}
       ELSE /\ pc' = "refused"
            /\ UNCHANGED <<seq, fileNum, completed>>
  /\ UNCHANGED <<log, recovery, step, faults, history>>

\* HandleStepBegin: a completed step is skipped in recovery mode.
SkipStep(s) ==
  /\ pc = "up" /\ step[s] = "todo"
  /\ recovery /\ s \in completed
  /\ step' = [step EXCEPT ![s] = "done"]
  /\ UNCHANGED <<disk, pc, seq, recovery, completed, faults, history>>

\* The connection of a hook call breaks after the call was handled: the workload gets no
\* answer, and goes on as if it had one or does not.
ReplyLost(s, next) ==
  /\ faults < MaxFaults
  /\ faults' = faults + 1
  /\ step' \in {step, [step EXCEPT ![s] = next]}
  /\ UNCHANGED damaged

\* Any other step is logged and runs; when logging failed, the workload may run it
\* all the same (runtime.Step does).
StepBegin(s) ==
  /\ append /\ step[s] = "todo"
  /\ ~(recovery /\ s \in completed)
  /\ \/ /\ Succeeds("begin", s)
        /\ step' = [step EXCEPT ![s] = "running"]
     \/ /\ Fails("begin", s)
        /\ step' \in {step, [step EXCEPT ![s] = "running"]}
     \/ Logged("begin", s) /\ ReplyLost(s, "running")
  /\ acked' = IF recovery THEN acked ELSE acked \ {s}
  /\ UNCHANGED ended

\* HandleStepEnd: the outcome is logged and acknowledged.  A failed step may be
\* begun again; an error leaves the workload to report again or to go on.
StepEnd(s, kind) ==
  LET next == IF kind = "endOK" THEN "done" ELSE "todo" IN
  /\ append /\ step[s] = "running"
  /\ ended' = IF kind = "endOK" THEN ended \cup {s} ELSE ended
  /\ \/ /\ Succeeds(kind, s)
        /\ step' = [step EXCEPT ![s] = next]
        /\ acked' = IF kind = "endOK" THEN acked \cup {s} ELSE acked
     \/ /\ Fails(kind, s)
        /\ step' \in {step, [step EXCEPT ![s] = next]}
        /\ UNCHANGED acked
     \/ Logged(kind, s) /\ ReplyLost(s, next) /\ UNCHANGED acked

\* runtime.Step notes a retry, or a timeout after which the step is over without an
\* end; it ignores errors.
StepNote(s) ==
  /\ append /\ step[s] = "running"
  /\ step' \in {step, [step EXCEPT ![s] = "todo"]}
  /\ Succeeds("other", s) \/ Fails("other", s)
  /\ UNCHANGED <<ended, acked>>

\* Runtime.Run, when the job was cancelled: noted after the workload has returned.
JobCancelled ==
  /\ append /\ \A s \in Steps : step[s] # "running"
  /\ \E s \in Steps : Succeeds("other", s) \/ Fails("other", s)
  /\ UNCHANGED <<step, ended, acked>>

\* Whoever starts the next runner chooses its mode: a worker by the completed steps of
\* the newest checkpoint row of the job, which may be older than the log or missing; the
\* agent-runner by the presence of .wal; the SDK by its caller's configuration.
NextRunner ==
  /\ pc' = "down" /\ seq' = 0 /\ completed' = {}
  /\ recovery' \in BOOLEAN
  /\ step' = [s \in Steps |-> "todo"]

\* Close syncs the log; a later runner opens it again.
Close ==
  /\ pc = "up"
  /\ NextRunner
  /\ log' = Synced(log, fileNum)
  /\ UNCHANGED <<fileNum, faults, history>>

\* The process is killed: what it wrote stays.
Kill ==
  /\ pc = "up" /\ faults < MaxFaults
  /\ NextRunner
  /\ faults' = faults + 1
  /\ UNCHANGED <<disk, history>>

\* What a crash can leave of the log: of every file a prefix with all its synced
\* lines, and of one line after such a prefix a part, at most all but the newline.
Kept == {K \in SUBSET DOMAIN log :
           \A i \in DOMAIN log : /\ log[i].synced => i \in K
                                 /\ i \in K => \A h \in 1 .. i - 1 :
                                                 log[h].file = log[i].file => h \in K}

Remains(K, lines) ==
  LET nth(n) == CHOOSE i \in K : Cardinality({h \in K : h <= i}) = n
  IN  [n \in 1 .. Cardinality(K) |-> [lines[nth(n)] EXCEPT !.synced = TRUE]]

\* The machine crashes.
Crash ==
  /\ pc = "up" /\ faults < MaxFaults
  /\ NextRunner
  /\ faults' = faults + 1
  /\ \E K \in Kept :
       \/ /\ log' = Remains(K, log)
          /\ damaged' = (damaged \/ \E i \in K : 1 .. i \ K # {})
       \/ \E i \in DOMAIN log \ K :
            /\ K \cup {i} \in Kept
            /\ log' \in {Remains(K \cup {i}, [log EXCEPT ![i] = l]) :
                           l \in {Torn(log[i]), [log[i] EXCEPT !.newline = FALSE]}}
            /\ damaged' = TRUE
  /\ UNCHANGED <<fileNum, ended, acked>>

Init ==
  /\ log = <<>> /\ fileNum = 1
  /\ pc = "down" /\ seq = 0 /\ recovery = FALSE /\ completed = {}
  /\ step = [s \in Steps |-> "todo"]
  /\ faults = 0 /\ ended = {} /\ acked = {} /\ damaged = FALSE

Next ==
  \/ NewRunner \/ JobCancelled \/ Close \/ Kill \/ Crash
  \/ \E s \in Steps : \/ SkipStep(s) \/ StepBegin(s) \/ StepNote(s)
                      \/ \E kind \in {"endOK", "endError"} : StepEnd(s, kind)

Spec == Init /\ [][Next]_vars

-----------------------------------------------------------------------------
(* Properties.                                                              *)

\* The counters stay within the log, and a step is where the protocol allows.
TypeOK ==
  /\ log \in Seq(Lines) /\ Len(log) <= MaxLines
  /\ fileNum \in Nat /\ \A i \in 1 .. Len(log) : log[i].file <= fileNum
  /\ pc \in {"down", "up", "refused"} /\ seq \in Nat /\ recovery \in BOOLEAN
  /\ completed \subseteq Steps /\ step \in [Steps -> {"todo", "running", "done"}]
  /\ faults \in 0 .. MaxFaults
  /\ ended \subseteq Steps /\ acked \subseteq Steps /\ damaged \in BOOLEAN

\* A runner in recovery skips only steps that really ended with exit code 0 under an
\* earlier one, however the log was cut between the two.
SkippedWasDone == completed \subseteq ended

\* A step whose end was acknowledged runs again only under a runner that was started
\* without recovery mode: one in recovery mode finds its end in the log or refuses the
\* log, whatever crash follows the acknowledgement and whatever runners of either mode
\* wrote in between.
AckedNeverRerun == \A s \in acked : step[s] # "running"

\* A log is refused as corrupt only when a line was torn, an append failed, or a file
\* that a killed runner left full lost its end: never after other kills, cuts
\* between lines or rotations, and numbers given out again after a cut make no gap.
RefusedMeansDamage == pc = "refused" => damaged

-----------------------------------------------------------------------------
(* Why the properties hold: a line that was synced stays, and a lost or      *)
(* unwritten line before it shows for ever as a gap in the numbers.          *)

\* While a runner is up, its numbers are at least those of the lines.
NumbersTaken == pc = "up" => seq >= Len(log)

\* A record never moves up in the log: lines before it may get lost, none is added.
NumbersKept == \A i \in 1 .. Len(log) : log[i].kind # "junk" => log[i].seq >= i

\* Only steps that ended with exit code 0 have such an end in the log.
EndsHappened == \A i \in 1 .. Len(log) : log[i].kind = "endOK" => log[i].step \in ended

\* As long as nothing was damaged the log is whole, and every number has its line.
WholeLog ==
  ~damaged => /\ \A i \in 1 .. Len(log) :
                   log[i].kind # "junk" /\ log[i].newline /\ log[i].seq = i
              /\ pc = "up" => seq = Len(log)

\* The end of step s at line e is its last line that counts.
ShowsDone(s, e) ==
  /\ log[e].kind = "endOK" /\ log[e].step = s
  /\ \E b \in 1 .. e - 1 : log[b].kind = "begin" /\ log[b].step = s
  /\ \A i \in 1 .. Len(log) :
       i > e => log[i].step # s \/ log[i].kind \notin {"begin", "endOK", "endError"}

\* A synced line that shows s as completed, or for which any reader in recovery mode
\* refuses the log.
Shown(s) ==
  \E e \in 1 .. Len(log) :
    /\ log[e].synced
    /\ log[e].kind = "junk" \/ log[e].seq > e \/ (log[e].seq = e /\ ShowsDone(s, e))

AckedShown == \A s \in acked : Shown(s)

\* An acknowledged step is over for a runner in recovery mode.
AckedOver ==
  \A s \in acked : /\ step[s] # "running"
                   /\ pc = "up" /\ recovery => step[s] = "done" \/ s \in completed

\* A running step has its begin in the log, or the log shows what became of it: a number
\* without a line, or junk that is synced or will be with the end of the step.
BegunOrBroken(s) ==
  \/ seq > Len(log)
  \/ \E b \in 1 .. Len(log) : log[b].kind = "begin" /\ log[b].step = s
  \/ \E j \in 1 .. Len(log) :
       /\ log[j].kind = "junk"
       /\ log[j].synced \/ (j = Len(log) /\ ~log[j].newline /\ log[j].file = fileNum)

RunningBegun == \A s \in Steps : step[s] = "running" => pc = "up" /\ BegunOrBroken(s)

Inv ==
  /\ TypeOK /\ NumbersTaken /\ EndsHappened /\ SkippedWasDone /\ WholeLog
  /\ NumbersKept /\ AckedShown /\ AckedOver /\ RunningBegun /\ RefusedMeansDamage

=============================================================================
