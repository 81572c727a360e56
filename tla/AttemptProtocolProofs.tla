----------------------- MODULE AttemptProtocolProofs -----------------------
(***************************************************************************)
(* The safety properties of AttemptProtocol, for any number of attempts,   *)
(* runners, jobs and faults.                                               *)
(*                                                                         *)
(* Inv says that whatever is known of an end goes back to a process that   *)
(* did end so: envelopes tell what the process of their attempt ended      *)
(* with, and what the stored attempts say is what an envelope of their own *)
(* or the pod they have recorded told.  It also says whose what is: which  *)
(* job an attempt is of, and whether its pod was its own or adopted.       *)
(* RestoreInv adds that in a job nobody deletes the runners have different *)
(* ordinals, so that the checkpoints of each grow.                         *)
(***************************************************************************)
EXTENDS AttemptProtocol, SequenceTheorems, WellFoundedInduction, TLAPS

-----------------------------------------------------------------------------
(* Facts about the operators.                                               *)

\* A set of numbers that is not empty has a least one, the next entry of a workload.
LEMMA LeastNumber ==
  ASSUME NEW S \in SUBSET Nat, S # {}
  PROVE  Min(S) \in S
<1> DEFINE Less == {ss \in Nat \X Nat : ss[1] < ss[2]}
<1>1. IsWellFoundedOn(Less, Nat)
  BY NatLessThanWellFounded DEF OpToRel
<1>2. \A y \in Nat, z \in Nat : y < z => <<y, z>> \in Less
  OBVIOUS
<1> HIDE DEF Less
<1>3. PICK x \in S : \A y \in S : <<y, x>> \notin Less
  BY <1>1, WFMin
<1>4. ASSUME NEW y \in S PROVE x =< y
  <2>1. x \in Nat /\ y \in Nat
    OBVIOUS
  <2>2. ~(y < x)
    BY <1>2, <1>3, <2>1, Zenon
  <2> QED BY <2>1, <2>2
<1> QED BY <1>4 DEF Min

\* ExitToResult keeps signals and exit codes apart.
LEMMA ExitCodes ==
  ASSUME NEW end \in Ends
  PROVE  /\ ExitToResult(end) \in Results
         /\ ExitToResult(end).code # -1 => ExitToResult(end).signal = 0
<1>1. CASE end.how = "exit"
  BY <1>1 DEF Ends, ExitToResult, Results
<1>2. CASE end.how = "signal"
  BY <1>2 DEF Ends, ExitToResult, Results, ForwardSignals, SIGKILL
<1>3. CASE end.how = "error"
  BY <1>3 DEF Ends, ExitToResult, Results
<1> QED BY <1>1, <1>2, <1>3 DEF Ends

\* What a job, an attempt and a call of HandleFinalization are before they exist.
LEMMA Nothing ==
  /\ NoJob \in JobType /\ NoJob.uid = 0 /\ NoJob.conds = {} /\ NoJob.failed = 0
  /\ NoJob.active = 0 /\ ~NoJob.deleting
  /\ NoAttempt \in AttemptType /\ NoAttempt.uid = 0 /\ NoAttempt.conds = {}
  /\ NoAttempt.exit = {} /\ NoAttempt.category = ""
  /\ Idle \in FinType /\ Idle.pc = "idle"
<1>1. MaxAttempts \in Nat /\ 0 \in 0 .. MaxAttempts
  BY BoundsAssumption
<1>2. NoJob \in JobType
  BY <1>1 DEF NoJob, JobType, Reasons
<1>3. NoAttempt \in AttemptType
  BY DEF NoAttempt, AttemptType
<1>4. NoJob.uid = 0 /\ NoJob.conds = {} /\ NoJob.failed = 0
      /\ NoJob.active = 0 /\ ~NoJob.deleting
  BY DEF NoJob
<1>5. NoAttempt.uid = 0 /\ NoAttempt.conds = {} /\ NoAttempt.exit = {} /\ NoAttempt.category = ""
  BY DEF NoAttempt
<1>6. Idle \in FinType /\ Idle.pc = "idle"
  BY <1>2 DEF Idle, FinType
<1> QED BY <1>2, <1>3, <1>4, <1>5, <1>6

\* TrySetJobTerminal leaves a terminal job alone and ends another.
LEMMA SetTerminal ==
  ASSUME NEW j \in JobType, NEW cond \in Conditions, NEW reason \in Reasons
  PROVE  LET k == TrySetJobTerminal(j, cond, reason) IN
         /\ k \in JobType /\ IsTerminal(k)
         /\ k.uid = j.uid /\ k.active = j.active /\ k.deleting = j.deleting
         /\ k.failed = j.failed /\ k.adopted = j.adopted
         /\ IsTerminal(j) => k = j
         /\ "Complete" \in k.conds => "Complete" \in j.conds \/ cond = "Complete"
BY DEF TrySetJobTerminal, IsTerminal, JobType, Conditions

\* The hash of a spec is recorded with the status.
LEMMA HashedJob ==
  ASSUME NEW j \in JobType
  PROVE  LET k == [j EXCEPT !.hash = ComputeSpecHash(j)] IN
         /\ k \in JobType
         /\ k.uid = j.uid /\ k.active = j.active /\ k.deleting = j.deleting
         /\ k.failed = j.failed /\ k.adopted = j.adopted /\ k.conds = j.conds
         /\ k.reason = j.reason
<1>1. ComputeSpecHash(j) \in SUBSET Nat
  BY BoundsAssumption DEF ComputeSpecHash, JobType
<1> QED BY <1>1 DEF JobType

\* The types at hand in most proofs.
LEMMA TypeFacts ==
  ASSUME TypeOK
  PROVE  /\ job \in JobType /\ job.active \in 0 .. MaxAttempts /\ job.uid \in Nat
         /\ Len(runners) \in Nat /\ DOMAIN runners = 1 .. Len(runners)
         /\ \A r \in DOMAIN runners : runners[r] \in RunnerType
         /\ Len(pods) \in Nat /\ DOMAIN pods = 1 .. Len(pods)
         /\ \A r \in DOMAIN pods : pods[r] \in PodType
         /\ \A o \in Ordinals : attempts[o] \in AttemptType
         /\ MaxAttempts \in Nat /\ MaxAttempts > 0
         /\ lastJob \in Nat /\ lastAttempt \in Nat
         /\ RunnerLimit(limit)
BY BoundsAssumption DEF TypeOK, JobType

\* The active attempt is a stored one or none.
LEMMA ActiveAttempt ==
  ASSUME Inv
  PROVE  /\ Active \in AttemptType
         /\ Active.conds # {} => Active.uid # 0
         /\ Active.uid # 0 => job.active \in Ordinals /\ Active = attempts[job.active]
<1>1. job.active \in 0 .. MaxAttempts /\ (\A o \in Ordinals : attempts[o] \in AttemptType)
  BY TypeFacts DEF Inv
<1>2. CASE job.active = 0
  BY <1>2, Nothing DEF Active
<1>3. CASE job.active # 0
  <2>1. job.active \in Ordinals /\ Active = attempts[job.active]
    BY <1>1, <1>3, TypeFacts DEF Active, Ordinals, Inv
  <2>2. Accounted(job.active)
    BY <2>1 DEF Inv, AttemptsAccounted
  <2>3. Active.uid = 0 => Active = NoAttempt
    BY <2>1, <2>2 DEF Accounted
  <2> QED BY <1>1, <2>1, <2>3, Nothing
<1> QED BY <1>2, <1>3

\* What is known of a stored attempt.
LEMMA AccountedFor ==
  ASSUME Inv, NEW o \in Ordinals, attempts[o].uid # 0
  PROVE  /\ attempts[o] \in AttemptType
         /\ attempts[o].ordinal = o /\ Belongs(attempts[o]) /\ EndIsTrue(attempts[o])
         /\ attempts[o].pod \in DOMAIN runners /\ attempts[o].pod \in DOMAIN pods
         /\ job.active # 0 => attempts[o].job = job.uid
         /\ attempts[o].job = job.uid =>
              o <= job.active /\ (o # job.active => IsTerminal(attempts[o]))
<1>1. Accounted(o) /\ TypeOK /\ RunnerShape
  BY DEF Inv, AttemptsAccounted
<1>2. /\ DOMAIN runners = 1 .. Len(runners) /\ DOMAIN pods = 1 .. Len(pods)
      /\ Len(pods) = Len(runners) /\ attempts[o] \in AttemptType
  BY <1>1, TypeFacts DEF RunnerShape
<1>3. attempts[o].pod \in DOMAIN runners
  BY <1>1 DEF Accounted, Belongs
<1> QED BY <1>1, <1>2, <1>3 DEF Accounted

-----------------------------------------------------------------------------
(* What a step may write, and why that keeps Inv.                           *)

\* Runners keep their identity and results, and pods the exit codes that are known; new
\* runners are started for new attempts.
Persists ==
  /\ \A r \in DOMAIN runners :
       /\ r \in DOMAIN runners'
       /\ runners'[r].job = runners[r].job /\ runners'[r].attempt = runners[r].attempt
       /\ runners'[r].ordinal = runners[r].ordinal
       /\ runners[r].result \subseteq runners'[r].result
  /\ \A r \in DOMAIN runners' : r \in DOMAIN runners \/ runners'[r].attempt > lastAttempt
  /\ \A r \in DOMAIN pods : pods[r].exit \subseteq pods'[r].exit
  /\ lastAttempt' \in Nat /\ lastAttempt <= lastAttempt'
  /\ lastJob' \in Nat /\ lastJob <= lastJob'

\* An end that has happened has happened.
LEMMA EndsPersist ==
  ASSUME Persists, NEW r \in DOMAIN runners, NEW code, EndedWith(r, code)
  PROVE  EndedWith(r, code)'
BY DEF Persists, EndedWith

\* What is recorded of the end of an attempt stays true, and no other process becomes its
\* own.
LEMMA RecordPersists ==
  ASSUME Inv, Persists, NEW a, a.uid \in 1 .. lastAttempt, a.pod \in DOMAIN runners,
         a.pod \in DOMAIN pods
  PROVE  /\ EndIsTrue(a) => EndIsTrue(a)'
         /\ \A r : OwnProcess(a, r)' => OwnProcess(a, r)
<1>1. ASSUME NEW r, OwnProcess(a, r) PROVE OwnProcess(a, r)'
  BY <1>1 DEF OwnProcess, Persists
<1>2. ASSUME NEW r, OwnProcess(a, r)' PROVE OwnProcess(a, r)
  <2>1. r \in DOMAIN runners' /\ runners'[r].attempt = a.uid
    BY <1>2 DEF OwnProcess
  <2>2. lastAttempt \in Nat
    BY TypeFacts DEF Inv
  <2>3. r \in DOMAIN runners
    BY <2>1, <2>2 DEF Persists
  <2> QED BY <2>1, <2>3 DEF OwnProcess, Persists
<1>3. ASSUME EndIsTrue(a) PROVE EndIsTrue(a)'
  <2>1. ASSUME NEW code \in a.exit
        PROVE  code \in pods'[a.pod].exit
                 \/ \E r \in DOMAIN runners' : OwnProcess(a, r)' /\ EndedWith(r, code)'
    <3>1. CASE code \in pods[a.pod].exit
      BY <3>1 DEF Persists
    <3>2. CASE \E r \in DOMAIN runners : OwnProcess(a, r) /\ EndedWith(r, code)
      <4>1. PICK r \in DOMAIN runners : OwnProcess(a, r) /\ EndedWith(r, code)
        BY <3>2
      <4>2. r \in DOMAIN runners' /\ OwnProcess(a, r)' /\ EndedWith(r, code)'
        BY <1>1, <4>1, EndsPersist DEF Persists
      <4> QED BY <4>2
    <3> QED BY <1>3, <3>1, <3>2 DEF EndIsTrue
  <2>2. "Complete" \in a.conds => EndedWith(a.pod, 0)'
    BY <1>3, EndsPersist DEF EndIsTrue
  <2>3. ASSUME a.category = "User"
        PROVE  \E r \in DOMAIN runners' :
                 OwnProcess(a, r)' /\ \E result \in runners'[r].result : result.signal = 0
    <3>1. PICK r \in DOMAIN runners :
            OwnProcess(a, r) /\ \E result \in runners[r].result : result.signal = 0
      BY <1>3, <2>3 DEF EndIsTrue
    <3>2. r \in DOMAIN runners' /\ runners[r].result \subseteq runners'[r].result
      BY DEF Persists
    <3> QED BY <1>1, <3>1, <3>2
  <2> QED BY <2>1, <2>2, <2>3 DEF EndIsTrue
<1> QED BY <1>2, <1>3

\* Where an attempt belongs does not change, as long as the job only adopts more pods.
LEMMA BelongingPersists ==
  ASSUME Inv, Persists, NEW a, Belongs(a), a.pod \in DOMAIN pods,
         a.job = job'.uid => job'.uid = job.uid /\ job.adopted \subseteq job'.adopted
  PROVE  Belongs(a)'
<1>1. /\ a.uid \in 1 .. lastAttempt /\ a.job \in 1 .. lastJob
      /\ a.pod \in DOMAIN runners /\ runners[a.pod].ordinal = a.ordinal
  BY DEF Belongs
<1>2. lastAttempt \in Nat /\ lastJob \in Nat
  BY TypeFacts DEF Inv
<1>3. a.uid \in 1 .. lastAttempt' /\ a.job \in 1 .. lastJob'
  BY <1>1, <1>2 DEF Persists
<1>4. a.pod \in DOMAIN runners' /\ runners'[a.pod].ordinal = a.ordinal
      /\ runners'[a.pod].job = runners[a.pod].job
  BY <1>1 DEF Persists
<1>5. ASSUME NEW r \in DOMAIN runners', OwnProcess(a, r)'
      PROVE  r = a.pod /\ runners'[r].job = a.job
  <2>1. OwnProcess(a, r)
    BY <1>1, <1>5, RecordPersists
  <2>2. r \in DOMAIN runners /\ r = a.pod /\ runners[r].job = a.job
    BY <2>1 DEF Belongs, OwnProcess
  <2> QED BY <1>4, <2>2
<1>6. a.job = job'.uid => runners'[a.pod].job = job'.uid \/ a.pod \in job'.adopted
  BY <1>4 DEF Belongs
<1> QED BY <1>3, <1>4, <1>5, <1>6 DEF Belongs

\* An attempt that is left alone stays accounted for.
LEMMA StaysAccounted ==
  ASSUME Inv, Persists, NEW o \in Ordinals, attempts'[o] = attempts[o],
         attempts[o].uid # 0 =>
           /\ job'.active # 0 => attempts[o].job = job'.uid
           /\ attempts[o].job = job'.uid =>
                /\ job'.uid = job.uid /\ job.adopted \subseteq job'.adopted
                /\ o <= job'.active /\ (o # job'.active => IsTerminal(attempts[o]))
  PROVE  Accounted(o)'
<1>1. CASE attempts[o].uid = 0
  <2>1. attempts[o] = NoAttempt
    BY <1>1 DEF Inv, AttemptsAccounted, Accounted
  <2> QED BY <2>1, Nothing DEF Accounted
<1>2. CASE attempts[o].uid # 0
  <2>1. PICK a : a = attempts[o]
    OBVIOUS
  <2>2. /\ a.ordinal = o /\ Belongs(a) /\ EndIsTrue(a)
        /\ a.pod \in DOMAIN runners /\ a.pod \in DOMAIN pods
    BY <1>2, <2>1, AccountedFor
  <2>3. a.uid \in 1 .. lastAttempt
    BY <2>2 DEF Belongs
  <2>4. EndIsTrue(a)'
    BY <2>2, <2>3, RecordPersists
  <2>5. Belongs(a)'
    BY <1>2, <2>1, <2>2, BelongingPersists
  <2>6. a.uid # 0 /\ attempts'[o] = a
    BY <1>2, <2>1
  <2>7. /\ job'.active # 0 => a.job = job'.uid
        /\ a.job = job'.uid => o <= job'.active /\ (o # job'.active => IsTerminal(a))
    BY <1>2, <2>1
  <2> QED BY <2>2, <2>4, <2>5, <2>6, <2>7 DEF Accounted
<1> QED BY <1>1, <1>2

\* Results stay true.
LEMMA TruthPersists ==
  ASSUME Inv, Persists, envelopes' \subseteq envelopes, held' \subseteq held
  PROVE  ResultsTruthful'
<1>1. ASSUME NEW e, Truthful(e) PROVE Truthful(e)'
  <2>1. PICK r \in DOMAIN runners : runners[r].attempt = e.attempt /\ EndedWith(r, e.code)
    BY <1>1 DEF Truthful
  <2>2. r \in DOMAIN runners' /\ runners'[r].attempt = e.attempt /\ EndedWith(r, e.code)'
    BY <2>1, EndsPersist DEF Persists
  <2> QED BY <2>2 DEF Truthful
<1>2. ASSUME NEW e \in envelopes' PROVE Truthful(e)'
  BY <1>1 DEF Inv, ResultsTruthful
<1>3. ASSUME NEW h \in held' PROVE Truthful(h.envelope)'
  BY <1>1 DEF Inv, ResultsTruthful
<1> QED BY <1>2, <1>3 DEF ResultsTruthful

\* A job that is Complete stays so for a reason.
LEMMA CompletionPersists ==
  ASSUME Inv, Persists, job'.uid = job.uid, job'.active = job.active,
         job.adopted \subseteq job'.adopted,
         "Complete" \in job'.conds => "Complete" \in job.conds \/ "Complete" \in Active.conds
  PROVE  CompleteMeansRan'
<1> SUFFICES ASSUME "Complete" \in job'.conds
             PROVE  \E r \in DOMAIN runners' :
                      /\ EndedWith(r, 0)' /\ runners'[r].ordinal = job'.active
                      /\ runners'[r].job = job'.uid \/ r \in job'.adopted
  BY DEF CompleteMeansRan
<1>1. PICK r \in DOMAIN runners : /\ EndedWith(r, 0) /\ runners[r].ordinal = job.active
                                  /\ runners[r].job = job.uid \/ r \in job.adopted
  <2>1. CASE "Complete" \in job.conds
    BY <2>1 DEF Inv, CompleteMeansRan
  <2>2. CASE "Complete" \in Active.conds
    <3>1. Active.uid # 0 /\ job.active \in Ordinals /\ Active = attempts[job.active]
      BY <2>2, ActiveAttempt
    <3>2. /\ attempts[job.active].ordinal = job.active /\ Belongs(attempts[job.active])
          /\ EndIsTrue(attempts[job.active])
          /\ job.active # 0 => attempts[job.active].job = job.uid
      BY <3>1, AccountedFor
    <3>3. job.active # 0
      BY <3>1, TypeFacts DEF Inv, Ordinals
    <3> QED BY <2>2, <3>1, <3>2, <3>3 DEF Belongs, EndIsTrue
  <2> QED BY <2>1, <2>2
<1>2. r \in DOMAIN runners' /\ EndedWith(r, 0)' /\ runners'[r].ordinal = runners[r].ordinal
      /\ runners'[r].job = runners[r].job
  BY <1>1, EndsPersist DEF Persists
<1> QED BY <1>1, <1>2

\* What a step that writes neither attempts nor results has to show.
LEMMA RecordsStay ==
  ASSUME Inv, Persists, attempts' = attempts, envelopes' \subseteq envelopes, held' \subseteq held,
         job'.uid = job.uid, job'.active = job.active, job.adopted \subseteq job'.adopted,
         "Complete" \in job'.conds => "Complete" \in job.conds \/ "Complete" \in Active.conds
  PROVE  AttemptsAccounted' /\ ResultsTruthful' /\ CompleteMeansRan'
<1>1. ASSUME NEW o \in Ordinals PROVE Accounted(o)'
  BY AccountedFor, StaysAccounted
<1> QED BY <1>1, TruthPersists, CompletionPersists DEF AttemptsAccounted

\* Nothing happens to runners and pods.
LEMMA SameRunners ==
  ASSUME Inv, UNCHANGED <<runners, pods, lastAttempt>>, lastJob' \in Nat, lastJob <= lastJob'
  PROVE  Persists /\ RunnerShape'
<1>1. Persists
  BY TypeFacts DEF Persists, Inv
<1>2. RunnerShape'
  <2>1. lastJob \in Nat /\ (\A r \in DOMAIN runners : runners[r].job \in 1 .. lastJob')
    BY TypeFacts DEF Inv, RunnerShape
  <2> QED BY <2>1 DEF Inv, RunnerShape, EndedWith
<1> QED BY <1>1, <1>2

\* The job is written: it may end, as Complete only if its active attempt is.
LEMMA JobWrites ==
  ASSUME Inv, UNCHANGED <<attempts, pods, envelopes, runnerVars, limit, lastJob, lastAttempt>>,
         held' \subseteq held, job' \in JobType, job'.uid = job.uid, job'.active = job.active,
         job.adopted \subseteq job'.adopted,
         job.uid = 0 => job' = job,
         ~IsTerminal(job') => ~IsTerminal(job) /\ job'.failed = job.failed,
         "Complete" \in job'.conds => "Complete" \in job.conds \/ "Complete" \in Active.conds,
         fin' \in FinType, fin'.pc # "idle" => job'.deleting,
         passed' \subseteq Deadlines, faults' \in Nat
  PROVE  Inv'
<1>1. TypeOK'
  BY DEF Inv, TypeOK, runnerVars
<1>2. Persists /\ RunnerShape'
  BY SameRunners, TypeFacts DEF Inv, runnerVars
<1>3. JobShape'
  <2>1. job'.uid <= lastJob' /\ (job'.uid = 0 => job' = NoJob)
    BY DEF Inv, JobShape
  <2>2. ~IsTerminal(job') =>
          job'.failed < MaxAttempts /\ (job'.active # 0 => job'.active = job'.failed + 1)
    BY DEF Inv, JobShape
  <2> QED BY <2>1, <2>2 DEF JobShape, IsTerminal
<1> QED BY <1>1, <1>2, <1>3, RecordsStay DEF Inv

\* The end of an attempt is written, and what is written is true.
LEMMA AttemptWrites ==
  ASSUME Inv, UNCHANGED <<job, pods, envelopes, runnerVars, limit, lastJob, lastAttempt, fin,
                          passed, faults>>,
         held' \subseteq held,
         NEW o \in Ordinals, attempts[o].uid # 0, NEW a \in AttemptType,
         attempts' = [attempts EXCEPT ![o] = a],
         a.uid = attempts[o].uid, a.ordinal = attempts[o].ordinal, a.pod = attempts[o].pod,
         a.job = attempts[o].job, IsTerminal(a), EndIsTrue(a)
  PROVE  Inv'
<1>1. TypeOK'
  BY DEF Inv, TypeOK, runnerVars
<1>2. Persists /\ RunnerShape'
  BY SameRunners, TypeFacts DEF Inv, runnerVars
<1>3. JobShape'
  BY DEF Inv, JobShape
<1>4. AttemptsAccounted'
  <2> SUFFICES ASSUME NEW p \in Ordinals PROVE Accounted(p)'
    BY DEF AttemptsAccounted
  <2>1. CASE p = o
    <3>1. attempts'[p] = a
      BY <2>1 DEF Inv, TypeOK
    <3>2. /\ attempts[o].ordinal = o /\ Belongs(attempts[o])
          /\ job.active # 0 => attempts[o].job = job.uid
          /\ attempts[o].job = job.uid => o <= job.active
          /\ attempts[o].pod \in DOMAIN pods
      BY AccountedFor
    <3>3. Belongs(a) /\ a.pod \in DOMAIN pods
      BY <3>2 DEF Belongs, OwnProcess
    <3>4. Belongs(a)'
      BY <1>2, <3>3, BelongingPersists
    <3>5. EndIsTrue(a)'
      BY <1>2, <3>3, RecordPersists DEF Belongs
    <3> QED BY <2>1, <3>1, <3>2, <3>4, <3>5 DEF Accounted
  <2>2. CASE p # o
    <3>1. attempts'[p] = attempts[p]
      BY <2>2 DEF Inv, TypeOK
    <3> QED BY <1>2, <3>1, AccountedFor, StaysAccounted
  <2> QED BY <2>1, <2>2
<1>5. ResultsTruthful' /\ CompleteMeansRan'
  BY <1>2, TruthPersists, CompletionPersists
<1> QED BY <1>1, <1>2, <1>3, <1>4, <1>5 DEF Inv

\* An attempt is removed.
LEMMA AttemptRemoved ==
  ASSUME Inv, UNCHANGED <<job, pods, envelopes, held, runnerVars, limit, lastJob, lastAttempt,
                          passed, faults>>,
         NEW o, attempts' = [attempts EXCEPT ![o] = NoAttempt],
         fin' \in FinType, fin'.pc # "idle" => job.deleting
  PROVE  Inv'
<1>1. TypeOK'
  BY Nothing DEF Inv, TypeOK, runnerVars
<1>2. Persists /\ RunnerShape'
  BY SameRunners, TypeFacts DEF Inv, runnerVars
<1>3. JobShape'
  BY DEF Inv, JobShape
<1>4. AttemptsAccounted'
  <2> SUFFICES ASSUME NEW p \in Ordinals PROVE Accounted(p)'
    BY DEF AttemptsAccounted
  <2>1. CASE p = o
    <3>1. attempts'[p] = NoAttempt
      BY <2>1 DEF Inv, TypeOK
    <3> QED BY <3>1, Nothing DEF Accounted
  <2>2. CASE p # o
    <3>1. attempts'[p] = attempts[p]
      BY <2>2 DEF Inv, TypeOK
    <3> QED BY <1>2, <3>1, AccountedFor, StaysAccounted
  <2> QED BY <2>1, <2>2
<1>5. ResultsTruthful' /\ CompleteMeansRan'
  BY <1>2, TruthPersists, CompletionPersists
<1> QED BY <1>1, <1>2, <1>3, <1>4, <1>5 DEF Inv

\* The job goes, and leaves everything else behind.
LEMMA JobGoes ==
  ASSUME Inv, JobGone, UNCHANGED <<attempts, pods, envelopes, held, runnerVars, limit, lastJob,
                                   lastAttempt>>,
         fin' \in FinType, fin'.pc = "idle", faults' \in Nat
  PROVE  Inv'
<1>1. /\ job' = NoJob /\ job'.uid = 0 /\ job'.active = 0 /\ job'.conds = {} /\ job'.failed = 0
      /\ job' \in JobType /\ passed' = {}
  BY Nothing DEF JobGone
<1>2. TypeOK'
  BY <1>1 DEF Inv, TypeOK, runnerVars
<1>3. Persists /\ RunnerShape'
  BY SameRunners, TypeFacts DEF Inv, runnerVars
<1>4. JobShape'
  BY <1>1, TypeFacts DEF Inv, JobShape
<1>5. AttemptsAccounted'
  <2> SUFFICES ASSUME NEW o \in Ordinals PROVE Accounted(o)'
    BY DEF AttemptsAccounted
  <2>1. attempts[o].uid # 0 => attempts[o].job # 0
    BY AccountedFor, TypeFacts DEF Inv, Belongs
  <2> QED BY <1>1, <1>3, <2>1, StaysAccounted
<1>6. ResultsTruthful' /\ CompleteMeansRan'
  BY <1>1, <1>3, TruthPersists DEF CompleteMeansRan
<1> QED BY <1>2, <1>3, <1>4, <1>5, <1>6 DEF Inv

\* A runner moves on; once it has a result, it keeps it.
LEMMA RunnerMoves ==
  ASSUME Inv, UNCHANGED <<operator, pods, limit>>,
         NEW r \in DOMAIN runners, NEW n \in RunnerType, Update(r, n),
         n.job = runners[r].job, n.attempt = runners[r].attempt,
         n.ordinal = runners[r].ordinal,
         runners[r].result \subseteq n.result, n.result # {} => n.pc = "ended",
         \A result \in n.result : result.code # -1 => result.signal = 0,
         objects' \subseteq ObjectType, faults' \in Nat
  PROVE  Inv'
<1>1. /\ runners' \in Seq(RunnerType) /\ DOMAIN runners' = DOMAIN runners
      /\ Len(runners') = Len(runners)
      /\ \A s \in DOMAIN runners : runners'[s] = IF s = r THEN n ELSE runners[s]
  BY ExceptSeq DEF Inv, TypeOK, Update
<1>2. TypeOK'
  BY <1>1 DEF Inv, TypeOK, operator
<1>3. UNCHANGED <<job, attempts, envelopes, held, lastJob, lastAttempt, pods, fin>>
  BY DEF operator
<1>4. Persists
  BY <1>1, <1>3, TypeFacts DEF Persists, Inv
<1>5. RunnerShape'
  <2>1. Len(pods') = Len(runners')
    BY <1>1, <1>3 DEF Inv, RunnerShape
  <2>2. ASSUME NEW s \in DOMAIN runners'
        PROVE  /\ runners'[s].attempt \in 1 .. lastAttempt /\ runners'[s].job \in 1 .. lastJob
               /\ runners'[s].result # {} => runners'[s].pc = "ended"
               /\ \A result \in runners'[s].result : result.code # -1 => result.signal = 0
               /\ pods[s].phase = "Succeeded" => EndedWith(s, 0)'
               /\ pods[s].phase = "Running" => pods[s].exit = {}
               /\ \A t \in DOMAIN runners' : runners'[s].attempt = runners'[t].attempt => s = t
    BY <1>1, <1>4, EndsPersist DEF Inv, RunnerShape
  <2> QED BY <1>3, <2>1, <2>2 DEF RunnerShape
<1>6. JobShape'
  BY <1>3 DEF Inv, JobShape
<1> QED BY <1>2, <1>3, <1>4, <1>5, <1>6, RecordsStay DEF Inv

\* Pods end, are lost or are deleted; an exit code that is known stays known.
LEMMA PodsMove ==
  ASSUME Inv, UNCHANGED <<job, attempts, envelopes, held, passed, lastJob, lastAttempt,
                          runnerVars, limit>>,
         pods' \in Seq(PodType), Len(pods') = Len(pods),
         \A r \in DOMAIN pods :
           /\ pods'[r].phase = "Succeeded" => pods[r].phase = "Succeeded" \/ EndedWith(r, 0)
           /\ pods'[r].phase = "Running" => pods[r].phase = "Running" /\ pods'[r].exit = pods[r].exit
           /\ pods[r].exit \subseteq pods'[r].exit,
         fin' \in FinType, fin'.pc # "idle" => job.deleting, faults' \in Nat
  PROVE  Inv'
<1>1. TypeOK'
  BY DEF Inv, TypeOK, runnerVars
<1>2. UNCHANGED <<runners, lastAttempt, lastJob>> /\ DOMAIN runners = DOMAIN pods
  BY TypeFacts DEF Inv, RunnerShape, runnerVars
<1>3. Persists
  BY <1>2, TypeFacts DEF Persists, Inv
<1>4. RunnerShape'
  BY <1>2 DEF Inv, RunnerShape, EndedWith
<1>5. JobShape'
  BY DEF Inv, JobShape
<1> QED BY <1>1, <1>3, <1>4, <1>5, RecordsStay DEF Inv

-----------------------------------------------------------------------------
(* The steps.                                                               *)

\* Nothing has happened yet.
LEMMA InitInv == Init => Inv
<1> SUFFICES ASSUME Init PROVE Inv
  OBVIOUS
<1>1. TypeOK
  <2>1. attempts \in [Ordinals -> AttemptType] /\ job \in JobType /\ fin \in FinType
    BY Nothing DEF Init
  <2>2. pods \in Seq(PodType) /\ runners \in Seq(RunnerType)
    BY DEF Init
  <2> QED BY <2>1, <2>2 DEF Init, TypeOK
<1>2. RunnerShape /\ ResultsTruthful
  BY DEF Init, RunnerShape, ResultsTruthful
<1>3. JobShape
  <2>1. 0 < MaxAttempts
    BY BoundsAssumption
  <2>2. /\ job = NoJob /\ job.uid = 0 /\ lastJob = 0 /\ job.failed = 0 /\ job.active = 0
        /\ fin.pc = "idle"
    BY Nothing DEF Init
  <2> QED BY <2>1, <2>2 DEF JobShape
<1>4. AttemptsAccounted
  BY Nothing DEF Init, AttemptsAccounted, Accounted
<1>5. CompleteMeansRan
  BY Nothing DEF Init, CompleteMeansRan
<1> QED BY <1>1, <1>2, <1>3, <1>4, <1>5 DEF Inv

\* A job is created where there is none: its number is new, and no attempt is its own.
LEMMA CreateJobInv ==
  ASSUME Inv, CreateJob, UNCHANGED limit
  PROVE  Inv'
<1>1. job = NoJob /\ job.uid = 0 /\ lastJob \in Nat /\ lastJob' = lastJob + 1 /\ limit \in Limits
  BY DEF Inv, JobShape, CreateJob, TypeOK
<1>2. PICK max \in limit.budgets, finalizer \in limit.finalizer :
        job' = [NoJob EXCEPT !.uid = lastJob + 1, !.max = max, !.finalizer = finalizer]
  BY DEF CreateJob
<1>3. max \in 0 .. MaxAttempts /\ finalizer \in BOOLEAN /\ lastJob + 1 \in Nat
  BY <1>1, BoundsAssumption
<1>4. /\ job' \in JobType /\ job'.uid = lastJob + 1 /\ job'.conds = {} /\ job'.failed = 0
      /\ job'.active = 0
  BY <1>2, <1>3, Nothing DEF JobType
<1>5. /\ UNCHANGED <<attempts, pods, envelopes, held, fin, passed, lastAttempt, faults, runners,
                     objects>>
  BY DEF CreateJob, runnerVars
<1>6. TypeOK'
  BY <1>1, <1>4, <1>5 DEF Inv, TypeOK
<1>7. Persists /\ RunnerShape'
  BY <1>1, <1>5, SameRunners
<1>8. JobShape'
  <2>1. fin'.pc = "idle"
    BY <1>1, <1>5, Nothing DEF Inv, JobShape
  <2> QED BY <1>1, <1>4, <2>1, BoundsAssumption DEF JobShape
<1>9. AttemptsAccounted'
  <2> SUFFICES ASSUME NEW o \in Ordinals PROVE Accounted(o)'
    BY DEF AttemptsAccounted
  <2>1. attempts[o].uid # 0 => attempts[o].job # lastJob + 1
    BY <1>1, AccountedFor DEF Belongs
  <2> QED BY <1>4, <1>5, <1>7, <2>1, StaysAccounted
<1>10. ResultsTruthful' /\ CompleteMeansRan'
  BY <1>4, <1>5, <1>7, TruthPersists DEF CompleteMeansRan
<1> QED BY <1>6, <1>7, <1>8, <1>9, <1>10 DEF Inv

\* The record of an attempt when it is opened.
Opened(r) == [NoAttempt EXCEPT !.uid = lastAttempt + 1, !.job = job.uid, !.pod = r,
                               !.ordinal = NextOrdinal]

\* The next ordinal is within the budget and beyond those of the attempts that are there,
\* unless the active one was deleted.
LEMMA OpenedAttempt ==
  ASSUME Inv, NEW r \in Nat, NEW adopted \in SUBSET Nat, OpenAttempt(r, adopted)
  PROVE  /\ NextOrdinal \in Ordinals
         /\ job.uid # 0 /\ "Complete" \notin job.conds /\ ~IsTerminal(job)
         /\ job' \in JobType /\ job'.uid = job.uid /\ job'.conds = job.conds
         /\ job'.failed = NextOrdinal - 1 /\ job'.active = NextOrdinal
         /\ job'.deleting = job.deleting /\ job'.adopted = job.adopted \cup adopted
         /\ Opened(r) \in AttemptType /\ Opened(r).uid = lastAttempt + 1
         /\ Opened(r).job = job.uid /\ Opened(r).pod = r /\ Opened(r).ordinal = NextOrdinal
         /\ Opened(r).conds = {} /\ Opened(r).exit = {} /\ Opened(r).category = ""
         /\ attempts' = [attempts EXCEPT ![NextOrdinal] = Opened(r)]
         /\ \A o \in Ordinals : attempts[o].uid # 0 =>
              /\ attempts[o].job = job.uid /\ o <= NextOrdinal
              /\ o # NextOrdinal => IsTerminal(attempts[o])
         /\ ~(job.active # 0 /\ Active.uid = 0) => NextOrdinal > job.active
         /\ NextOrdinal >= job.active
<1>1. /\ Reconciles
      /\ Active.uid # 0 => IsTerminal(Active) /\ RetryAllowed(job)
      /\ job' = [job EXCEPT !.failed = NextOrdinal - 1, !.active = NextOrdinal,
                            !.hash = ComputeSpecHash(job), !.adopted = @ \cup adopted]
      /\ attempts' = [attempts EXCEPT ![NextOrdinal] = Opened(r)]
  BY DEF OpenAttempt, Opened
<1>2. /\ job.uid # 0 /\ ~IsTerminal(job) /\ (\A a \in Stored : a.job = job.uid)
  BY <1>1 DEF Reconciles, VerifyAttemptOwnership
<1>3. /\ job \in JobType /\ job.failed \in Nat /\ job.failed < MaxAttempts /\ MaxAttempts \in Nat
      /\ job.max \in 0 .. MaxAttempts /\ job.active \in 0 .. MaxAttempts /\ lastAttempt \in Nat
      /\ job.uid \in Nat
      /\ job.active # 0 => job.active = job.failed + 1
  BY <1>2, TypeFacts DEF Inv, JobShape, JobType
<1>4. NextOrdinal \in Ordinals /\ NextOrdinal - 1 \in 0 .. MaxAttempts
  <2>1. CASE Active.uid = 0
    BY <1>3, <2>1 DEF NextOrdinal, Ordinals
  <2>2. CASE Active.uid # 0
    BY <1>1, <1>3, <2>2 DEF NextOrdinal, RetryAllowed, Ordinals
  <2> QED BY <2>1, <2>2
<1>5. /\ Active.uid = 0 => NextOrdinal = job.failed + 1
      /\ Active.uid # 0 => NextOrdinal = job.failed + 2
      /\ Active.uid # 0 => job.active # 0
  <2>1. job.active = 0 => Active.uid = 0
    BY Nothing DEF Active
  <2> QED BY <1>3, <2>1 DEF NextOrdinal
<1>6. /\ ~(job.active # 0 /\ Active.uid = 0) => NextOrdinal > job.active
      /\ NextOrdinal >= job.active
  BY <1>3, <1>5
<1>7. /\ job' \in JobType /\ job'.uid = job.uid /\ job'.conds = job.conds
      /\ job'.failed = NextOrdinal - 1 /\ job'.active = NextOrdinal
      /\ job'.deleting = job.deleting /\ job'.adopted = job.adopted \cup adopted
  <2>1. ComputeSpecHash(job) \in SUBSET Nat /\ NextOrdinal \in 0 .. MaxAttempts
    BY <1>3, <1>4 DEF ComputeSpecHash, Ordinals
  <2> HIDE DEF NextOrdinal
  <2> QED BY <1>1, <1>3, <1>4, <2>1 DEF JobType
<1>8. /\ Opened(r) \in AttemptType /\ Opened(r).uid = lastAttempt + 1
      /\ Opened(r).job = job.uid /\ Opened(r).pod = r /\ Opened(r).ordinal = NextOrdinal
      /\ Opened(r).conds = {} /\ Opened(r).exit = {} /\ Opened(r).category = ""
  <2>1. NextOrdinal \in Nat /\ lastAttempt + 1 \in Nat
    BY <1>3, <1>4 DEF Ordinals
  <2> QED BY <1>3, <2>1, Nothing DEF Opened, AttemptType
<1>9. ASSUME NEW o \in Ordinals, attempts[o].uid # 0
      PROVE  /\ attempts[o].job = job.uid /\ o <= NextOrdinal
             /\ o # NextOrdinal => IsTerminal(attempts[o])
  <2>1. attempts[o].job = job.uid
    BY <1>2, <1>9 DEF Stored
  <2>2. o <= job.active /\ (o # job.active => IsTerminal(attempts[o])) /\ o \in Nat /\ o # 0
    BY <1>3, <1>9, <2>1, AccountedFor DEF Ordinals
  <2>3. CASE o = job.active
    <3>1. Active = attempts[o]
      BY <2>2, <2>3 DEF Active
    <3> QED BY <1>1, <1>3, <1>5, <1>9, <2>1, <2>3, <3>1
  <2>4. CASE o # job.active
    BY <1>3, <1>4, <1>6, <2>1, <2>2, <2>4 DEF Ordinals
  <2> QED BY <2>3, <2>4
<1>10. "Complete" \notin job.conds
  BY <1>2 DEF IsTerminal
<1> QED BY <1>1, <1>2, <1>4, <1>6, <1>7, <1>8, <1>9, <1>10

\* A new attempt keeps Inv, whichever pod it has, if that pod has its name and, where it
\* was there before, is adopted.
LEMMA OpensInv ==
  ASSUME Inv, UNCHANGED limit, NEW r \in Nat, NEW adopted \in SUBSET Nat, OpenAttempt(r, adopted),
         Persists, runners' \in Seq(RunnerType), pods' \in Seq(PodType), RunnerShape',
         r \in DOMAIN runners', runners'[r].ordinal = NextOrdinal,
         runners'[r].job = job.uid \/ r \in adopted,
         \A s \in DOMAIN runners' : runners'[s].attempt = lastAttempt + 1 =>
           s = r /\ runners'[s].job = job.uid
  PROVE  Inv'
<1>1. /\ NextOrdinal \in Ordinals
      /\ job.uid # 0 /\ "Complete" \notin job.conds
      /\ job' \in JobType /\ job'.uid = job.uid /\ job'.conds = job.conds
      /\ job'.failed = NextOrdinal - 1 /\ job'.active = NextOrdinal
      /\ job'.deleting = job.deleting /\ job'.adopted = job.adopted \cup adopted
      /\ attempts' = [attempts EXCEPT ![NextOrdinal] = Opened(r)]
      /\ \A o \in Ordinals : attempts[o].uid # 0 =>
           /\ attempts[o].job = job.uid /\ o <= NextOrdinal
           /\ o # NextOrdinal => IsTerminal(attempts[o])
  BY OpenedAttempt
<1>2. PICK a \in AttemptType : a = Opened(r)
  BY OpenedAttempt
<1>3. /\ a.uid = lastAttempt + 1 /\ a.job = job.uid /\ a.pod = r /\ a.ordinal = NextOrdinal
      /\ a.conds = {} /\ a.exit = {} /\ a.category = ""
      /\ attempts' = [attempts EXCEPT ![NextOrdinal] = a]
  BY <1>1, <1>2, OpenedAttempt
<1>4. /\ lastAttempt' = lastAttempt + 1 /\ passed' \subseteq passed
      /\ UNCHANGED <<envelopes, held, fin, lastJob, faults, objects>>
  BY DEF OpenAttempt
<1>5. /\ MaxAttempts \in Nat /\ lastAttempt \in Nat /\ lastJob \in Nat /\ job.uid \in Nat
      /\ job.uid <= lastJob
  BY TypeFacts DEF Inv, JobShape
<1>10. lastAttempt + 1 # 0 /\ lastAttempt + 1 \in 1 .. lastAttempt' /\ job.uid \in 1 .. lastJob'
  <2>1. job.uid # 0
    BY <1>1
  <2> QED BY <1>4, <1>5, <2>1
<1> HIDE DEF NextOrdinal
<1>6. TypeOK'
  <2>1. attempts' \in [Ordinals -> AttemptType]
    BY <1>2, <1>3 DEF Inv, TypeOK
  <2>2. lastAttempt' \in Nat
    BY <1>4, <1>5
  <2> QED BY <1>1, <1>4, <2>1, <2>2 DEF Inv, TypeOK
<1>7. JobShape'
  <2>1. NextOrdinal - 1 < MaxAttempts /\ NextOrdinal = NextOrdinal - 1 + 1
    BY <1>1, <1>5 DEF Ordinals
  <2> QED BY <1>1, <1>4, <2>1 DEF Inv, JobShape
<1>8. AttemptsAccounted'
  <2> SUFFICES ASSUME NEW p \in Ordinals PROVE Accounted(p)'
    BY DEF AttemptsAccounted
  <2>1. p \in Nat
    BY DEF Ordinals
  <2>2. CASE p = NextOrdinal
    <3>1. attempts'[p] = a /\ a.uid # 0
      <4>1. attempts'[p] = a
        BY <1>3, <2>2 DEF Inv, TypeOK
      <4> QED BY <1>3, <1>10, <4>1
    <3>2. Belongs(a)'
      <4>1. a.uid \in 1 .. lastAttempt' /\ a.job \in 1 .. lastJob'
        BY <1>3, <1>10, Zenon
      <4>2. \A s \in DOMAIN runners' : OwnProcess(a, s)' => s = a.pod /\ runners'[s].job = a.job
        BY <1>3 DEF OwnProcess
      <4>3. runners'[a.pod].job = job'.uid \/ a.pod \in job'.adopted
        BY <1>1, <1>3
      <4> QED BY <1>3, <4>1, <4>2, <4>3 DEF Belongs
    <3>3. EndIsTrue(a)'
      BY <1>3 DEF EndIsTrue
    <3>4. p <= job'.active /\ p = job'.active /\ a.job = job'.uid /\ a.ordinal = p
      <4>1. p = job'.active /\ a.job = job'.uid /\ a.ordinal = p
        BY <1>1, <1>3, <2>2, Zenon
      <4> QED BY <2>1, <4>1
    <3> QED BY <3>1, <3>2, <3>3, <3>4 DEF Accounted
  <2>3. CASE p # NextOrdinal
    <3>1. attempts'[p] = attempts[p]
      BY <1>3, <2>3 DEF Inv, TypeOK
    <3> QED BY <1>1, <2>3, <3>1, StaysAccounted
  <2> QED BY <2>2, <2>3
<1>9. ResultsTruthful' /\ CompleteMeansRan'
  BY <1>1, <1>4, TruthPersists DEF CompleteMeansRan
<1> QED BY <1>6, <1>7, <1>8, <1>9 DEF Inv

\* What StartAttempt adds to the runners and pods.
LEMMA StartedRunner ==
  ASSUME Inv, StartAttempt
  PROVE  LET r == Len(runners) + 1
             n == NewRunner(job.uid, ComputeSpecHash(job), Opened(r)) IN
         /\ OpenAttempt(r, {}) /\ r \in Nat
         /\ runners' \in Seq(RunnerType) /\ Len(runners') = r /\ DOMAIN runners' = 1 .. r
         /\ \A s \in DOMAIN runners : s \in DOMAIN runners' /\ runners'[s] = runners[s]
         /\ \A s \in DOMAIN runners' : s \in DOMAIN runners \/ s = r
         /\ r \in DOMAIN runners' /\ runners'[r] = n
         /\ n.job = job.uid /\ n.attempt = lastAttempt + 1 /\ n.ordinal = NextOrdinal
         /\ n.result = {} /\ n.pc = "restore"
         /\ pods' \in Seq(PodType) /\ Len(pods') = r
         /\ \A s \in DOMAIN pods : pods'[s] = pods[s]
         /\ pods'[r] = NewPod
<1> DEFINE r == Len(runners) + 1
           n == NewRunner(job.uid, ComputeSpecHash(job), Opened(r))
<1>1. /\ OpenAttempt(r, {}) /\ r \in Nat /\ {} \in SUBSET Nat
      /\ runners' = Append(runners, NewRunner(job.uid, ComputeSpecHash(job), attempts'[NextOrdinal]))
      /\ pods' = Append(pods, NewPod)
  BY TypeFacts DEF StartAttempt, Inv
<1>2. /\ NextOrdinal \in Ordinals
      /\ Opened(r) \in AttemptType /\ Opened(r).uid = lastAttempt + 1
      /\ Opened(r).ordinal = NextOrdinal
      /\ attempts' = [attempts EXCEPT ![NextOrdinal] = Opened(r)]
  BY <1>1, OpenedAttempt
<1>3. attempts'[NextOrdinal] = Opened(r)
  BY <1>2 DEF Inv, TypeOK
<1>4. runners' = Append(runners, n)
  BY <1>1, <1>3
<1>5. /\ n.job = job.uid /\ n.attempt = lastAttempt + 1 /\ n.ordinal = NextOrdinal
      /\ n.result = {} /\ n.pc = "restore" /\ n \in RunnerType
  <2>1. Opened(r).uid \in Nat /\ Opened(r).ordinal \in Nat
    BY <1>2 DEF AttemptType
  <2>3. job.uid \in Nat /\ ComputeSpecHash(job) \in SUBSET Nat
    BY TypeFacts DEF Inv, JobType, ComputeSpecHash
  <2>2. n \in RunnerType
    BY <2>1, <2>3 DEF NewRunner, RunnerType
  <2> QED BY <1>2, <2>2 DEF NewRunner
<1>6. NewPod \in PodType /\ Len(pods) = Len(runners) /\ Len(runners) \in Nat
      /\ DOMAIN runners = 1 .. Len(runners)
  BY TypeFacts DEF NewPod, PodType, Inv, RunnerShape
<1> HIDE DEF n
<1>7. /\ runners' \in Seq(RunnerType) /\ Len(runners') = r /\ DOMAIN runners' = 1 .. r
      /\ \A s \in DOMAIN runners : runners'[s] = runners[s]
      /\ runners'[r] = n
  BY <1>4, <1>5, AppendProperties, TypeFacts DEF Inv, TypeOK
<1>8. /\ pods' \in Seq(PodType) /\ Len(pods') = r
      /\ \A s \in DOMAIN pods : pods'[s] = pods[s]
      /\ pods'[r] = NewPod
  BY <1>1, <1>6, AppendProperties, TypeFacts DEF Inv, TypeOK
<1>9. /\ r \in 1 .. r
      /\ \A s \in DOMAIN runners : s \in 1 .. r
      /\ \A s \in 1 .. r : s \in DOMAIN runners \/ s = r
  BY <1>6
<1> QED BY <1>1, <1>5, <1>7, <1>8, <1>9 DEF n

\* A new attempt comes with a new runner and pod.
LEMMA StartAttemptInv ==
  ASSUME Inv, StartAttempt, UNCHANGED limit
  PROVE  Inv'
<1> DEFINE r == Len(runners) + 1
<1>1. PICK n :
         /\ OpenAttempt(r, {}) /\ r \in Nat
         /\ runners' \in Seq(RunnerType) /\ Len(runners') = r /\ DOMAIN runners' = 1 .. r
         /\ \A s \in DOMAIN runners : s \in DOMAIN runners' /\ runners'[s] = runners[s]
         /\ \A s \in DOMAIN runners' : s \in DOMAIN runners \/ s = r
         /\ r \in DOMAIN runners' /\ runners'[r] = n
         /\ n.job = job.uid /\ n.attempt = lastAttempt + 1 /\ n.ordinal = NextOrdinal
         /\ n.result = {}
         /\ pods' \in Seq(PodType) /\ Len(pods') = r
         /\ \A s \in DOMAIN pods : pods'[s] = pods[s]
         /\ pods'[r] = NewPod
  BY StartedRunner
<1>2. /\ lastAttempt' = lastAttempt + 1 /\ lastJob' = lastJob /\ lastAttempt \in Nat
      /\ lastJob \in Nat /\ {} \in SUBSET Nat
  BY <1>1, TypeFacts DEF OpenAttempt, Inv
<1>3. DOMAIN runners = DOMAIN pods
  BY TypeFacts DEF Inv, RunnerShape
<1>4. \A s \in DOMAIN runners : runners[s].attempt \in 1 .. lastAttempt
  BY DEF Inv, RunnerShape
<1> HIDE DEF r
<1>5. Persists
  BY <1>1, <1>2, <1>3 DEF Persists
<1>6. RunnerShape'
  <2>1. job.uid \in 1 .. lastJob
    <3>1. job.uid # 0
      BY <1>1 DEF OpenAttempt, Reconciles
    <3>2. job.uid \in Nat /\ job.uid <= lastJob
      BY TypeFacts DEF Inv, JobShape
    <3> QED BY <1>2, <3>1, <3>2
  <2>2. NewPod.phase = "Running" /\ NewPod.exit = {}
    BY DEF NewPod
  <2>3. ASSUME NEW s \in DOMAIN runners'
        PROVE  /\ runners'[s].attempt \in 1 .. lastAttempt' /\ runners'[s].job \in 1 .. lastJob'
               /\ runners'[s].result # {} => runners'[s].pc = "ended"
               /\ \A result \in runners'[s].result : result.code # -1 => result.signal = 0
               /\ pods'[s].phase = "Succeeded" => EndedWith(s, 0)'
               /\ pods'[s].phase = "Running" => pods'[s].exit = {}
    <3>1. CASE s \in DOMAIN runners
      <4>1. runners[s].attempt \in 1 .. lastAttempt'
        BY <1>2, <1>4, <3>1
      <4> QED BY <1>1, <1>2, <1>3, <1>5, <3>1, <4>1, EndsPersist DEF Inv, RunnerShape
    <3>2. CASE s = r
      <4>1. lastAttempt + 1 \in 1 .. lastAttempt'
        BY <1>2
      <4> QED BY <1>1, <1>2, <2>1, <2>2, <3>2, <4>1
    <3> QED BY <1>1, <3>1, <3>2
  <2>4. ASSUME NEW s \in DOMAIN runners', NEW t \in DOMAIN runners',
               runners'[s].attempt = runners'[t].attempt
        PROVE  s = t
    <3>1. CASE s \in DOMAIN runners /\ t \in DOMAIN runners
      BY <1>1, <2>4, <3>1 DEF Inv, RunnerShape
    <3>2. CASE s \in DOMAIN runners /\ t = r
      <4>1. runners[s].attempt = lastAttempt + 1
        BY <1>1, <2>4, <3>2
      <4> QED BY <1>2, <1>4, <3>2, <4>1
    <3>3. CASE s = r /\ t \in DOMAIN runners
      <4>1. runners[t].attempt = lastAttempt + 1
        BY <1>1, <2>4, <3>3
      <4> QED BY <1>2, <1>4, <3>3, <4>1
    <3> QED BY <1>1, <3>1, <3>2, <3>3
  <2> QED BY <1>1, <2>3, <2>4 DEF RunnerShape
<1>7. \A s \in DOMAIN runners' : runners'[s].attempt = lastAttempt + 1 =>
        s = r /\ runners'[s].job = job.uid
  BY <1>1, <1>2, <1>4
<1> QED BY <1>1, <1>2, <1>5, <1>6, <1>7, OpensInv

\* A pod that is there under the name is adopted, and no process is the attempt's own.
LEMMA AdoptPodInv ==
  ASSUME Inv, AdoptPod, UNCHANGED limit
  PROVE  Inv'
<1>1. PICK r \in PodsNamed(NextOrdinal) : OpenAttempt(r, {r})
  BY DEF AdoptPod
<1>2. UNCHANGED <<runners, pods>> /\ lastJob' = lastJob /\ lastAttempt' = lastAttempt + 1
  BY <1>1 DEF AdoptPod, OpenAttempt
<1>3. r \in DOMAIN runners /\ runners[r].ordinal = NextOrdinal /\ r \in Nat /\ {r} \in SUBSET Nat
  BY TypeFacts DEF PodsNamed, Inv
<1>4. lastAttempt \in Nat /\ lastJob \in Nat
      /\ (\A s \in DOMAIN runners : runners[s].attempt \in 1 .. lastAttempt)
  BY TypeFacts DEF Inv, RunnerShape
<1>5. Persists
  BY <1>2, <1>4 DEF Persists
<1>6. RunnerShape'
  <2>1. \A s \in DOMAIN runners : runners[s].attempt \in 1 .. lastAttempt'
    BY <1>2, <1>4
  <2> QED BY <1>2, <2>1 DEF Inv, RunnerShape, EndedWith
<1>7. \A s \in DOMAIN runners : runners[s].attempt # lastAttempt + 1
  BY <1>4
<1>8. runners' \in Seq(RunnerType) /\ pods' \in Seq(PodType)
  BY <1>2 DEF Inv, TypeOK
<1> HIDE DEF NextOrdinal
<1> QED BY <1>1, <1>2, <1>3, <1>5, <1>6, <1>7, <1>8, OpensInv

\* The attempt follows the pod it has recorded.
LEMMA ObservePodInv ==
  ASSUME Inv, ObservePod, UNCHANGED limit
  PROVE  Inv'
<1> DEFINE o == job.active
           p == pods[Active.pod]
           code == IF p.gone THEN {} ELSE p.exit
           a == Observed(attempts[o], p)
<1>1. o \in Ordinals /\ Active = attempts[o] /\ attempts[o].uid # 0
  BY ActiveAttempt DEF ObservePod
<1>2. /\ attempts[o] \in AttemptType /\ attempts[o].pod \in DOMAIN runners
      /\ attempts[o].pod \in DOMAIN pods /\ EndIsTrue(attempts[o])
  BY <1>1, AccountedFor
<1>3. p \in PodType
  BY <1>1, <1>2, TypeFacts DEF Inv
<1>4. /\ attempts' = [attempts EXCEPT ![o] = a]
      /\ UNCHANGED <<job, pods, envelopes, held, fin, passed, lastJob, lastAttempt, faults, runnerVars>>
  BY <1>1 DEF ObservePod
<1>5. p.phase = "Succeeded" => EndedWith(attempts[o].pod, 0)
  BY <1>1, <1>2 DEF Inv, RunnerShape
<1>6. code \in SUBSET Int /\ code \subseteq p.exit
  BY <1>3 DEF PodType
<1>6a. a = [attempts[o] EXCEPT
              !.conds = {IF ~p.gone /\ p.phase = "Succeeded" THEN "Complete" ELSE "Failed"},
              !.exit = IF code = {} THEN attempts[o].exit ELSE code]
  BY DEF Observed
<1> HIDE DEF code, a
<1>7. /\ a \in AttemptType /\ a.uid = attempts[o].uid /\ a.ordinal = attempts[o].ordinal
      /\ a.pod = attempts[o].pod /\ a.job = attempts[o].job /\ a.category = attempts[o].category
      /\ a.conds = {IF ~p.gone /\ p.phase = "Succeeded" THEN "Complete" ELSE "Failed"}
      /\ a.exit = IF code = {} THEN attempts[o].exit ELSE code
  BY <1>2, <1>6, <1>6a DEF AttemptType, Conditions
<1>8. PICK b \in AttemptType : b = a
  BY <1>7
<1>9. EndIsTrue(b)
  <2>1. ASSUME NEW c \in b.exit
        PROVE  c \in pods[b.pod].exit
                 \/ \E r \in DOMAIN runners : OwnProcess(b, r) /\ EndedWith(r, c)
    <3>1. CASE code = {}
      BY <1>2, <1>7, <1>8, <2>1, <3>1 DEF EndIsTrue, OwnProcess
    <3>2. CASE code # {}
      BY <1>1, <1>6, <1>7, <1>8, <2>1, <3>2
    <3> QED BY <3>1, <3>2
  <2>2. "Complete" \in b.conds => EndedWith(b.pod, 0)
    BY <1>5, <1>7, <1>8
  <2>3. b.category = "User" => \E r \in DOMAIN runners :
          OwnProcess(b, r) /\ \E result \in runners[r].result : result.signal = 0
    BY <1>2, <1>7, <1>8 DEF EndIsTrue, OwnProcess
  <2> QED BY <2>1, <2>2, <2>3 DEF EndIsTrue
<1>10. IsTerminal(b)
  BY <1>7, <1>8 DEF IsTerminal
<1> QED BY <1>1, <1>4, <1>7, <1>8, <1>9, <1>10, AttemptWrites

\* A result is submitted by the runner whose process ended.
LEMMA SubmitResultInv ==
  ASSUME Inv, UNCHANGED limit, NEW r \in DOMAIN runners, SubmitResult(r)
  PROVE  Inv'
<1>0. PICK result \in runners[r].result : \E category \in Hints(result) :
        envelopes' = envelopes \cup
          {[job |-> runners[r].job, attempt |-> runners[r].attempt, ordinal |-> runners[r].ordinal,
            hash |-> runners[r].hash, code |-> result.code, category |-> category]}
  BY DEF SubmitResult
<1>1. PICK category \in Hints(result) :
        envelopes' = envelopes \cup
          {[job |-> runners[r].job, attempt |-> runners[r].attempt, ordinal |-> runners[r].ordinal,
            hash |-> runners[r].hash, code |-> result.code, category |-> category]}
  BY <1>0
<1> DEFINE e == [job |-> runners[r].job, attempt |-> runners[r].attempt,
                 ordinal |-> runners[r].ordinal, hash |-> runners[r].hash,
                 code |-> result.code, category |-> category]
<1>2. runners[r] \in RunnerType /\ category \in {"", "OOM"}
  BY TypeFacts DEF Inv, Hints
<1>3. e \in EnvelopeType /\ e.attempt = runners[r].attempt /\ e.code = result.code
  BY <1>2 DEF EnvelopeType, RunnerType, Results
<1> HIDE DEF e
<1>4. envelopes' = envelopes \cup {e}
  BY <1>1 DEF e
<1>5. UNCHANGED <<job, attempts, pods, held, fin, passed, lastJob, lastAttempt, faults, runners, objects>>
  BY DEF SubmitResult, runnerVars
<1>6. TypeOK'
  BY <1>3, <1>4, <1>5 DEF Inv, TypeOK
<1>7. Persists /\ RunnerShape' /\ JobShape'
  BY <1>5, SameRunners, TypeFacts DEF Inv, JobShape
<1>8. AttemptsAccounted' /\ CompleteMeansRan'
  <2>1. ASSUME NEW o \in Ordinals PROVE Accounted(o)'
    BY <1>5, <1>7, AccountedFor, StaysAccounted
  <2> QED BY <1>5, <1>7, <2>1, CompletionPersists DEF AttemptsAccounted
<1>9. ResultsTruthful'
  BY <1>3, <1>4, <1>5 DEF Inv, ResultsTruthful, Truthful, EndedWith
<1> QED BY <1>6, <1>7, <1>8, <1>9 DEF Inv

\* A result that was submitted is delivered, again or for the first time.
LEMMA DeliverResultInv ==
  ASSUME Inv, DeliverResult, UNCHANGED limit
  PROVE  Inv'
<1>1. PICK e \in envelopes : held' = {[job |-> FencedBy(job), envelope |-> e]}
  BY DEF DeliverResult
<1>2. UNCHANGED <<job, attempts, pods, envelopes, fin, passed, lastJob, lastAttempt, faults, runners,
                  objects>>
  BY DEF DeliverResult, runnerVars
<1>3. job \in JobType
  BY TypeFacts DEF Inv
<1>4. FencedBy(job) \in FencedType
  BY <1>3 DEF FencedBy, FencedType, JobType
<1>5. TypeOK'
  BY <1>1, <1>2, <1>4 DEF Inv, TypeOK
<1>6. Persists /\ RunnerShape' /\ JobShape'
  BY <1>2, SameRunners, TypeFacts DEF Inv, JobShape
<1>7. AttemptsAccounted' /\ CompleteMeansRan'
  <2>1. ASSUME NEW o \in Ordinals PROVE Accounted(o)'
    BY <1>2, <1>6, AccountedFor, StaysAccounted
  <2> QED BY <1>2, <1>6, <2>1, CompletionPersists DEF AttemptsAccounted
<1>8. ResultsTruthful'
  BY <1>1, <1>2 DEF Inv, ResultsTruthful, Truthful, EndedWith
<1> QED BY <1>5, <1>6, <1>7, <1>8 DEF Inv

\* What passes the fence is a result of the very attempt it is written to; only an exit
\* code of its own makes it an error of the user's.
LEMMA ApplyResultInv ==
  ASSUME Inv, ApplyResult, UNCHANGED limit
  PROVE  Inv'
<1>1. PICK h \in held :
        IF h.job.active # 0 /\ attempts[h.job.active].uid # 0
             /\ ValidateFencing(h.job, attempts[h.job.active], h.envelope)
          THEN attempts' = [attempts EXCEPT ![h.job.active] = ReconcileResult(@, h.envelope)]
          ELSE UNCHANGED attempts
  BY DEF ApplyResult
<1>2. /\ UNCHANGED <<job, pods, envelopes, fin, passed, lastJob, lastAttempt, faults, runnerVars>>
      /\ held' \subseteq held
  BY DEF ApplyResult
<1> DEFINE o == h.job.active
           e == h.envelope
<1>3. CASE o # 0 /\ attempts[o].uid # 0 /\ ValidateFencing(h.job, attempts[o], e)
  <2> DEFINE found == ClassifyError([code |-> e.code, oomKilled |-> FALSE, error |-> ""], FALSE)
             cat == IF found = "Unknown" /\ e.category # "" THEN e.category ELSE found
             a == [attempts[o] EXCEPT !.exit = {e.code}, !.category = cat,
                     !.conds = @ \cup {IF e.code = 0 THEN "Complete" ELSE "Failed"}]
  <2>1. o \in Ordinals /\ e \in EnvelopeType /\ Truthful(e)
    BY <1>3, TypeFacts DEF Inv, TypeOK, FencedType, Ordinals, ResultsTruthful
  <2>2. attempts[o] \in AttemptType /\ Belongs(attempts[o]) /\ EndIsTrue(attempts[o])
    BY <1>3, <2>1, AccountedFor
  <2>3. attempts' = [attempts EXCEPT ![o] = a]
    BY <1>1, <1>3 DEF ReconcileResult
  <2>4. PICK r \in DOMAIN runners : runners[r].attempt = attempts[o].uid /\ EndedWith(r, e.code)
    BY <1>3, <2>1 DEF ValidateFencing, Truthful
  <2>5. r = attempts[o].pod
    BY <2>2, <2>4 DEF Belongs, OwnProcess
  <2>6. /\ e.code \in Int /\ e.category \in {"", "OOM"}
    BY <2>1 DEF EnvelopeType
  <2>7. /\ found \in Categories \cup {""} /\ (found = "User" => e.code \in 1 .. 127)
    BY <2>6 DEF ClassifyError, Categories
  <2>8. cat \in Categories \cup {""} /\ (cat = "User" => e.code \in 1 .. 127)
    BY <2>6, <2>7 DEF Categories
  <2> HIDE DEF found, cat
  <2>9. /\ a \in AttemptType /\ a.uid = attempts[o].uid /\ a.ordinal = attempts[o].ordinal
        /\ a.pod = attempts[o].pod /\ a.job = attempts[o].job
        /\ a.exit = {e.code} /\ a.category = cat
        /\ a.conds = attempts[o].conds \cup {IF e.code = 0 THEN "Complete" ELSE "Failed"}
    BY <2>2, <2>6, <2>8 DEF AttemptType, Conditions
  <2>10. PICK b \in AttemptType : b = a
    BY <2>9
  <2> HIDE DEF a
  <2>11. OwnProcess(b, r)
    BY <2>4, <2>9, <2>10 DEF OwnProcess
  <2>12. \A code \in b.exit : OwnProcess(b, r) /\ EndedWith(r, code)
    BY <2>4, <2>9, <2>10, <2>11
  <2>13. "Complete" \in b.conds => EndedWith(b.pod, 0)
    BY <2>2, <2>4, <2>5, <2>9, <2>10 DEF EndIsTrue
  <2>14. ASSUME b.category = "User"
         PROVE  \E result \in runners[r].result : result.signal = 0
    <3>1. PICK result \in runners[r].result : result.code = e.code
      BY <2>4 DEF EndedWith
    <3>2. result.code # -1
      <4>1. e.code \in 1 .. 127
        BY <2>8, <2>9, <2>10, <2>14
      <4> HIDE DEF e
      <4> QED BY <3>1, <4>1
    <3> QED BY <2>4, <3>1, <3>2 DEF Inv, RunnerShape
  <2>15. EndIsTrue(b)
    BY <2>11, <2>12, <2>13, <2>14 DEF EndIsTrue
  <2>16. IsTerminal(b)
    BY <2>9, <2>10 DEF IsTerminal
  <2> HIDE DEF o
  <2> QED BY <1>2, <1>3, <2>1, <2>3, <2>9, <2>10, <2>15, <2>16, AttemptWrites
<1>4. CASE UNCHANGED attempts
  <2>1. /\ job' \in JobType /\ passed' \subseteq Deadlines /\ faults' \in Nat
        /\ fin' \in FinType /\ (fin'.pc # "idle" => job'.deleting)
    BY <1>2 DEF Inv, TypeOK, JobShape
  <2> QED BY <1>2, <1>4, <2>1, JobWrites
<1> QED BY <1>1, <1>3, <1>4

\* Reconcile writes the status of a job that is not over: attempts that are not its own
\* fail it, it runs, or it ends, Complete with its active attempt or out of retries.
LEMMA StatusInv ==
  ASSUME Inv, UNCHANGED limit, FailOnOwnership \/ ReportRunning \/ FinishJob
  PROVE  Inv'
<1> DEFINE j == [job EXCEPT !.hash = ComputeSpecHash(job)]
           running == [job EXCEPT !.started = TRUE, !.hash = ComputeSpecHash(job)]
           failed == [j EXCEPT !.failed = @ + 1]
<1>1. job.uid # 0 /\ ~IsTerminal(job)
  BY DEF FailOnOwnership, ReportRunning, FinishJob, Reconciles
<1>2. /\ job \in JobType /\ job.failed \in Nat /\ job.failed < MaxAttempts /\ MaxAttempts \in Nat
  BY <1>1, TypeFacts DEF Inv, JobShape, JobType
<1>3. /\ j \in JobType /\ j.uid = job.uid /\ j.active = job.active /\ j.deleting = job.deleting
      /\ j.failed = job.failed /\ j.adopted = job.adopted /\ j.conds = job.conds
  BY <1>2, HashedJob
<1>4. /\ running \in JobType /\ running.uid = job.uid /\ running.active = job.active
      /\ running.deleting = job.deleting /\ running.failed = job.failed
      /\ running.adopted = job.adopted /\ running.conds = job.conds
  <2>1. ComputeSpecHash(job) \in SUBSET Nat
    BY <1>2 DEF ComputeSpecHash, JobType
  <2> QED BY <1>2, <2>1 DEF JobType
<1> HIDE DEF j, running
<1>5. /\ failed \in JobType /\ failed.uid = job.uid /\ failed.active = job.active
      /\ failed.deleting = job.deleting /\ failed.adopted = job.adopted /\ failed.conds = job.conds
  BY <1>2, <1>3 DEF JobType
<1> HIDE DEF failed
<1>6. /\ job' \in JobType /\ job'.uid = job.uid /\ job'.active = job.active
      /\ job'.deleting = job.deleting /\ job.adopted \subseteq job'.adopted
      /\ ~IsTerminal(job') => job'.failed = job.failed
      /\ "Complete" \in job'.conds => "Complete" \in job.conds \/ "Complete" \in Active.conds
  <2>1. CASE job' = TrySetJobTerminal(j, "Failed", "OwnershipViolation")
    BY <1>3, <2>1, SetTerminal DEF Conditions, Reasons
  <2>2. CASE job' = running
    BY <1>4, <2>2
  <2>3. CASE job' = TrySetJobTerminal(j, "Complete", "Succeeded") /\ "Complete" \in Active.conds
    BY <1>3, <2>3, SetTerminal DEF Conditions, Reasons
  <2>4. CASE job' = TrySetJobTerminal(failed, "Failed", "RetriesExhausted")
    BY <1>5, <2>4, SetTerminal DEF Conditions, Reasons
  <2> QED BY <2>1, <2>2, <2>3, <2>4 DEF FailOnOwnership, ReportRunning, FinishJob, j, running, failed
<1>7. /\ UNCHANGED <<attempts, pods, envelopes, runnerVars, limit, lastJob, lastAttempt, fin, passed, faults>>
      /\ held' \subseteq held
  BY DEF FailOnOwnership, ReportRunning, FinishJob
<1>8. /\ fin' \in FinType /\ (fin'.pc # "idle" => job'.deleting)
      /\ passed' \subseteq Deadlines /\ faults' \in Nat
  BY <1>6, <1>7 DEF Inv, TypeOK, JobShape
<1> QED BY <1>1, <1>6, <1>7, <1>8, JobWrites

\* Fault counts.
LEMMA FaultCounts ==
  ASSUME Inv, NEW kind, Fault(kind)
  PROVE  faults' \in Nat
BY DEF Inv, TypeOK, Fault

\* A user edits the job, which raises maxAttempts at most, or it is cancelled.
LEMMA EditsInv ==
  ASSUME Inv, UNCHANGED limit, EditJob \/ Cancel
  PROVE  Inv'
<1>1. job \in JobType /\ job.uid \in Nat /\ limit \in Limits
  BY TypeFacts DEF Inv, TypeOK
<1>2. /\ UNCHANGED <<attempts, pods, envelopes, runnerVars, limit, lastJob, lastAttempt, fin, passed>>
      /\ held' \subseteq held
  BY DEF EditJob, Cancel
<1>3. faults' \in Nat
  <2>1. CASE faults' = faults
    BY <2>1 DEF Inv, TypeOK
  <2> QED BY <2>1, FaultCounts DEF EditJob, Cancel
<1>4. /\ job' \in JobType /\ job'.uid = job.uid /\ job'.active = job.active
      /\ job'.deleting = job.deleting /\ job'.adopted = job.adopted
      /\ job.uid # 0
      /\ ~IsTerminal(job') => ~IsTerminal(job) /\ job'.failed = job.failed
      /\ "Complete" \in job'.conds => "Complete" \in job.conds
  <2>1. CASE EditJob /\ job' = [job EXCEPT !.cancel = TRUE]
    BY <1>1, <2>1 DEF EditJob, JobType, IsTerminal
  <2>2. CASE EditJob /\ \E max \in limit.budgets : job' = [job EXCEPT !.max = max]
    <3>1. PICK max \in limit.budgets : job' = [job EXCEPT !.max = max]
      BY <2>2
    <3>2. max \in 0 .. MaxAttempts /\ job.uid # 0
      BY <1>1, <2>2, BoundsAssumption DEF EditJob
    <3> QED BY <1>1, <3>1, <3>2 DEF JobType, IsTerminal
  <2>3. CASE Cancel
    <3>1. job.uid # 0
      BY <2>3 DEF Cancel, Inv, JobShape, NoJob
    <3>2. job' = TrySetJobTerminal(job, "Failed", "Cancelled")
      BY <2>3 DEF Cancel, HandleCancel
    <3> QED BY <1>1, <3>1, <3>2, SetTerminal DEF Conditions, Reasons
  <2> QED BY <2>1, <2>2, <2>3 DEF EditJob
<1>5. /\ fin' \in FinType /\ (fin'.pc # "idle" => job'.deleting)
      /\ passed' \subseteq Deadlines
  BY <1>2, <1>4 DEF Inv, TypeOK, JobShape
<1> QED BY <1>2, <1>3, <1>4, <1>5, JobWrites

\* A job is deleted, by a user or because its time to live is over: it goes, or waits for
\* its finalizer.
LEMMA DeletionInv ==
  ASSUME Inv, UNCHANGED limit, DeleteJob \/ ExpireJob
  PROVE  Inv'
<1>1. job \in JobType /\ job.uid # 0
  BY Nothing, TypeFacts DEF DeleteJob, ExpireJob, CheckTTL, IsTerminal, Inv, JobShape
<1>2. /\ UNCHANGED <<attempts, pods, envelopes, held, runnerVars, limit, lastJob, lastAttempt, fin>>
      /\ ~job.deleting
      /\ JobGone \/ (job' = [job EXCEPT !.deleting = TRUE] /\ UNCHANGED passed)
  BY DEF DeleteJob, ExpireJob, MarkDeleted
<1>3. faults' \in Nat
  <2>1. CASE faults' = faults
    BY <2>1 DEF Inv, TypeOK
  <2> QED BY <2>1, FaultCounts DEF DeleteJob, ExpireJob
<1>4. fin' \in FinType /\ fin'.pc = "idle"
  BY <1>2 DEF Inv, TypeOK, JobShape
<1>5. CASE JobGone
  BY <1>2, <1>3, <1>4, <1>5, JobGoes
<1>6. CASE job' = [job EXCEPT !.deleting = TRUE] /\ UNCHANGED passed
  <2>1. /\ job' \in JobType /\ job'.uid = job.uid /\ job'.active = job.active
        /\ job'.adopted = job.adopted /\ job'.failed = job.failed /\ job'.conds = job.conds
    BY <1>1, <1>6 DEF JobType
  <2>2. passed' \subseteq Deadlines
    BY <1>6 DEF Inv, TypeOK
  <2>3. ~IsTerminal(job') => ~IsTerminal(job)
    BY <2>1 DEF IsTerminal
  <2> QED BY <1>1, <1>2, <1>3, <1>4, <2>1, <2>2, <2>3, JobWrites
<1> QED BY <1>2, <1>5, <1>6

\* A deadline ends the job, or the attempt whose runner may still go on.
LEMMA TimeOutInv ==
  ASSUME Inv, TimeOut, UNCHANGED limit
  PROVE  Inv'
<1>1. /\ UNCHANGED <<pods, envelopes, held, fin, passed, lastJob, lastAttempt, faults, runnerVars>>
  BY DEF TimeOut
<1>2. CASE /\ CheckDeadline(job, Active, passed) = "job"
           /\ job' = TrySetJobTerminal(job, "Failed", "DeadlineExceeded") /\ UNCHANGED attempts
  <2>1. job.uid # 0
    BY <1>2 DEF CheckDeadline, Inv, JobShape, NoJob
  <2>2. /\ job' \in JobType /\ job'.uid = job.uid /\ job'.active = job.active
        /\ job'.deleting = job.deleting /\ IsTerminal(job') /\ job'.adopted = job.adopted
        /\ "Complete" \in job'.conds => "Complete" \in job.conds
    BY <1>2, SetTerminal, TypeFacts DEF Conditions, Reasons, Inv
  <2>3. /\ fin' \in FinType /\ (fin'.pc # "idle" => job'.deleting)
        /\ passed' \subseteq Deadlines /\ faults' \in Nat
    BY <1>1, <2>2 DEF Inv, TypeOK, JobShape
  <2> QED BY <1>1, <1>2, <2>1, <2>2, <2>3, JobWrites
<1>3. CASE /\ CheckDeadline(job, Active, passed) = "attempt" /\ ~IsTerminal(Active)
           /\ attempts' = [attempts EXCEPT ![job.active] =
                             [@ EXCEPT !.conds = {"Failed"}, !.category = "Timeout"]]
           /\ UNCHANGED job
  <2> DEFINE o == job.active
             a == [attempts[o] EXCEPT !.conds = {"Failed"}, !.category = "Timeout"]
  <2>1. Active.uid # 0
    BY <1>3 DEF CheckDeadline
  <2>2. o \in Ordinals /\ attempts[o].uid # 0 /\ attempts[o] \in AttemptType
    BY <2>1, ActiveAttempt
  <2>3. /\ a \in AttemptType /\ a.uid = attempts[o].uid /\ a.ordinal = attempts[o].ordinal
        /\ a.pod = attempts[o].pod /\ a.job = attempts[o].job
        /\ a.exit = attempts[o].exit /\ a.category = "Timeout" /\ a.conds = {"Failed"}
    BY <2>2 DEF AttemptType, Conditions, Categories
  <2>4. attempts' = [attempts EXCEPT ![o] = a] /\ EndIsTrue(attempts[o])
    BY <1>3, <2>2, AccountedFor
  <2>5. PICK b \in AttemptType : b = a
    BY <2>3
  <2> HIDE DEF a, o
  <2>6. EndIsTrue(b)
    BY <2>3, <2>4, <2>5 DEF EndIsTrue, OwnProcess
  <2>7. IsTerminal(b)
    BY <2>3, <2>5 DEF IsTerminal
  <2> QED BY <1>1, <1>3, <2>2, <2>3, <2>4, <2>5, <2>6, <2>7, AttemptWrites
<1> QED BY <1>2, <1>3 DEF TimeOut

\* A deadline passes.
LEMMA DeadlinePassesInv ==
  ASSUME Inv, DeadlinePasses, UNCHANGED limit
  PROVE  Inv'
<1>1. /\ UNCHANGED <<job, attempts, pods, envelopes, runnerVars, limit, lastJob, lastAttempt, fin>>
      /\ held' \subseteq held
  BY DEF DeadlinePasses
<1>2. passed' \subseteq Deadlines
  BY DEF DeadlinePasses, Inv, TypeOK
<1>3. faults' \in Nat
  BY FaultCounts DEF DeadlinePasses
<1>4. /\ job' \in JobType /\ fin' \in FinType /\ (fin'.pc # "idle" => job'.deleting)
  BY <1>1 DEF Inv, TypeOK, JobShape
<1> QED BY <1>1, <1>2, <1>3, <1>4, JobWrites

\* HandleFinalization lists what to delete, edits its copy of the job, or gives up for now.
LEMMA FinalizerInv ==
  ASSUME Inv, UNCHANGED limit, ListPods \/ ListAttempts \/ RemoveFinalizer \/ FinalizationFails
  PROVE  Inv'
<1>1. /\ UNCHANGED <<job, attempts, pods, envelopes, runnerVars, limit, lastJob, lastAttempt, passed>>
      /\ held' \subseteq held
  BY DEF ListPods, ListAttempts, RemoveFinalizer, FinalizationFails
<1>2. faults' \in Nat
  <2>1. CASE faults' = faults
    BY <2>1 DEF Inv, TypeOK
  <2> QED BY <2>1, FaultCounts DEF ListPods, ListAttempts, RemoveFinalizer, FinalizationFails
<1>3. fin \in FinType /\ job \in JobType
  BY DEF Inv, TypeOK
<1>4. fin' \in FinType /\ (fin'.pc # "idle" => job.deleting)
  <2>1. CASE ListPods
    <3> DEFINE names == {runners[r].ordinal : r \in {s \in DOMAIN runners : ~pods[s].gone}}
    <3>1. \A r \in DOMAIN runners : runners[r].ordinal \in Nat
      BY TypeFacts DEF Inv, RunnerType
    <3>2. names \in SUBSET Nat
      BY <3>1
    <3> HIDE DEF names
    <3>3. fin' = [pc |-> "pods", read |-> job, todo |-> names] /\ job.deleting
      BY <2>1 DEF ListPods, names
    <3> QED BY <1>3, <3>2, <3>3 DEF FinType
  <2>2. CASE ListAttempts
    <3>1. {o \in Ordinals : attempts[o].uid # 0} \in SUBSET Nat
      BY BoundsAssumption DEF Ordinals
    <3>2. fin' \in FinType
      BY <1>3, <2>2, <3>1 DEF ListAttempts, FinType
    <3> QED BY <2>2, <3>2 DEF ListAttempts, Inv, JobShape
  <2>3. CASE RemoveFinalizer
    <3>1. fin' = [fin EXCEPT !.pc = "save", !.todo = {}]
      BY <2>3 DEF RemoveFinalizer
    <3>2. fin' \in FinType
      BY <1>3, <3>1 DEF FinType
    <3>3. fin.pc # "idle"
      BY <2>3 DEF RemoveFinalizer
    <3> QED BY <3>2, <3>3 DEF Inv, JobShape
  <2>4. CASE FinalizationFails
    BY <2>4, Nothing DEF FinalizationFails
  <2> QED BY <2>1, <2>2, <2>3, <2>4
<1>5. job' \in JobType /\ passed' \subseteq Deadlines
  BY <1>1 DEF Inv, TypeOK
<1> QED BY <1>1, <1>2, <1>4, <1>5, JobWrites

\* The caller saves the job without its finalizer, or is refused.
LEMMA SaveJobInv ==
  ASSUME Inv, SaveJob, UNCHANGED limit
  PROVE  Inv'
<1>1. /\ UNCHANGED <<attempts, pods, envelopes, held, runnerVars, limit, lastJob, lastAttempt, faults>>
      /\ fin' = Idle /\ (JobGone \/ UNCHANGED <<job, passed>>)
  BY DEF SaveJob
<1>2. fin' \in FinType /\ fin'.pc = "idle" /\ faults' \in Nat
  BY <1>1, Nothing DEF Inv, TypeOK
<1>3. CASE JobGone
  BY <1>1, <1>2, <1>3, JobGoes
<1>4. CASE UNCHANGED <<job, passed>>
  <2>1. job' \in JobType /\ passed' \subseteq Deadlines
    BY <1>4 DEF Inv, TypeOK
  <2> QED BY <1>1, <1>2, <1>4, <2>1, JobWrites
<1> QED BY <1>1, <1>3, <1>4

\* Pods are deleted by HandleFinalization.
LEMMA DeletePodInv ==
  ASSUME Inv, DeletePod, UNCHANGED limit
  PROVE  Inv'
<1>1. PICK o \in fin.todo :
        /\ pods' = [r \in DOMAIN pods |->
                      IF runners[r].ordinal = o THEN [pods[r] EXCEPT !.gone = TRUE] ELSE pods[r]]
        /\ fin' = [fin EXCEPT !.todo = @ \ {o}]
  BY DEF DeletePod
<1>2. fin \in FinType /\ fin.pc = "pods" /\ job.deleting
  BY DEF Inv, TypeOK, JobShape, DeletePod
<1>3. fin' \in FinType
  BY <1>1, <1>2 DEF FinType
<1>4. /\ UNCHANGED <<job, attempts, envelopes, held, passed, lastJob, lastAttempt, runnerVars, limit>>
      /\ faults' \in Nat
  BY DEF DeletePod, Inv, TypeOK
<1>5. DOMAIN pods = 1 .. Len(pods) /\ Len(pods) \in Nat
      /\ (\A r \in DOMAIN pods : pods[r] \in PodType)
  BY TypeFacts DEF Inv
<1>6. \A r \in DOMAIN pods :
        /\ pods'[r] \in PodType /\ pods'[r].phase = pods[r].phase /\ pods'[r].exit = pods[r].exit
  BY <1>1, <1>5 DEF PodType
<1>7. pods' \in Seq(PodType) /\ Len(pods') = Len(pods)
  <2>1. pods' \in [1 .. Len(pods) -> PodType]
    BY <1>1, <1>5, <1>6
  <2> QED BY <1>5, <2>1
<1> QED BY <1>2, <1>3, <1>4, <1>6, <1>7, PodsMove

\* Pod r becomes p, which contradicts nothing that was known of it.
PodChange(r, p) ==
  /\ pods' = [pods EXCEPT ![r] = p]
  /\ p.phase = "Succeeded" => pods[r].phase = "Succeeded" \/ EndedWith(r, 0)
  /\ p.phase = "Running" => pods[r].phase = "Running" /\ p.exit = pods[r].exit
  /\ pods[r].exit \subseteq p.exit

\* A pod ends as its runner did, is lost, or is collected.
LEMMA PodStepsInv ==
  ASSUME Inv, UNCHANGED limit,
         CollectPod \/ \E r \in DOMAIN runners : PodEnds(r) \/ LosePod(r)
  PROVE  Inv'
<1>1. \A r \in DOMAIN pods : /\ r \in DOMAIN runners /\ pods[r] \in PodType
                             /\ pods[r].phase = "Running" => pods[r].exit = {}
  BY TypeFacts DEF Inv, RunnerShape
<1>2. \E r \in DOMAIN pods : \E p \in PodType : PodChange(r, p)
  <2>1. CASE CollectPod
    <3>1. PICK r \in DOMAIN pods : pods' = [pods EXCEPT ![r].gone = TRUE]
      BY <2>1 DEF CollectPod
    <3> DEFINE p == [pods[r] EXCEPT !.gone = TRUE]
    <3>2. p \in PodType /\ p.phase = pods[r].phase /\ p.exit = pods[r].exit
      BY <1>1 DEF PodType
    <3>3. pods' = [pods EXCEPT ![r] = p]
      BY <3>1
    <3> HIDE DEF p
    <3> QED BY <3>2, <3>3 DEF PodChange
  <2>2. ASSUME NEW r \in DOMAIN runners, PodEnds(r)
        PROVE  \E s \in DOMAIN pods : \E q \in PodType : PodChange(s, q)
    <3>1. r \in DOMAIN pods /\ pods[r].exit = {} /\ pods[r] \in PodType
      BY <1>1, <2>2, TypeFacts DEF PodEnds, Inv, RunnerShape
    <3>2. PICK result \in runners[r].result :
            \/ result.code = 0 /\ pods' = [pods EXCEPT ![r] = [@ EXCEPT !.phase = "Succeeded", !.exit = {0}]]
            \/ \E code \in limit.codes \cup ({result.code} \ {-1}) :
                 pods' = [pods EXCEPT ![r] = [@ EXCEPT !.phase = "Failed", !.exit = {code}]]
      BY <2>2 DEF PodEnds
    <3>3. CASE result.code = 0 /\ pods' = [pods EXCEPT ![r] = [@ EXCEPT !.phase = "Succeeded", !.exit = {0}]]
      <4> DEFINE p == [pods[r] EXCEPT !.phase = "Succeeded", !.exit = {0}]
      <4>0. {0} \in SUBSET Int
        OBVIOUS
      <4>1. p \in PodType /\ p.phase = "Succeeded"
        BY <3>1, <4>0 DEF PodType
      <4>2. pods' = [pods EXCEPT ![r] = p] /\ EndedWith(r, 0)
        BY <3>3 DEF EndedWith
      <4> HIDE DEF p
      <4> QED BY <3>1, <4>1, <4>2 DEF PodChange
    <3>4. ASSUME NEW code \in limit.codes \cup ({result.code} \ {-1}),
                 pods' = [pods EXCEPT ![r] = [@ EXCEPT !.phase = "Failed", !.exit = {code}]]
          PROVE  \E s \in DOMAIN pods : \E q \in PodType : PodChange(s, q)
      <4> DEFINE p == [pods[r] EXCEPT !.phase = "Failed", !.exit = {code}]
      <4>1. code \in Int
        <5>1. limit.codes \subseteq 0 .. 255
          BY BoundsAssumption DEF Inv, TypeOK
        <5>2. result.code \in Int
          BY TypeFacts DEF Inv, RunnerType, Results
        <5> QED BY <5>1, <5>2
      <4>2. p \in PodType /\ p.phase = "Failed"
        BY <3>1, <4>1 DEF PodType
      <4>3. pods' = [pods EXCEPT ![r] = p]
        BY <3>4
      <4> HIDE DEF p
      <4> QED BY <3>1, <4>2, <4>3 DEF PodChange
    <3> QED BY <3>2, <3>3, <3>4
  <2>3. ASSUME NEW r \in DOMAIN runners, LosePod(r)
        PROVE  \E s \in DOMAIN pods : \E q \in PodType : PodChange(s, q)
    <3>1. r \in DOMAIN pods /\ pods[r].exit = {} /\ pods[r] \in PodType /\ pods[r].phase = "Running"
      BY <1>1, <2>3, TypeFacts DEF LosePod, Inv, RunnerShape
    <3>2. ASSUME NEW exit \in {{}, {128 + SIGKILL}},
                 pods' = [pods EXCEPT ![r] = [@ EXCEPT !.phase = "Failed", !.exit = exit]]
          PROVE  \E s \in DOMAIN pods : \E q \in PodType : PodChange(s, q)
      <4> DEFINE p == [pods[r] EXCEPT !.phase = "Failed", !.exit = exit]
      <4>1. exit \in SUBSET Int
        BY DEF SIGKILL
      <4>2. p \in PodType /\ p.phase = "Failed"
        BY <3>1, <4>1 DEF PodType
      <4>3. pods' = [pods EXCEPT ![r] = p]
        BY <3>2
      <4> HIDE DEF p
      <4> QED BY <3>1, <4>2, <4>3 DEF PodChange
    <3>3. CASE pods' = [pods EXCEPT ![r] = [@ EXCEPT !.gone = TRUE]]
      <4> DEFINE p == [pods[r] EXCEPT !.gone = TRUE]
      <4>1. p \in PodType /\ p.phase = "Running" /\ p.exit = pods[r].exit
        BY <3>1 DEF PodType
      <4>2. pods' = [pods EXCEPT ![r] = p]
        BY <3>3
      <4> HIDE DEF p
      <4> QED BY <3>1, <4>1, <4>2 DEF PodChange
    <3> QED BY <2>3, <3>2, <3>3 DEF LosePod
  <2> QED BY <2>1, <2>2, <2>3
<1>3. PICK r \in DOMAIN pods, p \in PodType : PodChange(r, p)
  BY <1>2
<1>4. /\ pods' \in Seq(PodType) /\ Len(pods') = Len(pods)
      /\ \A s \in DOMAIN pods : pods'[s] = IF s = r THEN p ELSE pods[s]
  BY <1>3, ExceptSeq DEF Inv, TypeOK, PodChange
<1>5. \A s \in DOMAIN pods :
         /\ pods'[s].phase = "Succeeded" => pods[s].phase = "Succeeded" \/ EndedWith(s, 0)
         /\ pods'[s].phase = "Running" => pods[s].phase = "Running" /\ pods'[s].exit = pods[s].exit
         /\ pods[s].exit \subseteq pods'[s].exit
  BY <1>3, <1>4 DEF PodChange
<1>6. UNCHANGED <<job, attempts, envelopes, held, passed, lastJob, lastAttempt, runnerVars, limit, fin>>
  BY DEF PodEnds, LosePod, CollectPod, operator
<1>7. faults' \in Nat
  <2>1. CASE faults' = faults
    BY <2>1 DEF Inv, TypeOK
  <2> QED BY <2>1, FaultCounts DEF PodEnds, LosePod, CollectPod
<1>8. fin' \in FinType /\ (fin'.pc # "idle" => job.deleting)
  BY <1>6 DEF Inv, TypeOK, JobShape
<1> QED BY <1>4, <1>5, <1>6, <1>7, <1>8, PodsMove

\* An attempt is deleted by HandleFinalization, or collected.
LEMMA AttemptGoesInv ==
  ASSUME Inv, UNCHANGED limit, DeleteAttempt \/ CollectAttempt
  PROVE  Inv'
<1>1. /\ UNCHANGED <<job, pods, envelopes, held, runnerVars, limit, lastJob, lastAttempt, passed, faults>>
      /\ \E o : attempts' = [attempts EXCEPT ![o] = NoAttempt]
  BY DEF DeleteAttempt, CollectAttempt
<1>2. fin \in FinType
  BY DEF Inv, TypeOK
<1>3. fin' \in FinType /\ (fin'.pc # "idle" => job.deleting)
  <2>1. CASE DeleteAttempt
    <3>1. PICK o \in fin.todo : fin' = [fin EXCEPT !.todo = @ \ {o}]
      BY <2>1 DEF DeleteAttempt
    <3>2. fin' \in FinType /\ fin.pc # "idle"
      BY <1>2, <2>1, <3>1 DEF FinType, DeleteAttempt
    <3> QED BY <3>2 DEF Inv, JobShape
  <2>2. CASE CollectAttempt
    BY <1>2, <2>2 DEF CollectAttempt, Inv, JobShape
  <2> QED BY <2>1, <2>2
<1>4. PICK o : attempts' = [attempts EXCEPT ![o] = NoAttempt]
  BY <1>1
<1> QED BY <1>1, <1>3, <1>4, AttemptRemoved

-----------------------------------------------------------------------------
(* The runners.                                                             *)

\* What a restore brings back are entries of a directory.
LEMMA RestoredEntries ==
  ASSUME Inv, NEW uid
  PROVE  UNION {ExtractArchive(c.content) : c \in LatestCheckpoint(uid)} \subseteq Entries
<1>1. \A c \in LatestCheckpoint(uid) : c \in ObjectType
  BY DEF LatestCheckpoint, Inv, TypeOK
<1>2. \A c \in LatestCheckpoint(uid) : ExtractArchive(c.content) \subseteq Entries
  BY <1>1 DEF ObjectType, ExtractArchive, Files
<1> QED BY <1>2

\* What a step of a runner writes, and that it keeps Inv.
RunnerWrites(r, n) ==
  /\ n \in RunnerType /\ Update(r, n)
  /\ n.job = runners[r].job /\ n.attempt = runners[r].attempt
  /\ n.ordinal = runners[r].ordinal
  /\ runners[r].result \subseteq n.result
  /\ n.result # {} => n.pc = "ended"
  /\ \A result \in n.result : result.code # -1 => result.signal = 0

\* A runner that has not ended has no result.
LEMMA NoResultYet ==
  ASSUME Inv, NEW r \in DOMAIN runners, runners[r].pc # "ended"
  PROVE  runners[r] \in RunnerType /\ runners[r].result = {}
BY TypeFacts DEF Inv, RunnerShape

\* A runner starts its workload in the directory it has restored.
LEMMA StartedWrites ==
  ASSUME Inv, NEW r \in DOMAIN runners, runners[r].pc = "restore",
         NEW dir \in SUBSET Entries, Started(r, dir)
  PROVE  RunnerWrites(r, [runners[r] EXCEPT !.pc = "run", !.dir = dir])
<1> DEFINE n == [runners[r] EXCEPT !.pc = "run", !.dir = dir]
<1>1. runners[r] \in RunnerType /\ runners[r].result = {}
  BY NoResultYet
<1>2. n \in RunnerType
  BY <1>1 DEF RunnerType
<1>3. /\ n.job = runners[r].job /\ n.attempt = runners[r].attempt
      /\ n.ordinal = runners[r].ordinal /\ n.result = {}
  BY <1>1 DEF RunnerType
<1>4. Update(r, n)
  BY DEF Started
<1> HIDE DEF n
<1>5. RunnerWrites(r, n)
  BY <1>1, <1>2, <1>3, <1>4 DEF RunnerWrites
<1> QED BY <1>5 DEF n

\* The workload makes an entry.
LEMMA WorkWrites ==
  ASSUME Inv, NEW r \in DOMAIN runners, Work(r)
  PROVE  \E e \in Entries :
           RunnerWrites(r, [runners[r] EXCEPT !.dir = @ \cup {e}])
<1> DEFINE missing == (1 .. limit.work) \ {e.n : e \in runners[r].dir}
<1>1. PICK kind \in Kinds :
        Update(r, [runners[r] EXCEPT !.dir = @ \cup {[n |-> Min(missing), kind |-> kind]}])
  BY DEF Work
<1>0. limit.work \in Nat
  BY TypeFacts DEF Inv, RunnerLimit
<1>2. missing # {} /\ missing \in SUBSET Nat
  BY <1>0 DEF Work
<1>3. Min(missing) \in Nat
  BY <1>2, LeastNumber
<1> HIDE DEF missing
<1> DEFINE e == [n |-> Min(missing), kind |-> kind]
           n == [runners[r] EXCEPT !.dir = @ \cup {e}]
<1>4. e \in Entries
  BY <1>3 DEF Entries
<1>5. Update(r, n)
  BY <1>1
<1> HIDE DEF e
<1>6. runners[r] \in RunnerType /\ runners[r].result = {}
  BY NoResultYet DEF Work, Runs
<1>7. n \in RunnerType
  BY <1>4, <1>6 DEF RunnerType
<1>8. /\ n.job = runners[r].job /\ n.attempt = runners[r].attempt
      /\ n.ordinal = runners[r].ordinal /\ n.result = {}
  BY <1>6 DEF RunnerType
<1> HIDE DEF n
<1>9. RunnerWrites(r, n)
  BY <1>5, <1>6, <1>7, <1>8 DEF RunnerWrites
<1> QED BY <1>4, <1>9 DEF n

\* A tick counts the checkpoint.
LEMMA TickWrites ==
  ASSUME Inv, NEW r \in DOMAIN runners, Tick(r)
  PROVE  RunnerWrites(r, [runners[r] EXCEPT !.seq = @ + 1])
<1> DEFINE n == [runners[r] EXCEPT !.seq = @ + 1]
<1>1. runners[r] \in RunnerType /\ runners[r].result = {}
  BY NoResultYet DEF Tick, Runs
<1>2. runners[r].seq + 1 \in Nat
  BY <1>1 DEF RunnerType
<1>3. n \in RunnerType
  BY <1>1, <1>2 DEF RunnerType
<1>4. /\ n.job = runners[r].job /\ n.attempt = runners[r].attempt
      /\ n.ordinal = runners[r].ordinal /\ n.result = {}
  BY <1>1 DEF RunnerType
<1>5. Update(r, n)
  BY DEF Tick
<1> HIDE DEF n
<1>6. RunnerWrites(r, n)
  BY <1>1, <1>3, <1>4, <1>5 DEF RunnerWrites
<1> QED BY <1>6 DEF n

\* The process ends, with a code of its own only if it exited.
LEMMA EndWrites ==
  ASSUME Inv, NEW r \in DOMAIN runners, ProcessEnds(r)
  PROVE  \E n \in RunnerType : n.pc = "ended" /\ RunnerWrites(r, n)
<1>1. PICK end \in limit.ends :
        Update(r, [runners[r] EXCEPT !.pc = "ended", !.dir = {}, !.seq = 0,
                                     !.result = {ExitToResult(end)}])
  BY DEF ProcessEnds
<1> DEFINE x == ExitToResult(end)
           n == [runners[r] EXCEPT !.pc = "ended", !.dir = {}, !.seq = 0, !.result = {x}]
<1>2. end \in Ends
  BY TypeFacts DEF Inv, RunnerLimit
<1>3. x \in Results /\ (x.code # -1 => x.signal = 0)
  BY <1>2, ExitCodes
<1>4. Update(r, n)
  BY <1>1
<1> HIDE DEF x
<1>5. runners[r] \in RunnerType /\ runners[r].result = {}
  BY NoResultYet DEF ProcessEnds, Runs
<1>6. n \in RunnerType
  BY <1>3, <1>5 DEF RunnerType
<1>7. /\ n.job = runners[r].job /\ n.attempt = runners[r].attempt
      /\ n.ordinal = runners[r].ordinal /\ n.result = {x} /\ n.pc = "ended"
  BY <1>5 DEF RunnerType
<1> HIDE DEF n
<1>8. RunnerWrites(r, n)
  BY <1>3, <1>4, <1>5, <1>6, <1>7 DEF RunnerWrites
<1> QED BY <1>6, <1>7, <1>8

\* A checkpoint that is stored is that of a directory.
LEMMA StoredObjects ==
  ASSUME Inv, NEW r \in DOMAIN runners, CreateCheckpoint(r)
  PROVE  objects' \subseteq ObjectType
<1> DEFINE me == runners[r]
           new == {[job |-> me.job, ordinal |-> me.ordinal, seq |-> me.seq, content |-> content] :
                     content \in CreateArchive(me.dir)}
<1>1. me \in RunnerType
  BY TypeFacts DEF Inv
<1>2. \A content \in CreateArchive(me.dir) : content \subseteq Entries
  BY <1>1 DEF CreateArchive, RunnerType
<1>3. new \subseteq ObjectType
  BY <1>1, <1>2 DEF ObjectType, RunnerType
<1>4. objects' = {c \in objects : \A d \in new : ~SameKey(c, d)} \cup new
  BY DEF CreateCheckpoint
<1> HIDE DEF new
<1> QED BY <1>3, <1>4 DEF Inv, TypeOK

\* The steps of runners keep Inv.
LEMMA RunnersInv ==
  ASSUME Inv, UNCHANGED limit, NEW r \in DOMAIN runners, RunnerSteps(r) \/ RunnerFails(r)
  PROVE  Inv'
<1>1. UNCHANGED <<operator, pods>>
  BY DEF RunnerSteps, RunnerFails
<1>2. faults' \in Nat
  <2>1. CASE faults' = faults
    BY <2>1 DEF Inv, TypeOK
  <2> QED BY <2>1, FaultCounts DEF RunnerSteps, RunnerFails
<1>3. objects' \subseteq ObjectType
  <2>1. CASE objects' = objects
    BY <2>1 DEF Inv, TypeOK
  <2>2. CASE CreateCheckpoint(r)
    BY <2>2, StoredObjects
  <2> QED BY <2>1, <2>2 DEF RunnerSteps, RunnerFails, RestoreCheckpoint, RestoreFails, Work,
                            CheckpointFails, ProcessEnds
<1>4. \E n : RunnerWrites(r, n)
  <2>1. CASE RestoreCheckpoint(r)
    BY <2>1, RestoredEntries, StartedWrites DEF RestoreCheckpoint
  <2>2. CASE RestoreFails(r)
    <3>1. PICK part \in SUBSET UNION {ExtractArchive(c.content) :
                                        c \in LatestCheckpoint(runners[r].job)} :
            Started(r, part)
      BY <2>2 DEF RestoreFails
    <3>2. part \in SUBSET Entries
      BY RestoredEntries
    <3> QED BY <2>2, <3>1, <3>2, StartedWrites DEF RestoreFails
  <2>3. CASE Work(r)
    BY <2>3, WorkWrites
  <2>4. CASE Tick(r)
    BY <2>4, TickWrites
  <2>5. CASE ProcessEnds(r)
    BY <2>5, EndWrites
  <2> QED BY <2>1, <2>2, <2>3, <2>4, <2>5
          DEF RunnerSteps, RunnerFails, CreateCheckpoint, CheckpointFails
<1>5. PICK n : RunnerWrites(r, n)
  BY <1>4
<1> QED BY <1>1, <1>2, <1>3, <1>5, RunnerMoves DEF RunnerWrites


-----------------------------------------------------------------------------

\* Every step keeps Inv.
LEMMA NextInv == Inv /\ [Next]_vars => Inv'
<1> SUFFICES ASSUME Inv, [Next]_vars PROVE Inv'
  OBVIOUS
<1>1. CASE UNCHANGED vars
  <2>1. UNCHANGED <<job, attempts, envelopes, held, fin, passed, lastJob, lastAttempt, pods,
                    faults, objects, runners, limit>>
    BY <1>1 DEF vars, operator, runnerVars
  <2>2. TypeOK' /\ JobShape'
    BY <2>1 DEF Inv, TypeOK, JobShape
  <2>3. Persists /\ RunnerShape'
    BY <2>1, SameRunners, TypeFacts DEF Inv
  <2> QED BY <2>1, <2>2, <2>3, RecordsStay DEF Inv
<1>2. CASE Next
  <2>1. UNCHANGED limit
    BY <1>2 DEF Next
  <2>2. CASE CreateJob \/ StartAttempt \/ AdoptPod
    BY <2>1, <2>2, CreateJobInv, StartAttemptInv, AdoptPodInv
  <2>3. CASE FailOnOwnership \/ ReportRunning \/ FinishJob
    BY <2>1, <2>3, StatusInv
  <2>4. CASE ObservePod
    BY <2>1, <2>4, ObservePodInv
  <2>5. CASE DeliverResult \/ ApplyResult
    BY <2>1, <2>5, DeliverResultInv, ApplyResultInv
  <2>6. CASE EditJob \/ Cancel \/ DeleteJob \/ ExpireJob
    BY <2>1, <2>6, EditsInv, DeletionInv
  <2>7. CASE DeadlinePasses \/ TimeOut
    BY <2>1, <2>7, DeadlinePassesInv, TimeOutInv
  <2>8. CASE CollectAttempt \/ CollectPod
    BY <2>1, <2>8, AttemptGoesInv, PodStepsInv
  <2>9. CASE HandleFinalization
    BY <2>1, <2>9, FinalizerInv, DeletePodInv, AttemptGoesInv, SaveJobInv DEF HandleFinalization
  <2>10. ASSUME NEW r \in DOMAIN runners,
                RunnerSteps(r) \/ RunnerFails(r) \/ SubmitResult(r) \/ PodEnds(r) \/ LosePod(r)
         PROVE  Inv'
    BY <2>1, <2>10, RunnersInv, SubmitResultInv, PodStepsInv
  <2> QED BY <1>2, <2>2, <2>3, <2>4, <2>5, <2>6, <2>7, <2>8, <2>9, <2>10 DEF Next
<1> QED BY <1>1, <1>2

\* Inv is inductive.
THEOREM Invariance == Spec => []Inv
BY InitInv, NextInv, PTL DEF Spec

\* Every variable keeps its type; in particular no attempt gets an ordinal beyond
\* maxAttempts.
THEOREM TypeCorrect == Spec => []TypeOK
<1>1. Inv => TypeOK
  BY DEF Inv
<1> QED BY <1>1, Invariance, PTL

\* The exit code of an attempt is the one its own process ended with, or one of the pod it
\* has recorded, whatever results arrive late, repeated or from a job that is gone
\* (ValidateFencing).
THEOREM Fencing == Spec => []ResultsAreFenced
<1>1. Inv => ResultsAreFenced
  <2> SUFFICES ASSUME Inv, NEW o \in Ordinals, NEW code \in attempts[o].exit
               PROVE  \/ code \in pods[attempts[o].pod].exit
                      \/ \E r \in DOMAIN runners :
                           runners[r].attempt = attempts[o].uid /\ EndedWith(r, code)
    BY DEF ResultsAreFenced
  <2>1. attempts[o].uid # 0
    BY Nothing DEF Inv, AttemptsAccounted, Accounted
  <2> QED BY <2>1, AccountedFor DEF EndIsTrue, OwnProcess
<1> QED BY <1>1, Invariance, PTL

\* A job is Complete only if a process of its last attempt exited with 0, one of that very
\* job or in a pod it has adopted.
THEOREM CompleteJobs == Spec => []CompleteMeansRan
<1>1. Inv => CompleteMeansRan
  BY DEF Inv
<1> QED BY <1>1, Invariance, PTL

\* A process that was killed is never booked as an error of the user's.
THEOREM Classification == Spec => []KilledIsNotUserError
<1>1. Inv => KilledIsNotUserError
  <2> SUFFICES ASSUME Inv, NEW o \in Ordinals, attempts[o].category = "User"
               PROVE  \E r \in DOMAIN runners :
                        /\ runners[r].attempt = attempts[o].uid
                        /\ \E result \in runners[r].result : result.signal = 0
    BY DEF KilledIsNotUserError
  <2>1. attempts[o].uid # 0
    BY Nothing DEF Inv, AttemptsAccounted, Accounted
  <2> QED BY <2>1, AccountedFor DEF EndIsTrue, OwnProcess
<1> QED BY <1>1, Invariance, PTL

\* The attempts of a job that has one satisfy ValidateSnapshot, in whichever order attempts
\* are opened, deleted and collected.
THEOREM ValidSnapshots == Spec => []SnapshotsAreValid
<1>1. Inv => SnapshotsAreValid
  <2> SUFFICES ASSUME Inv, job.active # 0 PROVE ValidateSnapshot(job.uid, Stored)
    BY DEF SnapshotsAreValid
  <2>1. ASSUME NEW a \in Stored
        PROVE  /\ a.ordinal \in Ordinals /\ a = attempts[a.ordinal] /\ a.job = job.uid
               /\ ~IsTerminal(a) => a.ordinal = job.active
    <3>1. PICK o \in Ordinals : attempts[o].uid # 0 /\ a = attempts[o]
      BY DEF Stored
    <3> QED BY <3>1, AccountedFor
  <2> QED BY <2>1 DEF ValidateSnapshot
<1> QED BY <1>1, Invariance, PTL

-----------------------------------------------------------------------------
(* The outcome of a job.                                                    *)

\* Steps that open no attempt and leave the runners alone.
OtherSteps ==
  \/ FailOnOwnership \/ ReportRunning \/ ObservePod \/ FinishJob \/ DeliverResult \/ ApplyResult
  \/ EditJob \/ DeleteJob \/ Cancel \/ DeadlinePasses \/ TimeOut \/ ExpireJob
  \/ CollectAttempt \/ CollectPod \/ HandleFinalization
  \/ \E r \in DOMAIN runners : SubmitResult(r) \/ PodEnds(r) \/ LosePod(r)

\* Every step is one of these.
LEMMA Steps ==
  ASSUME [Next]_vars
  PROVE  \/ UNCHANGED vars \/ CreateJob \/ StartAttempt \/ AdoptPod \/ OtherSteps
         \/ \E r \in DOMAIN runners : RunnerSteps(r) \/ RunnerFails(r)
BY DEF Next, OtherSteps

\* An attempt that is written keeps its number; the active one is removed only in a job
\* that is being deleted.
LEMMA ActiveStays ==
  ASSUME Inv, UNCHANGED job,
         ObservePod \/ ApplyResult \/ TimeOut \/ CollectAttempt \/ DeleteAttempt
  PROVE  job.deleting \/ Active'.uid = Active.uid
<1>1. attempts \in [Ordinals -> AttemptType] /\ job.active \in 0 .. MaxAttempts
  BY TypeFacts DEF Inv, TypeOK
<1>2. job.active # 0 => job.active \in Ordinals /\ Active = attempts[job.active]
                        /\ Active' = attempts'[job.active]
  BY <1>1, TypeFacts DEF Active, Ordinals, Inv
<1>3. job.active = 0 => Active' = Active
  BY DEF Active
<1>4. ASSUME NEW o \in Ordinals, NEW a, attempts' = [attempts EXCEPT ![o] = a],
             a.uid = attempts[o].uid
      PROVE  Active'.uid = Active.uid
  BY <1>1, <1>2, <1>3, <1>4
<1>5. CASE UNCHANGED attempts
  BY <1>2, <1>3, <1>5
<1>6. CASE ObservePod
  <2> DEFINE a == Observed(Active, pods[Active.pod])
  <2>1. /\ job.active \in Ordinals /\ Active = attempts[job.active]
        /\ attempts[job.active] \in AttemptType
    BY <1>1, <1>6, ActiveAttempt DEF ObservePod
  <2>2. attempts' = [attempts EXCEPT ![job.active] = a]
    BY <1>6 DEF ObservePod
  <2>3. a.uid = attempts[job.active].uid
    BY <2>1 DEF Observed, AttemptType
  <2> HIDE DEF a
  <2> QED BY <1>4, <2>1, <2>2, <2>3
<1>7. CASE ApplyResult
  <2>1. PICK h \in held :
          \/ UNCHANGED attempts
          \/ /\ h.job.active # 0
             /\ attempts' = [attempts EXCEPT ![h.job.active] =
                               ReconcileResult(attempts[h.job.active], h.envelope)]
    BY <1>7 DEF ApplyResult
  <2>2. CASE h.job.active # 0
    <3>1. h.job.active \in 0 .. MaxAttempts
      BY DEF Inv, TypeOK, FencedType
    <3>2. h.job.active \in Ordinals
      BY <2>2, <3>1, BoundsAssumption DEF Ordinals
    <3>3. ReconcileResult(attempts[h.job.active], h.envelope).uid = attempts[h.job.active].uid
      BY <1>1, <3>2 DEF ReconcileResult, AttemptType
    <3> QED BY <1>4, <1>5, <2>1, <3>2, <3>3
  <2> QED BY <1>5, <2>1, <2>2
<1>8. CASE TimeOut
  <2>1. \/ UNCHANGED attempts
        \/ /\ Active.uid # 0
           /\ attempts' = [attempts EXCEPT ![job.active] =
                [attempts[job.active] EXCEPT !.conds = {"Failed"}, !.category = "Timeout"]]
    BY <1>8 DEF TimeOut, CheckDeadline
  <2>2. CASE Active.uid # 0
    <3>1. job.active \in Ordinals /\ attempts[job.active] \in AttemptType
      BY <1>1, <2>2, ActiveAttempt
    <3>2. [attempts[job.active] EXCEPT !.conds = {"Failed"}, !.category = "Timeout"].uid
            = attempts[job.active].uid
      BY <3>1 DEF AttemptType
    <3> QED BY <1>4, <1>5, <2>1, <3>1, <3>2
  <2> QED BY <1>5, <2>1, <2>2
<1>9. CASE CollectAttempt
  <2>1. PICK o \in Ordinals : /\ attempts[o].uid # 0 /\ attempts[o].job # job.uid
                              /\ attempts' = [attempts EXCEPT ![o] = NoAttempt]
    BY <1>9 DEF CollectAttempt
  <2>2. job.active = 0
    BY <2>1, AccountedFor
  <2> QED BY <1>3, <2>2
<1>10. CASE DeleteAttempt
  BY <1>10 DEF DeleteAttempt, Inv, JobShape
<1> QED BY <1>6, <1>7, <1>8, <1>9, <1>10

\* A step that writes the status, the spec or the mark of deletion of the job leaves its
\* identity, its active attempt and its outcome, if it has one, as they are.
LEMMA JobStays ==
  ASSUME Inv, ~JobGone,
         FailOnOwnership \/ ReportRunning \/ FinishJob \/ EditJob \/ DeleteJob \/ Cancel
           \/ TimeOut \/ ExpireJob \/ SaveJob
  PROVE  /\ job'.uid = job.uid /\ job'.active = job.active
         /\ job.deleting => job'.deleting
         /\ IsTerminal(job) => job'.conds = job.conds /\ job'.reason = job.reason
<1>1. job \in JobType
  BY DEF Inv, TypeOK
<1>2. CASE UNCHANGED job
  BY <1>2
<1>3. CASE EditJob \/ DeleteJob \/ ExpireJob
  <2>1. \/ job' = [job EXCEPT !.cancel = TRUE]
        \/ \E max : job' = [job EXCEPT !.max = max]
        \/ job' = [job EXCEPT !.deleting = TRUE]
    BY <1>3 DEF EditJob, DeleteJob, ExpireJob, MarkDeleted
  <2> QED BY <1>1, <2>1 DEF JobType
<1>4. ASSUME NEW j \in JobType, NEW cond \in Conditions, NEW reason \in Reasons,
             job' = TrySetJobTerminal(j, cond, reason),
             j.uid = job.uid, j.active = job.active, j.deleting = job.deleting,
             IsTerminal(job) => IsTerminal(j) /\ j.conds = job.conds /\ j.reason = job.reason
      PROVE  /\ job'.uid = job.uid /\ job'.active = job.active
             /\ job.deleting => job'.deleting
             /\ IsTerminal(job) => job'.conds = job.conds /\ job'.reason = job.reason
  BY <1>4, SetTerminal
<1>5. CASE Cancel
  <2>1. job' = TrySetJobTerminal(job, "Failed", "Cancelled")
    BY <1>5 DEF Cancel, HandleCancel
  <2> QED BY <1>1, <1>4, <2>1 DEF Conditions, Reasons
<1>6. CASE TimeOut
  <2>1. job' = job \/ job' = TrySetJobTerminal(job, "Failed", "DeadlineExceeded")
    BY <1>6 DEF TimeOut
  <2> QED BY <1>1, <1>2, <1>4, <2>1 DEF Conditions, Reasons
<1> DEFINE hashed == [job EXCEPT !.hash = ComputeSpecHash(job)]
<1>7. /\ hashed \in JobType /\ hashed.uid = job.uid /\ hashed.active = job.active
      /\ hashed.deleting = job.deleting /\ hashed.failed = job.failed
      /\ hashed.conds = job.conds /\ hashed.reason = job.reason
  BY <1>1, HashedJob
<1>8. CASE FailOnOwnership
  <2>1. job' = TrySetJobTerminal(hashed, "Failed", "OwnershipViolation") /\ ~IsTerminal(job)
    BY <1>8 DEF FailOnOwnership
  <2> HIDE DEF hashed
  <2> QED BY <1>4, <1>7, <2>1 DEF Conditions, Reasons
<1>9. CASE ReportRunning
  <2>1. job' = [job EXCEPT !.started = TRUE, !.hash = ComputeSpecHash(job)]
    BY <1>9 DEF ReportRunning
  <2> QED BY <1>1, <2>1 DEF JobType
<1>10. CASE FinishJob
  <2> DEFINE failed == [hashed EXCEPT !.failed = @ + 1]
  <2>1. /\ \/ job' = TrySetJobTerminal(hashed, "Complete", "Succeeded")
           \/ job' = TrySetJobTerminal(failed, "Failed", "RetriesExhausted")
        /\ ~IsTerminal(job)
    BY <1>10 DEF FinishJob, Reconciles
  <2>2. job.failed + 1 \in 0 .. MaxAttempts
    BY <1>1, <2>1, TypeFacts DEF Inv, JobShape, JobType
  <2> HIDE DEF hashed
  <2>3. /\ failed \in JobType /\ failed.uid = job.uid /\ failed.active = job.active
        /\ failed.deleting = job.deleting
    BY <1>7, <2>2 DEF JobType
  <2> HIDE DEF failed
  <2> QED BY <1>4, <1>7, <2>1, <2>3 DEF Conditions, Reasons
<1>11. CASE SaveJob
  BY <1>2, <1>11 DEF SaveJob
<1> QED BY <1>3, <1>5, <1>6, <1>8, <1>9, <1>10, <1>11

\* What the other steps leave as it is: the runners and, unless the job goes, its identity,
\* its outcome and, unless it is being deleted, its active attempt.
LEMMA OtherStepsKeep ==
  ASSUME Inv, OtherSteps
  PROVE  /\ UNCHANGED <<runners, objects, lastJob>>
         /\ \/ JobGone
            \/ /\ job'.uid = job.uid /\ job'.active = job.active
               /\ job.deleting => job'.deleting
               /\ job.deleting \/ Active'.uid = Active.uid
               /\ IsTerminal(job) => job'.conds = job.conds /\ job'.reason = job.reason
<1>1. UNCHANGED <<runners, objects, lastJob>>
  BY DEF OtherSteps, FailOnOwnership, ReportRunning, ObservePod, FinishJob, DeliverResult,
         ApplyResult, EditJob, DeleteJob, Cancel, DeadlinePasses, TimeOut, ExpireJob,
         CollectAttempt, CollectPod, HandleFinalization, ListPods, DeletePod, ListAttempts,
         DeleteAttempt, RemoveFinalizer, SaveJob, FinalizationFails, SubmitResult, PodEnds,
         LosePod, runnerVars, operator
<1>2. CASE UNCHANGED <<job, attempts>>
  BY <1>1, <1>2 DEF Active
<1>3. CASE UNCHANGED attempts /\ (FailOnOwnership \/ ReportRunning \/ FinishJob \/ EditJob
             \/ DeleteJob \/ Cancel \/ TimeOut \/ ExpireJob \/ SaveJob)
  <2>1. CASE JobGone
    BY <1>1, <2>1
  <2>2. CASE ~JobGone
    <3>1. /\ job'.uid = job.uid /\ job'.active = job.active
          /\ job.deleting => job'.deleting
          /\ IsTerminal(job) => job'.conds = job.conds /\ job'.reason = job.reason
      BY <1>3, <2>2, JobStays
    <3>2. Active' = Active
      BY <1>3, <3>1 DEF Active
    <3> QED BY <1>1, <3>1, <3>2
  <2> QED BY <2>1, <2>2
<1>4. CASE UNCHANGED job /\ (ObservePod \/ ApplyResult \/ TimeOut \/ CollectAttempt
                               \/ DeleteAttempt)
  BY <1>1, <1>4, ActiveStays
<1>5. \/ UNCHANGED <<job, attempts>>
      \/ UNCHANGED attempts /\ (FailOnOwnership \/ ReportRunning \/ FinishJob \/ EditJob
           \/ DeleteJob \/ Cancel \/ TimeOut \/ ExpireJob \/ SaveJob)
      \/ UNCHANGED job /\ (ObservePod \/ ApplyResult \/ TimeOut \/ CollectAttempt \/ DeleteAttempt)
  BY DEF OtherSteps, FailOnOwnership, ReportRunning, ObservePod, FinishJob, DeliverResult,
         ApplyResult, EditJob, DeleteJob, Cancel, DeadlinePasses, TimeOut, ExpireJob,
         CollectAttempt, CollectPod, HandleFinalization, ListPods, DeletePod, ListAttempts,
         DeleteAttempt, RemoveFinalizer, SaveJob, FinalizationFails, SubmitResult, PodEnds,
         LosePod, operator
<1> QED BY <1>2, <1>3, <1>4, <1>5

\* The outcome of a job is settled once, whoever comes first.
THEOREM SettledOnce == Spec => OutcomeIsSettledOnce
<1>1. Inv /\ [Next]_vars =>
        [IsTerminal(job) /\ job'.uid = job.uid
           => job'.conds = job.conds /\ job'.reason = job.reason]_vars
  <2> SUFFICES ASSUME Inv, [Next]_vars, IsTerminal(job), job'.uid = job.uid
               PROVE  job'.conds = job.conds /\ job'.reason = job.reason
    OBVIOUS
  <2>1. job.uid # 0
    BY Nothing DEF Inv, JobShape, IsTerminal
  <2>2. CASE UNCHANGED vars \/ \E r \in DOMAIN runners : RunnerSteps(r) \/ RunnerFails(r)
    <3>1. job' = job
      BY <2>2 DEF vars, operator, RunnerSteps, RunnerFails
    <3> QED BY <3>1
  <2>3. CASE CreateJob
    BY <2>1, <2>3 DEF CreateJob
  <2>4. CASE StartAttempt \/ AdoptPod
    BY <2>4 DEF StartAttempt, AdoptPod, OpenAttempt, Reconciles
  <2>5. CASE OtherSteps
    <3>1. ~JobGone
      BY <2>1, Nothing DEF JobGone
    <3> QED BY <2>5, <3>1, OtherStepsKeep
  <2> QED BY <2>2, <2>3, <2>4, <2>5, Steps
<1> QED BY <1>1, Invariance, PTL DEF Spec, OutcomeIsSettledOnce

-----------------------------------------------------------------------------
(* Checkpoints.                                                             *)

\* Nothing that RestoreInv is about has changed.
LEMMA RestoreKept ==
  ASSUME Inv, RestoreInv, UNCHANGED <<runners, objects, lastJob>>,
         job'.uid = job.uid, job'.active = job.active, job.deleting => job'.deleting,
         job.deleting \/ Active'.uid = Active.uid
  PROVE  RestoreInv'
<1>1. OneRunnerPerOrdinal'
  <2> SUFFICES ASSUME job.uid # 0, ~job'.deleting
               PROVE  /\ job'.active # 0 => Active'.uid # 0
                      /\ \A r \in DOMAIN runners : runners[r].job = job.uid =>
                           /\ runners[r].ordinal \in 1 .. job.active
                           /\ \A s \in DOMAIN runners :
                                runners[s].job = job.uid /\ runners[s].ordinal = runners[r].ordinal
                                  => s = r
    BY DEF OneRunnerPerOrdinal
  <2>1. ASSUME job.active # 0 PROVE Active'.uid # 0
    BY <2>1 DEF RestoreInv, OneRunnerPerOrdinal
  <2> QED BY <2>1 DEF RestoreInv, OneRunnerPerOrdinal
<1>2. CheckpointsGrow'
  <2>1. \A c \in objects : \A r \in DOMAIN runners : UploadedBy(c, r) => UploadedBy(c, r)'
    BY DEF UploadedBy
  <2>2. \A d \in objects : LastOfAttempt(d) => LastOfAttempt(d)'
    BY DEF LastOfAttempt
  <2>3. ASSUME NEW c \in objects
        PROVE  /\ c.job \in 1 .. lastJob
               /\ c.job = job.uid /\ ~job'.deleting =>
                    /\ \E r \in DOMAIN runners : UploadedBy(c, r)'
                    /\ \E d \in objects : d.job = c.job /\ d.ordinal = c.ordinal /\ LastOfAttempt(d)'
    BY <2>1, <2>2 DEF RestoreInv, CheckpointsGrow
  <2> QED BY <2>3 DEF CheckpointsGrow
<1> QED BY <1>1, <1>2 DEF RestoreInv

\* There are no runners or checkpoints of a job that is only just created.
LEMMA CreateJobRestore ==
  ASSUME Inv, RestoreInv, CreateJob
  PROVE  RestoreInv'
<1>1. /\ UNCHANGED <<runners, objects>> /\ lastJob \in Nat /\ lastJob' = lastJob + 1
  BY DEF CreateJob, runnerVars, Inv, TypeOK
<1>2. job'.uid = lastJob + 1 /\ job'.active = 0
  BY Nothing DEF CreateJob, NoJob
<1>3. \A r \in DOMAIN runners : runners[r].job \in 1 .. lastJob
  BY DEF Inv, RunnerShape
<1>4. \A c \in objects : c.job \in 1 .. lastJob
  BY DEF RestoreInv, CheckpointsGrow
<1>5. OneRunnerPerOrdinal'
  BY <1>1, <1>2, <1>3 DEF OneRunnerPerOrdinal
<1>6. CheckpointsGrow'
  BY <1>1, <1>2, <1>4 DEF CheckpointsGrow
<1> QED BY <1>5, <1>6 DEF RestoreInv

\* A job that is gone has no runners to speak of.
LEMMA JobGoneRestore ==
  ASSUME Inv, RestoreInv, JobGone, UNCHANGED <<runners, objects, lastJob>>
  PROVE  RestoreInv'
<1>1. job'.uid = 0
  BY Nothing DEF JobGone
<1>2. \A c \in objects : c.job \in 1 .. lastJob
  BY DEF RestoreInv, CheckpointsGrow
<1>3. OneRunnerPerOrdinal'
  BY <1>1 DEF OneRunnerPerOrdinal
<1>4. CheckpointsGrow'
  BY <1>1, <1>2 DEF CheckpointsGrow
<1> QED BY <1>3, <1>4 DEF RestoreInv

\* A new attempt has a new ordinal, unless attempts of its job were deleted; its runner, if
\* one is started for it, is the only one of that ordinal.
LEMMA OpensRestore ==
  ASSUME Inv, RestoreInv, NEW r \in Nat, NEW adopted \in SUBSET Nat, OpenAttempt(r, adopted),
         \A s \in DOMAIN runners : s \in DOMAIN runners' /\ runners'[s] = runners[s],
         \A s \in DOMAIN runners' : \/ s \in DOMAIN runners
                                    \/ /\ s = r /\ runners'[s].job = job.uid
                                       /\ runners'[s].ordinal = NextOrdinal
  PROVE  RestoreInv'
<1> DEFINE o == NextOrdinal
<1>1. /\ o \in Ordinals /\ job.uid # 0
      /\ job'.uid = job.uid /\ job'.active = o /\ job'.deleting = job.deleting
      /\ Opened(r).uid = lastAttempt + 1
      /\ attempts' = [attempts EXCEPT ![o] = Opened(r)]
      /\ ~(job.active # 0 /\ Active.uid = 0) => o > job.active
  BY OpenedAttempt
<1>2. UNCHANGED <<objects, lastJob>> /\ lastAttempt \in Nat /\ job.active \in Nat /\ o \in Nat
  BY <1>1, TypeFacts DEF OpenAttempt, Inv, Ordinals
<1> HIDE DEF o
<1>3. OneRunnerPerOrdinal'
  <2> SUFFICES ASSUME ~job.deleting PROVE OneRunnerPerOrdinal'
    BY <1>1 DEF OneRunnerPerOrdinal
  <2>1. Active'.uid # 0
    <3>1. Active' = attempts'[o] /\ attempts'[o] = Opened(r)
      BY <1>1 DEF Active, Inv, TypeOK, Ordinals
    <3> QED BY <1>1, <1>2, <3>1
  <2>2. o > job.active
    BY <1>1 DEF RestoreInv, OneRunnerPerOrdinal
  <2>3. ASSUME NEW s \in DOMAIN runners, runners[s].job = job.uid
        PROVE  runners[s].ordinal \in 1 .. o /\ runners[s].ordinal # o
    <3>1. runners[s].ordinal \in 1 .. job.active
      BY <1>1, <2>3 DEF RestoreInv, OneRunnerPerOrdinal
    <3> QED BY <1>2, <2>2, <3>1
  <2>4. ASSUME NEW s \in DOMAIN runners', runners'[s].job = job.uid
        PROVE  /\ runners'[s].ordinal \in 1 .. o
               /\ \A t \in DOMAIN runners' :
                    runners'[t].job = job.uid /\ runners'[t].ordinal = runners'[s].ordinal => t = s
    <3>1. o \in 1 .. o
      BY <1>1, <1>2 DEF Ordinals
    <3>2. CASE s \in DOMAIN runners
      <4>1. runners[s].job = job.uid /\ runners'[s] = runners[s]
        BY <2>4, <3>2
      <4>2. ASSUME NEW t \in DOMAIN runners', runners'[t].job = job.uid,
                   runners'[t].ordinal = runners'[s].ordinal
            PROVE  t = s
        <5>1. t \in DOMAIN runners
          BY <2>3, <3>2, <4>1, <4>2 DEF o
        <5> QED BY <1>1, <3>2, <4>1, <4>2, <5>1 DEF RestoreInv, OneRunnerPerOrdinal
      <4> QED BY <2>3, <3>2, <4>1, <4>2
    <3>3. CASE s \notin DOMAIN runners
      <4>1. s = r /\ runners'[s].ordinal = o
        BY <3>3 DEF o
      <4>2. ASSUME NEW t \in DOMAIN runners', runners'[t].job = job.uid,
                   runners'[t].ordinal = o
            PROVE  t = s
        BY <2>3, <4>1, <4>2
      <4> QED BY <3>1, <4>1, <4>2
    <3> QED BY <3>2, <3>3
  <2> QED BY <1>1, <2>1, <2>4 DEF OneRunnerPerOrdinal
<1>4. CheckpointsGrow'
  <2>1. \A c \in objects : \A s \in DOMAIN runners :
           UploadedBy(c, s) => s \in DOMAIN runners' /\ UploadedBy(c, s)'
    BY DEF UploadedBy
  <2>2. \A d \in objects : LastOfAttempt(d) => LastOfAttempt(d)'
    BY <1>2 DEF LastOfAttempt
  <2>3. ASSUME NEW c \in objects
        PROVE  /\ c.job \in 1 .. lastJob
               /\ c.job = job.uid /\ ~job.deleting =>
                    /\ \E s \in DOMAIN runners' : UploadedBy(c, s)'
                    /\ \E d \in objects : d.job = c.job /\ d.ordinal = c.ordinal /\ LastOfAttempt(d)'
    BY <2>1, <2>2 DEF RestoreInv, CheckpointsGrow
  <2> QED BY <1>1, <1>2, <2>3 DEF CheckpointsGrow
<1> QED BY <1>3, <1>4 DEF RestoreInv

\* StartAttempt and AdoptPod open attempts in this way.
LEMMA StartsRestore ==
  ASSUME Inv, RestoreInv, StartAttempt \/ AdoptPod
  PROVE  RestoreInv'
<1>1. CASE StartAttempt
  <2> DEFINE r == Len(runners) + 1
  <2>1. /\ OpenAttempt(r, {}) /\ r \in Nat /\ {} \in SUBSET Nat
        /\ \A s \in DOMAIN runners : s \in DOMAIN runners' /\ runners'[s] = runners[s]
        /\ \A s \in DOMAIN runners' : \/ s \in DOMAIN runners
                                      \/ /\ s = r /\ runners'[s].job = job.uid
                                         /\ runners'[s].ordinal = NextOrdinal
    BY <1>1, StartedRunner
  <2> HIDE DEF r
  <2> QED BY <2>1, OpensRestore
<1>2. CASE AdoptPod
  <2>1. PICK r \in PodsNamed(NextOrdinal) : OpenAttempt(r, {r})
    BY <1>2 DEF AdoptPod
  <2>2. runners' = runners /\ r \in Nat /\ {r} \in SUBSET Nat
    BY <1>2, TypeFacts DEF AdoptPod, PodsNamed, Inv
  <2> QED BY <2>1, <2>2, OpensRestore
<1> QED BY <1>1, <1>2

\* What a runner has uploaded stays its own, with its directory and its count growing.
Grows(r, n) ==
  runners[r].pc # "restore" =>
    /\ n.pc # "restore"
    /\ n.pc = "run" => /\ runners[r].pc = "run"
                       /\ runners[r].seq <= n.seq
                       /\ runners[r].dir \subseteq n.dir

\* A runner that moves on keeps its ordinal and what it has uploaded.
LEMMA GrowsKeeps ==
  ASSUME Inv, RestoreInv, NEW r \in DOMAIN runners, NEW n, RunnerWrites(r, n), Grows(r, n),
         UNCHANGED <<operator>>
  PROVE  /\ OneRunnerPerOrdinal'
         /\ DOMAIN runners' = DOMAIN runners
         /\ \A c \in objects : \A s \in DOMAIN runners : UploadedBy(c, s) => UploadedBy(c, s)'
<1>1. /\ DOMAIN runners' = DOMAIN runners
      /\ \A s \in DOMAIN runners : runners'[s] = IF s = r THEN n ELSE runners[s]
  BY ExceptSeq DEF Inv, TypeOK, Update, RunnerWrites
<1>2. \A s \in DOMAIN runners : /\ runners'[s].job = runners[s].job
                                /\ runners'[s].ordinal = runners[s].ordinal
  BY <1>1 DEF RunnerWrites
<1>3. job' = job /\ Active' = Active
  BY DEF operator, Active
<1>4. OneRunnerPerOrdinal'
  BY <1>1, <1>2, <1>3 DEF RestoreInv, OneRunnerPerOrdinal
<1>5. ASSUME NEW c \in objects, NEW s \in DOMAIN runners, UploadedBy(c, s)
      PROVE  UploadedBy(c, s)'
  <2>1. c.seq \in Nat /\ runners[s].seq \in Nat
    BY TypeFacts DEF Inv, TypeOK, ObjectType, RunnerType
  <2>2. CASE s # r
    BY <1>1, <1>5, <2>2 DEF UploadedBy
  <2>3. CASE s = r
    <3>1. runners'[s] = n /\ n.seq \in Nat
      BY <1>1, <2>3 DEF RunnerWrites, RunnerType
    <3> QED BY <1>2, <1>5, <2>1, <2>3, <3>1 DEF UploadedBy, Grows
  <2> QED BY <2>2, <2>3
<1> QED BY <1>1, <1>4, <1>5

\* ... so a step that uploads nothing keeps RestoreInv.
LEMMA GrowsRestore ==
  ASSUME Inv, RestoreInv, NEW r \in DOMAIN runners, NEW n, RunnerWrites(r, n), Grows(r, n),
         UNCHANGED <<operator, objects>>
  PROVE  RestoreInv'
<1>1. /\ OneRunnerPerOrdinal' /\ DOMAIN runners' = DOMAIN runners
      /\ \A c \in objects : \A s \in DOMAIN runners : UploadedBy(c, s) => UploadedBy(c, s)'
  BY GrowsKeeps
<1>2. job' = job /\ lastJob' = lastJob
  BY DEF operator
<1>3. \A d \in objects : LastOfAttempt(d) => LastOfAttempt(d)'
  BY DEF LastOfAttempt
<1>4. ASSUME NEW c \in objects
      PROVE  /\ c.job \in 1 .. lastJob
             /\ c.job = job.uid /\ ~job.deleting =>
                  /\ \E s \in DOMAIN runners' : UploadedBy(c, s)'
                  /\ \E d \in objects : d.job = c.job /\ d.ordinal = c.ordinal /\ LastOfAttempt(d)'
  BY <1>1, <1>3 DEF RestoreInv, CheckpointsGrow
<1>5. CheckpointsGrow'
  BY <1>2, <1>4 DEF CheckpointsGrow
<1> QED BY <1>1, <1>5 DEF RestoreInv

\* The checkpoint that is uploaded is the last of its attempt.
LEMMA UploadRestore ==
  ASSUME Inv, RestoreInv, NEW r \in DOMAIN runners, CreateCheckpoint(r), UNCHANGED operator
  PROVE  RestoreInv'
<1> DEFINE me == runners[r]
           n == [me EXCEPT !.seq = @ + 1]
           new == {[job |-> me.job, ordinal |-> me.ordinal, seq |-> me.seq, content |-> content] :
                     content \in CreateArchive(me.dir)}
<1>1. RunnerWrites(r, n) /\ me \in RunnerType /\ me.pc = "run"
  BY TickWrites, TypeFacts DEF CreateCheckpoint, Tick, Runs, Inv
<1>2. n.seq = me.seq + 1 /\ n.dir = me.dir /\ n.pc = "run" /\ me.seq \in Nat
  BY <1>1 DEF RunnerType
<1>3. Grows(r, n)
  BY <1>1, <1>2 DEF Grows
<1>4. objects' = {c \in objects : \A d \in new : ~SameKey(c, d)} \cup new
  BY DEF CreateCheckpoint
<1>5. ASSUME NEW d \in new
      PROVE  /\ d.job = me.job /\ d.ordinal = me.ordinal /\ d.seq = me.seq
             /\ Files(d.content) = Files(me.dir)
             /\ new = {d}
  <2>1. CreateArchive(me.dir) = {{e \in me.dir : e.kind # "socket"}}
    BY <1>5 DEF CreateArchive
  <2>2. new = {[job |-> me.job, ordinal |-> me.ordinal, seq |-> me.seq,
                content |-> {e \in me.dir : e.kind # "socket"}]}
    BY <2>1
  <2>3. d = [job |-> me.job, ordinal |-> me.ordinal, seq |-> me.seq,
             content |-> {e \in me.dir : e.kind # "socket"}]
    BY <2>2
  <2>4. d.content = {e \in me.dir : e.kind # "socket"}
    BY <2>3
  <2>5. Files(d.content) = Files(me.dir)
    BY <2>4 DEF Files
  <2> QED BY <2>2, <2>3, <2>5
<1>6. /\ OneRunnerPerOrdinal' /\ DOMAIN runners' = DOMAIN runners
      /\ \A c \in objects : \A s \in DOMAIN runners : UploadedBy(c, s) => UploadedBy(c, s)'
  <2> HIDE DEF n, new
  <2> QED BY <1>1, <1>3, GrowsKeeps
<1>7. job' = job /\ lastJob' = lastJob /\ me.job \in 1 .. lastJob
  BY DEF operator, Inv, RunnerShape
<1>8. runners'[r] = n /\ n.job = me.job /\ n.ordinal = me.ordinal
  BY <1>1 DEF RunnerWrites, Update, Inv, TypeOK
<1> HIDE DEF n, new
<1>9. CASE new = {}
  <2>1. UNCHANGED <<operator, objects>>
    BY <1>4, <1>9
  <2> QED BY <1>1, <1>3, <2>1, GrowsRestore
<1>10. ASSUME NEW d \in new PROVE CheckpointsGrow'
  <2>0. /\ d.job = me.job /\ d.ordinal = me.ordinal /\ d.seq = me.seq
        /\ Files(d.content) = Files(me.dir) /\ new = {d}
    BY <1>5
  <2>1. d \in objects' /\ UploadedBy(d, r)'
    <3>1. Files(me.dir) \subseteq me.dir
      BY DEF Files
    <3> QED BY <1>2, <1>4, <1>8, <2>0, <3>1 DEF UploadedBy
  <2>2. ASSUME me.job = job.uid, ~job.deleting, NEW c \in objects, c.job = d.job, c.ordinal = d.ordinal
        PROVE  c.seq < d.seq /\ Files(c.content) \subseteq Files(d.content)
    <3>1. PICK s \in DOMAIN runners : UploadedBy(c, s)
      BY <2>0, <2>2 DEF RestoreInv, CheckpointsGrow
    <3>2. runners[s].job = job.uid /\ runners[s].ordinal = me.ordinal
      BY <2>0, <2>2, <3>1 DEF UploadedBy
    <3>3. job.uid # 0
      BY <1>7, <2>2 DEF Inv, TypeOK
    <3>4. s = r
      BY <2>2, <3>2, <3>3 DEF RestoreInv, OneRunnerPerOrdinal
    <3>5. c.seq < me.seq /\ Files(c.content) \subseteq me.dir
      BY <1>1, <3>1, <3>4 DEF UploadedBy
    <3> QED BY <2>0, <3>5 DEF Files
  <2>3. ASSUME me.job = job.uid, ~job.deleting
        PROVE  objects' = objects \cup {d}
    <3>1. \A c \in objects : ~SameKey(c, d)
      <4>1. \A c \in objects : c.seq \in Nat
        BY DEF Inv, TypeOK, ObjectType
      <4> QED BY <1>2, <2>0, <2>2, <2>3, <4>1 DEF SameKey
    <3> QED BY <1>4, <2>0, <3>1
  <2>4. ASSUME me.job # job.uid, NEW c, c.job = job.uid
        PROVE  c \in objects' <=> c \in objects
    BY <1>4, <2>0, <2>4 DEF SameKey
  <2>5. \A c \in objects' : c = d \/ c \in objects
    BY <1>4, <2>0
  <2>6. ASSUME NEW c \in objects' PROVE c.job \in 1 .. lastJob
    BY <1>7, <2>0, <2>5 DEF RestoreInv, CheckpointsGrow
  <2>7. ASSUME NEW c \in objects', c.job = job.uid, ~job.deleting
        PROVE  \E s \in DOMAIN runners' : UploadedBy(c, s)'
    <3>1. CASE c = d
      BY <1>6, <2>1, <3>1
    <3>2. CASE c \in objects
      <4>1. PICK s \in DOMAIN runners : UploadedBy(c, s)
        BY <2>7, <3>2 DEF RestoreInv, CheckpointsGrow
      <4> QED BY <1>6, <3>2, <4>1
    <3> QED BY <2>5, <3>1, <3>2
  <2>8. ASSUME NEW c \in objects', c.job = job.uid, ~job.deleting
        PROVE  \E e \in objects' : e.job = c.job /\ e.ordinal = c.ordinal /\ LastOfAttempt(e)'
    <3>1. CASE me.job = job.uid /\ c.ordinal = me.ordinal
      <4>1. ASSUME NEW b \in objects', b.job = d.job, b.ordinal = d.ordinal
            PROVE  b.seq <= d.seq /\ Files(b.content) \subseteq Files(d.content)
        <5>1. CASE b = d
          BY <1>2, <2>0, <5>1
        <5>2. CASE b \in objects
          <6>1. b.seq \in Nat
            BY <5>2 DEF Inv, TypeOK, ObjectType
          <6> QED BY <1>2, <2>0, <2>2, <2>8, <3>1, <4>1, <5>2, <6>1
        <5> QED BY <2>5, <5>1, <5>2
      <4>2. LastOfAttempt(d)'
        BY <4>1 DEF LastOfAttempt
      <4> QED BY <2>0, <2>1, <2>8, <3>1, <4>2
    <3>2. CASE me.job # job.uid \/ c.ordinal # me.ordinal
      <4>1. c \in objects
        BY <2>0, <2>5, <2>8, <3>2
      <4>2. PICK e \in objects : e.job = c.job /\ e.ordinal = c.ordinal /\ LastOfAttempt(e)
        BY <2>8, <4>1 DEF RestoreInv, CheckpointsGrow
      <4>3. e \in objects'
        BY <2>3, <2>4, <2>8, <4>2
      <4>4. ASSUME NEW b \in objects', b.job = e.job, b.ordinal = e.ordinal
            PROVE  b.seq <= e.seq /\ Files(b.content) \subseteq Files(e.content)
        <5>1. b \in objects
          BY <2>0, <2>5, <2>8, <3>2, <4>2, <4>4
        <5> QED BY <4>2, <4>4, <5>1 DEF LastOfAttempt
      <4>5. LastOfAttempt(e)'
        BY <4>4 DEF LastOfAttempt
      <4> QED BY <4>2, <4>3, <4>5
    <3> QED BY <3>1, <3>2
  <2> QED BY <1>7, <2>6, <2>7, <2>8 DEF CheckpointsGrow
<1> QED BY <1>6, <1>9, <1>10 DEF RestoreInv

\* The steps of runners keep RestoreInv.
LEMMA RunnersRestore ==
  ASSUME Inv, RestoreInv, NEW r \in DOMAIN runners, RunnerSteps(r) \/ RunnerFails(r)
  PROVE  RestoreInv'
<1>1. UNCHANGED operator
  BY DEF RunnerSteps, RunnerFails
<1>2. runners[r] \in RunnerType
  BY TypeFacts DEF Inv
<1>3. CASE CreateCheckpoint(r)
  BY <1>1, <1>3, UploadRestore
<1>4. CASE RestoreCheckpoint(r) \/ RestoreFails(r)
  <2>1. PICK dir \in SUBSET Entries : Started(r, dir)
    BY <1>4, RestoredEntries DEF RestoreCheckpoint, RestoreFails
  <2>2. runners[r].pc = "restore" /\ UNCHANGED objects
    BY <1>4 DEF RestoreCheckpoint, RestoreFails
  <2>3. RunnerWrites(r, [runners[r] EXCEPT !.pc = "run", !.dir = dir])
    BY <2>1, <2>2, StartedWrites
  <2>4. Grows(r, [runners[r] EXCEPT !.pc = "run", !.dir = dir])
    BY <2>2 DEF Grows
  <2> QED BY <1>1, <2>2, <2>3, <2>4, GrowsRestore
<1>5. CASE Work(r)
  <2>1. PICK e \in Entries : RunnerWrites(r, [runners[r] EXCEPT !.dir = @ \cup {e}])
    BY <1>5, WorkWrites
  <2> DEFINE n == [runners[r] EXCEPT !.dir = @ \cup {e}]
  <2>2. n.pc = "run" /\ n.seq = runners[r].seq /\ n.dir = runners[r].dir \cup {e}
        /\ runners[r].pc = "run" /\ runners[r].seq \in Nat
    BY <1>2, <1>5 DEF RunnerType, Work, Runs
  <2> HIDE DEF n
  <2>3. Grows(r, n)
    BY <2>2 DEF Grows
  <2>4. UNCHANGED objects
    BY <1>5 DEF Work
  <2> QED BY <1>1, <2>1, <2>3, <2>4, GrowsRestore DEF n
<1>6. CASE CheckpointFails(r)
  <2> DEFINE n == [runners[r] EXCEPT !.seq = @ + 1]
  <2>1. RunnerWrites(r, n) /\ UNCHANGED objects /\ runners[r].pc = "run"
    BY <1>6, TickWrites DEF CheckpointFails, Tick, Runs
  <2>2. n.pc = "run" /\ n.seq = runners[r].seq + 1 /\ n.dir = runners[r].dir
        /\ runners[r].seq \in Nat
    BY <1>2, <2>1 DEF RunnerType
  <2> HIDE DEF n
  <2>3. Grows(r, n)
    BY <2>1, <2>2 DEF Grows
  <2> QED BY <1>1, <2>1, <2>3, GrowsRestore
<1>7. CASE ProcessEnds(r)
  <2>1. PICK n \in RunnerType : n.pc = "ended" /\ RunnerWrites(r, n)
    BY <1>7, EndWrites
  <2>2. Grows(r, n) /\ UNCHANGED objects
    BY <1>7, <2>1 DEF Grows, ProcessEnds
  <2> QED BY <1>1, <2>1, <2>2, GrowsRestore
<1> QED BY <1>3, <1>4, <1>5, <1>6, <1>7 DEF RunnerSteps, RunnerFails

\* Every step keeps RestoreInv.
LEMMA NextRestore == Inv /\ RestoreInv /\ [Next]_vars => RestoreInv'
<1> SUFFICES ASSUME Inv, RestoreInv, [Next]_vars PROVE RestoreInv'
  OBVIOUS
<1>1. CASE UNCHANGED vars
  <2>1. UNCHANGED <<runners, objects, lastJob, job, attempts>>
    BY <1>1 DEF vars, operator, runnerVars
  <2>2. Active' = Active
    BY <2>1 DEF Active
  <2> QED BY <2>1, <2>2, RestoreKept
<1>2. CASE CreateJob
  BY <1>2, CreateJobRestore
<1>3. CASE StartAttempt \/ AdoptPod
  BY <1>3, StartsRestore
<1>4. CASE OtherSteps
  <2>1. CASE JobGone
    BY <1>4, <2>1, OtherStepsKeep, JobGoneRestore
  <2>2. CASE ~JobGone
    BY <1>4, <2>2, OtherStepsKeep, RestoreKept
  <2> QED BY <2>1, <2>2
<1>5. CASE \E r \in DOMAIN runners : RunnerSteps(r) \/ RunnerFails(r)
  BY <1>5, RunnersRestore
<1> QED BY <1>1, <1>2, <1>3, <1>4, <1>5, Steps

\* In a job nobody deletes every ordinal has one runner, whose checkpoints grow.
THEOREM Checkpointing == Spec => []RestoreInv
<1>1. Init => RestoreInv
  BY Nothing DEF Init, RestoreInv, OneRunnerPerOrdinal, CheckpointsGrow
<1> QED BY <1>1, NextRestore, Invariance, PTL DEF Spec

\* The latest checkpoint of the job that the active runner finds when it comes to restore
\* is the last of the attempt before it, if that one has any.
LEMMA LatestIsPredecessors ==
  ASSUME Inv, RestoreInv, NEW r \in DOMAIN runners, IsCurrent(r), runners[r].pc = "restore",
         NEW c \in objects, c.job = runners[r].job, c.ordinal = runners[r].ordinal - 1
  PROVE  \E d \in LatestCheckpoint(runners[r].job) : Files(c.content) \subseteq Files(d.content)
<1>1. Active.uid # 0 /\ Active.uid = runners[r].attempt /\ ~job.deleting
  BY TypeFacts DEF Inv, RunnerShape, IsCurrent
<1>2. job.active \in Ordinals /\ Active = attempts[job.active] /\ job.active # 0
  BY <1>1, ActiveAttempt, TypeFacts DEF Inv, Ordinals
<1>3. runners[r].job = job.uid /\ runners[r].ordinal = job.active /\ job.uid # 0
  <2>1. /\ Belongs(Active) /\ Active.ordinal = job.active /\ Active.job = job.uid
    BY <1>1, <1>2, AccountedFor
  <2>2. OwnProcess(Active, r)
    BY <1>1 DEF OwnProcess
  <2> QED BY <2>1, <2>2, TypeFacts DEF Belongs, Inv
<1>4. PICK d \in objects : d.job = c.job /\ d.ordinal = c.ordinal /\ LastOfAttempt(d)
  BY <1>1, <1>3 DEF RestoreInv, CheckpointsGrow
<1>5. Files(c.content) \subseteq Files(d.content)
  BY <1>4 DEF LastOfAttempt
<1>6. ASSUME NEW e \in objects, e.job = job.uid
      PROVE  e.ordinal < d.ordinal \/ (e.ordinal = d.ordinal /\ e.seq <= d.seq)
  <2>1. PICK s \in DOMAIN runners : UploadedBy(e, s)
    BY <1>1, <1>6 DEF RestoreInv, CheckpointsGrow
  <2>2. runners[s].job = job.uid /\ runners[s].ordinal = e.ordinal /\ runners[s].pc # "restore"
    BY <1>6, <2>1 DEF UploadedBy
  <2>3. e.ordinal \in 1 .. job.active
    BY <1>1, <1>3, <2>2 DEF RestoreInv, OneRunnerPerOrdinal
  <2>4. e.ordinal # job.active
    BY <1>1, <1>3, <2>2 DEF RestoreInv, OneRunnerPerOrdinal
  <2>5. d.ordinal = job.active - 1 /\ job.active \in Nat
    BY <1>2, <1>3, <1>4, BoundsAssumption DEF Ordinals
  <2>6. e.ordinal < d.ordinal \/ e.ordinal = d.ordinal
    BY <2>3, <2>4, <2>5
  <2>7. e.ordinal = d.ordinal => e.seq <= d.seq
    BY <1>3, <1>4, <1>6 DEF LastOfAttempt
  <2> QED BY <2>6, <2>7
<1>7. d \in LatestCheckpoint(runners[r].job)
  BY <1>3, <1>4, <1>6 DEF LatestCheckpoint
<1> QED BY <1>5, <1>7

\* Only RestoreCheckpoint takes a runner from its restore to its workload without a fault.
LEMMA OnlyRestoreStarts ==
  ASSUME Inv, [Next]_vars, NEW r \in DOMAIN runners,
         runners[r].pc = "restore", runners'[r].pc = "run", faults' = faults
  PROVE  RestoreCheckpoint(r)
<1>1. CASE runners' = runners
  BY <1>1
<1>2. CASE StartAttempt
  <2>1. PICK n : runners' = Append(runners, n)
    BY <1>2 DEF StartAttempt
  <2>2. runners'[r] = runners[r]
    BY <2>1 DEF Inv, TypeOK
  <2> QED BY <2>2
<1>3. ASSUME NEW s \in DOMAIN runners, RunnerSteps(s) \/ RunnerFails(s)
      PROVE  RestoreCheckpoint(r)
  <2>1. ~RunnerFails(s)
    <3>1. faults \in Nat
      BY DEF Inv, TypeOK
    <3> QED BY <3>1 DEF RunnerFails, Fault
  <2>2. \E n : Update(s, n)
    BY <1>3, <2>1 DEF RunnerSteps, RestoreCheckpoint, Started, Work, CreateCheckpoint, Tick,
                      ProcessEnds
  <2>3. s = r
    BY <2>2 DEF Update, Inv, TypeOK
  <2> QED BY <1>3, <2>1, <2>3 DEF RunnerSteps, Work, CreateCheckpoint, Tick, ProcessEnds, Runs
<1>4. \/ runners' = runners \/ StartAttempt
      \/ \E s \in DOMAIN runners : RunnerSteps(s) \/ RunnerFails(s)
  <2>1. CASE OtherSteps
    BY <2>1, OtherStepsKeep
  <2>2. CASE UNCHANGED vars \/ CreateJob \/ AdoptPod
    BY <2>2 DEF vars, runnerVars, CreateJob, AdoptPod
  <2> QED BY <2>1, <2>2, Steps
<1> QED BY <1>1, <1>2, <1>3, <1>4

\* A retry that restores brings back every file the attempt before it had uploaded,
\* with processes of replaced attempts still uploading beside it.
THEOREM Resumption == Spec => RestoreNeverRegresses
<1>1. Inv /\ RestoreInv /\ [Next]_vars =>
        [\A r \in DOMAIN runners :
           IsCurrent(r) /\ runners[r].pc = "restore" /\ runners'[r].pc = "run" /\ faults' = faults =>
             \A c \in objects : c.job = runners[r].job /\ c.ordinal = runners[r].ordinal - 1
               => Files(c.content) \subseteq runners'[r].dir]_vars
  <2> SUFFICES ASSUME Inv, RestoreInv, [Next]_vars, NEW r \in DOMAIN runners,
                      IsCurrent(r), runners[r].pc = "restore", runners'[r].pc = "run",
                      faults' = faults,
                      NEW c \in objects, c.job = runners[r].job,
                      c.ordinal = runners[r].ordinal - 1
               PROVE  Files(c.content) \subseteq runners'[r].dir
    OBVIOUS
  <2>1. PICK d \in LatestCheckpoint(runners[r].job) : Files(c.content) \subseteq Files(d.content)
    BY LatestIsPredecessors
  <2> DEFINE dir == UNION {ExtractArchive(b.content) : b \in LatestCheckpoint(runners[r].job)}
  <2>2. runners' = [runners EXCEPT ![r] = [runners[r] EXCEPT !.pc = "run", !.dir = dir]]
    BY OnlyRestoreStarts DEF RestoreCheckpoint, Started, Update
  <2>3. Files(d.content) \subseteq dir
    BY <2>1 DEF ExtractArchive
  <2> HIDE DEF dir
  <2>4. runners'[r].dir = dir
    BY <2>2, TypeFacts DEF Inv, TypeOK, RunnerType
  <2> QED BY <2>1, <2>3, <2>4
<1> QED BY <1>1, Invariance, Checkpointing, PTL DEF Spec, RestoreNeverRegresses
=============================================================================
