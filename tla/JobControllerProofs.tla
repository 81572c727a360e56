------------------------ MODULE JobControllerProofs ------------------------
(***************************************************************************)
(* The safety properties of JobController hold for every value of its      *)
(* bounds: any budget, any number of jobs under the name, of pods, of      *)
(* faults and any lag of the informers.                                    *)
(*                                                                         *)
(* The proof is by the invariant Inv.  Its heart is ReadsAreOld: a job or  *)
(* attempt the operator holds is an earlier version of the stored one, and *)
(* the two things it concludes from such a version -- this attempt is      *)
(* terminal, these failures are counted -- are never taken back while the  *)
(* job lives (OldStaysOld).                                                *)
(***************************************************************************)
EXTENDS JobController, TLAPS

\* A step takes back nothing that an earlier version of an object shows.
OldStaysOld ==
  /\ \A j \in Jobs : JobOld(j) => JobOld(j)'
  /\ \A o \in Ordinals, a \in Attempts : AttemptOld(o, a) => AttemptOld(o, a)'

\* A watch stream takes in the new content of its kind, or delivers its oldest
\* event to the cache, or rests.
Streams(stored1, events, cache) ==
  \/ UNCHANGED <<events, cache>>
  \/ events' = Append(events, stored1') /\ UNCHANGED cache
  \/ events # <<>> /\ cache' = Head(events) /\ events' = Tail(events)

-----------------------------------------------------------------------------
(* Sequences.                                                               *)

\* An element of a longer stream is the new one or was there before.
LEMMA AppendLemma ==
  ASSUME NEW S, NEW s \in Seq(S), NEW e \in S
  PROVE  /\ Append(s, e) \in Seq(S)
         /\ \A i \in 1 .. Len(Append(s, e)) :
              \/ Append(s, e)[i] = e
              \/ i \in 1 .. Len(s) /\ Append(s, e)[i] = s[i]
  OBVIOUS

\* The oldest event leaves a stream, and the others move up.
LEMMA TailLemma ==
  ASSUME NEW S, NEW s \in Seq(S), s # <<>>
  PROVE  /\ Head(s) \in S /\ 1 \in 1 .. Len(s) /\ Head(s) = s[1]
         /\ Tail(s) \in Seq(S)
         /\ \A i \in 1 .. Len(Tail(s)) : i + 1 \in 1 .. Len(s) /\ Tail(s)[i] = s[i + 1]
  OBVIOUS

-----------------------------------------------------------------------------
(* Types.                                                                   *)

\* The types of the fields of a job.
LEMMA JobFields ==
  ASSUME NEW j \in Jobs
  PROVE  /\ j.uid \in Nat /\ j.max \in Nat /\ j.max <= MaxBudget
         /\ j.failedAttempts \in Nat /\ j.completedAttempts \in Nat /\ j.active \in Nat
         /\ j.conds \subseteq Terminal /\ j.reason \in Reasons
<1>1. j.max \in 0 .. MaxBudget
  BY DEF Jobs
<1>2. j.max \in Nat /\ j.max <= MaxBudget
  BY <1>1, BudgetAssumption
<1> QED BY <1>2 DEF Jobs

\* The part of the type invariant most steps below need.
LEMMA TypeFacts ==
  ASSUME TypeOK
  PROVE  /\ job \in Jobs /\ jobCache \in Jobs /\ snapJob \in Jobs
         /\ jobEvents \in Seq(Jobs)
         /\ attempts \in [Ordinals -> Attempts] /\ attemptCache \in [Ordinals -> Attempts]
         /\ attempt \in Attempts
         /\ lastJobUID \in Nat
  BY DEF TypeOK

-----------------------------------------------------------------------------
(* What changes in the store, and that it takes nothing back.               *)

\* A cancel command is as it was, or where its next call puts it.
CommandMoves ==
  \/ UNCHANGED cli
  \/ cli' \in Commands /\ (cli'.pc # "idle" => cli'.ordinal \in Ordinals)

\* A step that stores neither a job nor an attempt.
LEMMA OldUnchanged ==
  ASSUME UNCHANGED <<job, attempts, lastJobUID>>
  PROVE  OldStaysOld
  BY DEF OldStaysOld, JobOld, AttemptOld, Live, IsAttemptTerminal

\* A write to the job keeps its UID and does not lower maxAttempts.
LEMMA OldJobWrite ==
  ASSUME TypeOK, job' \in Jobs, job'.uid = job.uid, job'.max >= job.max,
         UNCHANGED <<attempts, lastJobUID>>
  PROVE  OldStaysOld
<1>1. \A u : Live(u)' <=> Live(u)
  BY DEF Live
<1>2. \A m \in Nat : m <= job.max => m <= job'.max
  <2>1. job.max \in Nat /\ job'.max \in Nat
    BY TypeFacts, JobFields
  <2> QED BY <2>1
<1>3. \A j \in Jobs : JobOld(j) => JobOld(j)'
  BY <1>1, <1>2 DEF JobOld, Jobs
<1>4. \A o \in Ordinals, a \in Attempts : AttemptOld(o, a) => AttemptOld(o, a)'
  BY <1>1 DEF AttemptOld, IsAttemptTerminal
<1> QED BY <1>3, <1>4 DEF OldStaysOld

\* A job is deleted, or created under a UID never used before.
LEMMA OldJobReplaced ==
  ASSUME TypeOK, UNCHANGED attempts, lastJobUID' \in Nat, lastJobUID' >= lastJobUID,
         job'.uid = 0 \/ (job'.uid \in Nat /\ job'.uid > lastJobUID)
  PROVE  OldStaysOld
<1>1. \A u \in Nat : u <= lastJobUID => u <= lastJobUID' /\ ~Live(u)'
  BY DEF Live, TypeOK
<1>2. \A j \in Jobs : JobOld(j) => JobOld(j)'
  BY <1>1 DEF JobOld, Jobs
<1>3. \A o \in Ordinals, a \in Attempts : AttemptOld(o, a) => AttemptOld(o, a)'
  BY <1>1 DEF AttemptOld, Attempts
<1> QED BY <1>2, <1>3 DEF OldStaysOld

\* A write to an attempt of no live job, or to one that is not terminal and
\* stays with its owner.
LEMMA OldAttemptWrite ==
  ASSUME TypeOK, NEW o \in Ordinals, NEW a \in Attempts,
         attempts' = [attempts EXCEPT ![o] = a],
         UNCHANGED <<job, lastJobUID>>,
         \/ ~Owned(o)
         \/ ~IsAttemptTerminal(attempts[o]) /\ a.owner = attempts[o].owner
  PROVE  OldStaysOld
<1>1. ASSUME NEW j \in Jobs, JobOld(j) PROVE JobOld(j)'
  <2>1. SUFFICES ASSUME Live(j.uid), NEW p \in Ordinals, p <= j.failedAttempts
                 PROVE  attempts'[p] = attempts[p]
    BY <1>1 DEF JobOld, Live
  <2>2. attempts[p].owner = j.uid /\ attempts[p].conds = {"Failed"}
    BY <1>1, <2>1 DEF JobOld
  <2>3. p # o
    BY <2>1, <2>2 DEF Live, Owned, IsAttemptTerminal
  <2> QED BY <2>3 DEF TypeOK
<1>2. ASSUME NEW p \in Ordinals, NEW b \in Attempts, AttemptOld(p, b)
      PROVE  AttemptOld(p, b)'
  <2>1. CASE p # o
    BY <1>2, <2>1 DEF AttemptOld, Live, IsAttemptTerminal, TypeOK
  <2>2. CASE p = o
    BY <1>2, <2>2 DEF AttemptOld, Live, Owned, IsAttemptTerminal, TypeOK
  <2> QED BY <2>1, <2>2
<1> QED BY <1>1, <1>2 DEF OldStaysOld

\* The versions the caches and the watch streams hold stay versions.
LEMMA ReadsKept ==
  ASSUME TypeOK, TypeOK', ReadsAreOld, OldStaysOld,
         Streams(job, jobEvents, jobCache),
         Streams(attempts, attemptEvents, attemptCache),
         JobVersion(job)', JobVersion(snapJob)',
         \A o \in Ordinals : AttemptVersion(o, attempts[o])'
  PROVE  ReadsAreOld'
<1>1. \A j \in Jobs : JobVersion(j) => JobVersion(j)'
  BY DEF OldStaysOld, JobVersion, JobSane
<1>2. \A o \in Ordinals, a \in Attempts : AttemptVersion(o, a) => AttemptVersion(o, a)'
  BY DEF OldStaysOld, AttemptVersion, AttemptSane
<1>3. JobVersion(jobCache)' /\ \A i \in 1 .. Len(jobEvents') : JobVersion(jobEvents[i])'
  <2>1. CASE UNCHANGED <<jobEvents, jobCache>>
    BY <1>1, <2>1 DEF ReadsAreOld, TypeOK
  <2>2. CASE jobEvents' = Append(jobEvents, job') /\ UNCHANGED jobCache
    BY <1>1, <2>2, AppendLemma DEF ReadsAreOld, TypeOK
  <2>3. CASE jobEvents # <<>> /\ jobCache' = Head(jobEvents) /\ jobEvents' = Tail(jobEvents)
    BY <1>1, <2>3, TailLemma DEF ReadsAreOld, TypeOK
  <2> QED BY <2>1, <2>2, <2>3 DEF Streams
<1>4. /\ \A o \in Ordinals : AttemptVersion(o, attemptCache[o])'
      /\ \A i \in 1 .. Len(attemptEvents') : \A o \in Ordinals :
           AttemptVersion(o, attemptEvents[i][o])'
  <2> DEFINE V(f) == \A o \in Ordinals : AttemptVersion(o, f[o])
  <2>1. \A f \in [Ordinals -> Attempts] : V(f) => V(f)'
    BY <1>2
  <2>2. /\ attemptCache \in [Ordinals -> Attempts] /\ attempts' \in [Ordinals -> Attempts]
        /\ attemptEvents \in Seq([Ordinals -> Attempts])
        /\ \A i \in 1 .. Len(attemptEvents) : attemptEvents[i] \in [Ordinals -> Attempts]
    BY DEF TypeOK
  <2>3. /\ V(attemptCache) /\ V(attempts)'
        /\ \A i \in 1 .. Len(attemptEvents) : V(attemptEvents[i])
    BY DEF ReadsAreOld
  <2> HIDE DEF V
  <2>4. V(attemptCache)' /\ \A i \in 1 .. Len(attemptEvents') : V(attemptEvents[i])'
    <3>1. CASE UNCHANGED <<attemptEvents, attemptCache>>
      BY <2>1, <2>2, <2>3, <3>1
    <3>2. CASE attemptEvents' = Append(attemptEvents, attempts') /\ UNCHANGED attemptCache
      BY <2>1, <2>2, <2>3, <3>2, AppendLemma
    <3>3. CASE /\ attemptEvents # <<>>
               /\ attemptCache' = Head(attemptEvents) /\ attemptEvents' = Tail(attemptEvents)
      BY <2>1, <2>2, <2>3, <3>3, TailLemma
    <3> QED BY <3>1, <3>2, <3>3 DEF Streams
  <2> QED BY <2>4 DEF V
<1> QED BY <1>3, <1>4 DEF ReadsAreOld

\* A step of anyone else leaves the worker what it knows.
LEMMA KnowsKept ==
  ASSUME TypeOK, WorkerKnows, OldStaysOld, UNCHANGED local
  PROVE  WorkerKnows' /\ (JobVersion(snapJob) => JobVersion(snapJob)')
<1>1. JobVersion(snapJob) => JobVersion(snapJob)'
  BY DEF OldStaysOld, JobVersion, JobSane, TypeOK, local
<1>2. attempt.owner # 0 => AttemptVersion(snapJob.active, attempt)'
  BY DEF WorkerKnows, OldStaysOld, AttemptVersion, AttemptSane, TypeOK, local
<1> QED BY <1>1, <1>2 DEF WorkerKnows, IsJobTerminal, IsAttemptTerminal, RetryAllowed, local

\* The worker between two reconciles knows nothing and needs nothing.
LEMMA IdleKnows ==
  ASSUME ReturnIdle, TypeOK
  PROVE  /\ WorkerKnows'
         /\ snapJob' \in Jobs /\ attempt' \in Attempts /\ pod' \in Pods /\ pc' \in Positions
         /\ lastJobUID' \in Nat => JobVersion(snapJob)'
<1> USE BudgetAssumption DEF ReturnIdle, NoJob, NoAttempt, NoPod
<1>1. WorkerKnows'
  BY DEF WorkerKnows, IsAttemptTerminal, RetryAllowed
<1>2. snapJob' \in Jobs /\ attempt' \in Attempts /\ pod' \in Pods /\ pc' \in Positions
  BY DEF Jobs, Attempts, Pods, Positions, Reasons, Phases, Terminal
<1>3. lastJobUID' \in Nat => JobVersion(snapJob)'
  BY DEF JobVersion, JobSane, JobOld, Live
<1> QED BY <1>1, <1>2, <1>3

\* A write to the live job keeps the two properties of the attempt chain.
LEMMA ChainJobWrite ==
  ASSUME TypeOK, FailedBeforeRetry, WithinBudget,
         job' \in Jobs, job'.uid = job.uid, job'.max >= job.max, UNCHANGED attempts
  PROVE  FailedBeforeRetry' /\ WithinBudget'
<1>1. \A o \in Ordinals : Owned(o)' <=> Owned(o)
  BY DEF Owned, Live
<1>2. \A o \in Ordinals : o <= job.max => o <= job'.max
  <2>1. job.max \in Nat /\ job'.max \in Nat
    BY TypeFacts, JobFields
  <2> QED BY <2>1, BudgetAssumption DEF Ordinals
<1>3. FailedBeforeRetry'
  BY <1>1 DEF FailedBeforeRetry
<1> QED BY <1>1, <1>2, <1>3 DEF WithinBudget

\* Every status write of the job: it either stores j, which differs from the
\* version read in what the worker may change, or stores nothing.
LEMMA JobWriteKeepsInv ==
  ASSUME Inv, pc # "idle", NEW j \in Jobs, UpdateJobStatus(j),
         JobSane(j), j.uid = snapJob.uid, j.max = snapJob.max,
         Live(snapJob.uid) =>
           \A o \in Ordinals : o <= j.failedAttempts =>
              attempts[o].owner = snapJob.uid /\ attempts[o].conds = {"Failed"}
  PROVE  Inv'
<1> USE DEF Inv
<1>1. ReturnIdle /\ UNCHANGED <<attempts, pods, attemptEvents, podEvents, caches,
                                cli, lastJobUID, lastPodUID, faults, succeeded>>
  BY DEF UpdateJobStatus
<1>2. CASE UNCHANGED <<job, jobEvents>>
  <2>1. OldStaysOld
    BY <1>1, <1>2, OldUnchanged
  <2>2. TypeOK'
    BY <1>1, <1>2, IdleKnows DEF TypeOK, caches
  <2>3. JobVersion(job)' /\ \A o \in Ordinals : AttemptVersion(o, attempts[o])'
    BY <1>1, <1>2, <2>1 DEF ReadsAreOld, JobVersion, AttemptVersion, JobSane, AttemptSane,
                            OldStaysOld, TypeOK
  <2>4. ReadsAreOld'
    BY <1>1, <1>2, <2>1, <2>2, <2>3, IdleKnows, ReadsKept DEF Streams, caches, TypeOK
  <2>5. FailedBeforeRetry' /\ WithinBudget'
    BY <1>1, <1>2 DEF FailedBeforeRetry, WithinBudget, Owned, Live
  <2> QED BY <1>1, <2>2, <2>4, <2>5, IdleKnows
<1>3. CASE job = snapJob /\ PutJob(j)
  <2>1. job' = j /\ jobEvents' = Append(jobEvents, j) /\ j.uid = job.uid /\ j.max = job.max
    BY <1>3 DEF PutJob
  <2>0. job'.max >= job.max
    BY <2>1, TypeFacts, JobFields
  <2>2. OldStaysOld
    BY <1>1, <2>1, <2>0, OldJobWrite
  <2>3. TypeOK'
    BY <1>1, <2>1, IdleKnows, AppendLemma DEF TypeOK, caches
  <2>4. JobVersion(job)'
    BY <1>1, <1>3, <2>1, BudgetAssumption
       DEF JobVersion, JobSane, JobOld, Live, TypeOK, Jobs, ReadsAreOld
  <2>5. \A o \in Ordinals : AttemptVersion(o, attempts[o])'
    BY <1>1, <2>2 DEF ReadsAreOld, AttemptVersion, AttemptSane, OldStaysOld, TypeOK
  <2>6. ReadsAreOld'
    BY <1>1, <2>1, <2>2, <2>3, <2>4, <2>5, IdleKnows, ReadsKept DEF Streams, caches, TypeOK
  <2>7. FailedBeforeRetry' /\ WithinBudget'
    BY <1>1, <2>1, <2>0, ChainJobWrite
  <2> QED BY <1>1, <2>3, <2>6, <2>7, IdleKnows
<1> QED BY <1>2, <1>3 DEF UpdateJobStatus, SameVersion

\* The store after a write to attempt o, of no live job or not terminal.
LEMMA AttemptWriteStore ==
  ASSUME Inv, NEW o \in Ordinals, NEW a \in Attempts,
         attempts' = [attempts EXCEPT ![o] = a],
         UNCHANGED <<job, lastJobUID>>,
         AttemptSane(a), a.owner <= lastJobUID,
         \/ ~Owned(o)
         \/ ~IsAttemptTerminal(attempts[o]) /\ a.owner = attempts[o].owner
  PROVE  /\ OldStaysOld
         /\ JobVersion(job)'
         /\ \A p \in Ordinals : AttemptVersion(p, attempts[p])'
<1> USE DEF Inv
<1>1. OldStaysOld
  BY OldAttemptWrite
<1>2. JobVersion(job)'
  BY <1>1, TypeFacts DEF ReadsAreOld, JobVersion, JobSane, OldStaysOld
<1>3. ASSUME NEW p \in Ordinals PROVE AttemptVersion(p, attempts[p])'
  <2>1. CASE p = o
    <3>1. attempts'[p] = a
      BY <2>1, TypeFacts
    <3> QED BY <3>1 DEF AttemptVersion, AttemptSane, AttemptOld
  <2>2. CASE p # o
    <3>1. attempts'[p] = attempts[p] /\ attempts[p] \in Attempts
      BY <2>2, TypeFacts
    <3>2. AttemptVersion(p, attempts[p])
      BY DEF ReadsAreOld
    <3> QED BY <1>1, <3>1, <3>2 DEF AttemptVersion, AttemptSane, OldStaysOld
  <2> QED BY <2>1, <2>2
<1> QED BY <1>1, <1>2, <1>3

\* The attempt chain after such a write, when it makes no attempt of the live job.
LEMMA ChainAttemptWrite ==
  ASSUME Inv, NEW o \in Ordinals, NEW a \in Attempts,
         attempts' = [attempts EXCEPT ![o] = a], UNCHANGED job,
         \/ ~Owned(o) /\ ~Live(a.owner)
         \/ ~IsAttemptTerminal(attempts[o]) /\ a.owner = attempts[o].owner
  PROVE  FailedBeforeRetry' /\ WithinBudget'
<1> USE DEF Inv
<1>1. \A p \in Ordinals : Owned(p)' <=> Owned(p)
  BY TypeFacts DEF Owned, Live
<1>2. \A p \in Ordinals : Owned(p) /\ attempts[p].conds = {"Failed"}
                        => attempts'[p].conds = {"Failed"}
  <2> SUFFICES ASSUME NEW p \in Ordinals, Owned(p), attempts[p].conds = {"Failed"}
               PROVE  p # o
    BY TypeFacts
  <2> QED BY DEF IsAttemptTerminal
<1>3. FailedBeforeRetry'
  BY <1>1, <1>2 DEF FailedBeforeRetry
<1> QED BY <1>1, <1>3 DEF WithinBudget

\* What the worker holds when it writes the status of its attempt.
LEMMA HeldAttempt ==
  ASSUME Inv, pc = "loaded", attempt.owner # 0
  PROVE  /\ snapJob.active \in Ordinals
         /\ ~IsAttemptTerminal(attempt) /\ attempt \in Attempts /\ AttemptSane(attempt)
         /\ attempt.owner <= lastJobUID /\ attempt.owner = snapJob.uid
  BY TypeFacts DEF Inv, WorkerKnows, AttemptVersion, AttemptOld

\* Every status write of an attempt that the reconcile survives.
LEMMA AttemptWriteKeepsInv ==
  ASSUME Inv, pc = "loaded", attempt.owner # 0,
         NEW a \in Attempts, NEW position \in Positions, UpdateAttemptStatus(a, position),
         AttemptSane(a), a.owner = attempt.owner,
         \/ position = "running" /\ ~IsAttemptTerminal(a)
         \/ position = "decide" /\ IsAttemptTerminal(a)
  PROVE  Inv'
<1> USE DEF Inv
<1>0. UNCHANGED <<job, pods, jobEvents, podEvents, caches, cli, lastJobUID, lastPodUID, faults,
                  succeeded>>
  BY DEF UpdateAttemptStatus
<1>1. CASE ReturnIdle /\ UNCHANGED <<attempts, attemptEvents>>
  <2>1. OldStaysOld
    BY <1>0, <1>1, OldUnchanged
  <2>2. TypeOK'
    BY <1>0, <1>1, IdleKnows DEF TypeOK, caches
  <2>3. JobVersion(job)' /\ \A o \in Ordinals : AttemptVersion(o, attempts[o])'
    BY <1>0, <1>1, <2>1 DEF ReadsAreOld, JobVersion, AttemptVersion, JobSane, AttemptSane,
                            OldStaysOld, TypeOK
  <2>4. ReadsAreOld'
    BY <1>0, <1>1, <2>1, <2>2, <2>3, IdleKnows, ReadsKept DEF Streams, caches, TypeOK
  <2>5. FailedBeforeRetry' /\ WithinBudget'
    BY <1>0, <1>1 DEF FailedBeforeRetry, WithinBudget, Owned, Live
  <2> QED BY <1>1, <2>2, <2>4, <2>5, IdleKnows
<1>2. CASE /\ attempts[snapJob.active] = attempt
           /\ PutAttempt(snapJob.active, a)
           /\ attempt' = a /\ pc' = position /\ UNCHANGED <<snapJob, pod>>
  <2> DEFINE o == snapJob.active
  <2>1. o \in Ordinals /\ ~IsAttemptTerminal(attempts[o]) /\ a.owner = attempts[o].owner
        /\ a.owner <= lastJobUID /\ a.owner = snapJob.uid
    BY <1>2, HeldAttempt
  <2>2. attempts' = [attempts EXCEPT ![o] = a] /\ attemptEvents' = Append(attemptEvents, attempts')
    BY <1>2 DEF PutAttempt
  <2>3. /\ OldStaysOld /\ JobVersion(job)'
        /\ \A p \in Ordinals : AttemptVersion(p, attempts[p])'
    BY <1>0, <2>1, <2>2, AttemptWriteStore
  <2>4. TypeOK'
    <3>1. attempts' \in [Ordinals -> Attempts]
      BY <2>1, <2>2 DEF TypeOK
    <3>2. attemptEvents' \in Seq([Ordinals -> Attempts])
      BY <2>2, <3>1, AppendLemma DEF TypeOK
    <3> QED BY <1>0, <1>2, <3>1, <3>2 DEF TypeOK, caches
  <2>5. JobVersion(snapJob)'
    BY <1>2, <2>3, TypeFacts DEF ReadsAreOld, JobVersion, JobSane, OldStaysOld
  <2>6. ReadsAreOld'
    BY <1>0, <2>2, <2>3, <2>4, <2>5, ReadsKept DEF Streams, caches
  <2>7. FailedBeforeRetry' /\ WithinBudget'
    BY <1>0, <2>1, <2>2, ChainAttemptWrite
  <2>8. AttemptVersion(o, a)'
    <3>1. attempts'[o] = a
      BY <2>1, <2>2 DEF TypeOK
    <3> QED BY <1>0, <1>2, <2>1, <3>1 DEF AttemptVersion, AttemptSane, AttemptOld
  <2>9. WorkerKnows'
    BY <1>2, <2>1, <2>8 DEF WorkerKnows, AttemptVersion, AttemptSane, IsAttemptTerminal,
                            IsJobTerminal
  <2> QED BY <2>4, <2>6, <2>7, <2>9
<1> QED BY <1>1, <1>2 DEF UpdateAttemptStatus, SameVersion

\* A step that stores no job and no attempt: what it leaves to show.
LEMMA QuietStep ==
  ASSUME Inv, TypeOK', WorkerKnows', JobVersion(snapJob)',
         UNCHANGED <<job, attempts, lastJobUID>>,
         Streams(job, jobEvents, jobCache),
         Streams(attempts, attemptEvents, attemptCache)
  PROVE  Inv'
<1> USE DEF Inv
<1>1. OldStaysOld
  BY OldUnchanged
<1>2. JobVersion(job)' /\ \A o \in Ordinals : AttemptVersion(o, attempts[o])'
  BY <1>1 DEF ReadsAreOld, JobVersion, AttemptVersion, JobSane, AttemptSane,
              OldStaysOld, TypeOK
<1>3. ReadsAreOld'
  BY <1>1, <1>2, ReadsKept
<1>4. FailedBeforeRetry' /\ WithinBudget'
  BY DEF FailedBeforeRetry, WithinBudget, Owned, Live
<1> QED BY <1>3, <1>4

\* The worker gives up and touches nothing.
LEMMA IdleStep ==
  ASSUME Inv, ReturnIdle, UNCHANGED <<stored, watches, caches, cli, lastJobUID, lastPodUID, succeeded>>,
         faults' \in Nat
  PROVE  Inv'
<1>1. TypeOK'
  BY IdleKnows DEF Inv, TypeOK, stored, watches, caches
<1>2. WorkerKnows' /\ JobVersion(snapJob)'
  BY IdleKnows, TypeFacts DEF Inv
<1> QED BY <1>1, <1>2, QuietStep DEF Streams, stored, watches, caches

\* The worker moves on with the same snapshot.
LEMMA GotoStep ==
  ASSUME Inv, UNCHANGED <<snapJob, attempt, stored, watches, caches, cli, lastJobUID, lastPodUID,
                          faults, succeeded>>,
         pc' \in Positions, pod' \in Pods, WorkerKnows'
  PROVE  Inv'
<1>1. TypeOK'
  BY DEF Inv, TypeOK, stored, watches, caches
<1>2. JobVersion(snapJob)'
  BY DEF Inv, ReadsAreOld, JobVersion, JobSane, JobOld, Live, stored
<1> QED BY <1>1, <1>2, QuietStep DEF Streams, stored, watches, caches

\* The invariant holds before the first job is created.
LEMMA InitInv == Init => Inv
<1> SUFFICES ASSUME Init PROVE Inv
  OBVIOUS
<1> USE BudgetAssumption DEF Init, NoJob, NoAttempt, NoPod, NoCommand
<1>1. TypeOK
  BY DEF TypeOK, Jobs, Attempts, Pods, Positions, Reasons, Phases, Terminal, Commands
<1>2. ReadsAreOld
  BY DEF ReadsAreOld, JobVersion, JobSane, JobOld, AttemptVersion, AttemptSane, AttemptOld, Live
<1>3. WorkerKnows
  BY DEF WorkerKnows, IsAttemptTerminal
<1>4. FailedBeforeRetry /\ WithinBudget
  BY DEF FailedBeforeRetry, WithinBudget, Owned, Live
<1> QED BY <1>1, <1>2, <1>3, <1>4 DEF Inv

-----------------------------------------------------------------------------
(* The steps of the worker.                                                 *)

\* A reconcile begins with an earlier version of the job and of its active attempt.
LEMMA LoadKeepsInv == Inv /\ LoadJobSnapshot => Inv'
<1> SUFFICES ASSUME Inv, LoadJobSnapshot PROVE Inv'
  OBVIOUS
<1> DEFINE a == ActiveAttempt(jobCache, attemptCache)
<1>1. /\ jobCache.uid # 0 /\ ~IsJobTerminal(jobCache)
      /\ snapJob' = jobCache /\ attempt' = a
      /\ UNCHANGED <<stored, watches, caches, cli, lastJobUID, lastPodUID, faults, succeeded>>
  BY DEF LoadJobSnapshot, NeedsReconcile
<1>2. JobVersion(jobCache) /\ jobCache \in Jobs
  BY DEF Inv, ReadsAreOld, TypeOK
<1>3. jobCache.active = 0 \/ jobCache.active \in Ordinals
  BY <1>2, JobFields, BudgetAssumption DEF JobVersion, JobSane, Ordinals
<1>4. /\ a \in Attempts /\ AttemptSane(a)
      /\ a.owner # 0 => jobCache.active \in Ordinals /\ AttemptVersion(jobCache.active, a)
  <2>1. CASE jobCache.active = 0
    BY <2>1 DEF ActiveAttempt, NoAttempt, Attempts, AttemptSane
  <2>2. CASE jobCache.active # 0
    BY <1>3, <2>2 DEF ActiveAttempt, Inv, TypeOK, ReadsAreOld, AttemptVersion
  <2> QED BY <2>1, <2>2
<1>5. pod' \in Pods
  BY <1>3 DEF LoadJobSnapshot, PodForAttempt, NoPod, Pods, Phases, Inv, TypeOK
<1>6. /\ pc' \in {"ownership", "decide", "loaded"}
      /\ pc' # "ownership" => a.owner \in {0, jobCache.uid}
      /\ pc' = "loaded" => ~IsAttemptTerminal(a)
      /\ pc' = "decide" => IsAttemptTerminal(a)
  <2>1. CASE \E o \in Ordinals : /\ attemptCache[o].owner # 0
                                /\ ~VerifyAttemptOwnership(jobCache, attemptCache[o])
    BY <2>1 DEF LoadJobSnapshot
  <2>2. CASE ~ \E o \in Ordinals : /\ attemptCache[o].owner # 0
                                  /\ ~VerifyAttemptOwnership(jobCache, attemptCache[o])
    <3>1. pc' = IF IsAttemptTerminal(a) THEN "decide" ELSE "loaded"
      BY <2>2 DEF LoadJobSnapshot
    <3>2. a.owner \in {0, jobCache.uid}
      BY <1>3, <2>2 DEF ActiveAttempt, NoAttempt, VerifyAttemptOwnership
    <3> QED BY <3>1, <3>2
  <2> QED BY <2>1, <2>2
<1>7. IsAttemptTerminal(a) => a.owner # 0
  BY <1>4 DEF AttemptSane, IsAttemptTerminal
<1>8. JobVersion(snapJob)'
  BY <1>1, <1>2 DEF JobVersion, JobSane, JobOld, Live, stored
<1>9. WorkerKnows'
  <2>1. a.owner # 0 => AttemptVersion(snapJob.active, attempt)'
    BY <1>1, <1>4 DEF AttemptVersion, AttemptSane, AttemptOld, Live, IsAttemptTerminal, stored
  <2>2. a.owner = 0 => a.conds = {}
    BY <1>4 DEF AttemptSane
  <2> HIDE DEF a
  <2> QED BY <1>1, <1>4, <1>6, <1>7, <2>1, <2>2
          DEF WorkerKnows, IsJobTerminal, IsAttemptTerminal
<1>10. TypeOK'
  BY <1>1, <1>2, <1>4, <1>5, <1>6 DEF Inv, TypeOK, Positions, stored, watches, caches
<1> QED BY <1>1, <1>8, <1>9, <1>10, QuietStep DEF Streams, stored, watches, caches

\* The job of a snapshot is not terminal, and its counters say so.
LEMMA SnapFacts ==
  ASSUME Inv, pc # "idle"
  PROVE  /\ snapJob \in Jobs /\ snapJob.uid # 0
         /\ snapJob.conds = {} /\ snapJob.reason = "None" /\ snapJob.completedAttempts = 0
         /\ snapJob.failedAttempts = IF snapJob.active = 0 THEN 0 ELSE snapJob.active - 1
         /\ snapJob.active <= 1 \/ snapJob.active <= snapJob.max
<1>1. snapJob \in Jobs /\ JobSane(snapJob) /\ snapJob.uid # 0 /\ ~IsJobTerminal(snapJob)
  BY DEF Inv, TypeOK, ReadsAreOld, JobVersion, WorkerKnows
<1>2. snapJob.conds = {}
  BY <1>1, JobFields DEF IsJobTerminal, Terminal
<1> QED BY <1>1, <1>2 DEF JobSane

\* The failures a snapshot counts are there, as long as its job lives.
LEMMA CountedFailures ==
  ASSUME Inv, Live(snapJob.uid), NEW o \in Ordinals, o <= snapJob.failedAttempts
  PROVE  attempts[o].owner = snapJob.uid /\ attempts[o].conds = {"Failed"}
  BY DEF Inv, ReadsAreOld, JobVersion, JobOld

\* The failed attempt the worker holds is the next one to count.
LEMMA NextFailure ==
  ASSUME Inv, pc # "idle", attempt.owner # 0, attempt.owner = snapJob.uid,
         IsAttemptTerminal(attempt), ~IsAttemptSucceeded(attempt)
  PROVE  /\ attempt.conds = {"Failed"}
         /\ snapJob.active \in Ordinals /\ snapJob.failedAttempts + 1 = snapJob.active
         /\ Live(snapJob.uid) => attempts[snapJob.active] = attempt
<1>1. snapJob.active \in Ordinals /\ AttemptVersion(snapJob.active, attempt)
  BY DEF Inv, WorkerKnows
<1>2. attempt.conds = {"Failed"}
  BY <1>1 DEF AttemptVersion, AttemptSane, IsAttemptTerminal, IsAttemptSucceeded
<1>3. snapJob.failedAttempts + 1 = snapJob.active
  BY <1>1, SnapFacts, BudgetAssumption DEF Ordinals
<1>4. Live(snapJob.uid) => attempts[snapJob.active] = attempt
  BY <1>1 DEF AttemptVersion, AttemptOld
<1> QED BY <1>1, <1>2, <1>3, <1>4

\* A job is failed because a child carries another UID.
LEMMA OwnershipKeepsInv == Inv /\ FailOnOwnership => Inv'
<1> SUFFICES ASSUME Inv, FailOnOwnership PROVE Inv'
  OBVIOUS
<1> DEFINE j == TrySetJobTerminal(snapJob, "Failed", "OwnershipViolation")
<1>1. pc # "idle" /\ UpdateJobStatus(j)
  BY DEF FailOnOwnership
<1>2. j = [snapJob EXCEPT !.conds = {"Failed"}, !.reason = "OwnershipViolation"]
  BY <1>1, SnapFacts DEF TrySetJobTerminal, IsJobTerminal, Jobs
<1>3. j \in Jobs /\ j.uid = snapJob.uid /\ j.max = snapJob.max
      /\ j.failedAttempts = snapJob.failedAttempts
  BY <1>1, <1>2, SnapFacts DEF Jobs, Terminal, Reasons
<1>4. JobSane(j)
  BY <1>1, <1>2, SnapFacts DEF JobSane, Jobs
<1> HIDE DEF j
<1> QED BY <1>1, <1>3, <1>4, JobWriteKeepsInv, CountedFailures

\* A job completes with its active attempt.
LEMMA CompleteKeepsInv == Inv /\ CompleteJob => Inv'
<1> SUFFICES ASSUME Inv, CompleteJob PROVE Inv'
  OBVIOUS
<1> DEFINE j == TrySetJobTerminal([snapJob EXCEPT !.completedAttempts = @ + 1],
                                  "Complete", "Succeeded")
<1>1. pc # "idle" /\ UpdateJobStatus(j)
  BY DEF CompleteJob
<1> DEFINE k == [snapJob EXCEPT !.completedAttempts = @ + 1]
<1>2. snapJob \in Jobs /\ snapJob.conds = {} /\ snapJob.completedAttempts = 0
  BY <1>1, SnapFacts
<1>3. k \in Jobs /\ k = [snapJob EXCEPT !.completedAttempts = 1] /\ k.conds = {}
  BY <1>2 DEF Jobs
<1>4. j = [k EXCEPT !.conds = {"Complete"}, !.reason = "Succeeded"]
  BY <1>3 DEF TrySetJobTerminal, IsJobTerminal
<1> HIDE DEF j
<1>5. j \in Jobs
  BY <1>3, <1>4 DEF Jobs, Terminal, Reasons
<1>6. /\ j.uid = snapJob.uid /\ j.max = snapJob.max /\ j.active = snapJob.active
      /\ j.failedAttempts = snapJob.failedAttempts /\ j.completedAttempts = 1
      /\ j.conds = {"Complete"} /\ j.reason = "Succeeded"
  BY <1>2, <1>3, <1>4 DEF Jobs
<1>7. JobSane(j)
  BY <1>1, <1>6, SnapFacts DEF JobSane
<1> QED BY <1>1, <1>5, <1>6, <1>7, JobWriteKeepsInv, CountedFailures

\* A job is marked Running.
LEMMA RunningKeepsInv == Inv /\ SetJobRunning => Inv'
<1> SUFFICES ASSUME Inv, SetJobRunning PROVE Inv'
  OBVIOUS
<1>1. CASE snapJob.running
  <2>1. faults' \in Nat
    BY <1>1 DEF SetJobRunning, Inv, TypeOK
  <2> QED BY <1>1, <2>1, IdleStep DEF SetJobRunning
<1>2. CASE ~snapJob.running
  <2> DEFINE j == [snapJob EXCEPT !.running = TRUE]
  <2>1. pc # "idle" /\ UpdateJobStatus(j)
    BY <1>2 DEF SetJobRunning
  <2>2. j \in Jobs /\ j.uid = snapJob.uid /\ j.max = snapJob.max
        /\ j.failedAttempts = snapJob.failedAttempts
    BY <2>1, SnapFacts DEF Jobs
  <2>3. JobSane(j)
    BY <2>1, SnapFacts DEF JobSane, Jobs
  <2> HIDE DEF j
  <2> QED BY <2>1, <2>2, <2>3, JobWriteKeepsInv, CountedFailures
<1> QED BY <1>1, <1>2

\* A job fails with its last attempt, which is counted.
LEMMA ExhaustKeepsInv == Inv /\ ExhaustRetries => Inv'
<1> SUFFICES ASSUME Inv, ExhaustRetries PROVE Inv'
  OBVIOUS
<1> DEFINE j == TrySetJobTerminal([snapJob EXCEPT !.failedAttempts = @ + 1],
                                  "Failed", "RetriesExhausted")
<1>1. pc = "decide" /\ UpdateJobStatus(j) /\ ~IsAttemptSucceeded(attempt)
  BY DEF ExhaustRetries
<1>2. attempt.owner # 0 /\ attempt.owner = snapJob.uid /\ IsAttemptTerminal(attempt)
  BY <1>1 DEF Inv, WorkerKnows
<1>3. /\ attempt.conds = {"Failed"}
      /\ snapJob.active \in Ordinals /\ snapJob.failedAttempts + 1 = snapJob.active
      /\ Live(snapJob.uid) => attempts[snapJob.active] = attempt
  BY <1>1, <1>2, NextFailure
<1> DEFINE k == [snapJob EXCEPT !.failedAttempts = @ + 1]
<1>4. snapJob \in Jobs /\ snapJob.conds = {}
  BY <1>1, SnapFacts
<1>5. /\ k \in Jobs /\ k.conds = {}
      /\ k = [snapJob EXCEPT !.failedAttempts = snapJob.failedAttempts + 1]
  BY <1>4 DEF Jobs
<1>6. j = [k EXCEPT !.conds = {"Failed"}, !.reason = "RetriesExhausted"]
  BY <1>5 DEF TrySetJobTerminal, IsJobTerminal
<1> HIDE DEF j
<1>7. j \in Jobs
  BY <1>5, <1>6 DEF Jobs, Terminal, Reasons
<1>8. /\ j.uid = snapJob.uid /\ j.max = snapJob.max /\ j.active = snapJob.active
      /\ j.failedAttempts = snapJob.failedAttempts + 1
      /\ j.completedAttempts = snapJob.completedAttempts
      /\ j.conds = {"Failed"} /\ j.reason = "RetriesExhausted"
  BY <1>4, <1>5, <1>6 DEF Jobs
<1>9. JobSane(j)
  BY <1>1, <1>3, <1>8, SnapFacts, BudgetAssumption DEF JobSane, Ordinals
<1>10. ASSUME Live(snapJob.uid), NEW o \in Ordinals, o <= j.failedAttempts
       PROVE  attempts[o].owner = snapJob.uid /\ attempts[o].conds = {"Failed"}
  <2>1. o <= snapJob.failedAttempts \/ o = snapJob.active
    BY <1>3, <1>4, <1>8, <1>10, JobFields, BudgetAssumption DEF Ordinals
  <2> QED BY <1>2, <1>3, <1>10, <2>1, CountedFailures
<1> QED BY <1>1, <1>7, <1>8, <1>9, <1>10, JobWriteKeepsInv

\* A job moves on to the attempt just created, and counts the failed one.
LEMMA SetActiveKeepsInv == Inv /\ SetActiveAttempt => Inv'
<1> SUFFICES ASSUME Inv, SetActiveAttempt PROVE Inv'
  OBVIOUS
<1> DEFINE f == snapJob.failedAttempts + Retry
           o == AttemptOrdinal(snapJob, Retry)
           r == IF Retry = 0 THEN snapJob.running ELSE FALSE
           j == [snapJob EXCEPT !.failedAttempts = f, !.active = o, !.running = r]
<1>1. pc = "attemptReady" /\ UpdateJobStatus(j)
  BY DEF SetActiveAttempt
<1>0. /\ snapJob \in Jobs /\ snapJob.completedAttempts = 0 /\ snapJob.failedAttempts \in Nat
      /\ snapJob.conds = {} /\ snapJob.reason = "None"
  BY <1>1, SnapFacts, JobFields
<1>a. Retry \in {0, 1} /\ f \in Nat /\ o \in Nat /\ o = f + 1
  BY <1>0 DEF Retry, AttemptOrdinal
<1>b. r \in BOOLEAN
  BY <1>0 DEF Jobs
<1>d. j = [snapJob EXCEPT !.failedAttempts = f, !.active = o, !.running = r]
  OBVIOUS
<1> HIDE DEF f, o, r, j
<1>c. /\ j \in Jobs /\ j.uid = snapJob.uid /\ j.max = snapJob.max
      /\ j.failedAttempts = f /\ j.active = f + 1
      /\ j.conds = {} /\ j.reason = "None" /\ j.completedAttempts = 0
  <2>1. /\ j \in Jobs /\ j.uid = snapJob.uid /\ j.max = snapJob.max
        /\ j.failedAttempts = f /\ j.active = o
        /\ j.conds = snapJob.conds /\ j.reason = snapJob.reason
        /\ j.completedAttempts = snapJob.completedAttempts
    BY <1>0, <1>a, <1>b, <1>d DEF Jobs
  <2> QED BY <1>0, <1>a, <2>1
<1>2. CASE attempt.owner = 0
  <2>1. f = snapJob.failedAttempts
    BY <1>0, <1>2 DEF Retry, f
  <2>3. JobSane(j)
    BY <1>1, <1>c, <2>1, SnapFacts, JobFields DEF JobSane
  <2> QED BY <1>1, <1>c, <2>1, <2>3, JobWriteKeepsInv, CountedFailures
<1>3. CASE attempt.owner # 0
  <2>1. f = snapJob.failedAttempts + 1
    BY <1>3 DEF Retry, f
  <2>2. attempt.conds = {"Failed"} /\ RetryAllowed(snapJob) /\ attempt.owner = snapJob.uid
    BY <1>1, <1>3 DEF Inv, WorkerKnows
  <2>3. /\ snapJob.active \in Ordinals /\ snapJob.failedAttempts + 1 = snapJob.active
        /\ Live(snapJob.uid) => attempts[snapJob.active] = attempt
    BY <1>1, <1>3, <2>2, NextFailure DEF IsAttemptTerminal, IsAttemptSucceeded
  <2>5. JobSane(j)
    BY <1>0, <1>c, <2>1, <2>2, JobFields DEF JobSane, RetryAllowed
  <2>6. ASSUME Live(snapJob.uid), NEW p \in Ordinals, p <= j.failedAttempts
        PROVE  attempts[p].owner = snapJob.uid /\ attempts[p].conds = {"Failed"}
    <3>1. p <= snapJob.failedAttempts \/ p = snapJob.active
      BY <1>0, <1>c, <2>1, <2>3, <2>6, BudgetAssumption DEF Ordinals
    <3> QED BY <2>2, <2>3, <2>6, <3>1, CountedFailures
  <2> QED BY <1>1, <1>c, <2>5, <2>6, JobWriteKeepsInv
<1> QED BY <1>2, <1>3

\* A step that writes attempt o and keeps what the worker knows.
LEMMA AttemptStep ==
  ASSUME Inv, NEW o \in Ordinals, NEW a \in Attempts, PutAttempt(o, a),
         UNCHANGED <<job, jobEvents, caches, cli, lastJobUID>>,
         AttemptSane(a), a.owner <= lastJobUID,
         \/ ~Owned(o)
         \/ ~IsAttemptTerminal(attempts[o]) /\ a.owner = attempts[o].owner,
         snapJob' \in Jobs, attempt' \in Attempts, pod' \in Pods, pc' \in Positions,
         UNCHANGED <<pods, podEvents, lastPodUID, faults, succeeded>>,
         WorkerKnows', JobVersion(snapJob)', FailedBeforeRetry', WithinBudget'
  PROVE  Inv'
<1> USE DEF Inv
<1>1. attempts' = [attempts EXCEPT ![o] = a] /\ attemptEvents' = Append(attemptEvents, attempts')
  BY DEF PutAttempt
<1>2. attempts' \in [Ordinals -> Attempts] /\ attemptEvents' \in Seq([Ordinals -> Attempts])
  <2>1. attempts' \in [Ordinals -> Attempts]
    BY <1>1, TypeFacts
  <2> QED BY <1>1, <2>1, AppendLemma DEF TypeOK
<1>3. TypeOK'
  BY <1>2 DEF TypeOK, caches
<1>4. /\ OldStaysOld /\ JobVersion(job)'
      /\ \A p \in Ordinals : AttemptVersion(p, attempts[p])'
  BY <1>1, AttemptWriteStore
<1>5. ReadsAreOld'
  BY <1>1, <1>3, <1>4, ReadsKept DEF Streams, caches
<1> QED BY <1>3, <1>5

\* The number createAttempt gives: within the budget, and every attempt before it
\* has failed.
LEMMA NewOrdinal ==
  ASSUME Inv, \/ WantsAttempt
              \/ pc \in {"attemptRace", "attemptReady"}
  PROVE  LET o == AttemptOrdinal(snapJob, Retry) IN
         /\ o \in Ordinals
         /\ o = 1 \/ o <= snapJob.max
         /\ Live(snapJob.uid) => \A p \in Ordinals : p < o =>
              attempts[p].owner = snapJob.uid /\ attempts[p].conds = {"Failed"}
         /\ attempt.owner # 0 => attempt.conds = {"Failed"} /\ RetryAllowed(snapJob)
<1> DEFINE o == AttemptOrdinal(snapJob, Retry)
<1>1. pc \notin {"idle", "ownership"}
  BY DEF WantsAttempt
<1>2. /\ snapJob \in Jobs /\ snapJob.completedAttempts = 0
      /\ snapJob.failedAttempts \in Nat /\ snapJob.active \in Nat
      /\ snapJob.max \in Nat /\ snapJob.max <= MaxBudget
      /\ snapJob.failedAttempts = IF snapJob.active = 0 THEN 0 ELSE snapJob.active - 1
      /\ snapJob.active <= 1 \/ snapJob.active <= snapJob.max
  BY <1>1, SnapFacts, JobFields
<1>3. CASE attempt.owner = 0
  <2>1. o = snapJob.failedAttempts + 1
    BY <1>2, <1>3 DEF AttemptOrdinal, Retry
  <2>2. o \in Ordinals /\ (o = 1 \/ o <= snapJob.max)
    BY <1>2, <2>1, BudgetAssumption DEF Ordinals
  <2>3. \A p \in Ordinals : p < o => p <= snapJob.failedAttempts
    BY <1>2, <2>1, <2>2, BudgetAssumption DEF Ordinals
  <2> HIDE DEF o
  <2>4. Live(snapJob.uid) => \A p \in Ordinals : p < o =>
          attempts[p].owner = snapJob.uid /\ attempts[p].conds = {"Failed"}
    BY <2>3, CountedFailures
  <2> QED BY <1>3, <2>2, <2>4 DEF o
<1>4. CASE attempt.owner # 0
  <2>1. /\ attempt.owner = snapJob.uid /\ IsAttemptTerminal(attempt)
        /\ ~IsAttemptSucceeded(attempt) /\ RetryAllowed(snapJob)
    <3>1. CASE pc \in {"attemptRace", "attemptReady"}
      BY <1>4, <3>1 DEF Inv, WorkerKnows, IsAttemptTerminal, IsAttemptSucceeded
    <3>2. CASE WantsAttempt
      BY <1>4, <3>2 DEF WantsAttempt, Inv, WorkerKnows
    <3> QED BY <3>1, <3>2
  <2>2. /\ attempt.conds = {"Failed"}
        /\ snapJob.active \in Ordinals /\ snapJob.failedAttempts + 1 = snapJob.active
        /\ Live(snapJob.uid) => attempts[snapJob.active] = attempt
    BY <1>1, <1>4, <2>1, NextFailure
  <2>3. o = snapJob.failedAttempts + 2
    BY <1>2, <1>4 DEF AttemptOrdinal, Retry
  <2>4. o \in Ordinals /\ o <= snapJob.max
    BY <1>2, <2>1, <2>3, BudgetAssumption DEF Ordinals, RetryAllowed
  <2>5. \A p \in Ordinals : p < o => p <= snapJob.failedAttempts \/ p = snapJob.active
    BY <1>2, <2>2, <2>3, BudgetAssumption DEF Ordinals
  <2> HIDE DEF o
  <2>6. Live(snapJob.uid) => \A p \in Ordinals : p < o =>
          attempts[p].owner = snapJob.uid /\ attempts[p].conds = {"Failed"}
    BY <2>1, <2>2, <2>5, CountedFailures
  <2> QED BY <2>1, <2>2, <2>4, <2>6 DEF o
<1> QED BY <1>3, <1>4

\* An attempt is created only after the attempts before it have Failed.
LEMMA CreateAttemptKeepsInv == Inv /\ CreateAttempt => Inv'
<1> SUFFICES ASSUME Inv, CreateAttempt PROVE Inv'
  OBVIOUS
<1> DEFINE a == [NoAttempt EXCEPT !.owner = snapJob.uid]
<1>1. /\ WantsAttempt
      /\ pc' \in {"attemptRace", "attemptReady"} /\ UNCHANGED <<snapJob, attempt, pod>>
      /\ UNCHANGED <<job, pods, jobEvents, podEvents, caches, cli, lastJobUID, lastPodUID, faults,
                     succeeded>>
  BY DEF CreateAttempt, Goto
<1>0. PICK o \in Ordinals : o = AttemptOrdinal(snapJob, Retry)
  BY <1>1, NewOrdinal
<1>2. /\ o = 1 \/ o <= snapJob.max
      /\ Live(snapJob.uid) => \A p \in Ordinals : p < o =>
           attempts[p].owner = snapJob.uid /\ attempts[p].conds = {"Failed"}
      /\ attempt.owner # 0 => attempt.conds = {"Failed"} /\ RetryAllowed(snapJob)
  BY <1>0, <1>1, NewOrdinal
<1>3. \/ UNCHANGED <<attempts, attemptEvents>>
      \/ attempts[o].owner = 0 /\ PutAttempt(o, a)
  BY <1>0 DEF CreateAttempt
<1>4. pc \notin {"idle", "ownership"} /\ pc' \in Positions
  BY <1>1 DEF WantsAttempt, Positions
<1>5. OldStaysOld => WorkerKnows' /\ JobVersion(snapJob)'
  <2> SUFFICES ASSUME OldStaysOld PROVE WorkerKnows' /\ JobVersion(snapJob)'
    OBVIOUS
  <2>1. JobVersion(snapJob)'
    BY <1>1, TypeFacts DEF Inv, ReadsAreOld, OldStaysOld, JobVersion, JobSane
  <2>2. attempt.owner # 0 => /\ snapJob.active \in Ordinals
                             /\ AttemptVersion(snapJob.active, attempt)'
    BY <1>1, TypeFacts DEF Inv, WorkerKnows, OldStaysOld, AttemptVersion, AttemptSane
  <2>3. /\ snapJob.uid # 0 /\ ~IsJobTerminal(snapJob)
        /\ attempt.owner = 0 => attempt.conds = {}
        /\ attempt.owner \in {0, snapJob.uid}
    BY <1>4 DEF Inv, WorkerKnows
  <2> QED BY <1>1, <1>2, <2>1, <2>2, <2>3
          DEF WorkerKnows, IsJobTerminal, IsAttemptTerminal, RetryAllowed
<1>6. CASE UNCHANGED <<attempts, attemptEvents>>
  <2>1. WorkerKnows'
    BY <1>1, <1>5, <1>6, OldUnchanged
  <2>2. pod' \in Pods
    BY <1>1 DEF Inv, TypeOK
  <2> QED BY <1>1, <1>4, <1>6, <2>1, <2>2, GotoStep DEF stored, watches
<1>7. CASE attempts[o].owner = 0 /\ PutAttempt(o, a)
  <2>2. snapJob \in Jobs /\ snapJob.uid \in Nat /\ snapJob.uid <= lastJobUID
    BY TypeFacts, JobFields DEF Inv, ReadsAreOld, JobVersion, JobOld
  <2>1. a \in Attempts /\ a.owner = snapJob.uid /\ a.conds = {}
    BY <2>2 DEF NoAttempt, Attempts
  <2> HIDE DEF a
  <2>3. /\ a \in Attempts /\ AttemptSane(a) /\ a.owner = snapJob.uid
        /\ a.owner <= lastJobUID /\ ~Owned(o) /\ snapJob.uid # 0
    BY <1>4, <1>7, <2>1, <2>2 DEF AttemptSane, Owned, Live, Inv, WorkerKnows
  <2>4. attempts' = [attempts EXCEPT ![o] = a]
    BY <1>7 DEF PutAttempt
  <2>5. OldStaysOld
    BY <1>1, <1>2, <2>3, <2>4, AttemptWriteStore
  <2>6. /\ attempts'[o] = a
        /\ \A p \in Ordinals : p # o => attempts'[p] = attempts[p]
        /\ Owned(o)' <=> Live(snapJob.uid)
        /\ \A p \in Ordinals : p # o => (Owned(p)' <=> Owned(p))
    <3>1. attempts'[o] = a /\ \A p \in Ordinals : p # o => attempts'[p] = attempts[p]
      BY <1>2, <2>4, TypeFacts DEF Inv
    <3> QED BY <1>1, <2>3, <3>1 DEF Owned, Live
  <2>7. FailedBeforeRetry'
    <3> SUFFICES ASSUME NEW p \in Ordinals, NEW q \in Ordinals, Owned(p)', q < p
                 PROVE  Owned(q)' /\ attempts'[q].conds = {"Failed"}
      BY DEF FailedBeforeRetry
    <3>1. q # p
      BY BudgetAssumption DEF Ordinals
    <3>2. CASE p = o
      <4>1. attempts[q].owner = snapJob.uid /\ attempts[q].conds = {"Failed"}
        BY <1>2, <2>6, <3>2
      <4>2. Owned(q)
        BY <2>6, <3>2, <4>1 DEF Owned
      <4> QED BY <2>6, <3>1, <3>2, <4>1, <4>2
    <3>3. CASE p # o
      <4>1. Owned(q) /\ attempts[q].conds = {"Failed"}
        BY <2>6, <3>3 DEF Inv, FailedBeforeRetry
      <4>2. q # o
        BY <2>3, <4>1
      <4> QED BY <2>6, <4>1, <4>2
    <3> QED BY <3>2, <3>3
  <2>8. WithinBudget'
    <3> SUFFICES ASSUME NEW p \in Ordinals, Owned(p)', p # 1
                 PROVE  p <= job.max
      BY <1>1 DEF WithinBudget
    <3>1. CASE p = o
      <4>1. snapJob.max <= job.max /\ o <= snapJob.max
        BY <1>2, <2>6, <3>1 DEF Inv, ReadsAreOld, JobVersion, JobOld
      <4> QED BY <2>2, <3>1, <4>1, TypeFacts, JobFields, BudgetAssumption DEF Inv, Ordinals
    <3>2. CASE p # o
      BY <2>6, <3>2 DEF Inv, WithinBudget
    <3> QED BY <3>1, <3>2
  <2>9. snapJob' \in Jobs /\ attempt' \in Attempts /\ pod' \in Pods
    BY <1>1 DEF Inv, TypeOK
  <2> QED BY <1>1, <1>2, <1>4, <1>5, <1>7, <2>3, <2>5, <2>7, <2>8, <2>9, AttemptStep
<1> QED BY <1>3, <1>6, <1>7

\* The worker moves on with the snapshot it has.
LEMMA MoveKnows ==
  ASSUME Inv, UNCHANGED <<snapJob, attempt, job, attempts, lastJobUID>>,
         \/ pc' = pc
         \/ pc = "attemptRace" /\ pc' = "attemptReady"
         \/ pc = "loaded" /\ attempt.owner # 0 /\ pc' \in {"podRace", "running"}
         \/ pc = "podRace" /\ pc' = "loaded"
  PROVE  WorkerKnows' /\ JobVersion(snapJob)'
<1>1. OldStaysOld
  BY OldUnchanged
<1>2. attempt.owner # 0 => AttemptVersion(snapJob.active, attempt)'
  BY <1>1, TypeFacts DEF Inv, WorkerKnows, OldStaysOld, AttemptVersion, AttemptSane
<1>3. JobVersion(snapJob)'
  BY <1>1, TypeFacts DEF Inv, ReadsAreOld, OldStaysOld, JobVersion, JobSane
<1>4. WorkerKnows
  BY DEF Inv
<1> QED BY <1>2, <1>3, <1>4
        DEF WorkerKnows, IsJobTerminal, IsAttemptTerminal, RetryAllowed

\* createAttempt reads the cache once more.
LEMMA AttemptRaceKeepsInv == Inv /\ GetAttemptAfterRace => Inv'
<1> SUFFICES ASSUME Inv, GetAttemptAfterRace PROVE Inv'
  OBVIOUS
<1>1. /\ pc = "attemptRace"
      /\ UNCHANGED <<stored, watches, caches, cli, lastJobUID, lastPodUID, faults, succeeded>>
      /\ faults' \in Nat
  BY DEF GetAttemptAfterRace, Inv, TypeOK
<1>2. CASE ReturnIdle
  BY <1>1, <1>2, IdleStep
<1>3. CASE Goto("attemptReady")
  <2>1. WorkerKnows' /\ pc' \in Positions /\ pod' \in Pods
    BY <1>1, <1>3, MoveKnows DEF Goto, stored, Positions, Inv, TypeOK
  <2> QED BY <1>1, <1>3, <2>1, GotoStep DEF Goto
<1> QED BY <1>2, <1>3 DEF GetAttemptAfterRace

\* A step that changes pods only, and what the worker holds of them.
LEMMA PodStep ==
  ASSUME Inv, UNCHANGED <<job, attempts, jobEvents, attemptEvents, jobCache, attemptCache,
                          snapJob, attempt, lastJobUID>>,
         \/ pc' = pc
         \/ pc = "loaded" /\ attempt.owner # 0 /\ pc' = "podRace",
         CommandMoves, pods' \in [Ordinals -> Pods], podCache' \in [Ordinals -> Pods],
         podEvents' \in Seq([Ordinals -> Pods]), pod' \in Pods,
         lastPodUID' \in Nat, faults' \in Nat, succeeded' \subseteq Nat
  PROVE  Inv'
<1>1. WorkerKnows' /\ JobVersion(snapJob)'
  BY MoveKnows
<1>2. TypeOK'
  BY DEF Inv, TypeOK, Positions, CommandMoves
<1> QED BY <1>1, <1>2, QuietStep DEF Streams

\* What PutPod stores and announces.
LEMMA PutPodType ==
  ASSUME TypeOK, NEW o \in Ordinals, NEW p \in Pods, PutPod(o, p)
  PROVE  pods' \in [Ordinals -> Pods] /\ podEvents' \in Seq([Ordinals -> Pods])
<1>1. pods' \in [Ordinals -> Pods] /\ podEvents' = Append(podEvents, pods')
  BY DEF PutPod, TypeOK
<1> QED BY <1>1, AppendLemma DEF TypeOK

\* A pod is found in the cache, created, or found to be there already.
LEMMA CreatePodKeepsInv == Inv /\ CreatePod => Inv'
<1> SUFFICES ASSUME Inv, CreatePod PROVE Inv'
  OBVIOUS
<1> DEFINE p == BuildPod(snapJob, lastPodUID + 1)
<1>1. /\ pc = "loaded" /\ attempt.owner # 0
      /\ UNCHANGED <<job, attempts, jobEvents, attemptEvents, jobCache, attemptCache,
                     podCache, snapJob, attempt, lastJobUID, faults, succeeded>>
      /\ CommandMoves
  BY DEF CreatePod, caches, Goto, CommandMoves
<1>2. PICK o \in Ordinals : o = snapJob.active
  BY <1>1, HeldAttempt
<1>3. /\ pods \in [Ordinals -> Pods] /\ podCache \in [Ordinals -> Pods] /\ pod \in Pods
      /\ podEvents \in Seq([Ordinals -> Pods])
      /\ lastPodUID \in Nat /\ faults \in Nat /\ succeeded \subseteq Nat
  BY DEF Inv, TypeOK
<1>4. p \in Pods /\ p.uid \in Nat
  BY <1>3, TypeFacts DEF BuildPod, Pods, Phases, Inv, Jobs
<1> HIDE DEF p
<1>5. CASE pod' = podCache[o] /\ UNCHANGED <<pc, pods, podEvents, lastPodUID>>
  BY <1>1, <1>3, <1>5, PodStep
<1>6. CASE PutPod(o, p) /\ pod' = p /\ lastPodUID' = p.uid /\ UNCHANGED pc
  BY <1>1, <1>3, <1>4, <1>6, PutPodType, PodStep DEF Inv
<1>7. CASE Goto("podRace") /\ UNCHANGED <<pods, podEvents, lastPodUID>>
  BY <1>1, <1>3, <1>7, PodStep DEF Goto
<1> QED BY <1>2, <1>5, <1>6, <1>7 DEF CreatePod, p

\* ReconcileAttempt reads the pod cache once more.
LEMMA PodRaceKeepsInv == Inv /\ GetPodAfterRace => Inv'
<1> SUFFICES ASSUME Inv, GetPodAfterRace PROVE Inv'
  OBVIOUS
<1>1. /\ pc = "podRace"
      /\ UNCHANGED <<stored, watches, caches, cli, lastJobUID, lastPodUID, faults, succeeded>>
      /\ faults' \in Nat
  BY DEF GetPodAfterRace, Inv, TypeOK
<1>2. CASE ReturnIdle
  BY <1>1, <1>2, IdleStep
<1>3. CASE pc' = "loaded" /\ pod' = podCache[snapJob.active] /\ UNCHANGED <<snapJob, attempt>>
  <2>1. snapJob.active \in Ordinals
    BY <1>1 DEF Inv, WorkerKnows
  <2>2. pc' \in Positions /\ pod' \in Pods
    BY <1>3, <2>1 DEF Inv, TypeOK, Positions
  <2>3. WorkerKnows'
    BY <1>1, <1>3, MoveKnows DEF stored
  <2> QED BY <1>1, <1>3, <2>2, <2>3, GotoStep
<1> QED BY <1>2, <1>3 DEF GetPodAfterRace

\* An attempt records its pod.
LEMMA RecordPodKeepsInv == Inv /\ RecordPod => Inv'
<1> SUFFICES ASSUME Inv, RecordPod PROVE Inv'
  OBVIOUS
<1> DEFINE a == Recorded(attempt, pod)
<1>1. /\ pc = "loaded" /\ attempt.owner # 0 /\ ReturnIdle
      /\ UNCHANGED <<job, pods, jobEvents, podEvents, caches, cli, lastJobUID, lastPodUID, faults,
                     succeeded>>
  BY DEF RecordPod
<1>2. PICK o \in Ordinals : o = snapJob.active
  BY <1>1, HeldAttempt
<1>3. \/ UNCHANGED <<attempts, attemptEvents>>
      \/ attempts[o] = attempt /\ PutAttempt(o, a)
  BY <1>2 DEF RecordPod, SameVersion
<1>4. CASE UNCHANGED <<attempts, attemptEvents>>
  BY <1>1, <1>4, IdleStep DEF stored, watches, Inv, TypeOK
<1>5. CASE attempts[o] = attempt /\ PutAttempt(o, a)
  <2>1. /\ ~IsAttemptTerminal(attempt) /\ attempt \in Attempts /\ AttemptSane(attempt)
        /\ attempt.owner <= lastJobUID
    BY <1>1, HeldAttempt
  <2>2. pod.uid \in Nat
    BY DEF Inv, TypeOK, Pods
  <2>3. a \in Attempts /\ a.owner = attempt.owner /\ a.conds = attempt.conds
    BY <2>1, <2>2 DEF Recorded, Attempts
  <2> HIDE DEF a
  <2>4. AttemptSane(a)
    BY <2>1, <2>3 DEF AttemptSane
  <2>5. attempts' = [attempts EXCEPT ![o] = a]
    BY <1>5 DEF PutAttempt
  <2>6. FailedBeforeRetry' /\ WithinBudget'
    BY <1>1, <1>5, <2>1, <2>3, <2>5, ChainAttemptWrite
  <2>7. /\ snapJob' \in Jobs /\ attempt' \in Attempts /\ pod' \in Pods /\ pc' \in Positions
        /\ WorkerKnows' /\ JobVersion(snapJob)'
    BY <1>1, IdleKnows, TypeFacts DEF Inv
  <2> QED BY <1>1, <1>5, <2>1, <2>3, <2>4, <2>6, <2>7, AttemptStep
<1> QED BY <1>3, <1>4, <1>5

\* The recorded pod is read from the cache.
LEMMA RecordedPodKeepsInv == Inv /\ GetRecordedPod => Inv'
<1> SUFFICES ASSUME Inv, GetRecordedPod PROVE Inv'
  OBVIOUS
<1>1. /\ pc = "loaded" /\ attempt.owner # 0 /\ pod' = podCache[snapJob.active]
      /\ UNCHANGED <<pc, snapJob, attempt>>
      /\ UNCHANGED <<stored, watches, caches, cli, lastJobUID, lastPodUID, faults, succeeded>>
  BY DEF GetRecordedPod
<1>2. pc' \in Positions /\ pod' \in Pods
  BY <1>1, HeldAttempt DEF Inv, TypeOK
<1>3. WorkerKnows'
  BY <1>1, MoveKnows DEF stored
<1> QED BY <1>1, <1>2, <1>3, GotoStep

\* The attempt as markAttemptFailed and the observed phases leave it.
LEMMA AttemptFields ==
  ASSUME NEW a \in Attempts, AttemptSane(a), ~IsAttemptTerminal(a), a.owner # 0
  PROVE  /\ a.conds = {}
         /\ \A c \in Terminal : LET b == [a EXCEPT !.started = TRUE, !.conds = {c}] IN
              /\ b \in Attempts /\ AttemptSane(b) /\ b.owner = a.owner /\ IsAttemptTerminal(b)
         /\ LET b == [a EXCEPT !.conds = {"Failed"}] IN
              /\ b \in Attempts /\ AttemptSane(b) /\ b.owner = a.owner /\ IsAttemptTerminal(b)
         /\ LET b == [a EXCEPT !.started = TRUE] IN
              /\ b \in Attempts /\ AttemptSane(b) /\ b.owner = a.owner /\ ~IsAttemptTerminal(b)
<1>1. a.conds = {}
  BY DEF AttemptSane, IsAttemptTerminal
<1>2. ASSUME NEW c \in Terminal
      PROVE  LET b == [a EXCEPT !.started = TRUE, !.conds = {c}] IN
               /\ b \in Attempts /\ AttemptSane(b) /\ b.owner = a.owner /\ IsAttemptTerminal(b)
  <2> DEFINE b == [a EXCEPT !.started = TRUE, !.conds = {c}]
  <2>1. b \in Attempts /\ b.owner = a.owner /\ b.conds = {c}
    BY DEF Attempts
  <2> HIDE DEF b
  <2>2. AttemptSane(b) /\ IsAttemptTerminal(b)
    BY <2>1 DEF AttemptSane, IsAttemptTerminal, Terminal
  <2> QED BY <2>1, <2>2 DEF b
<1>3. LET b == [a EXCEPT !.conds = {"Failed"}] IN
        /\ b \in Attempts /\ AttemptSane(b) /\ b.owner = a.owner /\ IsAttemptTerminal(b)
  <2> DEFINE b == [a EXCEPT !.conds = {"Failed"}]
  <2>1. b \in Attempts /\ b.owner = a.owner /\ b.conds = {"Failed"}
    BY DEF Attempts, Terminal
  <2> HIDE DEF b
  <2>2. AttemptSane(b) /\ IsAttemptTerminal(b)
    BY <2>1 DEF AttemptSane, IsAttemptTerminal
  <2> QED BY <2>1, <2>2 DEF b
<1>4. LET b == [a EXCEPT !.started = TRUE] IN
        /\ b \in Attempts /\ AttemptSane(b) /\ b.owner = a.owner /\ ~IsAttemptTerminal(b)
  <2> DEFINE b == [a EXCEPT !.started = TRUE]
  <2>1. b \in Attempts /\ b.owner = a.owner /\ b.conds = a.conds
    BY DEF Attempts
  <2> HIDE DEF b
  <2>2. AttemptSane(b) /\ ~IsAttemptTerminal(b)
    BY <1>1, <2>1 DEF AttemptSane, IsAttemptTerminal
  <2> QED BY <2>1, <2>2 DEF b
<1> QED BY <1>1, <1>2, <1>3, <1>4

\* An attempt that is not terminal is failed as lost.
LEMMA LostPodKeepsInv == Inv /\ FailLostPod => Inv'
<1> SUFFICES ASSUME Inv, FailLostPod PROVE Inv'
  OBVIOUS
<1> DEFINE b == [attempt EXCEPT !.conds = {"Failed"}]
<1>1. pc = "loaded" /\ attempt.owner # 0 /\ UpdateAttemptStatus(markAttemptFailed(attempt), "decide")
  BY DEF FailLostPod
<1>2. /\ attempt.conds = {}
      /\ b \in Attempts /\ AttemptSane(b) /\ b.owner = attempt.owner /\ IsAttemptTerminal(b)
  BY <1>1, HeldAttempt, AttemptFields
<1>3. markAttemptFailed(attempt) = b
  BY <1>2 DEF markAttemptFailed
<1> HIDE DEF b
<1>4. "decide" \in Positions
  BY DEF Positions
<1> QED BY <1>1, <1>2, <1>3, <1>4, AttemptWriteKeepsInv

\* An attempt that is not terminal follows the phase of its pod.
LEMMA ObserveKeepsInv ==
  Inv /\ (ObservePending \/ ObserveRunning \/ ObserveSucceeded \/ ObserveFailed) => Inv'
<1> SUFFICES ASSUME Inv, HasOwnPod,
                    ObservePending \/ ObserveRunning \/ ObserveSucceeded \/ ObserveFailed
             PROVE  Inv'
  BY DEF ObservePending, ObserveRunning, ObserveSucceeded, ObserveFailed
<1>1. pc = "loaded" /\ attempt.owner # 0
  BY DEF HasOwnPod
<1>2. /\ attempt \in Attempts /\ AttemptSane(attempt) /\ ~IsAttemptTerminal(attempt)
      /\ "running" \in Positions /\ "decide" \in Positions
  BY <1>1, HeldAttempt DEF Positions
<1>3. ASSUME Goto("running"),
             UNCHANGED <<stored, watches, caches, cli, lastJobUID, lastPodUID, faults, succeeded>>
      PROVE  Inv'
  <2>1. WorkerKnows' /\ pod' \in Pods
    BY <1>1, <1>3, MoveKnows DEF Goto, stored, Inv, TypeOK
  <2> QED BY <1>2, <1>3, <2>1, GotoStep DEF Goto
<1>4. CASE ObservePending
  <2>1. CASE attempt.started
    BY <1>3, <1>4, <2>1 DEF ObservePending
  <2>2. CASE ~attempt.started
    BY <1>4, <2>2, IdleStep DEF ObservePending, Inv, TypeOK
  <2> QED BY <2>1, <2>2
<1>5. CASE ObserveRunning
  <2>1. CASE attempt.started
    BY <1>3, <1>5, <2>1 DEF ObserveRunning
  <2>2. CASE ~attempt.started
    <3> DEFINE b == [attempt EXCEPT !.started = TRUE]
    <3>1. UpdateAttemptStatus(b, "running")
      BY <1>5, <2>2 DEF ObserveRunning
    <3>2. b \in Attempts /\ AttemptSane(b) /\ b.owner = attempt.owner /\ ~IsAttemptTerminal(b)
      BY <1>1, <1>2, AttemptFields
    <3> HIDE DEF b
    <3> QED BY <1>1, <1>2, <3>1, <3>2, AttemptWriteKeepsInv
  <2> QED BY <2>1, <2>2
<1>6. ASSUME NEW c \in Terminal,
             UpdateAttemptStatus([attempt EXCEPT !.started = TRUE, !.conds = {c}], "decide")
      PROVE  Inv'
  <2> DEFINE b == [attempt EXCEPT !.started = TRUE, !.conds = {c}]
  <2>1. b \in Attempts /\ AttemptSane(b) /\ b.owner = attempt.owner /\ IsAttemptTerminal(b)
    BY <1>1, <1>2, AttemptFields
  <2>2. UpdateAttemptStatus(b, "decide")
    BY <1>6
  <2> HIDE DEF b
  <2> QED BY <1>1, <1>2, <2>1, <2>2, AttemptWriteKeepsInv
<1>7. attempt.conds = {}
  BY <1>1, <1>2, AttemptFields
<1>8. CASE ObserveSucceeded
  <2>1. attempt.conds \cup {"Complete"} = {"Complete"} /\ "Complete" \in Terminal
    BY <1>7 DEF Terminal
  <2> QED BY <1>6, <1>8, <2>1 DEF ObserveSucceeded
<1>9. CASE ObserveFailed
  <2> DEFINE k == [attempt EXCEPT !.started = TRUE]
  <2>1. "Failed" \in Terminal /\ k.conds \cup {"Failed"} = {"Failed"}
    BY <1>2, <1>7 DEF Terminal, Attempts
  <2>2. [k EXCEPT !.conds = {"Failed"}] = [attempt EXCEPT !.started = TRUE, !.conds = {"Failed"}]
    BY <1>2 DEF Attempts
  <2>3. markAttemptFailed(k) = [attempt EXCEPT !.started = TRUE, !.conds = {"Failed"}]
    BY <2>1, <2>2 DEF markAttemptFailed
  <2> QED BY <1>6, <1>9, <2>1, <2>3 DEF ObserveFailed
<1> QED BY <1>4, <1>5, <1>8, <1>9

\* A crash forgets the snapshot and nothing else.
LEMMA CrashKeepsInv == Inv /\ CrashOperator => Inv'
  BY IdleStep DEF CrashOperator, Inv, TypeOK

\* Every step of the worker keeps the invariant.
LEMMA ReconcileKeepsInv == Inv /\ Reconcile => Inv'
  BY LoadKeepsInv, OwnershipKeepsInv, CreateAttemptKeepsInv, AttemptRaceKeepsInv,
     SetActiveKeepsInv, CreatePodKeepsInv, PodRaceKeepsInv, RecordPodKeepsInv,
     RecordedPodKeepsInv, LostPodKeepsInv, ObserveKeepsInv, RunningKeepsInv,
     CompleteKeepsInv, ExhaustKeepsInv
  DEF Reconcile

-----------------------------------------------------------------------------
(* The steps of everyone else.                                              *)

\* A step that replaces or edits the stored job.
LEMMA JobStep ==
  ASSUME Inv, NEW j \in Jobs, PutJob(j), OldStaysOld, JobVersion(job)',
         FailedBeforeRetry', WithinBudget', lastJobUID' \in Nat, faults' \in Nat, CommandMoves,
         UNCHANGED <<attempts, pods, attemptEvents, podEvents, caches, local,
                     lastPodUID, succeeded>>
  PROVE  Inv'
<1> USE DEF Inv
<1>1. job' = j /\ jobEvents' = Append(jobEvents, job') /\ jobEvents' \in Seq(Jobs)
  BY TypeFacts, AppendLemma DEF PutJob
<1>2. TypeOK'
  BY <1>1 DEF TypeOK, caches, local, CommandMoves
<1>3. WorkerKnows' /\ JobVersion(snapJob)'
  BY KnowsKept DEF ReadsAreOld
<1>4. \A o \in Ordinals : AttemptVersion(o, attempts[o])'
  BY TypeFacts DEF ReadsAreOld, AttemptVersion, AttemptSane, OldStaysOld
<1>5. ReadsAreOld'
  BY <1>1, <1>2, <1>3, <1>4, ReadsKept DEF Streams, caches
<1> QED BY <1>2, <1>3, <1>5

\* A user raises maxAttempts, never lowers it.
LEMMA RaiseKeepsInv == Inv /\ RaiseMaxAttempts => Inv'
<1> SUFFICES ASSUME Inv, RaiseMaxAttempts PROVE Inv'
  OBVIOUS
<1>1. /\ job.uid # 0
      /\ UNCHANGED <<attempts, pods, attemptEvents, podEvents, caches, local,
                     lastJobUID, lastPodUID, faults, succeeded>>
      /\ CommandMoves /\ faults' \in Nat
  BY DEF RaiseMaxAttempts, CommandMoves, Inv, TypeOK
<1>2. PICK m \in job.max + 1 .. MaxBudget : PutJob([job EXCEPT !.max = m])
  BY DEF RaiseMaxAttempts
<1> DEFINE j == [job EXCEPT !.max = m]
<1>3. job \in Jobs /\ lastJobUID \in Nat /\ job.max \in Nat
  BY TypeFacts, JobFields DEF Inv
<1>4. m \in 0 .. MaxBudget /\ m \in Nat /\ m >= job.max
  BY <1>3, BudgetAssumption
<1>5. /\ j \in Jobs /\ j.uid = job.uid /\ j.max = m /\ j.active = job.active
      /\ j.failedAttempts = job.failedAttempts /\ j.completedAttempts = job.completedAttempts
      /\ j.conds = job.conds /\ j.reason = job.reason
  BY <1>3, <1>4 DEF Jobs
<1>6. job' = j /\ PutJob(j)
  BY <1>2 DEF PutJob
<1> HIDE DEF j
<1>7. OldStaysOld
  BY <1>1, <1>3, <1>4, <1>5, <1>6, OldJobWrite DEF Inv
<1>8. FailedBeforeRetry' /\ WithinBudget'
  BY <1>1, <1>4, <1>5, <1>6, ChainJobWrite DEF Inv
<1>9. JobVersion(job)'
  <2>1. JobSane(job) /\ JobOld(job)
    BY DEF Inv, ReadsAreOld, JobVersion
  <2>2. JobSane(j)
    BY <1>3, <1>4, <1>5, <2>1, JobFields DEF JobSane
  <2>3. JobOld(job)'
    BY <1>1, <1>4, <1>5, <1>6, <2>1 DEF JobOld, Live
  <2> QED BY <1>6, <2>2, <2>3 DEF JobVersion, JobSane
<1> QED BY <1>1, <1>3, <1>5, <1>6, <1>7, <1>8, <1>9, JobStep

\* A job that is just created, or none: nothing of it is counted or owned yet.
LEMMA FreshJob ==
  ASSUME Inv, NEW u \in Nat, NEW m \in 0 .. MaxBudget, PutJob(NewJob(u, m)),
         u = 0 \/ u = lastJobUID + 1,
         lastJobUID' \in Nat, lastJobUID' >= lastJobUID, u <= lastJobUID',
         UNCHANGED <<attempts, pods, attemptEvents, podEvents, caches, local,
                     cli, lastPodUID, faults, succeeded>>
  PROVE  Inv'
<1> DEFINE j == NewJob(u, m)
<1>1. /\ j \in Jobs /\ j.uid = u /\ j.max = m /\ j.active = 0 /\ j.failedAttempts = 0
      /\ j.completedAttempts = 0 /\ j.conds = {} /\ j.reason = "None"
  BY DEF NewJob, NoJob, Jobs, Reasons
<1>2. job' = j /\ PutJob(j)
  BY DEF PutJob
<1> HIDE DEF j
<1>3. lastJobUID \in Nat /\ faults' \in Nat /\ CommandMoves
  BY TypeFacts DEF Inv, TypeOK, CommandMoves
<1>4. OldStaysOld
  <2>0. u = 0 \/ u > lastJobUID
    BY <1>3
  <2>3. job'.uid = u
    BY <1>1, <1>2
  <2>1. job'.uid = 0 \/ (job'.uid \in Nat /\ job'.uid > lastJobUID)
    BY <2>0, <2>3
  <2>2. TypeOK /\ UNCHANGED attempts
    BY DEF Inv
  <2> QED BY <2>1, <2>2, OldJobReplaced
<1>5. JobVersion(job)'
  <2>1. JobSane(j)
    BY <1>1 DEF JobSane
  <2>2. m <= m /\ \A o \in Ordinals : ~(o <= 0)
    BY BudgetAssumption DEF Ordinals
  <2>3. JobOld(job)'
    BY <1>1, <1>2, <2>2 DEF JobOld
  <2> QED BY <1>2, <2>1, <2>3 DEF JobVersion, JobSane
<1>6. \A o \in Ordinals : ~Owned(o)'
  <2> TAKE o \in Ordinals
  <2>1. attempts[o].owner \in Nat /\ attempts[o].owner <= lastJobUID
    BY TypeFacts DEF Inv, ReadsAreOld, AttemptVersion, AttemptOld, Attempts
  <2> QED BY <1>1, <1>2, <1>3, <2>1 DEF Owned, Live
<1>7. FailedBeforeRetry' /\ WithinBudget'
  BY <1>6 DEF FailedBeforeRetry, WithinBudget
<1> QED BY <1>1, <1>2, <1>3, <1>4, <1>5, <1>7, JobStep

\* A job is created under a UID no version carries.
LEMMA SubmitKeepsInv == Inv /\ SubmitJob => Inv'
<1> SUFFICES ASSUME Inv, SubmitJob PROVE Inv'
  OBVIOUS
<1>1. PICK m \in 0 .. MaxBudget : PutJob(NewJob(lastJobUID + 1, m))
  BY DEF SubmitJob
<1>2. lastJobUID \in Nat
  BY TypeFacts DEF Inv
<1> QED BY <1>1, <1>2, FreshJob DEF SubmitJob

\* A deleted job makes every version of it an old one.
LEMMA DeleteKeepsInv == Inv /\ DeleteJob => Inv'
<1> SUFFICES ASSUME Inv, DeleteJob PROVE Inv'
  OBVIOUS
<1>0. 0 \in 0 .. MaxBudget
  BY BudgetAssumption
<1>a. NoJob \in Jobs /\ NoJob.uid = 0 /\ NoJob.max = 0
  BY <1>0 DEF NoJob, Jobs, Reasons
<1>1. NewJob(0, 0) = NoJob
  BY <1>a DEF NewJob, Jobs
<1>2. lastJobUID \in Nat
  BY TypeFacts DEF Inv
<1> QED BY <1>0, <1>1, <1>2, FreshJob DEF DeleteJob

\* Only attempts of a job that is gone are collected.
LEMMA CollectAttemptKeepsInv ==
  ASSUME Inv, NEW o \in Ordinals, CollectAttempt(o)
  PROVE  Inv'
<1>1. /\ attempts[o].owner \notin {0, job.uid} /\ PutAttempt(o, NoAttempt)
      /\ UNCHANGED <<job, pods, jobEvents, podEvents, caches, local,
                     cli, lastJobUID, lastPodUID, faults, succeeded>>
  BY DEF CollectAttempt
<1>2. /\ NoAttempt \in Attempts /\ AttemptSane(NoAttempt) /\ NoAttempt.owner = 0
  BY DEF NoAttempt, Attempts, AttemptSane
<1>3. ~Owned(o) /\ ~Live(NoAttempt.owner) /\ NoAttempt.owner <= lastJobUID
  BY <1>1, <1>2, TypeFacts DEF Owned, Live, Inv
<1>4. attempts' = [attempts EXCEPT ![o] = NoAttempt]
  BY <1>1 DEF PutAttempt
<1>5. FailedBeforeRetry' /\ WithinBudget'
  BY <1>1, <1>2, <1>3, <1>4, ChainAttemptWrite
<1>6. OldStaysOld
  BY <1>1, <1>2, <1>3, <1>4, AttemptWriteStore
<1>7. WorkerKnows' /\ JobVersion(snapJob)'
  BY <1>1, <1>6, KnowsKept DEF Inv, ReadsAreOld
<1>8. snapJob' \in Jobs /\ attempt' \in Attempts /\ pod' \in Pods /\ pc' \in Positions
  BY <1>1 DEF Inv, TypeOK, local
<1> QED BY <1>1, <1>2, <1>3, <1>5, <1>7, <1>8, AttemptStep

\* What happens to a stored pod.
LEMMA StoredPodKeepsInv ==
  ASSUME Inv, NEW o \in Ordinals,
         CollectPod(o) \/ PodStarts(o) \/ PodEnds(o) \/ LosePod(o)
  PROVE  Inv'
<1> USE DEF local
<1>0. /\ UNCHANGED <<job, attempts, jobEvents, attemptEvents, caches, local,
                     lastJobUID, lastPodUID>>
      /\ CommandMoves
  BY DEF CollectPod, PodStarts, PodEnds, PodMoves, LosePod, CommandMoves
<1>1. /\ pods \in [Ordinals -> Pods] /\ pod \in Pods /\ podCache \in [Ordinals -> Pods]
      /\ lastPodUID \in Nat /\ faults \in Nat /\ succeeded \subseteq Nat
  BY DEF Inv, TypeOK
<1>2. ASSUME NEW p \in Pods, PutPod(o, p), faults' \in Nat, succeeded' \subseteq Nat
      PROVE  Inv'
  BY <1>0, <1>1, <1>2, PutPodType, PodStep DEF Inv, caches
<1>3. NoPod \in Pods /\ pods[o] \in Pods
  BY <1>1 DEF NoPod, Pods, Phases
<1>4. CASE CollectPod(o)
  BY <1>1, <1>2, <1>3, <1>4 DEF CollectPod
<1>5. CASE LosePod(o)
  BY <1>1, <1>2, <1>3, <1>5 DEF LosePod
<1>6. ASSUME NEW from, NEW to \in Phases, PodMoves(o, from, to)
      PROVE  Inv'
  <2>1. [pods[o] EXCEPT !.phase = to] \in Pods /\ pods[o].owner \in Nat
    BY <1>3 DEF Pods
  <2> QED BY <1>1, <1>2, <1>6, <2>1 DEF PodMoves
<1>7. CASE PodStarts(o) \/ PodEnds(o)
  BY <1>6, <1>7 DEF PodStarts, PodEnds, Phases
<1> QED BY <1>4, <1>5, <1>7

\* A cancel fails a job that is not terminal and changes nothing else of it.
LEMMA CancelJobKeepsInv == Inv /\ CancelJob => Inv'
<1> SUFFICES ASSUME Inv, CancelJob PROVE Inv'
  OBVIOUS
<1> DEFINE j == [job EXCEPT !.conds = @ \cup {"Failed"}, !.reason = "Cancelled"]
<1>1. /\ ~IsJobTerminal(job) /\ PutJob(TrySetJobTerminal(job, "Failed", "Cancelled"))
      /\ cli' = IF job.active = 0 THEN NoCommand
                                  ELSE [pc |-> "cancelled", ordinal |-> job.active]
      /\ faults' = faults + 1
      /\ UNCHANGED <<attempts, pods, attemptEvents, podEvents, caches, local,
                     lastJobUID, lastPodUID, succeeded>>
  BY DEF CancelJob
<1>2. PutJob(j)
  BY <1>1 DEF TrySetJobTerminal
<1>3. job \in Jobs /\ lastJobUID \in Nat /\ faults' \in Nat /\ JobSane(job) /\ JobOld(job)
  BY <1>1 DEF Inv, TypeOK, ReadsAreOld, JobVersion
<1>4. /\ j \in Jobs /\ j.uid = job.uid /\ j.max = job.max /\ j.active = job.active
      /\ j.failedAttempts = job.failedAttempts /\ j.completedAttempts = job.completedAttempts
      /\ j.conds # {} /\ j.reason = "Cancelled"
  BY <1>3 DEF Jobs, Terminal, Reasons
<1>5. job' = j
  BY <1>2 DEF PutJob
<1> HIDE DEF j
<1>6. job.reason = "None" /\ (job.active = 0 \/ job.active \in Ordinals)
  <2>1. job.conds = {}
    BY <1>1, <1>3, JobFields DEF IsJobTerminal, Terminal
  <2> QED BY <1>3, <2>1, JobFields, BudgetAssumption DEF JobSane, Ordinals
<1>7. CommandMoves
  <2>1. cli' \in Commands
    BY <1>1, <1>6, BudgetAssumption DEF Commands, NoCommand, Ordinals
  <2> QED BY <1>1, <1>6, <2>1 DEF CommandMoves, NoCommand
<1>8. job'.max >= job.max
  BY <1>3, <1>4, <1>5, JobFields
<1>9. OldStaysOld
  BY <1>1, <1>4, <1>5, <1>8, OldJobWrite DEF Inv
<1>10. FailedBeforeRetry' /\ WithinBudget'
  BY <1>1, <1>4, <1>5, <1>8, ChainJobWrite DEF Inv
<1>11. JobVersion(job)'
  <2>1. JobSane(j)
    BY <1>3, <1>4, <1>6 DEF JobSane
  <2>2. JobOld(job)'
    BY <1>1, <1>3, <1>4, <1>5, <1>8 DEF JobOld, Live
  <2> QED BY <1>5, <2>1, <2>2 DEF JobVersion, JobSane
<1> QED BY <1>1, <1>2, <1>3, <1>4, <1>7, <1>9, <1>10, <1>11, JobStep

\* The calls of a cancel after the first touch neither the job nor its attempts.
LEMMA CancelKeepsInv == Inv /\ (CancelGetsAttempt \/ CancelDeletesPod) => Inv'
<1> SUFFICES ASSUME Inv, CancelGetsAttempt \/ CancelDeletesPod PROVE Inv'
  OBVIOUS
<1>1. /\ UNCHANGED <<job, attempts, jobEvents, attemptEvents, caches, local,
                     lastJobUID, lastPodUID, faults, succeeded>>
      /\ cli.pc # "idle"
  BY DEF CancelGetsAttempt, CancelDeletesPod, stored, watches
<1>2. /\ pods \in [Ordinals -> Pods] /\ pod \in Pods /\ podCache \in [Ordinals -> Pods]
      /\ podEvents \in Seq([Ordinals -> Pods]) /\ cli \in Commands /\ cli.ordinal \in Ordinals
      /\ lastPodUID \in Nat /\ faults \in Nat /\ succeeded \subseteq Nat
  BY <1>1 DEF Inv, TypeOK
<1>3. CommandMoves
  <2>1. NoCommand \in Commands /\ NoCommand.pc = "idle"
    BY BudgetAssumption DEF NoCommand, Commands
  <2>2. LET c == [cli EXCEPT !.pc = "delete"] IN c \in Commands /\ c.ordinal \in Ordinals
    BY <1>2 DEF Commands
  <2> QED BY <2>1, <2>2 DEF CommandMoves, CancelGetsAttempt, CancelDeletesPod
<1>4. \/ UNCHANGED <<pods, podEvents>>
      \/ PutPod(cli.ordinal, NoPod)
  BY DEF CancelGetsAttempt, CancelDeletesPod, stored, watches
<1>5. NoPod \in Pods
  BY DEF NoPod, Pods, Phases
<1>6. pods' \in [Ordinals -> Pods] /\ podEvents' \in Seq([Ordinals -> Pods])
  BY <1>2, <1>4, <1>5, PutPodType DEF Inv
<1> QED BY <1>1, <1>2, <1>3, <1>6, PodStep DEF caches, local

\* A cache takes in a version that was in its stream.
LEMMA DeliverKeepsInv == Inv /\ (DeliverJob \/ DeliverAttempts \/ DeliverPods) => Inv'
<1> SUFFICES ASSUME Inv, DeliverJob \/ DeliverAttempts \/ DeliverPods PROVE Inv'
  OBVIOUS
<1>1. UNCHANGED <<stored, local, cli, lastJobUID, lastPodUID, faults, succeeded>>
  BY DEF DeliverJob, DeliverAttempts, DeliverPods
<1>2. WorkerKnows' /\ JobVersion(snapJob)'
  <2>1. OldStaysOld
    BY <1>1, OldUnchanged DEF stored
  <2> QED BY <1>1, <2>1, KnowsKept DEF Inv, ReadsAreOld
<1>3. CASE DeliverJob
  <2>1. jobCache' \in Jobs /\ jobEvents' \in Seq(Jobs)
    BY <1>3, TypeFacts, TailLemma DEF DeliverJob, Inv
  <2>2. TypeOK'
    BY <1>3, <2>1 DEF DeliverJob, Inv, TypeOK, stored, local
  <2> QED BY <1>1, <1>2, <1>3, <2>2, QuietStep DEF DeliverJob, Streams, stored
<1>4. CASE DeliverAttempts
  <2>1. /\ attemptCache' \in [Ordinals -> Attempts]
        /\ attemptEvents' \in Seq([Ordinals -> Attempts])
    BY <1>4, TailLemma DEF DeliverAttempts, Inv, TypeOK
  <2>2. TypeOK'
    BY <1>4, <2>1 DEF DeliverAttempts, Inv, TypeOK, stored, local
  <2> QED BY <1>1, <1>2, <1>4, <2>2, QuietStep DEF DeliverAttempts, Streams, stored
<1>5. CASE DeliverPods
  <2>1. podCache' \in [Ordinals -> Pods] /\ podEvents' \in Seq([Ordinals -> Pods])
    BY <1>5, TailLemma DEF DeliverPods, Inv, TypeOK
  <2>2. TypeOK'
    BY <1>5, <2>1 DEF DeliverPods, Inv, TypeOK, stored, local
  <2> QED BY <1>1, <1>2, <1>5, <2>2, QuietStep DEF DeliverPods, Streams, stored
<1> QED BY <1>3, <1>4, <1>5

\* Every step of users, kubelet, collector and informers keeps the invariant.
LEMMA EnvironmentKeepsInv == Inv /\ Environment => Inv'
  BY SubmitKeepsInv, RaiseKeepsInv, DeleteKeepsInv, CollectAttemptKeepsInv,
     CancelJobKeepsInv, CancelKeepsInv, StoredPodKeepsInv, DeliverKeepsInv
  DEF Environment

\* A step that changes nothing keeps the invariant.
LEMMA StutterKeepsInv == Inv /\ UNCHANGED vars => Inv'
<1> SUFFICES ASSUME Inv, UNCHANGED vars PROVE Inv'
  OBVIOUS
<1>1. WorkerKnows' /\ pod' \in Pods /\ pc' \in Positions
  BY MoveKnows DEF vars, stored, local, Inv, TypeOK
<1> QED BY <1>1, GotoStep DEF vars, local

-----------------------------------------------------------------------------
(* What a single step never does to terminal objects.                       *)

\* No job and no attempt is written.
LEMMA FinalUnchanged ==
  ASSUME Inv, UNCHANGED <<job, attempts>>
  PROVE  JobFinal /\ AttemptsFinal
<1>1. job = [job EXCEPT !.max = job.max]
  BY TypeFacts DEF Inv, Jobs
<1> QED BY <1>1 DEF JobFinal, AttemptsFinal

\* An attempt that is not terminal is written, or one is removed.
LEMMA FinalAttemptWrite ==
  ASSUME Inv, UNCHANGED job, NEW o \in Ordinals, NEW a \in Attempts, PutAttempt(o, a),
         ~IsAttemptTerminal(attempts[o]) \/ a.owner = 0
  PROVE  JobFinal /\ AttemptsFinal
<1>1. JobFinal
  <2>1. job = [job EXCEPT !.max = job.max]
    BY TypeFacts DEF Inv, Jobs
  <2> QED BY <2>1 DEF JobFinal
<1>2. ASSUME NEW p \in Ordinals, IsAttemptTerminal(attempts[p]), attempts'[p].owner # 0
      PROVE  attempts'[p] = attempts[p]
  <2>1. attempts'[o] = a /\ (p # o => attempts'[p] = attempts[p])
    BY TypeFacts DEF Inv, PutAttempt
  <2> QED BY <1>2, <2>1
<1> QED BY <1>1, <1>2 DEF AttemptsFinal

\* A status write of the job is lost, or replaces a version that is not terminal.
LEMMA FinalJobWrite ==
  ASSUME Inv, pc # "idle", NEW j, UpdateJobStatus(j)
  PROVE  JobFinal /\ AttemptsFinal
<1>1. UNCHANGED attempts
  BY DEF UpdateJobStatus
<1>2. CASE UNCHANGED <<job, jobEvents>>
  BY <1>1, <1>2, FinalUnchanged
<1>3. CASE job = snapJob
  <2>1. ~IsJobTerminal(job)
    BY <1>3 DEF Inv, WorkerKnows
  <2> QED BY <1>1, <2>1 DEF JobFinal, AttemptsFinal
<1> QED BY <1>2, <1>3 DEF UpdateJobStatus, SameVersion

\* No step of the worker changes what is terminal.
LEMMA FinalReconcile ==
  ASSUME Inv, Reconcile
  PROVE  JobFinal /\ AttemptsFinal
<1>1. CASE FailOnOwnership \/ SetActiveAttempt \/ CompleteJob \/ ExhaustRetries
  BY <1>1, FinalJobWrite DEF FailOnOwnership, SetActiveAttempt, CompleteJob, ExhaustRetries
<1>2. CASE SetJobRunning
  <2>1. CASE snapJob.running
    BY <1>2, <2>1, FinalUnchanged DEF SetJobRunning, stored
  <2>2. CASE ~snapJob.running
    BY <1>2, <2>2, FinalJobWrite DEF SetJobRunning
  <2> QED BY <2>1, <2>2
<1>3. CASE \/ LoadJobSnapshot \/ GetAttemptAfterRace \/ GetPodAfterRace
           \/ GetRecordedPod \/ ObservePending
  BY <1>3, FinalUnchanged
     DEF LoadJobSnapshot, GetAttemptAfterRace, GetPodAfterRace, GetRecordedPod,
         ObservePending, stored
<1>4. CASE CreatePod
  BY <1>4, FinalUnchanged DEF CreatePod
<1>5. CASE CreateAttempt
  <2>0. WantsAttempt /\ UNCHANGED job
    BY <1>5 DEF CreateAttempt
  <2>1. PICK o \in Ordinals : o = AttemptOrdinal(snapJob, Retry)
    BY <2>0, NewOrdinal
  <2> DEFINE a == [NoAttempt EXCEPT !.owner = snapJob.uid]
  <2>2. \/ UNCHANGED attempts
        \/ attempts[o].owner = 0 /\ PutAttempt(o, a)
    BY <1>5, <2>1 DEF CreateAttempt
  <2>3. a \in Attempts
    <3>1. snapJob.uid \in Nat
      BY TypeFacts, JobFields DEF Inv
    <3> QED BY <3>1 DEF NoAttempt, Attempts
  <2> HIDE DEF a
  <2>4. attempts[o].owner = 0 => ~IsAttemptTerminal(attempts[o])
    BY DEF Inv, ReadsAreOld, AttemptVersion, AttemptSane, IsAttemptTerminal
  <2> QED BY <2>0, <2>2, <2>3, <2>4, FinalUnchanged, FinalAttemptWrite
<1>6. ASSUME pc = "loaded", attempt.owner # 0, UNCHANGED job, NEW a \in Attempts,
             \/ UNCHANGED attempts
             \/ attempts[snapJob.active] = attempt /\ PutAttempt(snapJob.active, a)
      PROVE  JobFinal /\ AttemptsFinal
  <2>1. snapJob.active \in Ordinals /\ ~IsAttemptTerminal(attempt)
    BY <1>6, HeldAttempt
  <2> QED BY <1>6, <2>1, FinalUnchanged, FinalAttemptWrite
<1>7. CASE RecordPod
  <2>1. Recorded(attempt, pod) \in Attempts
    BY DEF Recorded, Inv, TypeOK, Attempts, Pods
  <2> QED BY <1>6, <1>7, <2>1 DEF RecordPod, SameVersion
<1>8. ASSUME pc = "loaded", attempt.owner # 0, NEW a \in Attempts, NEW position,
             UpdateAttemptStatus(a, position)
      PROVE  JobFinal /\ AttemptsFinal
  BY <1>6, <1>8 DEF UpdateAttemptStatus, SameVersion
<1>9. /\ [attempt EXCEPT !.started = TRUE] \in Attempts
      /\ [attempt EXCEPT !.started = TRUE, !.conds = @ \cup {"Complete"}] \in Attempts
      /\ \A a \in Attempts : markAttemptFailed(a) \in Attempts
  BY TypeFacts DEF Inv, Attempts, Terminal, markAttemptFailed
<1>10. CASE FailLostPod
  BY <1>8, <1>9, <1>10, TypeFacts DEF FailLostPod, Inv
<1>11. CASE ObserveRunning
  <2>1. CASE attempt.started
    BY <1>11, <2>1, FinalUnchanged DEF ObserveRunning, stored
  <2>2. CASE ~attempt.started
    BY <1>8, <1>9, <1>11, <2>2 DEF ObserveRunning, HasOwnPod
  <2> QED BY <2>1, <2>2
<1>12. CASE ObserveSucceeded
  BY <1>8, <1>9, <1>12 DEF ObserveSucceeded, HasOwnPod
<1>13. CASE ObserveFailed
  BY <1>8, <1>9, <1>13 DEF ObserveFailed, HasOwnPod
<1> QED BY <1>1, <1>2, <1>3, <1>4, <1>5, <1>7, <1>10, <1>11, <1>12, <1>13 DEF Reconcile

\* No step of anybody else changes what is terminal.
LEMMA FinalEnvironment ==
  ASSUME Inv, Environment
  PROVE  JobFinal /\ AttemptsFinal
<1>1. CASE SubmitJob
  BY <1>1 DEF SubmitJob, JobFinal, AttemptsFinal
<1>2. CASE DeleteJob
  BY <1>2 DEF DeleteJob, PutJob, NoJob, JobFinal, AttemptsFinal
<1>3. CASE RaiseMaxAttempts
  <2>1. PICK m \in job.max + 1 .. MaxBudget : PutJob([job EXCEPT !.max = m])
    BY <1>3 DEF RaiseMaxAttempts
  <2>2. job' = [job EXCEPT !.max = m] /\ job'.max = m /\ UNCHANGED attempts
    BY <1>3, <2>1, TypeFacts DEF RaiseMaxAttempts, PutJob, Inv, Jobs
  <2> QED BY <2>2 DEF JobFinal, AttemptsFinal
<1>4. ASSUME NEW o \in Ordinals, CollectAttempt(o) PROVE JobFinal /\ AttemptsFinal
  <2>1. NoAttempt \in Attempts /\ NoAttempt.owner = 0
    BY DEF NoAttempt, Attempts
  <2> QED BY <1>4, <2>1, FinalAttemptWrite DEF CollectAttempt
<1>5. ASSUME NEW o \in Ordinals, CollectPod(o) \/ PodStarts(o) \/ PodEnds(o) \/ LosePod(o)
      PROVE  JobFinal /\ AttemptsFinal
  BY <1>5, FinalUnchanged DEF CollectPod, PodStarts, PodEnds, PodMoves, LosePod
<1>6. CASE DeliverJob \/ DeliverAttempts \/ DeliverPods
  BY <1>6, FinalUnchanged DEF DeliverJob, DeliverAttempts, DeliverPods, stored
<1>7. CASE CancelJob
  BY <1>7 DEF CancelJob, JobFinal, AttemptsFinal
<1>8. CASE CancelGetsAttempt \/ CancelDeletesPod
  BY <1>8, FinalUnchanged DEF CancelGetsAttempt, CancelDeletesPod, stored
<1> QED BY <1>1, <1>2, <1>3, <1>4, <1>5, <1>6, <1>7, <1>8 DEF Environment

-----------------------------------------------------------------------------
(* Where a Complete job comes from: until some pod ends in Succeeded nothing *)
(* the operator can read tells of a success.                                 *)

\* What a step may do to the pods without bringing a success among them.
PodEffect ==
  /\ pod'.phase # "Succeeded"
  /\ \/ UNCHANGED <<pods, podEvents, podCache>>
     \/ /\ UNCHANGED podCache
        /\ \E o \in Ordinals, p \in Pods : p.phase # "Succeeded" /\ PutPod(o, p)
     \/ /\ UNCHANGED pods /\ podEvents # <<>>
        /\ podCache' = Head(podEvents) /\ podEvents' = Tail(podEvents)

\* The same for the attempts and the condition Complete.
AttemptEffect ==
  /\ "Complete" \notin attempt'.conds
  /\ \/ UNCHANGED <<attempts, attemptEvents, attemptCache>>
     \/ /\ UNCHANGED attemptCache
        /\ \E o \in Ordinals, a \in Attempts : "Complete" \notin a.conds /\ PutAttempt(o, a)
     \/ /\ UNCHANGED attempts /\ attemptEvents # <<>>
        /\ attemptCache' = Head(attemptEvents) /\ attemptEvents' = Tail(attemptEvents)

\* Nothing has succeeded so far, and what a step does when it stays so.
Quiet == PodsQuiet /\ AttemptsQuiet /\ "Complete" \notin job.conds

QuietEffect == PodEffect /\ AttemptEffect /\ "Complete" \notin job'.conds

\* No success comes to the pods, their events and their cache by a quiet step.
LEMMA PodsStayQuiet ==
  ASSUME TypeOK, PodsQuiet, PodEffect
  PROVE  PodsQuiet'
<1>1. /\ pods \in [Ordinals -> Pods] /\ podCache \in [Ordinals -> Pods]
      /\ podEvents \in Seq([Ordinals -> Pods])
  BY DEF TypeOK
<1>2. CASE UNCHANGED <<pods, podEvents, podCache>>
  BY <1>2 DEF PodsQuiet, PodEffect
<1>3. ASSUME UNCHANGED podCache, NEW o \in Ordinals, NEW p \in Pods,
             p.phase # "Succeeded", PutPod(o, p)
      PROVE  PodsQuiet'
  <2>1. pods' = [pods EXCEPT ![o] = p] /\ podEvents' = Append(podEvents, pods')
    BY <1>3 DEF PutPod
  <2>2. pods' \in [Ordinals -> Pods] /\ \A q \in Ordinals : pods'[q].phase # "Succeeded"
    BY <1>1, <1>3, <2>1 DEF PodsQuiet
  <2>3. \A i \in 1 .. Len(podEvents') :
           \/ podEvents'[i] = pods'
           \/ i \in 1 .. Len(podEvents) /\ podEvents'[i] = podEvents[i]
    BY <1>1, <2>1, <2>2, AppendLemma
  <2> QED BY <1>3, <2>2, <2>3 DEF PodsQuiet, PodEffect
<1>4. CASE /\ UNCHANGED pods /\ podEvents # <<>>
           /\ podCache' = Head(podEvents) /\ podEvents' = Tail(podEvents)
  <2>1. /\ 1 \in 1 .. Len(podEvents) /\ podCache' = podEvents[1]
        /\ \A i \in 1 .. Len(podEvents') :
             i + 1 \in 1 .. Len(podEvents) /\ podEvents'[i] = podEvents[i + 1]
    BY <1>1, <1>4, TailLemma
  <2> QED BY <1>4, <2>1 DEF PodsQuiet, PodEffect
<1> QED BY <1>2, <1>3, <1>4 DEF PodEffect

\* Nor to the attempts.
LEMMA AttemptsStayQuiet ==
  ASSUME TypeOK, AttemptsQuiet, AttemptEffect
  PROVE  AttemptsQuiet'
<1>1. /\ attempts \in [Ordinals -> Attempts] /\ attemptCache \in [Ordinals -> Attempts]
      /\ attemptEvents \in Seq([Ordinals -> Attempts])
  BY DEF TypeOK
<1>2. CASE UNCHANGED <<attempts, attemptEvents, attemptCache>>
  BY <1>2 DEF AttemptsQuiet, AttemptEffect
<1>3. ASSUME UNCHANGED attemptCache, NEW o \in Ordinals, NEW a \in Attempts,
             "Complete" \notin a.conds, PutAttempt(o, a)
      PROVE  AttemptsQuiet'
  <2>1. attempts' = [attempts EXCEPT ![o] = a] /\ attemptEvents' = Append(attemptEvents, attempts')
    BY <1>3 DEF PutAttempt
  <2>2. /\ attempts' \in [Ordinals -> Attempts]
        /\ \A q \in Ordinals : "Complete" \notin attempts'[q].conds
    BY <1>1, <1>3, <2>1 DEF AttemptsQuiet
  <2>3. \A i \in 1 .. Len(attemptEvents') :
           \/ attemptEvents'[i] = attempts'
           \/ i \in 1 .. Len(attemptEvents) /\ attemptEvents'[i] = attemptEvents[i]
    BY <1>1, <2>1, <2>2, AppendLemma
  <2> QED BY <1>3, <2>2, <2>3 DEF AttemptsQuiet, AttemptEffect
<1>4. CASE /\ UNCHANGED attempts /\ attemptEvents # <<>>
           /\ attemptCache' = Head(attemptEvents) /\ attemptEvents' = Tail(attemptEvents)
  <2>1. /\ 1 \in 1 .. Len(attemptEvents) /\ attemptCache' = attemptEvents[1]
        /\ \A i \in 1 .. Len(attemptEvents') :
             i + 1 \in 1 .. Len(attemptEvents) /\ attemptEvents'[i] = attemptEvents[i + 1]
    BY <1>1, <1>4, TailLemma
  <2> QED BY <1>4, <2>1 DEF AttemptsQuiet, AttemptEffect
<1> QED BY <1>2, <1>3, <1>4 DEF AttemptEffect

\* A status write of the job that sets no Complete.
LEMMA QuietJobWrite ==
  ASSUME Quiet, NEW j, UpdateJobStatus(j), "Complete" \notin j.conds
  PROVE  QuietEffect
<1>1. pod' = NoPod /\ attempt' = NoAttempt
  BY DEF UpdateJobStatus, ReturnIdle
<1>2. PodEffect /\ AttemptEffect
  BY <1>1 DEF UpdateJobStatus, caches, PodEffect, AttemptEffect, NoPod, NoAttempt
<1>3. job' = job \/ job' = j
  BY DEF UpdateJobStatus, PutJob
<1> QED BY <1>2, <1>3 DEF QuietEffect, Quiet

\* A status write of an attempt that sets no Complete.
LEMMA QuietAttemptWrite ==
  ASSUME Inv, Quiet, pc = "loaded", attempt.owner # 0, NEW a \in Attempts, NEW position,
         UpdateAttemptStatus(a, position), "Complete" \notin a.conds
  PROVE  QuietEffect
<1>1. snapJob.active \in Ordinals
  BY HeldAttempt
<1>2. UNCHANGED <<job, pods, podEvents, podCache, attemptCache>>
  BY DEF UpdateAttemptStatus, caches
<1>3. PodEffect
  BY <1>2 DEF UpdateAttemptStatus, ReturnIdle, NoPod, PodEffect, Quiet, PodsQuiet
<1>4. AttemptEffect
  <2>1. CASE SameVersion(attempts[snapJob.active], attempt)
    BY <1>1, <1>2, <2>1 DEF UpdateAttemptStatus, AttemptEffect
  <2>2. CASE ~SameVersion(attempts[snapJob.active], attempt)
    BY <1>2, <2>2 DEF UpdateAttemptStatus, AttemptEffect, ReturnIdle, NoAttempt
  <2> QED BY <2>1, <2>2
<1> QED BY <1>2, <1>3, <1>4 DEF QuietEffect, Quiet

\* A step that stores nothing and keeps, drops or reads again what the worker holds.
LEMMA QuietRead ==
  ASSUME Quiet, UNCHANGED <<stored, watches, caches>>,
         pod'.phase # "Succeeded", "Complete" \notin attempt'.conds
  PROVE  QuietEffect
  BY DEF Quiet, stored, watches, caches, QuietEffect, PodEffect, AttemptEffect

\* Between two calls the worker holds nothing.
LEMMA IdleIsQuiet ==
  ASSUME Quiet, ReturnIdle \/ UNCHANGED <<attempt, pod>>
  PROVE  pod'.phase # "Succeeded" /\ "Complete" \notin attempt'.conds
  BY DEF Quiet, PodsQuiet, AttemptsQuiet, ReturnIdle, NoPod, NoAttempt

\* As long as no pod has succeeded, no step of the worker tells of a success.
LEMMA ReconcileIsQuiet ==
  ASSUME Inv, Quiet, Reconcile
  PROVE  QuietEffect
<1> USE DEF Goto
<1>1. TypeOK /\ attempt \in Attempts /\ snapJob \in Jobs
  BY TypeFacts DEF Inv
<1>2. CASE LoadJobSnapshot
  <2>1. jobCache.active \in Nat /\ (jobCache.active # 0 => jobCache.active \in Ordinals)
    <3>1. jobCache \in Jobs /\ JobSane(jobCache)
      BY DEF Inv, ReadsAreOld, JobVersion, TypeOK
    <3> QED BY <3>1, JobFields, BudgetAssumption DEF JobSane, Ordinals
  <2>2. pod'.phase # "Succeeded" /\ "Complete" \notin attempt'.conds
    BY <1>2, <2>1 DEF LoadJobSnapshot, ActiveAttempt, PodForAttempt, Quiet, PodsQuiet,
                      AttemptsQuiet, NoPod, NoAttempt
  <2> QED BY <1>2, <2>2, QuietRead DEF LoadJobSnapshot
<1>3. CASE FailOnOwnership
  <2>1. snapJob.conds = {}
    BY <1>3, SnapFacts DEF FailOnOwnership
  <2>2. "Complete" \notin TrySetJobTerminal(snapJob, "Failed", "OwnershipViolation").conds
    BY <1>1, <2>1 DEF TrySetJobTerminal, Jobs
  <2> QED BY <1>3, <2>2, QuietJobWrite DEF FailOnOwnership
<1>4. CASE CreateAttempt
  <2> DEFINE o == AttemptOrdinal(snapJob, Retry)
             a == [NoAttempt EXCEPT !.owner = snapJob.uid]
  <2>1. /\ UNCHANGED <<job, pods, podEvents, podCache, attemptCache, attempt, pod>>
        /\ PutAttempt(o, a) \/ UNCHANGED <<attempts, attemptEvents>>
    BY <1>4 DEF CreateAttempt, caches
  <2>2. o \in Ordinals
    BY <1>4, NewOrdinal DEF CreateAttempt
  <2>3. a \in Attempts /\ "Complete" \notin a.conds
    BY <1>1 DEF NoAttempt, Attempts, Jobs
  <2> HIDE DEF o, a
  <2>4. PodEffect /\ "Complete" \notin job'.conds
    BY <2>1 DEF PodEffect, Quiet, PodsQuiet
  <2>5. AttemptEffect
    BY <2>1, <2>2, <2>3 DEF AttemptEffect, Quiet, AttemptsQuiet
  <2> QED BY <2>4, <2>5 DEF QuietEffect
<1>5. CASE GetAttemptAfterRace
  BY <1>5, QuietRead, IdleIsQuiet DEF GetAttemptAfterRace
<1>6. CASE SetActiveAttempt
  <2> DEFINE j == [snapJob EXCEPT !.failedAttempts = @ + Retry,
                                  !.active = AttemptOrdinal(snapJob, Retry),
                                  !.running = IF Retry = 0 THEN @ ELSE FALSE]
  <2>1. snapJob.conds = {} /\ j.conds = snapJob.conds
    BY <1>1, <1>6, SnapFacts DEF SetActiveAttempt, Jobs
  <2>2. UpdateJobStatus(j)
    BY <1>6 DEF SetActiveAttempt
  <2> HIDE DEF j
  <2> QED BY <2>1, <2>2, QuietJobWrite
<1>7. CASE CreatePod
  <2> DEFINE p == BuildPod(snapJob, lastPodUID + 1)
  <2>1. UNCHANGED <<job, attempts, attemptEvents, attemptCache, podCache, attempt>>
    BY <1>7 DEF CreatePod, caches
  <2>2. snapJob.active \in Ordinals
    BY <1>7, HeldAttempt DEF CreatePod
  <2>3. p \in Pods /\ p.phase # "Succeeded"
    BY <1>1 DEF BuildPod, Pods, Phases, Jobs, TypeOK
  <2>4. AttemptEffect /\ "Complete" \notin job'.conds
    BY <2>1 DEF AttemptEffect, Quiet, AttemptsQuiet
  <2>5. \/ pod' = podCache[snapJob.active] /\ UNCHANGED <<pods, podEvents>>
        \/ pod' = p /\ PutPod(snapJob.active, p)
        \/ UNCHANGED <<pod, pods, podEvents>>
    BY <1>7 DEF CreatePod
  <2> HIDE DEF p
  <2>6. PodEffect
    BY <2>1, <2>2, <2>3, <2>5 DEF PodEffect, Quiet, PodsQuiet
  <2> QED BY <2>4, <2>6 DEF QuietEffect
<1>8. CASE GetPodAfterRace
  <2>1. snapJob.active \in Ordinals
    BY <1>8 DEF Inv, WorkerKnows, GetPodAfterRace
  <2>2. pod'.phase # "Succeeded" /\ "Complete" \notin attempt'.conds
    BY <1>8, <2>1 DEF GetPodAfterRace, Quiet, PodsQuiet, AttemptsQuiet, ReturnIdle, NoPod, NoAttempt
  <2> QED BY <1>8, <2>2, QuietRead DEF GetPodAfterRace
<1>9. CASE RecordPod
  <2>1. snapJob.active \in Ordinals
    BY <1>9, HeldAttempt DEF RecordPod
  <2>2. UNCHANGED <<job, pods, podEvents, podCache, attemptCache>> /\ ReturnIdle
    BY <1>9 DEF RecordPod, caches
  <2>3. Recorded(attempt, pod) \in Attempts /\ "Complete" \notin Recorded(attempt, pod).conds
    BY <1>1 DEF Recorded, Attempts, TypeOK, Pods, Quiet, AttemptsQuiet
  <2>4. \/ PutAttempt(snapJob.active, Recorded(attempt, pod))
        \/ UNCHANGED <<attempts, attemptEvents>>
    BY <1>9 DEF RecordPod
  <2>5. AttemptEffect
    BY <2>1, <2>2, <2>3, <2>4, IdleIsQuiet DEF AttemptEffect
  <2> QED BY <2>2, <2>5, IdleIsQuiet DEF QuietEffect, PodEffect, Quiet
<1>10. CASE GetRecordedPod
  <2>1. snapJob.active \in Ordinals
    BY <1>10, HeldAttempt DEF GetRecordedPod
  <2>2. pod'.phase # "Succeeded" /\ "Complete" \notin attempt'.conds
    BY <1>10, <2>1 DEF GetRecordedPod, Quiet, PodsQuiet, AttemptsQuiet
  <2> QED BY <1>10, <2>2, QuietRead DEF GetRecordedPod
<1>11. "Complete" \notin attempt.conds
  BY DEF Quiet, AttemptsQuiet
<1>12. CASE FailLostPod
  <2>1. markAttemptFailed(attempt) \in Attempts /\ "Complete" \notin markAttemptFailed(attempt).conds
    BY <1>1, <1>11 DEF markAttemptFailed, Attempts, Terminal
  <2> QED BY <1>12, <2>1, QuietAttemptWrite DEF FailLostPod
<1>13. CASE ObservePending
  BY <1>13, QuietRead, IdleIsQuiet DEF ObservePending
<1>14. CASE ObserveRunning
  <2>1. CASE Goto("running") /\ UNCHANGED <<stored, watches, caches>>
    BY <2>1, QuietRead, IdleIsQuiet
  <2>2. CASE UpdateAttemptStatus([attempt EXCEPT !.started = TRUE], "running")
    <3>1. /\ [attempt EXCEPT !.started = TRUE] \in Attempts
          /\ "Complete" \notin [attempt EXCEPT !.started = TRUE].conds
      BY <1>1, <1>11 DEF Attempts
    <3> QED BY <1>14, <2>2, <3>1, QuietAttemptWrite DEF ObserveRunning, HasOwnPod
  <2> QED BY <1>14, <2>1, <2>2 DEF ObserveRunning
<1>15. CASE ObserveSucceeded
  BY <1>15 DEF ObserveSucceeded, Quiet, PodsQuiet
<1>16. CASE ObserveFailed
  <2> DEFINE a == markAttemptFailed([attempt EXCEPT !.started = TRUE])
  <2>1. a \in Attempts /\ "Complete" \notin a.conds
    BY <1>1, <1>11 DEF markAttemptFailed, Attempts, Terminal
  <2>2. UpdateAttemptStatus(a, "decide") /\ HasOwnPod
    BY <1>16 DEF ObserveFailed
  <2> HIDE DEF a
  <2> QED BY <2>1, <2>2, QuietAttemptWrite DEF HasOwnPod
<1>17. CASE SetJobRunning
  <2>1. CASE ReturnIdle /\ UNCHANGED <<stored, watches, caches>>
    BY <2>1, QuietRead, IdleIsQuiet
  <2>2. CASE UpdateJobStatus([snapJob EXCEPT !.running = TRUE])
    <3>1. [snapJob EXCEPT !.running = TRUE].conds = {}
      BY <1>1, <1>17, SnapFacts DEF SetJobRunning, Jobs
    <3> QED BY <2>2, <3>1, QuietJobWrite
  <2> QED BY <1>17, <2>1, <2>2 DEF SetJobRunning
<1>18. CASE CompleteJob
  BY <1>11, <1>18 DEF CompleteJob, IsAttemptSucceeded
<1>19. CASE ExhaustRetries
  <2> DEFINE i == [snapJob EXCEPT !.failedAttempts = @ + 1]
             j == TrySetJobTerminal(i, "Failed", "RetriesExhausted")
  <2>1. i.conds = {} /\ i \in Jobs
    BY <1>1, <1>19, SnapFacts DEF ExhaustRetries, Jobs
  <2>2. "Complete" \notin j.conds
    BY <2>1 DEF TrySetJobTerminal, Jobs
  <2>3. UpdateJobStatus(j)
    BY <1>19 DEF ExhaustRetries
  <2> HIDE DEF j
  <2> QED BY <2>2, <2>3, QuietJobWrite
<1> QED BY <1>2, <1>3, <1>4, <1>5, <1>6, <1>7, <1>8, <1>9, <1>10, <1>12, <1>13, <1>14,
           <1>15, <1>16, <1>17, <1>18, <1>19 DEF Reconcile

\* Everyone else brings a success only by a pod that succeeds.
LEMMA EnvironmentIsQuiet ==
  ASSUME Inv, Quiet, Environment, succeeded' = {}
  PROVE  QuietEffect
<1> USE DEF local
<1>1. TypeOK /\ job \in Jobs /\ "Complete" \notin job.conds
  BY DEF Inv, TypeOK, Quiet
<1>2. pod.phase # "Succeeded" /\ "Complete" \notin attempt.conds
  BY DEF Quiet, PodsQuiet, AttemptsQuiet
<1>3. CASE SubmitJob \/ RaiseMaxAttempts \/ DeleteJob \/ CancelJob
  <2>1. UNCHANGED <<attempts, pods, attemptEvents, podEvents, attemptCache, podCache, attempt, pod>>
    BY <1>3 DEF SubmitJob, RaiseMaxAttempts, DeleteJob, CancelJob, caches
  <2>2. "Complete" \notin job'.conds
    <3>1. CASE SubmitJob \/ DeleteJob
      <4>1. job' = NoJob \/ \E uid, max : job' = NewJob(uid, max)
        BY <3>1 DEF SubmitJob, DeleteJob, PutJob
      <4>2. NoJob.conds = {} /\ \A uid, max : NewJob(uid, max).conds = {}
        BY DEF NewJob, NoJob
      <4> QED BY <4>1, <4>2
    <3>2. CASE RaiseMaxAttempts
      BY <1>1, <3>2 DEF RaiseMaxAttempts, PutJob, Jobs
    <3>3. CASE CancelJob
      BY <1>1, <3>3 DEF CancelJob, PutJob, TrySetJobTerminal, Jobs
    <3> QED BY <1>3, <3>1, <3>2, <3>3
  <2> QED BY <1>2, <2>1, <2>2 DEF QuietEffect, PodEffect, AttemptEffect
<1>4. NoPod \in Pods /\ NoPod.phase # "Succeeded" /\ NoAttempt \in Attempts /\ NoAttempt.conds = {}
  BY DEF NoPod, NoAttempt, Pods, Phases, Attempts
<1>5. ASSUME NEW o \in Ordinals, NEW p \in Pods, PutPod(o, p), p.phase # "Succeeded",
             UNCHANGED <<job, attempts, attemptEvents, attemptCache, podCache, attempt, pod>>
      PROVE  QuietEffect
  BY <1>1, <1>2, <1>5 DEF QuietEffect, PodEffect, AttemptEffect
<1>6. CASE CancelGetsAttempt
  BY <1>2, <1>6, QuietRead DEF CancelGetsAttempt
<1>7. CASE CancelDeletesPod
  <2>1. cli.ordinal \in Ordinals
    BY <1>1, <1>7 DEF TypeOK, CancelDeletesPod
  <2>2. UNCHANGED <<job, attempts, attemptEvents, attemptCache, podCache, attempt, pod>>
    BY <1>7 DEF CancelDeletesPod, caches
  <2>3. CASE UNCHANGED <<pods, podEvents>>
    BY <1>1, <1>2, <2>2, <2>3 DEF QuietEffect, PodEffect, AttemptEffect
  <2>4. CASE PutPod(cli.ordinal, NoPod)
    BY <1>4, <1>5, <2>1, <2>2, <2>4
  <2> QED BY <1>7, <2>3, <2>4 DEF CancelDeletesPod
<1>8. ASSUME NEW o \in Ordinals, CollectAttempt(o)
      PROVE  QuietEffect
  BY <1>1, <1>2, <1>4, <1>8 DEF CollectAttempt, caches, QuietEffect, PodEffect, AttemptEffect
<1>9. ASSUME NEW o \in Ordinals, CollectPod(o) \/ LosePod(o)
      PROVE  QuietEffect
  BY <1>4, <1>5, <1>9 DEF CollectPod, LosePod, caches
<1>10. ASSUME NEW o \in Ordinals, NEW from, NEW to \in Phases, PodMoves(o, from, to)
       PROVE  QuietEffect
  <2>1. to # "Succeeded"
    BY <1>10 DEF PodMoves
  <2>2. [pods[o] EXCEPT !.phase = to] \in Pods /\ [pods[o] EXCEPT !.phase = to].phase = to
    BY <1>1 DEF Pods, TypeOK
  <2> QED BY <1>5, <1>10, <2>1, <2>2 DEF PodMoves, caches
<1>11. ASSUME NEW o \in Ordinals, PodStarts(o) \/ PodEnds(o)
       PROVE  QuietEffect
  BY <1>10, <1>11 DEF PodStarts, PodEnds, Phases
<1>12. CASE DeliverJob
  BY <1>1, <1>2, <1>12 DEF DeliverJob, stored, QuietEffect, PodEffect, AttemptEffect
<1>13. CASE DeliverAttempts
  BY <1>1, <1>2, <1>13 DEF DeliverAttempts, stored, QuietEffect, PodEffect, AttemptEffect
<1>14. CASE DeliverPods
  BY <1>1, <1>2, <1>14 DEF DeliverPods, stored, QuietEffect, PodEffect, AttemptEffect
<1> QED BY <1>3, <1>6, <1>7, <1>8, <1>9, <1>11, <1>12, <1>13, <1>14 DEF Environment

\* Every pod is stored for a job that was created, and so is every success.
LEMMA OwnersStay ==
  ASSUME Inv, OwnersExist, [Next]_vars
  PROVE  OwnersExist'
<1>1. /\ lastJobUID \in Nat /\ pods \in [Ordinals -> Pods]
      /\ succeeded \subseteq 1 .. lastJobUID
      /\ \A o \in Ordinals : pods[o].uid # 0 => pods[o].owner \in 1 .. lastJobUID
  BY DEF Inv, TypeOK, OwnersExist
<1>2. lastJobUID' = lastJobUID \/ lastJobUID' = lastJobUID + 1
  BY DEF Next, vars, Reconcile, Environment, LoadJobSnapshot, FailOnOwnership, CreateAttempt,
         GetAttemptAfterRace, SetActiveAttempt, CreatePod, GetPodAfterRace, RecordPod,
         GetRecordedPod, FailLostPod, ObservePending, ObserveRunning, ObserveSucceeded,
         ObserveFailed, SetJobRunning, CompleteJob, ExhaustRetries, UpdateJobStatus,
         UpdateAttemptStatus, CrashOperator, SubmitJob, RaiseMaxAttempts, DeleteJob, CancelJob,
         CancelGetsAttempt, CancelDeletesPod, CollectAttempt, CollectPod, PodStarts, PodEnds,
         PodMoves, LosePod, DeliverJob, DeliverAttempts, DeliverPods
<1>3. CASE UNCHANGED <<pods, succeeded>>
  BY <1>1, <1>2, <1>3 DEF OwnersExist
<1>4. ASSUME NEW o \in Ordinals, NEW p \in Pods, PutPod(o, p),
             p.uid # 0 => p.owner \in 1 .. lastJobUID, succeeded' \subseteq 1 .. lastJobUID
      PROVE  OwnersExist'
  <2>1. pods' = [pods EXCEPT ![o] = p]
    BY <1>4 DEF PutPod
  <2> QED BY <1>1, <1>2, <1>4, <2>1 DEF OwnersExist
<1>5. NoPod \in Pods /\ NoPod.uid = 0
  BY DEF NoPod, Pods, Phases
<1>6. CASE CreatePod
  <2> DEFINE p == BuildPod(snapJob, lastPodUID + 1)
  <2>1. snapJob.active \in Ordinals /\ snapJob \in Jobs /\ snapJob.uid # 0
    BY <1>6, HeldAttempt, SnapFacts DEF CreatePod
  <2>2. snapJob.uid \in 1 .. lastJobUID
    BY <1>1, <2>1, JobFields DEF Inv, ReadsAreOld, JobVersion, JobOld
  <2>3. p \in Pods /\ p.owner \in 1 .. lastJobUID
    BY <2>1, <2>2 DEF BuildPod, Pods, Phases, Jobs, Inv, TypeOK
  <2>4. succeeded' = succeeded /\ (PutPod(snapJob.active, p) \/ UNCHANGED pods)
    BY <1>6 DEF CreatePod
  <2> HIDE DEF p
  <2> QED BY <1>1, <1>3, <1>4, <2>1, <2>3, <2>4
<1>7. CASE CancelDeletesPod
  <2>1. cli.ordinal \in Ordinals
    BY <1>7 DEF Inv, TypeOK, CancelDeletesPod
  <2> QED BY <1>1, <1>3, <1>4, <1>5, <1>7, <2>1 DEF CancelDeletesPod
<1>8. ASSUME NEW o \in Ordinals, CollectPod(o) \/ LosePod(o)
      PROVE  OwnersExist'
  BY <1>1, <1>4, <1>5, <1>8 DEF CollectPod, LosePod
<1>9. ASSUME NEW o \in Ordinals, NEW from, NEW to \in Phases, PodMoves(o, from, to)
      PROVE  OwnersExist'
  <2> DEFINE p == [pods[o] EXCEPT !.phase = to]
  <2>1. p \in Pods /\ p.uid = pods[o].uid /\ p.owner = pods[o].owner
    BY <1>1 DEF Pods
  <2>2. pods[o].owner \in 1 .. lastJobUID /\ succeeded' \subseteq succeeded \cup {pods[o].owner}
    BY <1>1, <1>9 DEF PodMoves
  <2>3. PutPod(o, p)
    BY <1>9 DEF PodMoves
  <2> HIDE DEF p
  <2> QED BY <1>1, <1>4, <2>1, <2>2, <2>3
<1>10. ASSUME NEW o \in Ordinals, PodStarts(o) \/ PodEnds(o)
       PROVE  OwnersExist'
  BY <1>9, <1>10 DEF PodStarts, PodEnds, Phases
<1>11. CASE Reconcile /\ ~CreatePod
  BY <1>3, <1>11
  DEF Reconcile, LoadJobSnapshot, FailOnOwnership, CreateAttempt, GetAttemptAfterRace,
      SetActiveAttempt, GetPodAfterRace, RecordPod, GetRecordedPod, FailLostPod, ObservePending,
      ObserveRunning, ObserveSucceeded, ObserveFailed, SetJobRunning, CompleteJob,
      ExhaustRetries, UpdateJobStatus, UpdateAttemptStatus, stored
<1>12. CASE CrashOperator \/ UNCHANGED vars
  BY <1>3, <1>12 DEF CrashOperator, vars, stored
<1>13. CASE \/ SubmitJob \/ RaiseMaxAttempts \/ DeleteJob \/ CancelJob \/ CancelGetsAttempt
            \/ DeliverJob \/ DeliverAttempts \/ DeliverPods
            \/ \E o \in Ordinals : CollectAttempt(o)
  BY <1>3, <1>13 DEF SubmitJob, RaiseMaxAttempts, DeleteJob, CancelJob, CancelGetsAttempt,
                     DeliverJob, DeliverAttempts, DeliverPods, CollectAttempt, stored
<1> QED BY <1>6, <1>7, <1>8, <1>10, <1>11, <1>12, <1>13 DEF Next, Environment

\* Successes are never forgotten.
LEMMA SuccessesStay ==
  ASSUME [Next]_vars
  PROVE  succeeded \subseteq succeeded'
<1>1. CASE Reconcile
  BY <1>1
  DEF Reconcile, LoadJobSnapshot, FailOnOwnership, CreateAttempt, GetAttemptAfterRace,
      SetActiveAttempt, CreatePod, GetPodAfterRace, RecordPod, GetRecordedPod, FailLostPod,
      ObservePending, ObserveRunning, ObserveSucceeded, ObserveFailed, SetJobRunning,
      CompleteJob, ExhaustRetries, UpdateJobStatus, UpdateAttemptStatus
<1>2. CASE Environment
  BY <1>2
  DEF Environment, SubmitJob, RaiseMaxAttempts, DeleteJob, CancelJob, CancelGetsAttempt,
      CancelDeletesPod, CollectAttempt, CollectPod, PodStarts, PodEnds, PodMoves, LosePod,
      DeliverJob, DeliverAttempts, DeliverPods
<1>3. CASE CrashOperator \/ UNCHANGED vars
  BY <1>3 DEF CrashOperator, vars
<1> QED BY <1>1, <1>2, <1>3 DEF Next

\* The evidence of a success is kept by every step.
LEMMA EvidenceStays ==
  ASSUME Inv, Evidence, [Next]_vars
  PROVE  Evidence'
<1>1. OwnersExist'
  BY OwnersStay DEF Evidence
<1>2. ASSUME succeeded' = {}
      PROVE  Quiet'
  <2>1. Quiet
    BY <1>2, SuccessesStay DEF Evidence, NoneSucceeded, Quiet
  <2>2. QuietEffect
    <3>1. CASE Reconcile
      BY <2>1, <3>1, ReconcileIsQuiet
    <3>2. CASE CrashOperator
      BY <2>1, <3>2, QuietRead, IdleIsQuiet DEF CrashOperator
    <3>3. CASE Environment
      BY <1>2, <2>1, <3>3, EnvironmentIsQuiet
    <3>4. CASE UNCHANGED vars
      BY <2>1, <3>4, QuietRead, IdleIsQuiet DEF vars, local
    <3> QED BY <3>1, <3>2, <3>3, <3>4 DEF Next
  <2> QED BY <2>1, <2>2, PodsStayQuiet, AttemptsStayQuiet DEF Quiet, QuietEffect, Inv
<1> QED BY <1>1, <1>2 DEF Evidence, NoneSucceeded, Quiet

-----------------------------------------------------------------------------
(* The theorems.                                                            *)

\* Inv is inductive.
THEOREM Invariance == Spec => []Inv
<1>1. Inv /\ [Next]_vars => Inv'
  BY ReconcileKeepsInv, CrashKeepsInv, EnvironmentKeepsInv, StutterKeepsInv DEF Next
<1> QED BY <1>1, InitInv, PTL DEF Spec

\* Every variable keeps its type: in particular no ordinal, and so no name of an
\* attempt or a pod, outside the budget is ever made up by createAttempt.
THEOREM Types == Spec => []TypeOK
<1>1. Inv => TypeOK
  BY DEF Inv
<1> QED BY <1>1, Invariance, PTL

\* Whatever a reconcile has read, and whatever is still on its way to a cache, is an
\* earlier version of what is stored: never ahead of it, and never terminal in another way.
THEOREM EarlierVersions == Spec => []ReadsAreOld
<1>1. Inv => ReadsAreOld
  BY DEF Inv
<1> QED BY <1>1, Invariance, PTL

\* An attempt is created only after every earlier attempt of its job has Failed for
\* good, however stale the caches of the reconcile are and wherever it is cut short.
THEOREM RetriesFollowFailures == Spec => []FailedBeforeRetry
<1>1. Inv => FailedBeforeRetry
  BY DEF Inv
<1> QED BY <1>1, Invariance, PTL

\* Never more attempts than maxAttempts.
THEOREM Budget == Spec => []WithinBudget
<1>1. Inv => WithinBudget
  BY DEF Inv
<1> QED BY <1>1, Invariance, PTL

\* status.failedAttempts counts the failed attempts of the job, each once.
THEOREM Counting == Spec => []FailuresCountedOnce
<1>1. Inv => FailuresCountedOnce
  <2> SUFFICES ASSUME Inv, job.uid # 0 PROVE FailuresCountedOnce
    BY DEF FailuresCountedOnce
  <2>1. job \in Jobs /\ JobSane(job) /\ JobOld(job)
    BY DEF Inv, TypeOK, ReadsAreOld, JobVersion
  <2>2. job.failedAttempts \in Nat /\ job.failedAttempts <= MaxBudget
    BY <2>1, JobFields, BudgetAssumption DEF JobSane
  <2>3. ASSUME NEW o \in 1 .. job.failedAttempts
        PROVE  Owned(o) /\ attempts[o].conds = {"Failed"}
    <3>1. o \in Ordinals /\ o <= job.failedAttempts
      BY <2>2, BudgetAssumption DEF Ordinals
    <3> QED BY <2>1, <3>1 DEF JobOld, Live, Owned
  <2> QED BY <2>1, <2>3 DEF FailuresCountedOnce, JobSane
<1> QED BY <1>1, Invariance, PTL

\* No status write, delayed or repeated, changes what is terminal.
THEOREM Finality == Spec => TerminalIsFinal
<1>1. Inv /\ [Next]_vars => [JobFinal /\ AttemptsFinal]_stored
  <2> SUFFICES ASSUME Inv, [Next]_vars PROVE [JobFinal /\ AttemptsFinal]_stored
    OBVIOUS
  <2>1. CASE Reconcile
    BY <2>1, FinalReconcile
  <2>2. CASE CrashOperator
    BY <2>2, FinalUnchanged DEF CrashOperator, stored
  <2>3. CASE Environment
    BY <2>3, FinalEnvironment
  <2>4. CASE UNCHANGED vars
    BY <2>4 DEF vars
  <2> QED BY <2>1, <2>2, <2>3, <2>4 DEF Next
<1> QED BY <1>1, Invariance, PTL DEF Spec, TerminalIsFinal

\* The first job of a name is Complete only if one of its own pods ended in Succeeded,
\* whatever is lost, stale or retried.  (A job whose name was used before can adopt the
\* pod of its predecessor, and with it that pod's success.)
THEOREM FirstJobCompletes == Spec => [](lastJobUID = 1 => CompleteMeansSucceeded)
<1>1. Init => Evidence
  BY DEF Init, Evidence, OwnersExist, NoneSucceeded, PodsQuiet, AttemptsQuiet, NoPod,
         NoAttempt, NoJob
<1>2. Inv /\ Evidence /\ [Next]_vars => Evidence'
  BY EvidenceStays
<1>3. Inv /\ Evidence => (lastJobUID = 1 => CompleteMeansSucceeded)
  <2> SUFFICES ASSUME Inv, Evidence, lastJobUID = 1, job.uid # 0, "Complete" \in job.conds
               PROVE  job.uid \in succeeded
    BY DEF CompleteMeansSucceeded
  <2>1. job.uid = 1
    <3>1. job.uid \in Nat /\ job.uid <= 1
      BY TypeFacts, JobFields DEF Inv, ReadsAreOld, JobVersion, JobOld
    <3> QED BY <3>1
  <2>2. succeeded # {} /\ succeeded \subseteq 1 .. 1
    BY DEF Evidence, NoneSucceeded, OwnersExist
  <2>3. PICK u \in succeeded : u \in 1 .. 1
    BY <2>2
  <2>4. u = 1
    BY <2>3
  <2> QED BY <2>1, <2>3, <2>4
<1> QED BY <1>1, <1>2, <1>3, Invariance, PTL DEF Spec

=============================================================================
