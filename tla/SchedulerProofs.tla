-------------------------- MODULE SchedulerProofs --------------------------
(***************************************************************************)
(* The safety properties of Scheduler, for any jobs, goroutines, number of *)
(* retries and faults.                                                     *)
(*                                                                         *)
(* Two arguments run side by side.  Executions: whoever executes an        *)
(* attempt has taken it out of New, and nothing returns there.  Numbers:   *)
(* the scheduler makes an attempt for a job it has not scheduled, or in    *)
(* place of one that ended; what it makes too much of, it makes after a    *)
(* fault (SpareAttempts, SpareActive).                                     *)
(***************************************************************************)
EXTENDS Scheduler, FiniteSetTheorems, TLAPS

ActiveStates == {"New", "Executing"}

\* The attempts of a job, given as a sequence, that are New or Executing.
ActiveIn(s) == {n \in DOMAIN s : s[n] \in ActiveStates}

\* No attempt is added to s and none of it becomes active again.
Settles(s, t) ==
  /\ Len(t) = Len(s)
  /\ Cardinality(ActiveIn(t)) <= Cardinality(ActiveIn(s))
  /\ s # <<>> /\ t[Len(s)] \notin ActiveStates =>
       s[Len(s)] \notin ActiveStates \/ Cardinality(ActiveIn(t)) + 1 <= Cardinality(ActiveIn(s))

\* WithinRetries, SpareAttempts, OneActiveAttempt and SpareActive, for one job.
JobCounts(j) ==
  /\ Len(attempts[j]) <= MaxRetries + 1 + faults
  /\ job[j] = "absent" => attempts[j] = <<>>
  /\ Unscheduled(j) =>
       attempts[j] = <<>> \/ (faults >= 1 /\ Len(attempts[j]) <= MaxRetries + faults)
  /\ Cardinality(ActiveIn(attempts[j])) <= 1 + faults
  /\ LatestEnded(j) \/ Unscheduled(j) \/ Retrying(j)
       => Cardinality(ActiveIn(attempts[j])) <= faults
  /\ Unscheduled(j) /\ Retrying(j) => Cardinality(ActiveIn(attempts[j])) + 1 <= faults

Counts == \A j \in Jobs : JobCounts(j)

-----------------------------------------------------------------------------
(* Sequences of attempts.                                                   *)

\* The active attempts of a list are finitely many, and an empty list has none.
LEMMA ActiveFinite ==
  ASSUME NEW s \in Seq(AttemptStates)
  PROVE  /\ IsFiniteSet(ActiveIn(s)) /\ Cardinality(ActiveIn(s)) \in Nat
         /\ s = <<>> => Cardinality(ActiveIn(s)) = 0
<1>1. Len(s) \in Nat /\ DOMAIN s = 1 .. Len(s)
  OBVIOUS
<1>2. IsFiniteSet(1 .. Len(s))
  BY <1>1, FS_Interval
<1>3. IsFiniteSet(ActiveIn(s))
  BY <1>1, <1>2, FS_Subset DEF ActiveIn
<1>4. s = <<>> => ActiveIn(s) = {}
  BY DEF ActiveIn
<1> QED BY <1>3, <1>4, FS_CardinalityType, FS_EmptySet

\* A new attempt is one more active attempt, and the latest.
LEMMA ActiveAppend ==
  ASSUME NEW s \in Seq(AttemptStates), NEW t, t = Append(s, "New")
  PROVE  /\ t \in Seq(AttemptStates) /\ Len(t) = Len(s) + 1 /\ t # <<>>
         /\ \A n \in 1 .. Len(s) : t[n] = s[n]
         /\ t[Len(t)] = "New"
         /\ Cardinality(ActiveIn(t)) = Cardinality(ActiveIn(s)) + 1
<1>1. t \in Seq(AttemptStates) /\ Len(t) = Len(s) + 1 /\ \A n \in 1 .. Len(s) : t[n] = s[n]
  BY DEF AttemptStates
<1>2. t[Len(t)] = "New" /\ t # <<>> /\ t[Len(s) + 1] = "New"
  OBVIOUS
<1>3. ActiveIn(t) = ActiveIn(s) \cup {Len(s) + 1}
  BY <1>1, <1>2 DEF ActiveIn, ActiveStates
<1>4. Len(s) + 1 \notin ActiveIn(s)
  BY DEF ActiveIn
<1>5. Cardinality(ActiveIn(t)) = Cardinality(ActiveIn(s)) + 1
  BY <1>3, <1>4, ActiveFinite, FS_AddElement
<1> QED BY <1>1, <1>2, <1>5

\* An attempt ends, or goes from New to Executing.
LEMMA ActiveMove ==
  ASSUME NEW s \in Seq(AttemptStates), NEW t \in Seq(AttemptStates), NEW n \in 1 .. Len(s),
         Len(t) = Len(s), \A i \in 1 .. Len(s) : i # n => t[i] = s[i],
         t[n] = s[n] \/ s[n] \in ActiveStates
  PROVE  /\ Settles(s, t)
         /\ s[n] \in ActiveStates /\ t[n] \notin ActiveStates
              => Cardinality(ActiveIn(t)) + 1 = Cardinality(ActiveIn(s))
<1>0. DOMAIN s = 1 .. Len(s) /\ DOMAIN t = 1 .. Len(s) /\ Len(s) \in Nat
  OBVIOUS
<1>1. CASE s[n] \in ActiveStates /\ t[n] \notin ActiveStates
  <2>1. ActiveIn(t) = ActiveIn(s) \ {n} /\ n \in ActiveIn(s)
    BY <1>0, <1>1 DEF ActiveIn
  <2>2. Cardinality(ActiveIn(t)) = Cardinality(ActiveIn(s)) - 1
    BY <2>1, ActiveFinite, FS_RemoveElement
  <2>3. Cardinality(ActiveIn(t)) \in Nat /\ Cardinality(ActiveIn(s)) \in Nat
    BY ActiveFinite
  <2> QED BY <2>2, <2>3 DEF Settles
<1>2. CASE ~(s[n] \in ActiveStates /\ t[n] \notin ActiveStates)
  <2>1. \A i \in 1 .. Len(s) : s[i] \in ActiveStates <=> t[i] \in ActiveStates
    BY <1>2
  <2>2. ActiveIn(t) = ActiveIn(s)
    BY <1>0, <2>1 DEF ActiveIn
  <2>3. s # <<>> => Len(s) \in 1 .. Len(s)
    BY <1>0
  <2> QED BY <1>2, <2>1, <2>2, <2>3, ActiveFinite DEF Settles
<1> QED BY <1>1, <1>2

\* A list settles into itself.
LEMMA SettlesSame ==
  ASSUME NEW s \in Seq(AttemptStates)
  PROVE  Settles(s, s)
  BY ActiveFinite DEF Settles

-----------------------------------------------------------------------------
(* The store.                                                               *)

\* Attempts are not taken away.
LEMMA AttemptGrows ==
  ASSUME attempts \in [Jobs -> Seq(AttemptStates)], attempts' \in [Jobs -> Seq(AttemptStates)],
         \A j \in Jobs : Len(attempts[j]) <= Len(attempts'[j])
  PROVE  Attempt \subseteq Attempt'
<1> SUFFICES ASSUME NEW a \in Attempt PROVE a \in Attempt'
  OBVIOUS
<1>1. a \in Jobs \X (1 .. MaxRetries + 1 + MaxFaults) /\ a[2] <= Len(attempts[a[1]])
  BY DEF Attempt
<1>2. a[1] \in Jobs /\ a[2] \in Int
  BY <1>1, RetriesAssumption, StoreFaultsAssumption
<1>3. Len(attempts[a[1]]) \in Nat /\ Len(attempts'[a[1]]) \in Nat
  BY <1>2
<1>4. a[2] <= Len(attempts'[a[1]])
  BY <1>1, <1>2, <1>3
<1> QED BY <1>1, <1>4 DEF Attempt

\* An attempt is a job and the number of one of its attempts.
LEMMA AttemptFields ==
  ASSUME attempts \in [Jobs -> Seq(AttemptStates)], NEW a \in Attempt
  PROVE  /\ a[1] \in Jobs /\ a[2] \in 1 .. Len(attempts[a[1]]) /\ a[2] \in Nat
         /\ a = <<a[1], a[2]>> /\ attempts[a[1]] # <<>> /\ State(a) \in AttemptStates
<1>1. a \in Jobs \X (1 .. MaxRetries + 1 + MaxFaults) /\ a[2] <= Len(attempts[a[1]])
  BY DEF Attempt
<1>2. a[1] \in Jobs /\ a[2] \in 1 .. MaxRetries + 1 + MaxFaults /\ a = <<a[1], a[2]>>
  BY <1>1
<1>3. attempts[a[1]] \in Seq(AttemptStates)
  BY <1>2
<1>4. a[2] \in 1 .. Len(attempts[a[1]])
  BY <1>1, <1>2, <1>3, RetriesAssumption, StoreFaultsAssumption
<1> QED BY <1>2, <1>3, <1>4 DEF State

\* What a transition of an attempt does.
LEMMA AttemptTransition ==
  ASSUME attempts \in [Jobs -> Seq(AttemptStates)], NEW a \in Attempt,
         NEW from \in ActiveStates, NEW to \in AttemptStates \ {"New"},
         TransitionAttemptState(a, from, to)
  PROVE  /\ attempts' \in [Jobs -> Seq(AttemptStates)]
         /\ \A j \in Jobs : Len(attempts'[j]) = Len(attempts[j])
         /\ \A j \in Jobs : j # a[1] => attempts'[j] = attempts[j]
         /\ \A n \in 1 .. Len(attempts[a[1]]) : n # a[2] => attempts'[a[1]][n] = attempts[a[1]][n]
         /\ State(a)' = IF State(a) = from THEN to ELSE State(a)
         /\ \A b \in Attempt : b # a => State(b)' = State(b)
         /\ \A j \in Jobs : Settles(attempts[j], attempts'[j])
<1> DEFINE s == attempts[a[1]]
           t == [s EXCEPT ![a[2]] = IF @ = from THEN to ELSE @]
<1>1. /\ a[1] \in Jobs /\ a[2] \in 1 .. Len(s) /\ s \in Seq(AttemptStates)
      /\ a = <<a[1], a[2]>>
  BY AttemptFields
<1>2. attempts' = [attempts EXCEPT ![a[1]] = t]
  BY DEF TransitionAttemptState
<1>3. /\ t \in Seq(AttemptStates) /\ Len(t) = Len(s)
      /\ \A n \in 1 .. Len(s) : n # a[2] => t[n] = s[n]
      /\ t[a[2]] = IF s[a[2]] = from THEN to ELSE s[a[2]]
  BY <1>1
<1>4. attempts'[a[1]] = t /\ \A j \in Jobs : j # a[1] => attempts'[j] = attempts[j]
  BY <1>1, <1>2
<1> HIDE DEF t
<1>5. attempts' \in [Jobs -> Seq(AttemptStates)]
  BY <1>1, <1>2, <1>3
<1>6. \A j \in Jobs : Len(attempts'[j]) = Len(attempts[j])
  BY <1>3, <1>4
<1>7. State(a)' = IF State(a) = from THEN to ELSE State(a)
  BY <1>3, <1>4 DEF State
<1>8. ASSUME NEW b \in Attempt, b # a PROVE State(b)' = State(b)
  <2>1. b[1] \in Jobs /\ b[2] \in 1 .. Len(attempts[b[1]]) /\ b = <<b[1], b[2]>>
    BY AttemptFields
  <2>2. b[1] # a[1] \/ b[2] # a[2]
    BY <1>1, <1>8, <2>1
  <2> QED BY <1>3, <1>4, <2>1, <2>2 DEF State
<1>9. Settles(s, t)
  BY <1>1, <1>3, ActiveMove
<1>10. \A j \in Jobs : Settles(attempts[j], attempts'[j])
  BY <1>4, <1>9, SettlesSame
<1> QED BY <1>3, <1>4, <1>5, <1>6, <1>7, <1>8, <1>10

\* What a new attempt does.
LEMMA AttemptCreation ==
  ASSUME attempts \in [Jobs -> Seq(AttemptStates)], NEW j \in Jobs, CreateAttempt(j)
  PROVE  /\ attempts' \in [Jobs -> Seq(AttemptStates)]
         /\ attempts'[j] = Append(attempts[j], "New")
         /\ \A i \in Jobs : i # j => attempts'[i] = attempts[i]
         /\ \A i \in Jobs : Len(attempts[i]) <= Len(attempts'[i])
         /\ \A a \in Attempt : State(a)' = State(a)
<1>1. /\ attempts'[j] = Append(attempts[j], "New")
      /\ \A i \in Jobs : i # j => attempts'[i] = attempts[i]
  BY DEF CreateAttempt
<1>2. attempts[j] \in Seq(AttemptStates)
  OBVIOUS
<1>3. attempts'[j] \in Seq(AttemptStates) /\ Len(attempts'[j]) = Len(attempts[j]) + 1
      /\ \A n \in 1 .. Len(attempts[j]) : attempts'[j][n] = attempts[j][n]
  BY <1>1, <1>2, ActiveAppend
<1>4. attempts' \in [Jobs -> Seq(AttemptStates)]
  BY <1>3 DEF CreateAttempt, AttemptStates
<1>5. \A i \in Jobs : Len(attempts[i]) <= Len(attempts'[i])
  BY <1>1, <1>2, <1>3
<1>6. ASSUME NEW a \in Attempt PROVE State(a)' = State(a)
  BY <1>1, <1>3, AttemptFields DEF State
<1> QED BY <1>1, <1>4, <1>5, <1>6

-----------------------------------------------------------------------------
(* Steps that leave the scheduler's pass alone.                             *)

\* No job goes back to where it could be scheduled.
JobsGoOn ==
  \A j \in Jobs : /\ job'[j] = "absent" => job[j] = "absent"
                  /\ job'[j] \in {"absent", "Pending"} => job[j] \in {"absent", "Pending"}

\* The part of the type invariant the steps below need.
LEMMA TypeFacts ==
  ASSUME TypeOK
  PROVE  /\ job \in [Jobs -> JobStates \cup {"absent"}]
         /\ attempts \in [Jobs -> Seq(AttemptStates)]
         /\ faults \in Nat /\ faults <= MaxFaults
  BY StoreFaultsAssumption DEF TypeOK

\* Fewer active attempts, more faults.
LEMMA FewerThanBefore ==
  ASSUME NEW m \in Nat, NEW n \in Nat, NEW f \in Nat, NEW g \in Nat, n <= m, g >= f
  PROVE  /\ m <= 1 + f => n <= 1 + g /\ (n + 1 <= m => n <= g)
         /\ m <= f => n <= g
         /\ m + 1 <= f => n + 1 <= g
  OBVIOUS

\* The numbers of a job stay within bounds when no attempt is made and none has to be.
LEMMA CountsKept ==
  ASSUME TypeOK, NEW j \in Jobs, JobCounts(j), attempts'[j] \in Seq(AttemptStates),
         faults' \in Nat, faults' >= faults, Settles(attempts[j], attempts'[j]),
         job'[j] = "absent" => job[j] = "absent",
         Unscheduled(j)' => Unscheduled(j), Retrying(j)' => Retrying(j)
  PROVE  JobCounts(j)'
<1> DEFINE s == attempts[j]
           t == attempts'[j]
           m == Cardinality(ActiveIn(s))
           n == Cardinality(ActiveIn(t))
<1>1. s \in Seq(AttemptStates) /\ t \in Seq(AttemptStates)
  BY TypeFacts
<1>2. /\ Len(s) \in Nat /\ Len(t) \in Nat /\ m \in Nat /\ n \in Nat
      /\ (s = <<>> <=> Len(s) = 0) /\ (t = <<>> <=> Len(t) = 0)
  BY <1>1, ActiveFinite
<1>3. /\ Len(t) = Len(s) /\ n <= m
      /\ s # <<>> /\ t[Len(s)] \notin ActiveStates => s[Len(s)] \notin ActiveStates \/ n + 1 <= m
  BY DEF Settles
<1>4. /\ Len(s) <= MaxRetries + 1 + faults
      /\ job[j] = "absent" => s = <<>>
      /\ Unscheduled(j) => s = <<>> \/ (faults >= 1 /\ Len(s) <= MaxRetries + faults)
      /\ m <= 1 + faults
      /\ (s # <<>> /\ s[Len(s)] \notin ActiveStates) \/ Unscheduled(j) \/ Retrying(j)
           => m <= faults
      /\ Unscheduled(j) /\ Retrying(j) => m + 1 <= faults
  BY DEF JobCounts, LatestEnded, ActiveStates
<1>5. faults \in Nat /\ MaxRetries \in Nat
  BY TypeFacts, RetriesAssumption
<1>6. /\ job'[j] = "absent" => job[j] = "absent"
      /\ Unscheduled(j)' => Unscheduled(j)
      /\ Retrying(j)' => Retrying(j)
  OBVIOUS
<1> HIDE DEF s, t, m, n
<1>7. s # <<>> <=> t # <<>>
  BY <1>2, <1>3
<1>8. /\ Len(t) <= MaxRetries + 1 + faults'
      /\ job'[j] = "absent" => t = <<>>
      /\ Unscheduled(j)' => t = <<>> \/ (faults' >= 1 /\ Len(t) <= MaxRetries + faults')
  BY <1>2, <1>3, <1>4, <1>5, <1>6, <1>7
<1>9. /\ n <= 1 + faults'
      /\ Unscheduled(j)' \/ Retrying(j)' => n <= faults'
      /\ t # <<>> /\ t[Len(s)] \notin ActiveStates => n <= faults'
      /\ Unscheduled(j)' /\ Retrying(j)' => n + 1 <= faults'
  <2>1. /\ m <= 1 + faults => n <= 1 + faults' /\ (n + 1 <= m => n <= faults')
        /\ m <= faults => n <= faults'
        /\ m + 1 <= faults => n + 1 <= faults'
    <3>1. m \in Nat /\ n \in Nat /\ faults \in Nat /\ faults' \in Nat /\ n <= m /\ faults' >= faults
      BY <1>2, <1>3, <1>5
    <3> QED BY ONLY <3>1, FewerThanBefore
  <2>2. m <= 1 + faults
    BY <1>4
  <2> QED BY <1>3, <1>4, <1>6, <1>7, <2>1, <2>2
<1> QED BY <1>3, <1>8, <1>9 DEF t, n, LatestEnded, ActiveStates, JobCounts

\* A write to the store, or a fault, elsewhere than in the scheduler.
LEMMA StoreStep ==
  ASSUME TypeOK, PassShape, Counts, UNCHANGED sched, JobsGoOn,
         faults' \in Nat, faults' >= faults, attempts' \in [Jobs -> Seq(AttemptStates)],
         \A j \in Jobs : Settles(attempts[j], attempts'[j])
  PROVE  PassShape' /\ Counts'
<1>1. \A j \in Jobs : attempts[j] # <<>> => attempts'[j] # <<>>
  <2>1. \A j \in Jobs : /\ attempts[j] \in Seq(AttemptStates) /\ attempts'[j] \in Seq(AttemptStates)
                        /\ Len(attempts'[j]) = Len(attempts[j])
    BY TypeFacts DEF Settles
  <2> QED BY <2>1
<1>2. sched.cur # NoJob => sched.cur \in Jobs
  BY DEF TypeOK, Passes
<1>3. PassShape'
  BY <1>1, <1>2 DEF PassShape, JobsGoOn
<1>4. \A j \in Jobs : /\ Unscheduled(j)' => Unscheduled(j)
                      /\ Retrying(j)' => Retrying(j)
  BY DEF Unscheduled, Retrying, JobsGoOn
<1>5. \A j \in Jobs : JobCounts(j)'
  BY <1>4, CountsKept DEF JobsGoOn, Counts
<1> QED BY <1>3, <1>5 DEF Counts

\* A transition of a job from one state to a later one.
LEMMA JobTransition ==
  ASSUME TypeOK, NEW j, NEW from \in {"Pending", "Scheduled", "Running"},
         NEW to \in {"Scheduled", "Running", "Completed", "Failed", "Terminated"},
         TransitionJobState(j, from, to)
  PROVE  /\ job' \in [Jobs -> JobStates \cup {"absent"}]
         /\ JobsGoOn
         /\ \A i \in Jobs : job[i] \in Ended => job'[i] = job[i]
         /\ \A i \in Jobs : i = j /\ from = job[i] => job'[i] = to
<1>1. job \in [Jobs -> JobStates \cup {"absent"}]
  BY TypeFacts
<1> QED BY <1>1 DEF TransitionJobState, JobsGoOn, JobStates, Ended

\* The invariant, with the numbers job by job.
InvByJob == TypeOK /\ PassShape /\ ExecutingIsNotNew /\ OneRunPerAttempt /\ Counts

\* It is the invariant.
LEMMA SameInvariant == InvByJob <=> Inv
<1>1. Counts <=> WithinRetries /\ SpareAttempts /\ OneActiveAttempt /\ SpareActive
  BY DEF Counts, JobCounts, WithinRetries, SpareAttempts, OneActiveAttempt, SpareActive,
         ActiveAttempts, ActiveIn, ActiveStates
<1> QED BY <1>1 DEF Inv, InvByJob

-----------------------------------------------------------------------------
(* Executions.                                                              *)

\* Execution r becomes e: it is over, or has an attempt that it alone executes.
LEMMA RunStep ==
  ASSUME TypeOK, ExecutingIsNotNew, OneRunPerAttempt,
         attempts' \in [Jobs -> Seq(AttemptStates)], Attempt \subseteq Attempt',
         \A b \in Attempt : attempts'[b[1]][b[2]] = "New" => State(b) = "New",
         NEW r \in Runs, NEW e \in Executions, run' = [run EXCEPT ![r] = e],
         e = NoRun \/ (e.pc # "idle" /\ e.attempt \in Attempt),
         e.pc \in Executing =>
           /\ attempts'[e.attempt[1]][e.attempt[2]] # "New"
           /\ \A q \in Runs : q # r /\ run[q].pc \in Executing => run[q].attempt # e.attempt
  PROVE  /\ run' \in [Runs -> Executions]
         /\ \A q \in Runs : run'[q] = NoRun \/ (run'[q].pc # "idle" /\ run'[q].attempt \in Attempt')
         /\ ExecutingIsNotNew' /\ OneRunPerAttempt'
<1>1. run \in [Runs -> Executions]
  BY DEF TypeOK
<1>2. run'[r] = e /\ \A q \in Runs : q # r => run'[q] = run[q]
  BY <1>1
<1>3. \A q \in Runs : run[q].pc \in Executing => run[q].attempt \in Attempt
  BY DEF TypeOK, NoRun, Executing
<1>4. \A q \in Runs : run'[q] = NoRun \/ (run'[q].pc # "idle" /\ run'[q].attempt \in Attempt')
  BY <1>2 DEF TypeOK
<1>5. ASSUME NEW q \in Runs, run'[q].pc \in Executing
      PROVE  attempts'[run'[q].attempt[1]][run'[q].attempt[2]] # "New"
  <2>1. CASE q = r
    BY <1>2, <1>5, <2>1
  <2>2. CASE q # r
    <3>1. run'[q] = run[q] /\ run[q].attempt \in Attempt /\ State(run[q].attempt) # "New"
      BY <1>2, <1>3, <1>5, <2>2 DEF ExecutingIsNotNew
    <3> QED BY <3>1
  <2> QED BY <2>1, <2>2
<1>6. ExecutingIsNotNew'
  BY <1>5 DEF ExecutingIsNotNew, State
<1>7. OneRunPerAttempt'
  BY <1>2 DEF OneRunPerAttempt
<1> QED BY <1>1, <1>4, <1>6, <1>7

\* Writes to the tables that bring no attempt back to New leave the executions in order.
LEMMA RunUnchanged ==
  ASSUME TypeOK, ExecutingIsNotNew, OneRunPerAttempt, UNCHANGED run,
         attempts' \in [Jobs -> Seq(AttemptStates)], Attempt \subseteq Attempt',
         \A b \in Attempt : attempts'[b[1]][b[2]] = "New" => State(b) = "New"
  PROVE  /\ run' \in [Runs -> Executions]
         /\ \A q \in Runs : run'[q] = NoRun \/ (run'[q].pc # "idle" /\ run'[q].attempt \in Attempt')
         /\ ExecutingIsNotNew' /\ OneRunPerAttempt'
<1>1. \A q \in Runs : run[q].pc \in Executing => run[q].attempt \in Attempt
  BY DEF TypeOK, NoRun, Executing
<1>2. \A q \in Runs : run'[q] = NoRun \/ (run'[q].pc # "idle" /\ run'[q].attempt \in Attempt')
  BY DEF TypeOK
<1>3. ExecutingIsNotNew'
  BY <1>1 DEF ExecutingIsNotNew, State
<1>4. OneRunPerAttempt'
  BY DEF OneRunPerAttempt
<1> QED BY <1>2, <1>3, <1>4 DEF TypeOK

-----------------------------------------------------------------------------
(* Steps of the API server and of the workers.                              *)

\* Execution r becomes e, and the store goes on as well.
LEMMA WorkerStep ==
  ASSUME InvByJob, NEW r \in Runs, NEW e \in Executions, run' = [run EXCEPT ![r] = e],
         e = NoRun \/ (e.pc # "idle" /\ e.attempt \in Attempt),
         e.pc \in Executing =>
           /\ attempts'[e.attempt[1]][e.attempt[2]] # "New"
           /\ \A q \in Runs : q # r /\ run[q].pc \in Executing => run[q].attempt # e.attempt,
         job' \in [Jobs -> JobStates \cup {"absent"}], JobsGoOn,
         attempts' \in [Jobs -> Seq(AttemptStates)],
         \A j \in Jobs : Settles(attempts[j], attempts'[j]),
         \A b \in Attempt : attempts'[b[1]][b[2]] = "New" => State(b) = "New",
         UNCHANGED sched, orphans' \subseteq Attempt,
         dir' \in [Jobs -> {"absent", "empty", "zero", "nonzero"}],
         faults' \in 0 .. MaxFaults, faults' >= faults, succeeded' \subseteq Jobs
  PROVE  InvByJob'
<1>1. TypeOK /\ PassShape /\ ExecutingIsNotNew /\ OneRunPerAttempt /\ Counts
  BY DEF InvByJob
<1>2. faults' \in Nat
  BY StoreFaultsAssumption
<1>3. PassShape' /\ Counts'
  BY <1>1, <1>2, StoreStep
<1>4. Attempt \subseteq Attempt'
  <2>1. \A j \in Jobs : Len(attempts[j]) \in Nat /\ Len(attempts'[j]) = Len(attempts[j])
    BY <1>1, TypeFacts DEF Settles
  <2>2. \A j \in Jobs : Len(attempts[j]) <= Len(attempts'[j])
    BY <2>1
  <2> QED BY <1>1, <2>2, TypeFacts, AttemptGrows
<1>5. /\ run' \in [Runs -> Executions]
      /\ \A q \in Runs : run'[q] = NoRun \/ (run'[q].pc # "idle" /\ run'[q].attempt \in Attempt')
      /\ ExecutingIsNotNew' /\ OneRunPerAttempt'
  BY <1>1, <1>4, RunStep
<1>6. sched' \in Passes /\ sched'.todo \subseteq (IF sched'.phase = "stale" THEN Attempt' ELSE Jobs)
  BY <1>1, <1>4 DEF TypeOK
<1>7. TypeOK'
  BY <1>4, <1>5, <1>6 DEF TypeOK
<1> QED BY <1>3, <1>5, <1>7 DEF InvByJob

\* The attempt of an execution exists.
LEMMA RunFields ==
  ASSUME TypeOK, NEW r \in Runs, run[r].pc # "idle"
  PROVE  /\ run \in [Runs -> Executions] /\ run[r] \in Executions
         /\ run[r].attempt \in Attempt /\ JobOf(r) \in Jobs
<1>1. run \in [Runs -> Executions] /\ run[r].attempt \in Attempt
  BY DEF TypeOK, NoRun
<1> QED BY <1>1, TypeFacts, AttemptFields DEF JobOf

\* An execution goes on with its attempt.
LEMMA GotoStep ==
  ASSUME InvByJob, NEW r \in Runs, run[r].pc \in Executing, NEW pc \in Executing, Goto(r, pc),
         job' \in [Jobs -> JobStates \cup {"absent"}], JobsGoOn,
         attempts' \in [Jobs -> Seq(AttemptStates)],
         \A j \in Jobs : Settles(attempts[j], attempts'[j]),
         \A b \in Attempt : attempts'[b[1]][b[2]] = "New" => State(b) = "New",
         UNCHANGED sched, orphans' \subseteq Attempt,
         dir' \in [Jobs -> {"absent", "empty", "zero", "nonzero"}],
         faults' \in 0 .. MaxFaults, faults' >= faults, succeeded' \subseteq Jobs
  PROVE  InvByJob'
<1> DEFINE e == [run[r] EXCEPT !.pc = pc]
<1>1. TypeOK /\ ExecutingIsNotNew /\ OneRunPerAttempt /\ run[r].pc # "idle"
  BY DEF InvByJob, Executing
<1>2. run[r] \in Executions /\ run[r].attempt \in Attempt /\ run \in [Runs -> Executions]
  BY <1>1, RunFields
<1>3. run' = [run EXCEPT ![r] = e]
  BY <1>2 DEF Goto
<1>4. e \in Executions /\ e.attempt = run[r].attempt /\ e.pc = pc
  BY <1>2 DEF Executions
<1>5. e.pc # "idle" /\ e.attempt \in Attempt
  BY <1>2, <1>4 DEF Executing
<1>6. attempts'[e.attempt[1]][e.attempt[2]] # "New"
  BY <1>1, <1>2, <1>4 DEF ExecutingIsNotNew
<1>7. \A q \in Runs : q # r /\ run[q].pc \in Executing => run[q].attempt # e.attempt
  BY <1>1, <1>4 DEF OneRunPerAttempt
<1> HIDE DEF e
<1> QED BY <1>3, <1>4, <1>5, <1>6, <1>7, WorkerStep

\* What steps that leave the attempts alone say of them.
LEMMA AttemptsSame ==
  ASSUME TypeOK, UNCHANGED attempts
  PROVE  /\ attempts' \in [Jobs -> Seq(AttemptStates)]
         /\ \A j \in Jobs : Settles(attempts[j], attempts'[j])
         /\ \A b \in Attempt : attempts'[b[1]][b[2]] = "New" => State(b) = "New"
         /\ Attempt' = Attempt
<1>1. attempts' \in [Jobs -> Seq(AttemptStates)]
  BY TypeFacts
<1>2. \A j \in Jobs : Settles(attempts[j], attempts'[j])
  BY <1>1, SettlesSame
<1>3. \A b \in Attempt : attempts'[b[1]][b[2]] = "New" => State(b) = "New"
  BY DEF State
<1> QED BY <1>1, <1>2, <1>3 DEF Attempt

\* What steps that leave the jobs alone say of them.
LEMMA JobsSame ==
  ASSUME TypeOK, UNCHANGED job
  PROVE  job' \in [Jobs -> JobStates \cup {"absent"}] /\ JobsGoOn
  BY TypeFacts DEF JobsGoOn

\* A transition of an attempt from an active state ends it or has it execute.
LEMMA AttemptEnds ==
  ASSUME TypeOK, NEW a \in Attempt, NEW from \in ActiveStates, NEW to \in AttemptStates \ {"New"},
         TransitionAttemptState(a, from, to)
  PROVE  /\ attempts' \in [Jobs -> Seq(AttemptStates)]
         /\ \A j \in Jobs : Settles(attempts[j], attempts'[j])
         /\ \A b \in Attempt : attempts'[b[1]][b[2]] = "New" => State(b) = "New"
         /\ attempts'[a[1]][a[2]] = IF State(a) = from THEN to ELSE State(a)
<1>1. attempts \in [Jobs -> Seq(AttemptStates)]
  BY TypeFacts
<1>2. attempts'[a[1]][a[2]] = IF State(a) = from THEN to ELSE State(a)
  BY <1>1, AttemptTransition DEF State
<1>3. \A b \in Attempt : b # a => attempts'[b[1]][b[2]] = State(b)
  BY <1>1, AttemptTransition DEF State
<1>4. \A b \in Attempt : attempts'[b[1]][b[2]] = "New" => State(b) = "New"
  BY <1>2, <1>3
<1> QED BY <1>1, <1>2, <1>4, AttemptTransition

\* The execution is over.
LEMMA NoRunStep ==
  ASSUME InvByJob, NEW r \in Runs, run' = [run EXCEPT ![r] = NoRun], UNCHANGED <<store, sched>>,
         orphans' \subseteq Attempt, dir' \in [Jobs -> {"absent", "empty", "zero", "nonzero"}],
         faults' \in 0 .. MaxFaults, faults' >= faults, succeeded' \subseteq Jobs
  PROVE  InvByJob'
<1>1. TypeOK
  BY DEF InvByJob
<1>2. job' \in [Jobs -> JobStates \cup {"absent"}] /\ JobsGoOn
  BY <1>1, JobsSame DEF store
<1>5. NoRun \in Executions /\ NoRun.pc \notin Executing
  BY DEF NoRun, Executions, Executing
<1> QED BY <1>1, <1>2, <1>5, AttemptsSame, WorkerStep DEF store

\* The types of what most steps leave alone.
LEMMA RestFacts ==
  ASSUME InvByJob
  PROVE  /\ TypeOK /\ orphans \subseteq Attempt
         /\ dir \in [Jobs -> {"absent", "empty", "zero", "nonzero"}]
         /\ faults \in 0 .. MaxFaults /\ faults >= faults /\ faults \in Nat
         /\ succeeded \subseteq Jobs
<1>1. TypeOK
  BY DEF InvByJob
<1>2. faults \in 0 .. MaxFaults
  BY <1>1 DEF TypeOK
<1>3. faults \in Nat /\ faults >= faults
  BY <1>2, StoreFaultsAssumption
<1> QED BY <1>1, <1>2, <1>3 DEF TypeOK

\* A fault is counted.
LEMMA FaultFacts ==
  ASSUME InvByJob, Fault
  PROVE  /\ faults' \in 0 .. MaxFaults /\ faults' >= faults
         /\ faults' = faults + 1 /\ faults' \in Nat
  BY RestFacts, StoreFaultsAssumption DEF Fault

\* Claim: the attempt stays New, and its execution is not under way.
LEMMA ClaimKeeps == ASSUME InvByJob, NEW r \in Runs, Claim(r) PROVE InvByJob'
<1>1. PICK a \in Attempt : run' = [run EXCEPT ![r] = [pc |-> "claimed", attempt |-> a]]
  BY DEF Claim
<1> DEFINE e == [pc |-> "claimed", attempt |-> a]
<1>2. UNCHANGED <<job, attempts, sched, orphans, dir, faults, succeeded>>
  BY DEF Claim, store
<1>3. a[1] \in Jobs /\ a[2] \in Nat /\ a = <<a[1], a[2]>>
  BY RestFacts, TypeFacts, AttemptFields
<1>4. e \in Executions /\ e.pc \notin Executing /\ e.pc # "idle" /\ e.attempt \in Attempt
  BY <1>3 DEF Executions, Executing
<1>5. run' = [run EXCEPT ![r] = e]
  BY <1>1
<1> HIDE DEF e
<1> QED BY <1>2, <1>4, <1>5, RestFacts, AttemptsSame, JobsSame, WorkerStep

\* Execute: of the executions that claimed the attempt, the first takes it out of New;
\* none that is under way has it, since theirs are not New.
LEMMA ExecuteKeeps == ASSUME InvByJob, NEW r \in Runs, Execute(r) PROVE InvByJob'
<1> DEFINE a == run[r].attempt
           e == IF State(a) = "New" THEN [pc |-> "executing", attempt |-> a] ELSE NoRun
<1>1. UNCHANGED <<job, sched, orphans, dir, faults, succeeded>>
  BY DEF Execute
<1>2. TypeOK /\ run[r].pc = "claimed" /\ ExecutingIsNotNew
  BY DEF Execute, InvByJob
<1>3. a \in Attempt /\ run \in [Runs -> Executions] /\ run[r] \in Executions
  BY <1>2, RunFields
<1>4. run' = [run EXCEPT ![r] = e]
  BY <1>2, <1>3 DEF Execute, Goto, Executions
<1>5. e \in Executions
  BY <1>3 DEF Executions, Executing, NoRun
<1>6. e = NoRun \/ (e.pc # "idle" /\ e.attempt \in Attempt)
  BY <1>3
<1>7. /\ attempts' \in [Jobs -> Seq(AttemptStates)]
      /\ \A j \in Jobs : Settles(attempts[j], attempts'[j])
      /\ \A b \in Attempt : attempts'[b[1]][b[2]] = "New" => State(b) = "New"
      /\ attempts'[a[1]][a[2]] = IF State(a) = "New" THEN "Executing" ELSE State(a)
  <2>1. TransitionAttemptState(a, "New", "Executing")
    BY DEF Execute
  <2> HIDE DEF a
  <2>2. "New" \in ActiveStates /\ "Executing" \in AttemptStates \ {"New"}
    BY DEF ActiveStates, AttemptStates
  <2> QED BY <1>2, <1>3, <2>1, <2>2, AttemptEnds
<1>8. e.pc \in Executing => State(a) = "New" /\ e.attempt = a
  BY DEF NoRun, Executing
<1>9. \A q \in Runs : run[q].pc \in Executing => State(run[q].attempt) # "New"
  BY <1>2 DEF ExecutingIsNotNew
<1> HIDE DEF e, a
<1>10. e.pc \in Executing =>
         /\ attempts'[e.attempt[1]][e.attempt[2]] # "New"
         /\ \A q \in Runs : q # r /\ run[q].pc \in Executing => run[q].attempt # e.attempt
  BY <1>7, <1>8, <1>9
<1> QED BY <1>1, <1>4, <1>5, <1>6, <1>7, <1>10, RestFacts, JobsSame, WorkerStep

\* A write of the attempt's outcome, refused or not.
LEMMA OutcomeKeeps ==
  ASSUME InvByJob, NEW r \in Runs, run[r].pc \in Executing, NEW pc \in Executing, Goto(r, pc),
         NEW to \in AttemptStates \ {"New"},
         TransitionAttemptState(run[r].attempt, "Executing", to),
         UNCHANGED <<job, sched, orphans, dir, faults, succeeded>>
  PROVE  InvByJob'
<1> DEFINE a == run[r].attempt
<1>1. TypeOK /\ a \in Attempt /\ "Executing" \in ActiveStates
  BY RestFacts, RunFields DEF Executing, ActiveStates
<1>2. TransitionAttemptState(a, "Executing", to)
  OBVIOUS
<1> HIDE DEF a
<1>3. /\ attempts' \in [Jobs -> Seq(AttemptStates)]
      /\ \A j \in Jobs : Settles(attempts[j], attempts'[j])
      /\ \A b \in Attempt : attempts'[b[1]][b[2]] = "New" => State(b) = "New"
  BY <1>1, <1>2, AttemptEnds
<1> QED BY <1>3, RestFacts, JobsSame, GotoStep

\* failAndCleanup, FailAttempt and CompleteAttempt.
LEMMA AttemptWritesKeep ==
  ASSUME InvByJob, NEW r \in Runs, failAndCleanup(r) \/ FailAttempt(r) \/ CompleteAttempt(r)
  PROVE  InvByJob'
<1>1. CASE failAndCleanup(r)
  BY <1>1, OutcomeKeeps DEF failAndCleanup, Executing, AttemptStates
<1>2. CASE FailAttempt(r)
  BY <1>2, OutcomeKeeps DEF FailAttempt, Executing, AttemptStates
<1>3. CASE CompleteAttempt(r)
  BY <1>3, OutcomeKeeps DEF CompleteAttempt, Executing, AttemptStates
<1> QED BY <1>1, <1>2, <1>3

\* StartJob and CompleteJob.
LEMMA JobWritesKeep ==
  ASSUME InvByJob, NEW r \in Runs, StartJob(r) \/ CompleteJob(r)
  PROVE  InvByJob'
<1>1. TypeOK
  BY RestFacts
<1>2. /\ job' \in [Jobs -> JobStates \cup {"absent"}] /\ JobsGoOn
      /\ UNCHANGED <<attempts, sched, orphans, dir, faults, succeeded>>
      /\ run[r].pc \in Executing
  <2>1. CASE StartJob(r)
    BY <1>1, <2>1, JobTransition DEF StartJob, Executing
  <2>2. CASE CompleteJob(r)
    BY <1>1, <2>2, JobTransition DEF CompleteJob, Executing
  <2> QED BY <2>1, <2>2
<1>3. PICK pc \in Executing : Goto(r, pc)
  BY DEF StartJob, CompleteJob, Executing
<1> QED BY <1>1, <1>2, <1>3, RestFacts, AttemptsSame, GotoStep

\* The steps around a container, which leave the store alone.
LEMMA SandboxKeeps ==
  ASSUME InvByJob, NEW r \in Runs,
         \/ StartSandbox(r) \/ StopWaiting(r) \/ ReadResult(r)
         \/ \E code \in {"zero", "nonzero", "none"} : SandboxEnds(r, code)
  PROVE  InvByJob'
<1>1. TypeOK
  BY RestFacts
<1>2. run[r].pc \in Executing /\ \E pc \in Executing : Goto(r, pc)
  BY DEF StartSandbox, StopWaiting, ReadResult, SandboxEnds, Executing
<1>3. JobOf(r) \in Jobs
  BY <1>1, <1>2, RunFields DEF Executing
<1>4. /\ dir' \in [Jobs -> {"absent", "empty", "zero", "nonzero"}]
      /\ succeeded' \subseteq Jobs
  BY <1>3, RestFacts DEF StartSandbox, StopWaiting, ReadResult, SandboxEnds, Result
<1>5. UNCHANGED <<job, attempts, sched, orphans, faults>>
  BY DEF StartSandbox, StopWaiting, ReadResult, SandboxEnds, store
<1> QED BY <1>1, <1>2, <1>4, <1>5, RestFacts, AttemptsSame, JobsSame, GotoStep

\* RemoveAll.
LEMMA RemoveAllKeeps == ASSUME InvByJob, NEW r \in Runs, RemoveAll(r) PROVE InvByJob'
<1>1. dir' \in [Jobs -> {"absent", "empty", "zero", "nonzero"}]
  BY RestFacts DEF RemoveAll
<1> QED BY <1>1, RestFacts, NoRunStep DEF RemoveAll

\* WorkerFault: the execution is over, or goes on without its write.
LEMMA WorkerFaultKeeps == ASSUME InvByJob, NEW r \in Runs, WorkerFault(r) PROVE InvByJob'
<1>1. TypeOK /\ run[r].attempt \in Attempt /\ Fault
  BY RestFacts, RunFields DEF WorkerFault
<1>2. orphans' \subseteq Attempt
  BY <1>1, RestFacts DEF WorkerFault
<1>3. UNCHANGED <<job, attempts, sched, dir, succeeded>>
  BY DEF WorkerFault, store
<1>4. CASE run' = [run EXCEPT ![r] = NoRun]
  BY <1>1, <1>2, <1>3, <1>4, RestFacts, FaultFacts, NoRunStep DEF store
<1>5. CASE run[r].pc \in Executing /\ \E pc \in Executing : Goto(r, pc)
  BY <1>1, <1>2, <1>3, <1>5, RestFacts, FaultFacts, AttemptsSame, JobsSame, GotoStep
<1> QED BY <1>4, <1>5 DEF WorkerFault, Executing

\* A step that leaves the executions and the attempts alone.
LEMMA QuietStep ==
  ASSUME InvByJob, UNCHANGED <<run, attempts>>,
         job' \in [Jobs -> JobStates \cup {"absent"}], PassShape', Counts',
         sched' \in Passes, sched'.todo \subseteq (IF sched'.phase = "stale" THEN Attempt ELSE Jobs),
         orphans' \subseteq Attempt,
         dir' \in [Jobs -> {"absent", "empty", "zero", "nonzero"}],
         faults' \in 0 .. MaxFaults, succeeded' \subseteq Jobs
  PROVE  InvByJob'
<1>1. TypeOK /\ ExecutingIsNotNew /\ OneRunPerAttempt
  BY DEF InvByJob
<1>2. Attempt' = Attempt /\ attempts' \in [Jobs -> Seq(AttemptStates)]
  BY <1>1, AttemptsSame
<1>3. TypeOK'
  BY <1>1, <1>2 DEF TypeOK
<1>4. ExecutingIsNotNew' /\ OneRunPerAttempt'
  BY <1>1 DEF ExecutingIsNotNew, OneRunPerAttempt, State
<1> QED BY <1>3, <1>4 DEF InvByJob

\* OrphanEnds, CreateJob and TerminateJob.
LEMMA OutsideKeeps ==
  ASSUME InvByJob,
         \/ \E a \in orphans, code \in {"zero", "nonzero"} : OrphanEnds(a, code)
         \/ \E j \in Jobs : CreateJob(j) \/ TerminateJob(j)
  PROVE  InvByJob'
<1>1. TypeOK /\ PassShape /\ Counts
  BY DEF InvByJob
<1>2. job' \in [Jobs -> JobStates \cup {"absent"}] /\ JobsGoOn
  <2>1. CASE \E a \in orphans, code \in {"zero", "nonzero"} : OrphanEnds(a, code)
    BY <1>1, <2>1, JobsSame DEF OrphanEnds, store
  <2>2. CASE \E j \in Jobs : CreateJob(j)
    BY <1>1, <2>2, TypeFacts DEF CreateJob, JobsGoOn, JobStates
  <2>3. CASE \E j \in Jobs : TerminateJob(j)
    BY <1>1, <2>3, TypeFacts DEF TerminateJob, TransitionJobState, JobsGoOn, JobStates
  <2> QED BY <2>1, <2>2, <2>3
<1>3. UNCHANGED <<run, attempts, sched, faults>>
  BY DEF OrphanEnds, CreateJob, TerminateJob, store, worker
<1>4. /\ orphans' \subseteq Attempt /\ succeeded' \subseteq Jobs
      /\ dir' \in [Jobs -> {"absent", "empty", "zero", "nonzero"}]
  <2>1. CASE \E a \in orphans, code \in {"zero", "nonzero"} : OrphanEnds(a, code)
    <3>1. PICK a \in orphans, code \in {"zero", "nonzero"} : OrphanEnds(a, code)
      BY <2>1
    <3>2. a[1] \in Jobs
      BY RestFacts, TypeFacts, AttemptFields
    <3> QED BY <3>1, <3>2, RestFacts DEF OrphanEnds, Result
  <2>2. CASE \E j \in Jobs : CreateJob(j) \/ TerminateJob(j)
    BY <2>2, RestFacts DEF CreateJob, TerminateJob, worker
  <2> QED BY <2>1, <2>2
<1>5. PassShape' /\ Counts'
  BY <1>1, <1>2, <1>3, RestFacts, AttemptsSame, StoreStep
<1>6. sched' \in Passes /\ sched'.todo \subseteq (IF sched'.phase = "stale" THEN Attempt ELSE Jobs)
  BY <1>1, <1>3 DEF TypeOK
<1> QED BY <1>2, <1>3, <1>4, <1>5, <1>6, RestFacts, QuietStep

-----------------------------------------------------------------------------
(* Steps of the scheduler.                                                  *)

\* What is known of the pass.
LEMMA PassFacts ==
  ASSUME InvByJob
  PROVE  /\ sched \in Passes /\ PassShape /\ Counts
         /\ sched.todo \subseteq (IF sched.phase = "stale" THEN Attempt ELSE Jobs)
         /\ sched.cur # NoJob => sched.cur \in Jobs
<1>1. /\ sched \in Passes /\ PassShape /\ Counts
      /\ sched.todo \subseteq (IF sched.phase = "stale" THEN Attempt ELSE Jobs)
  BY DEF InvByJob, TypeOK
<1> QED BY <1>1 DEF Passes

\* A step of the pass that only reads, and decides on no attempt.
LEMMA ReadStep ==
  ASSUME InvByJob, UNCHANGED <<store, worker, faults, succeeded>>, sched' \in Passes, PassShape',
         sched'.todo \subseteq (IF sched'.phase = "stale" THEN Attempt ELSE Jobs),
         \A j \in Jobs : (Unscheduled(j)' => Unscheduled(j)) /\ (Retrying(j)' => Retrying(j))
  PROVE  InvByJob'
<1>1. UNCHANGED <<job, attempts, run, orphans, dir, faults, succeeded>>
  BY DEF store, worker
<1>2. TypeOK /\ Counts
  BY DEF InvByJob
<1>3. Counts'
  <2> SUFFICES ASSUME NEW j \in Jobs PROVE JobCounts(j)'
    BY DEF Counts
  <2>1. JobCounts(j) /\ attempts'[j] \in Seq(AttemptStates) /\ Settles(attempts[j], attempts'[j])
    BY <1>1, <1>2, AttemptsSame DEF Counts
  <2> QED BY <1>1, <1>2, <2>1, RestFacts, CountsKept
<1> QED BY <1>1, <1>2, <1>3, RestFacts, JobsSame, QuietStep

\* The lists, and an item that is dropped: nothing is in hand afterwards.
LEMMA ListKeeps ==
  ASSUME InvByJob, sched.cur = NoJob, UNCHANGED <<store, worker, faults, succeeded>>,
         NEW phase \in {"idle", "pending", "stale", "failed"}, NEW todo,
         todo \subseteq (IF phase = "stale" THEN Attempt ELSE Jobs),
         phase = "pending" =>
           \A j \in todo : job[j] = "Pending" \/ (sched.phase = "pending" /\ j \in sched.todo),
         phase = "failed" =>
           \A j \in todo : job[j] = "Running" \/ (sched.phase = "failed" /\ j \in sched.todo),
         sched' = [phase |-> phase, todo |-> todo, cur |-> NoJob, from |-> "", to |-> ""]
  PROVE  InvByJob'
<1>1. UNCHANGED job
  BY DEF store
<1>2. ASSUME NEW a \in Attempt PROVE a \in Jobs \X Nat
  <2>1. a[1] \in Jobs /\ a[2] \in Nat /\ a = <<a[1], a[2]>>
    BY RestFacts, TypeFacts, AttemptFields
  <2>2. <<a[1], a[2]>> \in Jobs \X Nat
    BY <2>1
  <2> QED BY <2>1, <2>2
<1>3. sched' \in Passes
  BY <1>2 DEF Passes
<1>4. PassShape'
  <2>1. \A j \in Jobs : j \in todo =>
          /\ phase = "pending" => job[j] # "absent"
          /\ phase = "failed" => job[j] \notin {"absent", "Pending"}
    BY PassFacts DEF PassShape
  <2> QED BY <1>1, <2>1, NoJobAssumption DEF PassShape
<1>5. ASSUME NEW j \in Jobs
      PROVE  (Unscheduled(j)' => Unscheduled(j)) /\ (Retrying(j)' => Retrying(j))
  <2>1. j # NoJob
    BY NoJobAssumption
  <2> QED BY <1>1, <2>1 DEF Unscheduled, Retrying
<1>6. sched'.todo \subseteq (IF sched'.phase = "stale" THEN Attempt ELSE Jobs)
  OBVIOUS
<1> QED BY <1>3, <1>4, <1>5, <1>6, ReadStep

\* ListPending, FindStaleAttempts, ListRunning and EndPass.
LEMMA ListsKeep ==
  ASSUME InvByJob, ListPending \/ FindStaleAttempts \/ ListRunning \/ EndPass
  PROVE  InvByJob'
<1>1. CASE ListPending
  <2> DEFINE todo == {j \in Jobs : job[j] = "Pending"}
  <2>1. sched' = [phase |-> "pending", todo |-> todo, cur |-> NoJob, from |-> "", to |-> ""]
    BY <1>1 DEF ListPending, List, NoPass
  <2> QED BY <1>1, <2>1, ListKeeps DEF ListPending, List, Free
<1>2. CASE FindStaleAttempts
  <2>1. PICK S \in SUBSET {a \in Attempt : State(a) = "Executing"} : List("stale", S)
    BY <1>2 DEF FindStaleAttempts
  <2>2. sched' = [phase |-> "stale", todo |-> S, cur |-> NoJob, from |-> "", to |-> ""]
    BY <2>1 DEF List, NoPass
  <2> QED BY <1>2, <2>1, <2>2, ListKeeps DEF FindStaleAttempts, List, Free
<1>3. CASE ListRunning
  <2> DEFINE todo == {j \in Jobs : job[j] = "Running"}
  <2>1. sched' = [phase |-> "failed", todo |-> todo, cur |-> NoJob, from |-> "", to |-> ""]
    BY <1>3 DEF ListRunning, List, NoPass
  <2>2. sched.cur = NoJob /\ UNCHANGED <<store, worker, faults, succeeded>>
    BY <1>3 DEF ListRunning, List, Free
  <2>3. todo \subseteq Jobs /\ \A j \in todo : job[j] = "Running"
    OBVIOUS
  <2> HIDE DEF todo
  <2> QED BY <2>1, <2>2, <2>3, ListKeeps
<1>4. CASE EndPass
  <2>1. sched' = [phase |-> "idle", todo |-> {}, cur |-> NoJob, from |-> "", to |-> ""]
    BY <1>4 DEF EndPass, List, NoPass
  <2> QED BY <1>4, <2>1, ListKeeps DEF EndPass, List, Free
<1> QED BY <1>1, <1>2, <1>3, <1>4

\* GetAttempts: a job is retried when its latest attempt has ended; the job is not one
\* that can be scheduled, since it was Running when it was listed.
LEMMA GetAttemptsKeeps == ASSUME InvByJob, NEW j \in Jobs, GetAttempts(j) PROVE InvByJob'
<1>1. /\ sched.phase = "failed" /\ sched.cur = NoJob /\ j \in sched.todo
      /\ UNCHANGED <<store, worker, faults, succeeded>>
  BY DEF GetAttempts, Free
<1>2. sched \in Passes /\ sched.todo \subseteq Jobs /\ job[j] \notin {"absent", "Pending"}
  BY <1>1, PassFacts DEF PassShape
<1>3. UNCHANGED <<job, attempts, run, orphans, dir, faults, succeeded>>
  BY <1>1 DEF store, worker
<1>4. CASE LatestFailed(j)
  <2>1. sched' = [phase |-> "failed", todo |-> sched.todo \ {j}, cur |-> j,
                  from |-> "Running", to |-> ""]
    BY <1>1, <1>2, <1>4 DEF GetAttempts, Hand, Passes
  <2>2. sched' \in Passes /\ sched'.todo \subseteq (IF sched'.phase = "stale" THEN Attempt ELSE Jobs)
    BY <1>2, <2>1 DEF Passes
  <2>3. PassShape'
    BY <1>1, <1>2, <1>3, <1>4, <2>1, PassFacts, NoJobAssumption DEF PassShape, LatestFailed
  <2>4. ASSUME NEW i \in Jobs PROVE JobCounts(i)'
    <3>0. TypeOK /\ JobCounts(i) /\ attempts'[i] \in Seq(AttemptStates)
          /\ Settles(attempts[i], attempts'[i])
      BY <1>3, RestFacts, PassFacts, AttemptsSame DEF Counts
    <3>1. CASE i = j
      <4>1. ~Unscheduled(j)'
        BY <1>2, <1>3, <2>1 DEF Unscheduled
      <4>2. LatestEnded(j)
        BY <1>4 DEF LatestFailed, LatestEnded
      <4> QED BY <1>3, <3>0, <3>1, <4>1, <4>2 DEF JobCounts, LatestEnded
    <3>2. CASE i # j
      <4>1. ~Retrying(i)' /\ (Unscheduled(i)' => Unscheduled(i))
        BY <1>1, <1>3, <2>1, <3>2, NoJobAssumption DEF Retrying, Unscheduled
      <4> QED BY <1>3, <3>0, <4>1, RestFacts, CountsKept
    <3> QED BY <3>1, <3>2
  <2>5. Counts'
    BY <2>4 DEF Counts
  <2> QED BY <1>3, <2>2, <2>3, <2>5, RestFacts, JobsSame, QuietStep
<1>5. CASE ~LatestFailed(j)
  <2>1. sched' = [phase |-> "failed", todo |-> sched.todo \ {j}, cur |-> NoJob,
                  from |-> "", to |-> ""]
    BY <1>1, <1>2, <1>5 DEF GetAttempts, Drop, Hand, Passes
  <2> QED BY <1>1, <1>2, <2>1, ListKeeps
<1> QED BY <1>4, <1>5

\* Move: a job that has its attempt cannot be scheduled any more.
LEMMA MoveKeeps == ASSUME InvByJob, Move PROVE InvByJob'
<1> DEFINE k == sched.cur
<1>1. /\ sched \in Passes /\ PassShape /\ k \in Jobs /\ sched.to \in {"Scheduled", "Failed"}
      /\ sched.from \in {"Pending", "Running"}
      /\ sched.todo \subseteq (IF sched.phase = "stale" THEN Attempt ELSE Jobs)
  BY PassFacts DEF Move, Passes, PassShape
<1>2. sched' = [phase |-> sched.phase, todo |-> sched.todo, cur |-> NoJob, from |-> "", to |-> ""]
  BY <1>1 DEF Move, Passes
<1>3. TransitionJobState(k, sched.from, sched.to)
  BY DEF Move
<1>4. UNCHANGED <<attempts, run, orphans, dir, faults, succeeded>>
  BY DEF Move, worker
<1>5. /\ job' \in [Jobs -> JobStates \cup {"absent"}] /\ JobsGoOn
      /\ sched.from = job[k] => job'[k] = sched.to
  BY <1>1, <1>3, RestFacts, JobTransition
<1>6. sched' \in Passes /\ sched'.todo \subseteq (IF sched'.phase = "stale" THEN Attempt ELSE Jobs)
  BY <1>1, <1>2 DEF Passes
<1>7. PassShape'
  BY <1>1, <1>2, <1>5, NoJobAssumption DEF PassShape, JobsGoOn
<1>8. ASSUME NEW i \in Jobs PROVE JobCounts(i)'
  <2>1. /\ TypeOK /\ JobCounts(i) /\ attempts'[i] \in Seq(AttemptStates)
        /\ Settles(attempts[i], attempts'[i])
    BY <1>4, RestFacts, PassFacts, AttemptsSame DEF Counts
  <2>2. ~Retrying(i)'
    BY <1>2, NoJobAssumption DEF Retrying
  <2>3. Unscheduled(i)' => Unscheduled(i)
    <3>1. CASE i = k /\ sched.from = "Pending"
      BY <1>1, <1>2, <1>5, <3>1 DEF Unscheduled, PassShape, JobsGoOn
    <3>2. CASE ~(i = k /\ sched.from = "Pending")
      BY <1>2, <1>5, <3>2 DEF Unscheduled, JobsGoOn
    <3> QED BY <3>1, <3>2
  <2> QED BY <1>4, <1>5, <2>1, <2>2, <2>3, RestFacts, CountsKept DEF JobsGoOn
<1>9. Counts'
  BY <1>8 DEF Counts
<1> QED BY <1>4, <1>5, <1>6, <1>7, <1>9, RestFacts, QuietStep

\* SchedulerFault: a job that loses its attempt's scheduling can be scheduled again, and
\* the fault accounts for the attempt.
LEMMA SchedulerFaultKeeps == ASSUME InvByJob, SchedulerFault PROVE InvByJob'
<1>1. sched \in Passes /\ PassShape
      /\ sched.todo \subseteq (IF sched.phase = "stale" THEN Attempt ELSE Jobs)
  BY PassFacts
<1>2. UNCHANGED <<job, attempts, run, orphans, dir, succeeded>> /\ Fault
  BY DEF SchedulerFault, store, worker
<1>3. PICK phase \in {"idle", sched.phase}, todo \in SUBSET sched.todo :
        /\ phase = "idle" => todo = {}
        /\ sched' = [phase |-> phase, todo |-> todo, cur |-> NoJob, from |-> "", to |-> ""]
  <2>1. CASE sched' = NoPass
    BY <2>1 DEF NoPass
  <2>2. CASE sched' = [sched EXCEPT !.cur = NoJob, !.from = "", !.to = ""]
    <3>1. sched' = [phase |-> sched.phase, todo |-> sched.todo, cur |-> NoJob, from |-> "", to |-> ""]
      BY <1>1, <2>2 DEF Passes
    <3> QED BY <3>1 DEF SchedulerFault
  <2>3. CASE \E x \in sched.todo : Drop(x)
    <3>1. PICK x \in sched.todo : Drop(x)
      BY <2>3
    <3>2. sched' = [phase |-> sched.phase, todo |-> sched.todo \ {x}, cur |-> NoJob, from |-> "", to |-> ""]
      BY <1>1, <3>1 DEF Passes, Drop, Hand
    <3> QED BY <3>2 DEF SchedulerFault
  <2> QED BY <2>1, <2>2, <2>3 DEF SchedulerFault
<1>4. sched' \in Passes /\ sched'.todo \subseteq (IF sched'.phase = "stale" THEN Attempt ELSE Jobs)
  BY <1>1, <1>3 DEF Passes
<1>5. PassShape'
  BY <1>1, <1>2, <1>3, NoJobAssumption DEF PassShape
<1>6. ASSUME NEW i \in Jobs PROVE JobCounts(i)'
  <2>1. /\ TypeOK /\ JobCounts(i) /\ attempts[i] \in Seq(AttemptStates)
        /\ faults \in Nat /\ MaxRetries \in Nat
    BY RestFacts, PassFacts, TypeFacts, RetriesAssumption DEF Counts
  <2>2. ~Retrying(i)'
    BY <1>3, NoJobAssumption DEF Retrying
  <2>3. faults' = faults + 1
    BY <1>2, FaultFacts
  <2>4. Len(attempts[i]) \in Nat /\ Cardinality(ActiveIn(attempts[i])) \in Nat
    BY <2>1, ActiveFinite
  <2> QED BY <1>2, <2>1, <2>2, <2>3, <2>4 DEF JobCounts, LatestEnded
<1>7. Counts'
  BY <1>6 DEF Counts
<1> QED BY <1>2, <1>4, <1>5, <1>7, RestFacts, FaultFacts, JobsSame, QuietStep

\* A step of the scheduler that writes attempts.
LEMMA AttemptsStep ==
  ASSUME InvByJob, UNCHANGED <<job, worker, faults, succeeded>>,
         attempts' \in [Jobs -> Seq(AttemptStates)],
         \A j \in Jobs : Len(attempts[j]) <= Len(attempts'[j]),
         \A b \in Attempt : attempts'[b[1]][b[2]] = "New" => State(b) = "New",
         sched' \in Passes, sched'.todo \subseteq (IF sched'.phase = "stale" THEN Attempt ELSE Jobs),
         PassShape', Counts'
  PROVE  InvByJob'
<1>1. TypeOK /\ ExecutingIsNotNew /\ OneRunPerAttempt
  BY DEF InvByJob
<1>2. UNCHANGED <<run, orphans, dir>>
  BY DEF worker
<1>3. Attempt \subseteq Attempt'
  BY <1>1, TypeFacts, AttemptGrows
<1>4. /\ run' \in [Runs -> Executions]
      /\ \A q \in Runs : run'[q] = NoRun \/ (run'[q].pc # "idle" /\ run'[q].attempt \in Attempt')
      /\ ExecutingIsNotNew' /\ OneRunPerAttempt'
  BY <1>1, <1>2, <1>3, RunUnchanged
<1>5. TypeOK'
  BY <1>1, <1>2, <1>3, <1>4 DEF TypeOK
<1> QED BY <1>4, <1>5 DEF InvByJob

\* The numbers of a job that gets an attempt.
LEMMA CountsGrow ==
  ASSUME TypeOK, NEW j \in Jobs, JobCounts(j), UNCHANGED <<job, faults>>,
         attempts'[j] = Append(attempts[j], "New"), job[j] # "absent",
         Cardinality(ActiveIn(attempts[j])) <= faults, ~Retrying(j)',
         Len(attempts[j]) <= MaxRetries + faults,
         Unscheduled(j)' =>
           /\ Cardinality(ActiveIn(attempts[j])) + 1 <= faults
           /\ faults >= 1 /\ Len(attempts[j]) + 1 <= MaxRetries + faults
  PROVE  JobCounts(j)'
<1> DEFINE s == attempts[j]
           t == attempts'[j]
<1>1. s \in Seq(AttemptStates) /\ t = Append(s, "New")
  BY TypeFacts
<1>2. /\ t \in Seq(AttemptStates) /\ Len(t) = Len(s) + 1 /\ t # <<>> /\ t[Len(t)] = "New"
      /\ Cardinality(ActiveIn(t)) = Cardinality(ActiveIn(s)) + 1
  BY <1>1, ActiveAppend
<1>3. /\ Cardinality(ActiveIn(s)) \in Nat /\ Len(s) \in Nat /\ faults \in Nat /\ MaxRetries \in Nat
  BY <1>1, ActiveFinite, TypeFacts, RetriesAssumption
<1>4. ~LatestEnded(j)'
  BY <1>2 DEF LatestEnded
<1>5. Len(t) <= MaxRetries + 1 + faults
  BY <1>2, <1>3
<1>6. Cardinality(ActiveIn(t)) <= 1 + faults
  BY <1>2, <1>3
<1>7. Unscheduled(j)' =>
        /\ Cardinality(ActiveIn(t)) <= faults
        /\ faults >= 1 /\ Len(t) <= MaxRetries + faults
  BY <1>2, <1>3
<1> QED BY <1>4, <1>5, <1>6, <1>7 DEF JobCounts

\* The numbers of a job whose attempts are left alone.
LEMMA CountsOther ==
  ASSUME InvByJob, NEW i \in Jobs, UNCHANGED <<job, faults>>, attempts'[i] = attempts[i],
         Unscheduled(i)' => Unscheduled(i), Retrying(i)' => Retrying(i)
  PROVE  JobCounts(i)'
<1>1. JobCounts(i) /\ attempts[i] \in Seq(AttemptStates)
  BY PassFacts, RestFacts, TypeFacts DEF Counts
<1> QED BY <1>1, RestFacts, SettlesSame, CountsKept

\* Schedule.
LEMMA ScheduleKeeps == ASSUME InvByJob, NEW j \in Jobs, Schedule(j) PROVE InvByJob'
<1>1. /\ sched.phase = "pending" /\ sched.cur = NoJob /\ j \in sched.todo /\ CreateAttempt(j)
      /\ UNCHANGED <<job, worker, faults, succeeded>>
  BY DEF Schedule, Free
<1>2. /\ sched \in Passes /\ sched.todo \subseteq Jobs /\ PassShape /\ JobCounts(j) /\ TypeOK
      /\ attempts \in [Jobs -> Seq(AttemptStates)]
  BY <1>1, PassFacts, RestFacts, TypeFacts DEF Counts
<1>3. sched' = [phase |-> "pending", todo |-> sched.todo \ {j}, cur |-> j,
                from |-> "Pending", to |-> "Scheduled"]
  BY <1>1, <1>2 DEF Schedule, Hand, Passes
<1>4. /\ attempts' \in [Jobs -> Seq(AttemptStates)] /\ attempts'[j] = Append(attempts[j], "New")
      /\ \A i \in Jobs : i # j => attempts'[i] = attempts[i]
      /\ \A i \in Jobs : Len(attempts[i]) <= Len(attempts'[i])
      /\ \A b \in Attempt : attempts'[b[1]][b[2]] = State(b)
  BY <1>1, <1>2, AttemptCreation DEF State
<1>5. sched' \in Passes /\ sched'.todo \subseteq (IF sched'.phase = "stale" THEN Attempt ELSE Jobs)
  BY <1>2, <1>3 DEF Passes
<1>6. PassShape'
  BY <1>1, <1>2, <1>3, NoJobAssumption DEF PassShape
<1>7. ASSUME NEW i \in Jobs PROVE JobCounts(i)'
  <2>1. CASE i = j
    <3>1. Unscheduled(j) /\ job[j] # "absent"
      BY <1>1, <1>2, NoJobAssumption DEF Unscheduled, PassShape
    <3>2. Cardinality(ActiveIn(attempts[j])) <= faults
      BY <1>2, <3>1 DEF JobCounts
    <3>3. Len(attempts[j]) <= MaxRetries + faults
      BY <1>2, <3>1, TypeFacts, RetriesAssumption DEF JobCounts
    <3>4. ~Retrying(j)' /\ ~Unscheduled(j)'
      BY <1>3 DEF Retrying, Unscheduled
    <3> QED BY <1>1, <1>2, <1>4, <2>1, <3>1, <3>2, <3>3, <3>4, CountsGrow
  <2>2. CASE i # j
    <3>1. ~Retrying(i)' /\ (Unscheduled(i)' => Unscheduled(i))
      BY <1>1, <1>3, <2>2, NoJobAssumption DEF Retrying, Unscheduled
    <3> QED BY <1>1, <1>4, <2>2, <3>1, CountsOther
  <2> QED BY <2>1, <2>2
<1>8. Counts'
  BY <1>7 DEF Counts
<1> QED BY <1>1, <1>4, <1>5, <1>6, <1>8, AttemptsStep

\* Retry: an attempt in place of one that ended, or none when the retries are used up.
LEMMA RetryKeeps == ASSUME InvByJob, Retry PROVE InvByJob'
<1> DEFINE k == sched.cur
<1>1. /\ k # NoJob /\ sched.to = "" /\ UNCHANGED <<job, worker, faults, succeeded>>
  BY DEF Retry
<1>2. /\ sched \in Passes /\ PassShape /\ k \in Jobs /\ JobCounts(k) /\ TypeOK
      /\ attempts \in [Jobs -> Seq(AttemptStates)]
      /\ sched.todo \subseteq (IF sched.phase = "stale" THEN Attempt ELSE Jobs)
  BY <1>1, PassFacts, RestFacts, TypeFacts DEF Counts
<1>3. sched.from = "Running" /\ sched.phase \in {"stale", "failed"} /\ attempts[k] # <<>>
  BY <1>1, <1>2 DEF PassShape
<1>4. PICK to \in {"Scheduled", "Failed"} :
        sched' = [phase |-> sched.phase, todo |-> sched.todo, cur |-> k, from |-> "Running", to |-> to]
  BY <1>2, <1>3 DEF Retry, Passes
<1>5. sched' \in Passes /\ sched'.todo \subseteq (IF sched'.phase = "stale" THEN Attempt ELSE Jobs)
  BY <1>2, <1>4 DEF Passes
<1>6. ASSUME NEW i \in Jobs PROVE ~Retrying(i)' /\ (Unscheduled(i)' => Unscheduled(i))
  BY <1>1, <1>3, <1>4 DEF Retrying, Unscheduled
<1>7. CASE MayRetry(k)
  <2>1. CreateAttempt(k)
    BY <1>7 DEF Retry
  <2>2. /\ attempts' \in [Jobs -> Seq(AttemptStates)] /\ attempts'[k] = Append(attempts[k], "New")
        /\ \A i \in Jobs : i # k => attempts'[i] = attempts[i]
        /\ \A i \in Jobs : Len(attempts[i]) <= Len(attempts'[i])
        /\ \A b \in Attempt : attempts'[b[1]][b[2]] = State(b)
    <3> HIDE DEF k
    <3> QED BY <1>2, <2>1, AttemptCreation DEF State
  <2>3. PassShape'
    <3>1. attempts'[k] # <<>>
      BY <1>2, <2>2, ActiveAppend
    <3> QED BY <1>1, <1>2, <1>3, <1>4, <3>1 DEF PassShape
  <2>4. ASSUME NEW i \in Jobs PROVE JobCounts(i)'
    <3>1. CASE i = k
      <4>1. Retrying(k)
        BY <1>1 DEF Retrying
      <4>2. /\ job[k] # "absent"
            /\ Cardinality(ActiveIn(attempts[k])) <= faults
            /\ Unscheduled(k) => faults >= 1 /\ Cardinality(ActiveIn(attempts[k])) + 1 <= faults
        BY <1>2, <1>3, <4>1 DEF JobCounts
      <4>3. /\ Len(attempts[k]) <= MaxRetries + faults
            /\ faults >= 1 => Len(attempts[k]) + 1 <= MaxRetries + faults
        BY <1>2, <1>7, TypeFacts, RetriesAssumption DEF MayRetry
      <4> HIDE DEF k
      <4> QED BY <1>1, <1>2, <1>6, <2>2, <3>1, <4>2, <4>3, CountsGrow
    <3>2. CASE i # k
      BY <1>1, <1>6, <2>2, <3>2, CountsOther
    <3> QED BY <3>1, <3>2
  <2>5. Counts'
    BY <2>4 DEF Counts
  <2> QED BY <1>1, <1>5, <2>2, <2>3, <2>5, AttemptsStep
<1>8. CASE ~MayRetry(k)
  <2>1. UNCHANGED attempts
    BY <1>8 DEF Retry
  <2>2. PassShape'
    BY <1>1, <1>2, <1>3, <1>4, <2>1 DEF PassShape
  <2> QED BY <1>1, <1>5, <1>6, <2>1, <2>2, ReadStep DEF store
<1> QED BY <1>7, <1>8

\* TimeOut: an attempt that is still executing ends, so that a retry may take its place.
LEMMA TimeOutKeeps == ASSUME InvByJob, NEW a \in Attempt, TimeOut(a) PROVE InvByJob'
<1> DEFINE k == a[1]
<1>1. /\ sched.phase = "stale" /\ sched.cur = NoJob /\ a \in sched.todo
      /\ TransitionAttemptState(a, "Executing", "TimedOut")
      /\ UNCHANGED <<job, worker, faults, succeeded>>
  BY DEF TimeOut, Free
<1>2. /\ sched \in Passes /\ PassShape /\ sched.todo \subseteq Attempt /\ TypeOK
      /\ attempts \in [Jobs -> Seq(AttemptStates)]
  BY <1>1, PassFacts, RestFacts, TypeFacts
<1>3. k \in Jobs /\ a[2] \in 1 .. Len(attempts[k]) /\ attempts[k] # <<>> /\ JobCounts(k)
  BY <1>2, AttemptFields, PassFacts DEF Counts
<1>4. /\ attempts' \in [Jobs -> Seq(AttemptStates)]
      /\ \A i \in Jobs : Len(attempts'[i]) = Len(attempts[i])
      /\ \A i \in Jobs : i # k => attempts'[i] = attempts[i]
      /\ \A n \in 1 .. Len(attempts[k]) : n # a[2] => attempts'[k][n] = attempts[k][n]
      /\ attempts'[k][a[2]] = IF State(a) = "Executing" THEN "TimedOut" ELSE State(a)
      /\ \A j \in Jobs : Settles(attempts[j], attempts'[j])
  BY <1>1, <1>2, AttemptTransition DEF State, ActiveStates, AttemptStates
<1>5. \A b \in Attempt : attempts'[b[1]][b[2]] = "New" => State(b) = "New"
  BY <1>1, <1>2, AttemptEnds DEF ActiveStates, AttemptStates
<1>6. \A i \in Jobs : Len(attempts[i]) <= Len(attempts'[i])
  BY <1>2, <1>4
<1>7. CASE State(a) = "Executing"
  <2>1. sched' = [phase |-> "stale", todo |-> sched.todo \ {a}, cur |-> k,
                  from |-> "Running", to |-> ""]
    BY <1>1, <1>2, <1>7 DEF TimeOut, Hand, Passes
  <2>2. sched' \in Passes /\ sched'.todo \subseteq (IF sched'.phase = "stale" THEN Attempt ELSE Jobs)
    BY <1>2, <1>3, <2>1 DEF Passes
  <2>3. PassShape'
    <3>1. attempts'[k] # <<>>
      BY <1>2, <1>3, <1>4
    <3> QED BY <1>3, <2>1, <3>1, NoJobAssumption DEF PassShape
  <2>4. ASSUME NEW i \in Jobs PROVE JobCounts(i)'
    <3>1. CASE i = k
      <4> DEFINE s == attempts[k]
                 t == attempts'[k]
                 m == Cardinality(ActiveIn(s))
                 n == Cardinality(ActiveIn(t))
      <4>1. s \in Seq(AttemptStates) /\ t \in Seq(AttemptStates) /\ Len(t) = Len(s)
        BY <1>2, <1>3, <1>4
      <4>2. n + 1 = m
        BY <1>3, <1>4, <1>7, <4>1, ActiveMove DEF State, ActiveStates
      <4>3. m \in Nat /\ n \in Nat /\ Len(s) \in Nat /\ faults \in Nat
        BY <1>2, <4>1, ActiveFinite, TypeFacts
      <4>4. Unscheduled(k)' => Unscheduled(k)
        BY <1>1, <1>3, <2>1, NoJobAssumption DEF Unscheduled
      <4>5. m <= 1 + faults /\ (Unscheduled(k) => m <= faults)
        BY <1>3 DEF JobCounts
      <4>6. n <= faults /\ n <= 1 + faults /\ (Unscheduled(k)' => n + 1 <= faults)
        BY <4>2, <4>3, <4>4, <4>5
      <4>7. /\ Len(t) <= MaxRetries + 1 + faults
            /\ job'[k] # "absent"
            /\ Unscheduled(k)' => faults >= 1 /\ Len(t) <= MaxRetries + faults
        BY <1>1, <1>3, <4>1, <4>4 DEF JobCounts
      <4> HIDE DEF k
      <4> QED BY <1>1, <3>1, <4>6, <4>7 DEF JobCounts
    <3>2. CASE i # k
      <4>1. ~Retrying(i)' /\ (Unscheduled(i)' => Unscheduled(i))
        BY <1>1, <2>1, <3>2, NoJobAssumption DEF Retrying, Unscheduled
      <4> QED BY <1>1, <1>4, <3>2, <4>1, CountsOther
    <3> QED BY <3>1, <3>2
  <2>5. Counts'
    BY <2>4 DEF Counts
  <2> QED BY <1>1, <1>4, <1>5, <1>6, <2>2, <2>3, <2>5, AttemptsStep
<1>8. CASE State(a) # "Executing"
  <2>1. sched' = [phase |-> "stale", todo |-> sched.todo \ {a}, cur |-> NoJob, from |-> "", to |-> ""]
    BY <1>1, <1>2, <1>8 DEF TimeOut, Drop, Hand, Passes
  <2>2. attempts' = attempts
    BY <1>1, <1>2, <1>3, <1>8 DEF TransitionAttemptState, State
  <2> QED BY <1>1, <1>2, <2>1, <2>2, ListKeeps DEF store
<1> QED BY <1>7, <1>8

-----------------------------------------------------------------------------
(* The theorems.                                                            *)

\* Nothing has been submitted, made or claimed at first.
LEMMA InitInvariant == Init => InvByJob
<1> SUFFICES ASSUME Init PROVE InvByJob
  OBVIOUS
<1>1. TypeOK
  <2>1. job \in [Jobs -> JobStates \cup {"absent"}] /\ attempts \in [Jobs -> Seq(AttemptStates)]
    BY DEF Init
  <2>2. sched \in Passes /\ sched.todo = {}
    BY DEF Init, NoPass, Passes
  <2>3. run \in [Runs -> Executions] /\ \A r \in Runs : run[r] = NoRun
    BY DEF Init, NoRun, Executions
  <2>4. /\ orphans = {} /\ succeeded = {} /\ faults \in 0 .. MaxFaults
        /\ dir \in [Jobs -> {"absent", "empty", "zero", "nonzero"}]
    BY StoreFaultsAssumption DEF Init
  <2> QED BY <2>1, <2>2, <2>3, <2>4 DEF TypeOK
<1>2. PassShape /\ ExecutingIsNotNew /\ OneRunPerAttempt
  BY NoJobAssumption
     DEF Init, PassShape, ExecutingIsNotNew, OneRunPerAttempt, NoPass, NoRun, Executing
<1>3. ASSUME NEW j \in Jobs PROVE JobCounts(j)
  <2>1. attempts[j] = <<>> /\ faults = 0 /\ ~Retrying(j)
    BY NoJobAssumption DEF Init, Retrying, NoPass
  <2>2. <<>> \in Seq(AttemptStates)
    OBVIOUS
  <2>3. Cardinality(ActiveIn(<<>>)) = 0
    BY <2>2, ActiveFinite
  <2> QED BY <2>1, <2>3, RetriesAssumption DEF JobCounts, LatestEnded
<1> QED BY <1>1, <1>2, <1>3 DEF InvByJob, Counts

\* Every step keeps the invariant.
LEMMA StepInvariant == InvByJob /\ [Next]_vars => InvByJob'
<1> SUFFICES ASSUME InvByJob, [Next]_vars PROVE InvByJob'
  OBVIOUS
<1>1. CASE Pass
  <2>1. CASE ListPending \/ FindStaleAttempts \/ ListRunning \/ EndPass
    BY <2>1, ListsKeep
  <2>2. CASE Retry
    BY <2>2, RetryKeeps
  <2>3. CASE Move
    BY <2>3, MoveKeeps
  <2>4. CASE \E j \in Jobs : Schedule(j) \/ GetAttempts(j)
    BY <2>4, ScheduleKeeps, GetAttemptsKeeps
  <2>5. CASE \E a \in Attempt : TimeOut(a)
    BY <2>5, TimeOutKeeps
  <2> QED BY <1>1, <2>1, <2>2, <2>3, <2>4, <2>5 DEF Pass
<1>2. CASE SchedulerFault
  BY <1>2, SchedulerFaultKeeps
<1>3. ASSUME NEW r \in Runs, Work(r) PROVE InvByJob'
  BY <1>3, ClaimKeeps, ExecuteKeeps, AttemptWritesKeep, JobWritesKeep, SandboxKeeps,
     RemoveAllKeeps DEF Work
<1>4. ASSUME NEW r \in Runs, WorkerFault(r) PROVE InvByJob'
  BY <1>4, WorkerFaultKeeps
<1>5. CASE \/ \E a \in orphans, code \in {"zero", "nonzero"} : OrphanEnds(a, code)
           \/ \E j \in Jobs : CreateJob(j) \/ TerminateJob(j)
  BY <1>5, OutsideKeeps
<1>6. CASE UNCHANGED vars
  <2>1. UNCHANGED <<job, attempts, store, sched, run, orphans, dir, faults, succeeded, worker>>
    BY <1>6 DEF vars, store, worker
  <2>2. PassShape' /\ \A j \in Jobs : (Unscheduled(j)' => Unscheduled(j)) /\ (Retrying(j)' => Retrying(j))
    BY <2>1, PassFacts DEF PassShape, Unscheduled, Retrying
  <2> QED BY <2>1, <2>2, PassFacts, ReadStep
<1> QED BY <1>1, <1>2, <1>3, <1>4, <1>5, <1>6 DEF Next

\* Every reachable state satisfies the invariant: the scheduler's pass, the executions
\* and the numbers of attempts are tied together as Inv says.
THEOREM Invariance == Spec => []Inv
<1>1. Init => InvByJob
  BY InitInvariant
<1>2. InvByJob /\ [Next]_vars => InvByJob'
  BY StepInvariant
<1>3. InvByJob => Inv
  BY SameInvariant
<1> QED BY <1>1, <1>2, <1>3, PTL DEF Spec

\* States, lists and executions stay within their types.
THEOREM TypeCorrect == Spec => []TypeOK
<1>1. Inv => TypeOK
  BY DEF Inv
<1> QED BY <1>1, Invariance, PTL

\* However many workers claim an attempt, one execution of it at most is under way.
THEOREM AttemptRunsOnce == Spec => []OneRunPerAttempt
<1>1. Inv => OneRunPerAttempt
  BY DEF Inv
<1> QED BY <1>1, Invariance, PTL

\* A job gets no more attempts than its retries and the faults so far allow.
THEOREM RetriesBound == Spec => []WithinRetries
<1>1. Inv => WithinRetries
  BY DEF Inv
<1> QED BY <1>1, Invariance, PTL

\* Barring faults, at most one attempt of a job is New or Executing.
THEOREM ActiveBound == Spec => []OneActiveAttempt
<1>1. Inv => OneActiveAttempt
  BY DEF Inv
<1> QED BY <1>1, Invariance, PTL

\* The writes of attempts: each is a transition from an active state, or a new attempt.
LEMMA EndedAttempts ==
  ASSUME InvByJob, [Next]_vars, NEW a \in Attempt, State(a) \notin {"New", "Executing"}
  PROVE  State(a)' = State(a)
<1> USE DEF ActiveStates
<1>1. TypeOK /\ attempts \in [Jobs -> Seq(AttemptStates)]
  BY RestFacts, TypeFacts
<1>2. CASE UNCHANGED attempts
  BY <1>2 DEF State
<1>3. ASSUME NEW b \in Attempt, NEW from \in ActiveStates, NEW to \in AttemptStates \ {"New"},
             TransitionAttemptState(b, from, to)
      PROVE  State(a)' = State(a)
  BY <1>1, <1>3, AttemptTransition
<1>4. ASSUME NEW j \in Jobs, CreateAttempt(j) PROVE State(a)' = State(a)
  BY <1>1, <1>4, AttemptCreation
<1>5. CASE Pass
  <2>1. CASE \E b \in Attempt : TimeOut(b)
    BY <1>3, <2>1 DEF TimeOut, AttemptStates
  <2>2. CASE \E j \in Jobs : Schedule(j)
    BY <1>4, <2>2 DEF Schedule
  <2>3. CASE Retry
    <3>1. sched.cur \in Jobs
      BY <2>3, PassFacts DEF Retry
    <3> QED BY <1>2, <1>4, <2>3, <3>1 DEF Retry
  <2>4. CASE ListPending \/ FindStaleAttempts \/ ListRunning \/ Move \/ EndPass
             \/ \E j \in Jobs : GetAttempts(j)
    BY <1>2, <2>4
       DEF ListPending, FindStaleAttempts, ListRunning, Move, EndPass, GetAttempts, List, store
  <2> QED BY <1>5, <2>1, <2>2, <2>3, <2>4 DEF Pass
<1>6. ASSUME NEW r \in Runs, Work(r) PROVE State(a)' = State(a)
  <2>1. CASE Execute(r) \/ failAndCleanup(r) \/ FailAttempt(r) \/ CompleteAttempt(r)
    <3>1. run[r].pc # "idle"
      BY <2>1 DEF Execute, failAndCleanup, FailAttempt, CompleteAttempt
    <3>2. run[r].attempt \in Attempt
      BY <1>1, <3>1, RunFields
    <3>3. PICK from \in ActiveStates, to \in AttemptStates \ {"New"} :
            TransitionAttemptState(run[r].attempt, from, to)
      BY <2>1 DEF Execute, failAndCleanup, FailAttempt, CompleteAttempt, AttemptStates
    <3> DEFINE b == run[r].attempt
    <3>4. b \in Attempt /\ TransitionAttemptState(b, from, to)
      BY <3>2, <3>3
    <3> HIDE DEF b
    <3> QED BY <1>3, <3>4
  <2>2. CASE Claim(r) \/ StartJob(r) \/ StartSandbox(r) \/ StopWaiting(r) \/ ReadResult(r)
             \/ CompleteJob(r) \/ RemoveAll(r)
             \/ \E code \in {"zero", "nonzero", "none"} : SandboxEnds(r, code)
    BY <1>2, <2>2 DEF Claim, StartJob, StartSandbox, StopWaiting, ReadResult, CompleteJob,
                      RemoveAll, SandboxEnds, store
  <2> QED BY <1>6, <2>1, <2>2 DEF Work
<1>7. CASE UNCHANGED vars \/ SchedulerFault \/ (\E j \in Jobs : CreateJob(j) \/ TerminateJob(j))
           \/ (\E r \in Runs : WorkerFault(r))
           \/ \E b \in orphans, code \in {"zero", "nonzero"} : OrphanEnds(b, code)
  BY <1>2, <1>7 DEF SchedulerFault, CreateJob, TerminateJob, WorkerFault, OrphanEnds, vars, store
<1> QED BY <1>5, <1>6, <1>7 DEF Next

\* The writes of jobs: each is a transition from a state in which the job has not ended.
LEMMA EndedJobs ==
  ASSUME InvByJob, [Next]_vars, NEW j \in Jobs, job[j] \in Ended
  PROVE  job'[j] = job[j]
<1>1. TypeOK
  BY RestFacts
<1>2. CASE UNCHANGED job
  BY <1>2
<1>3. CASE Move
  <2>1. sched.from \in {"Pending", "Running"} /\ sched.to \in {"Scheduled", "Failed"}
    BY <1>3, PassFacts DEF Move, Passes, PassShape
  <2>2. TransitionJobState(sched.cur, sched.from, sched.to)
    BY <1>3 DEF Move
  <2> QED BY <1>1, <2>1, <2>2, JobTransition
<1>4. CASE \E r \in Runs : StartJob(r) \/ CompleteJob(r)
  BY <1>1, <1>4, JobTransition DEF StartJob, CompleteJob
<1>5. CASE \E i \in Jobs : CreateJob(i) \/ TerminateJob(i)
  BY <1>1, <1>5, TypeFacts DEF CreateJob, TerminateJob, TransitionJobState, Ended
<1>6. CASE Pass /\ ~Move
  BY <1>2, <1>6
     DEF Pass, ListPending, FindStaleAttempts, ListRunning, Retry, EndPass, Schedule, GetAttempts,
         TimeOut, List, store
<1>7. CASE \E r \in Runs : Work(r) /\ ~StartJob(r) /\ ~CompleteJob(r)
  BY <1>2, <1>7
     DEF Work, Claim, Execute, StartSandbox, failAndCleanup, SandboxEnds, StopWaiting, ReadResult,
         FailAttempt, CompleteAttempt, RemoveAll, store
<1>8. CASE UNCHANGED vars \/ SchedulerFault \/ (\E r \in Runs : WorkerFault(r))
           \/ \E b \in orphans, code \in {"zero", "nonzero"} : OrphanEnds(b, code)
  BY <1>2, <1>8 DEF SchedulerFault, WorkerFault, OrphanEnds, vars, store
<1> QED BY <1>3, <1>4, <1>5, <1>6, <1>7, <1>8 DEF Next

\* A job or an attempt that has ended stays as it is, whatever the scheduler, the API and
\* workers that were given up still write.
THEOREM NoComeback == Spec => EndedStaysEnded
<1>1. InvByJob /\ [Next]_vars =>
        [/\ \A j \in Jobs : job[j] \in Ended => job'[j] = job[j]
         /\ \A a \in Attempt : State(a) \notin {"New", "Executing"} => State(a)' = State(a)]_vars
  BY EndedAttempts, EndedJobs
<1>2. Spec => []InvByJob
  BY InitInvariant, StepInvariant, PTL DEF Spec
<1> QED BY <1>1, <1>2, PTL DEF Spec, EndedStaysEnded

=============================================================================
