--------------------------- MODULE PoolController ---------------------------
(***************************************************************************)
(* The controller of a SandboxPool: Reconcile, which lists the pods of the *)
(* pool from its cache and creates or deletes pods one by one, and         *)
(* ClaimPoolPod, with which jobs take a warm pod by a label patch.         *)
(*                                                                         *)
(* The cache trails the API server by a watch stream.  Pods start, end and *)
(* disappear, and jobs claim them, between any two calls of a pass.        *)
(***************************************************************************)
EXTENDS Integers, Sequences, FiniteSets

CONSTANTS
  Jobs, NoJob,            \* the jobs that claim pods
  MinSize, MaxSize,       \* spec.minSize, spec.maxSize: nothing puts them in order
  UpTenths, DownTenths,   \* spec.scaleUpThreshold, spec.scaleDownThreshold, in tenths
  ScaleUpStep,            \* spec.scaleUpStep
  MaxPods,                \* pods created in all
  MaxLag,                 \* watch events the cache can be behind
  MaxFaults               \* calls that fail

ASSUME SizeAssumption  == MinSize \in Nat /\ MaxSize \in Nat
ASSUME RatioAssumption == UpTenths \in 0 .. 10 /\ DownTenths \in 0 .. 10
ASSUME BoundAssumption == /\ ScaleUpStep \in Nat /\ MaxPods \in Nat
                          /\ MaxLag \in Nat \ {0} /\ MaxFaults \in Nat
ASSUME PoolJobAssumption == NoJob \notin Jobs

VARIABLES
  pods,      \* the pods of the pool in the API server, by number
  created,   \* pods created so far
  events,    \* watch events not yet delivered
  cache,     \* the pods as the cache shows them
  cooling,   \* status.lastScaleTime is less than the cooldown ago
  pass,      \* the pass of Reconcile that is under way
  claim,     \* the claim of each job: nothing, the pod it chose, the pod it holds
  faults,    \* calls that failed
  unseen,    \* history: live pods the list of the pass did not count
  lost       \* history: pods it counted that were gone, or ended by themselves since

cluster == <<pods, created, events>>
vars == <<cluster, cache, cooling, pass, claim, faults, unseen, lost>>

Numbers == 1 .. MaxPods

\* A pod in the API server: its phase and its pool labels.
Phases == {"absent", "Pending", "Running", "Ended", "Terminating"}
Pods == [phase : Phases, job : Jobs \cup {NoJob}]
NoPod == [phase |-> "absent", job |-> NoJob]

-----------------------------------------------------------------------------
(* The API server and its watch (external).                                 *)

Write(p, pod) ==
  /\ Len(events) < MaxLag
  /\ pods' = [pods EXCEPT ![p] = pod]
  /\ events' = Append(events, [number |-> p, pod |-> pod])

Deliver ==
  /\ events # <<>>
  /\ cache' = [cache EXCEPT ![Head(events).number] = Head(events).pod]
  /\ events' = Tail(events)
  /\ UNCHANGED <<pods, created, cooling, pass, claim, faults, unseen, lost>>

\* The kubelet starts a pod, a pod ends, a deleted pod is removed.
PodMoves(p) ==
  /\ \/ pods[p].phase = "Pending" /\ Write(p, [pods[p] EXCEPT !.phase = "Running"])
     \/ pods[p].phase \in {"Pending", "Running"} /\ Write(p, [pods[p] EXCEPT !.phase = "Ended"])
     \/ pods[p].phase = "Terminating" /\ Write(p, NoPod)
  /\ lost' = IF pass.pc # "idle" /\ pods'[p].phase = "Ended" THEN lost + 1 ELSE lost
  /\ UNCHANGED <<created, cache, cooling, pass, claim, faults, unseen>>

Fault == faults < MaxFaults /\ faults' = faults + 1

-----------------------------------------------------------------------------
(* Reconcile.                                                               *)

Idle(list) == {p \in Numbers : list[p].phase = "Running" /\ list[p].job = NoJob}

Claimed(list) == {p \in Numbers : list[p].phase = "Running" /\ list[p].job # NoJob}

Pending(list) == {p \in Numbers : list[p].phase = "Pending"}

Counted(list) == Idle(list) \cup Claimed(list) \cup Pending(list)

\* The pods there really are.
Live == Counted(pods)

Least(a, b) == IF a < b THEN a ELSE b

\* Seeded fault: the size limit is compared after the pod is created.
OneTooMany(total, idle, cooled) ==
  IF total = 0 THEN MinSize
  ELSE IF 10 * idle < UpTenths * total /\ cooled /\ total <= MaxSize
       THEN Least(ScaleUpStep, MaxSize + 1 - total) ELSE 0

\* Seeded fault: an empty pool is not filled.
NoStart(total, idle, cooled) ==
  IF 10 * idle < UpTenths * total /\ cooled /\ total < MaxSize
    THEN Least(ScaleUpStep, MaxSize - total) ELSE 0

\* The pods to create.
ScaleUp(total, idle, cooled) ==
  IF total = 0 THEN MinSize
  ELSE IF 10 * idle < UpTenths * total /\ cooled /\ total < MaxSize
       THEN Least(ScaleUpStep, MaxSize - total) ELSE 0

\* Seeded fault: one pod fewer than the minimum is kept.
BelowMin(total, idle, cooled) ==
  IF 10 * idle > DownTenths * total /\ total > MinSize /\ cooled
    THEN Least(idle, total - MinSize + 1) ELSE 0

\* The idle pods to delete.
ScaleDown(total, idle, cooled) ==
  IF 10 * idle > DownTenths * total /\ total > MinSize /\ cooled
    THEN Least(idle, total - MinSize) ELSE 0

NoPass == [pc |-> "idle", total |-> 0, create |-> 0, delete |-> 0, idle |-> {},
           scaled |-> FALSE]

EndPass == pass' = NoPass /\ unseen' = 0 /\ lost' = 0

\* Get and List, both from the cache, which may not show the last scaling either.
\* The histories note how far the list is from the pods there are.
BeginPass ==
  /\ pass.pc = "idle"
  /\ \E cooled \in {~cooling, TRUE} :
       LET total == Cardinality(Counted(cache))
           idle  == Cardinality(Idle(cache))
       IN  pass' = [pc |-> "create", total |-> total, create |-> ScaleUp(total, idle, cooled),
                    delete |-> ScaleDown(total, idle, cooled), idle |-> Idle(cache),
                    scaled |-> FALSE]
  /\ unseen' = Cardinality(Live \ Counted(cache))
  /\ lost' = Cardinality(Counted(cache) \ Live)
  /\ UNCHANGED <<cluster, cache, cooling, claim, faults>>

CreatePod ==
  /\ pass.pc = "create" /\ pass.create > 0
  /\ created < MaxPods
  /\ created' = created + 1
  /\ Write(created + 1, [phase |-> "Pending", job |-> NoJob])
  /\ pass' = [pass EXCEPT !.create = @ - 1, !.scaled = TRUE]
  /\ UNCHANGED <<cache, cooling, claim, faults, unseen, lost>>

Created ==
  /\ pass.pc = "create" /\ pass.create = 0
  /\ pass' = [pass EXCEPT !.pc = "delete"]
  /\ UNCHANGED <<cluster, cache, cooling, claim, faults, unseen, lost>>

\* Delete carries no precondition; a pod that is gone already counts as removed.
DeletePod(p) ==
  /\ pass.pc = "delete" /\ pass.delete > 0 /\ p \in pass.idle
  /\ pass' = [pass EXCEPT !.delete = @ - 1, !.idle = @ \ {p}, !.scaled = TRUE]
  /\ IF pods[p].phase \in {"absent", "Terminating"}
       THEN UNCHANGED cluster
       ELSE Write(p, [pods[p] EXCEPT !.phase = "Terminating"]) /\ UNCHANGED created
  /\ UNCHANGED <<cache, cooling, claim, faults, unseen, lost>>

\* The status notes when the pool was scaled.
UpdateStatus ==
  /\ pass.pc = "delete" /\ pass.delete = 0
  /\ cooling' = (cooling \/ pass.scaled)
  /\ EndPass
  /\ UNCHANGED <<cluster, cache, claim, faults>>

\* A call fails and the pass ends, without the status that notes what it did.
PassFails ==
  /\ pass.pc # "idle" /\ Fault
  /\ EndPass
  /\ UNCHANGED <<cluster, cache, cooling, claim>>

\* The cooldown passes.
CooldownPasses ==
  /\ cooling
  /\ cooling' = FALSE
  /\ UNCHANGED <<cluster, cache, pass, claim, faults, unseen, lost>>

-----------------------------------------------------------------------------
(* ClaimPoolPod.                                                            *)

NoClaim == [pc |-> "none", pod |-> 0]

\* The first pod listed as idle; its phase is not looked at.
ChoosePod(j) ==
  /\ claim[j].pc = "none"
  /\ \E p \in Numbers : /\ cache[p].phase # "absent" /\ cache[p].job = NoJob
                        /\ claim' = [claim EXCEPT ![j] = [pc |-> "chosen", pod |-> p]]
  /\ UNCHANGED <<cluster, cache, cooling, pass, faults, unseen, lost>>

\* The merge patch names no version, so that it takes a pod from another job; a pod
\* that is gone is an error, and the job may ask again.
PatchPod(j) ==
  LET p == claim[j].pod IN
  /\ claim[j].pc = "chosen"
  /\ IF pods[p].phase = "absent"
       THEN /\ claim' = [claim EXCEPT ![j] = NoClaim]
            /\ UNCHANGED cluster
       ELSE /\ claim' = [claim EXCEPT ![j].pc = "held"]
            /\ Write(p, [pods[p] EXCEPT !.job = j])
            /\ UNCHANGED created
  /\ UNCHANGED <<cache, cooling, pass, faults, unseen, lost>>

-----------------------------------------------------------------------------

Init ==
  /\ pods = [p \in Numbers |-> NoPod] /\ created = 0
  /\ events = <<>> /\ cache = [p \in Numbers |-> NoPod]
  /\ cooling = FALSE
  /\ pass = NoPass
  /\ claim = [j \in Jobs |-> NoClaim]
  /\ faults = 0 /\ unseen = 0 /\ lost = 0

Reconcile ==
  \/ BeginPass \/ CreatePod \/ Created \/ UpdateStatus
  \/ \E p \in Numbers : DeletePod(p)

Next ==
  \/ Reconcile \/ PassFails \/ CooldownPasses \/ Deliver
  \/ \E p \in Numbers : PodMoves(p)
  \/ \E j \in Jobs : ChoosePod(j) \/ PatchPod(j)

Spec == Init /\ [][Next]_vars

\* The pool is requeued after every pass, and the watch delivers.
FairSpec == Spec /\ WF_vars(Reconcile) /\ WF_vars(Deliver)

-----------------------------------------------------------------------------
(* Properties.                                                              *)

\* Counters and lists stay within the pool, and a pass deletes no more than it listed.
TypeOK ==
  /\ pods \in [Numbers -> Pods] /\ cache \in [Numbers -> Pods]
  /\ created \in 0 .. MaxPods /\ \A p \in Numbers : p > created => pods[p] = NoPod
  /\ events \in Seq([number : Numbers, pod : Pods]) /\ Len(events) <= MaxLag
  /\ cooling \in BOOLEAN
  /\ pass \in [pc : {"idle", "create", "delete"}, total : Nat, create : Nat,
               delete : Nat, idle : SUBSET Numbers, scaled : BOOLEAN]
  /\ pass.delete <= Cardinality(pass.idle)
  /\ claim \in [Jobs -> [pc : {"none", "chosen", "held"}, pod : 0 .. MaxPods]]
  /\ faults \in 0 .. MaxFaults /\ unseen \in Nat /\ lost \in Nat

\* The size a pass scales up to: an empty list starts minSize pods, even where that is
\* more than maxSize.
Limit == IF pass.total = 0 THEN MinSize ELSE MaxSize

\* A pass that creates pods overshoots its limit by no more than the live pods its list
\* missed, whatever starts, ends or is claimed while it creates them one by one.
PassWithinMax ==
  [][created' > created => Cardinality(Live') <= Limit + unseen]_vars

\* A pass that deletes pods undershoots minSize by no more than the pods its list still
\* showed though they were gone, and those that ended by themselves meanwhile.
PassKeepsMin ==
  [][pass'.delete < pass.delete /\ pass' # NoPass
       => Cardinality(Live') + lost >= MinSize]_vars

\* A pool that has lost all its pods gets new ones, as long as pods can be created.
EmptyPoolRefills ==
  (Live = {} /\ MinSize > 0 /\ created + MinSize <= MaxPods)
    ~> (Live # {} \/ created + MinSize > MaxPods)

-----------------------------------------------------------------------------
(* Why the properties hold: the list gives the pass a margin, short of what *)
(* the list got wrong, and nothing but its own calls and the ends of pods    *)
(* use it up.                                                                *)

ClaimsNamePods == \A j \in Jobs : claim[j].pc = "chosen" => claim[j].pod \in Numbers

BetweenPasses == pass.pc = "idle" => pass = NoPass /\ unseen = 0 /\ lost = 0

\* The pods still to be created fit under the limit.
RoomLeft == pass.create > 0 => Cardinality(Live) + pass.create <= Limit + unseen

\* The pods still to be deleted, and those that are gone, can be spared.
EnoughLeft == pass.delete > 0 => Cardinality(Live) + lost >= MinSize + pass.delete

Inv == TypeOK /\ ClaimsNamePods /\ BetweenPasses /\ RoomLeft /\ EnoughLeft

=============================================================================
