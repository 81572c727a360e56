------------------------ MODULE PoolControllerProofs ------------------------
(***************************************************************************)
(* The safety properties of PoolController hold for any sizes, thresholds  *)
(* and steps of a pool, any jobs, any lag of the cache and any faults.     *)
(*                                                                         *)
(* The proof is by the invariant Inv: what the list of a pass missed, and  *)
(* what it showed that was gone, bound how far its totals are from the     *)
(* pods there are, and from there on RoomLeft and EnoughLeft follow the    *)
(* margin of the pass call by call.                                        *)
(***************************************************************************)
EXTENDS PoolController, FiniteSetTheorems, TLAPS

-----------------------------------------------------------------------------
(* Writes, the watch and the pods that count.                               *)

\* What the watch stream and the pass are made of.
Events == [number : Numbers, pod : Pods]

Passes == [pc : {"idle", "create", "delete"}, total : Nat, create : Nat, delete : Nat,
           idle : SUBSET Numbers, scaled : BOOLEAN]

\* The part of the type invariant the steps below need.
LEMMA TypeFacts ==
  ASSUME TypeOK
  PROVE  /\ pods \in [Numbers -> Pods] /\ cache \in [Numbers -> Pods]
         /\ events \in Seq(Events) /\ Len(events) \in Nat /\ Len(events) <= MaxLag
         /\ \A p \in Pods : p.phase \in Phases /\ p.job \in Jobs \cup {NoJob}
         /\ \A i \in 1 .. Len(events) : events[i].number \in Numbers /\ events[i].pod \in Pods
<1>1. events \in Seq(Events)
  BY DEF TypeOK, Events
<1>2. \A e \in Events : e.number \in Numbers /\ e.pod \in Pods
  BY DEF Events
<1>3. Len(events) \in Nat /\ \A i \in 1 .. Len(events) : events[i] \in Events
  BY <1>1
<1>4. \A p \in Pods : p.phase \in Phases /\ p.job \in Jobs \cup {NoJob}
  BY DEF Pods
<1> QED BY <1>1, <1>2, <1>3, <1>4 DEF TypeOK

\* A write is stored and on its way to the cache.
LEMMA WriteLemma ==
  ASSUME TypeOK, NEW p \in Numbers, NEW q \in Pods, Write(p, q)
  PROVE  /\ pods' \in [Numbers -> Pods] /\ pods'[p] = q
         /\ \A r \in Numbers : r # p => pods'[r] = pods[r]
         /\ events' \in Seq(Events) /\ Len(events') <= MaxLag
<1> DEFINE e == [number |-> p, pod |-> q]
<1>1. e \in Events /\ events \in Seq(Events) /\ Len(events) \in Nat /\ MaxLag \in Nat
  BY TypeFacts, BoundAssumption DEF Events
<1>2. events' = Append(events, e) /\ Len(events) < MaxLag /\ pods' = [pods EXCEPT ![p] = q]
  BY DEF Write
<1>3. pods' \in [Numbers -> Pods] /\ pods'[p] = q /\ \A r \in Numbers : r # p => pods'[r] = pods[r]
  BY <1>2, TypeFacts
<1> HIDE DEF e
<1>5. events' \in Seq(Events) /\ Len(events') = Len(events) + 1
  BY <1>1, <1>2
<1> QED BY <1>1, <1>2, <1>3, <1>5

\* The pods that count are the ones pending or running.
LEMMA LiveIs ==
  ASSUME TRUE
  PROVE  Live = {p \in Numbers : pods[p].phase \in {"Pending", "Running"}}
  BY DEF Live, Counted, Idle, Claimed, Pending

\* The pods that count are finitely many.
LEMMA LiveFinite ==
  ASSUME TRUE
  PROVE  IsFiniteSet(Numbers) /\ IsFiniteSet(Live) /\ Cardinality(Live) \in Nat
<1>1. IsFiniteSet(Numbers)
  BY FS_Interval, BoundAssumption DEF Numbers
<1>2. Live \in SUBSET Numbers
  BY LiveIs
<1> QED BY <1>1, <1>2, FS_Subset, FS_CardinalityType

\* A write changes the number of pods that count by at most one.
LEMMA LiveWrite ==
  ASSUME TypeOK, NEW p \in Numbers, NEW q \in Pods, Write(p, q)
  PROVE  /\ Cardinality(Live') \in Nat
         /\ Cardinality(Live') <= Cardinality(Live) + 1
         /\ Cardinality(Live') + 1 >= Cardinality(Live)
         /\ (pods[p].phase \in {"Pending", "Running"} <=> q.phase \in {"Pending", "Running"})
               => Live' = Live
         /\ q.phase \notin {"Pending", "Running"} => Cardinality(Live') <= Cardinality(Live)
         /\ q.phase \in {"Pending", "Running"} => Cardinality(Live') >= Cardinality(Live)
<1>1. pods'[p] = q /\ \A r \in Numbers : r # p => pods'[r] = pods[r]
  BY WriteLemma
<1>2. Live' = {r \in Numbers : pods'[r].phase \in {"Pending", "Running"}}
  BY DEF Live, Counted, Idle, Claimed, Pending
<1>3. Live' = IF q.phase \in {"Pending", "Running"} THEN Live \cup {p} ELSE Live \ {p}
  BY <1>1, <1>2, LiveIs
<1>4. IsFiniteSet(Live) /\ Cardinality(Live) \in Nat
  BY LiveFinite
<1>5. p \in Live <=> pods[p].phase \in {"Pending", "Running"}
  BY LiveIs
<1>6. CASE q.phase \in {"Pending", "Running"}
  <2>1. Live' = Live \cup {p}
    BY <1>3, <1>6
  <2>2. Cardinality(Live \cup {p}) = IF p \in Live THEN Cardinality(Live) ELSE Cardinality(Live) + 1
    BY <1>4, FS_AddElement
  <2> QED BY <1>4, <1>5, <1>6, <2>1, <2>2
<1>7. CASE q.phase \notin {"Pending", "Running"}
  <2>1. Live' = Live \ {p}
    BY <1>3, <1>7
  <2>2. Cardinality(Live \ {p}) = IF p \in Live THEN Cardinality(Live) - 1 ELSE Cardinality(Live)
    BY <1>4, FS_RemoveElement
  <2>3. p \in Live => Cardinality(Live) # 0
    BY <1>4, FS_EmptySet
  <2> QED BY <1>4, <1>5, <1>7, <2>1, <2>2, <2>3
<1> QED BY <1>6, <1>7

\* A list is off by no more than the pods it missed and the pods it showed that are gone.
LEMMA ListError ==
  ASSUME TRUE
  PROVE  LET miss == Cardinality(Live \ Counted(cache))
             gone == Cardinality(Counted(cache) \ Live)
             total == Cardinality(Counted(cache))
         IN  /\ miss \in Nat /\ gone \in Nat /\ total \in Nat
             /\ Cardinality(Live) <= total + miss
             /\ total <= Cardinality(Live) + gone
<1> DEFINE A == Live
           B == Counted(cache)
<1>1. A \in SUBSET Numbers /\ B \in SUBSET Numbers
  BY LiveIs DEF Counted, Idle, Claimed, Pending
<1> HIDE DEF A, B
<1>2. /\ IsFiniteSet(A) /\ IsFiniteSet(B) /\ IsFiniteSet(A \ B) /\ IsFiniteSet(B \ A)
      /\ IsFiniteSet(A \cap B) /\ IsFiniteSet(B \cap A)
  <2>1. /\ A \ B \in SUBSET Numbers /\ B \ A \in SUBSET Numbers
        /\ A \cap B \in SUBSET Numbers /\ B \cap A \in SUBSET Numbers
    BY <1>1
  <2> QED BY <1>1, <2>1, LiveFinite, FS_Subset
<1>3. /\ Cardinality(A) \in Nat /\ Cardinality(B) \in Nat /\ Cardinality(A \ B) \in Nat
      /\ Cardinality(B \ A) \in Nat /\ Cardinality(A \cap B) \in Nat
  BY <1>2, FS_CardinalityType
<1>4. /\ Cardinality(A \ B) = Cardinality(A) - Cardinality(A \cap B)
      /\ Cardinality(B \ A) = Cardinality(B) - Cardinality(A \cap B)
  <2>1. A \cap B = B \cap A
    OBVIOUS
  <2> QED BY <1>2, <2>1, FS_Difference
<1>6. /\ Cardinality(A \cap B) <= Cardinality(B) /\ Cardinality(A \cap B) <= Cardinality(A)
  BY <1>2, FS_Subset
<1>7. Cardinality(A) <= Cardinality(B) + Cardinality(A \ B)
      /\ Cardinality(B) <= Cardinality(A) + Cardinality(B \ A)
  <2>1. \A a, b, c, d, e \in Nat :
          c = a - e /\ d = b - e /\ e <= b /\ e <= a => a <= b + c /\ b <= a + d
    OBVIOUS
  <2> QED BY <1>3, <1>4, <1>6, <2>1
<1> QED BY <1>3, <1>7 DEF A, B

\* What ScaleUp and ScaleDown promise: enough pods and not too many.
LEMMA Scaling ==
  ASSUME NEW total \in Nat, NEW idle \in Nat, NEW cooled \in BOOLEAN
  PROVE  /\ ScaleUp(total, idle, cooled) \in Nat
         /\ total = 0 => ScaleUp(total, idle, cooled) = MinSize
         /\ total > 0 /\ ScaleUp(total, idle, cooled) > 0
              => total + ScaleUp(total, idle, cooled) <= MaxSize
         /\ ScaleDown(total, idle, cooled) \in Nat /\ ScaleDown(total, idle, cooled) <= idle
         /\ ScaleDown(total, idle, cooled) > 0 => total >= MinSize + ScaleDown(total, idle, cooled)
<1> DEFINE up == 10 * idle < UpTenths * total /\ cooled
           down == 10 * idle > DownTenths * total
<1>1. ScaleUp(total, idle, cooled) =
        IF total = 0 THEN MinSize
        ELSE IF up /\ total < MaxSize THEN Least(ScaleUpStep, MaxSize - total) ELSE 0
  BY DEF ScaleUp
<1>2. ScaleDown(total, idle, cooled) =
        IF down /\ total > MinSize /\ cooled THEN Least(idle, total - MinSize) ELSE 0
  BY DEF ScaleDown
<1> HIDE DEF up, down
<1>3. MinSize \in Nat /\ MaxSize \in Nat /\ ScaleUpStep \in Nat
  BY SizeAssumption, BoundAssumption
<1> QED BY <1>1, <1>2, <1>3 DEF Least

-----------------------------------------------------------------------------
(* Steps.                                                                   *)

\* Steps that leave the pass alone and keep the pods that count.
LEMMA Bystander ==
  ASSUME Inv, TypeOK', ClaimsNamePods', UNCHANGED <<pass, unseen, lost>>,
         Cardinality(Live') = Cardinality(Live)
  PROVE  Inv'
  BY DEF Inv, BetweenPasses, RoomLeft, EnoughLeft, Limit

\* The watch delivers its oldest event.
LEMMA DeliverKeepsInv ==
  ASSUME Inv, Deliver
  PROVE  Inv'
<1> DEFINE e == Head(events)
<1>1. /\ events \in Seq(Events) /\ Len(events) \in Nat /\ events # <<>> /\ Len(events) <= MaxLag
      /\ cache \in [Numbers -> Pods] /\ MaxLag \in Nat /\ TypeOK
  BY TypeFacts, BoundAssumption DEF Inv, Deliver
<1>2. /\ e = events[1] /\ 1 \in 1 .. Len(events) /\ e.number \in Numbers /\ e.pod \in Pods
  BY <1>1, TypeFacts
<1>3. cache' = [cache EXCEPT ![e.number] = e.pod] /\ events' = Tail(events)
  BY DEF Deliver
<1>4. /\ events' \in Seq(Events) /\ Len(events') = Len(events) - 1
      /\ \A i \in 1 .. Len(events') : i + 1 \in 1 .. Len(events) /\ events'[i] = events[i + 1]
  BY <1>1, <1>3
<1> HIDE DEF e
<1>5. /\ cache' \in [Numbers -> Pods] /\ cache'[e.number] = e.pod
      /\ \A p \in Numbers : p # e.number => cache'[p] = cache[p]
  BY <1>1, <1>2, <1>3
<1>6. UNCHANGED <<pods, created, cooling, pass, claim, faults, unseen, lost>>
  BY DEF Deliver
<1>7. TypeOK'
  <2>1. Len(events') <= MaxLag
    BY <1>1, <1>4
  <2> QED BY <1>1, <1>4, <1>5, <1>6, <2>1 DEF TypeOK, Events
<1>9. ClaimsNamePods' /\ Live' = Live
  BY <1>6 DEF Inv, ClaimsNamePods, Live, Counted, Idle, Claimed, Pending
<1> QED BY <1>6, <1>7, <1>9, Bystander

\* A pod starts, ends or is removed.
LEMMA PodMovesKeepsInv ==
  ASSUME Inv, NEW p \in Numbers, PodMoves(p)
  PROVE  Inv'
<1>1. PICK q \in Pods :
        /\ Write(p, q)
        /\ \/ pods[p].phase = "Pending" /\ q.phase = "Running"
           \/ pods[p].phase \in {"Pending", "Running"} /\ q.phase = "Ended"
           \/ pods[p].phase = "Terminating" /\ q.phase = "absent"
  <2>1. pods[p] \in Pods
    BY TypeFacts DEF Inv
  <2>2. \A ph \in Phases : /\ [pods[p] EXCEPT !.phase = ph] \in Pods
                           /\ [pods[p] EXCEPT !.phase = ph].phase = ph
    BY <2>1 DEF Pods
  <2>3. NoPod \in Pods /\ NoPod.phase = "absent"
    BY DEF NoPod, Pods, Phases
  <2>4. "Running" \in Phases /\ "Ended" \in Phases
    BY DEF Phases
  <2> QED BY <2>2, <2>3, <2>4 DEF PodMoves
<1>2. TypeOK
  BY DEF Inv
<1>3. /\ UNCHANGED <<created, cache, cooling, pass, claim, faults, unseen>>
      /\ lost' = IF pass.pc # "idle" /\ pods'[p].phase = "Ended" THEN lost + 1 ELSE lost
  BY DEF PodMoves
<1>4. /\ pods' \in [Numbers -> Pods] /\ pods'[p] = q
      /\ \A r \in Numbers : r # p => pods'[r] = pods[r]
      /\ events' \in Seq(Events) /\ Len(events') <= MaxLag
  BY <1>1, <1>2, <1>3, WriteLemma
<1>5. TypeOK'
  <2>1. created \in Nat /\ (p > created => pods[p] = NoPod)
    BY <1>2, BoundAssumption DEF TypeOK
  <2>2. ~(p > created)
    BY <1>1, <2>1 DEF NoPod
  <2>3. \A r \in Numbers : r > created' => pods'[r] = NoPod
    BY <1>2, <1>3, <1>4, <2>2 DEF TypeOK
  <2>4. lost' \in Nat
    BY <1>2, <1>3 DEF TypeOK
  <2> QED BY <1>2, <1>3, <1>4, <2>3, <2>4 DEF TypeOK, Events
<1>6. ClaimsNamePods' /\ BetweenPasses'
  BY <1>3 DEF Inv, ClaimsNamePods, BetweenPasses
<1>7. /\ Cardinality(Live') \in Nat /\ Cardinality(Live) \in Nat
      /\ Cardinality(Live') + 1 >= Cardinality(Live) /\ Cardinality(Live') <= Cardinality(Live)
      /\ q.phase # "Ended" => Cardinality(Live') = Cardinality(Live)
  BY <1>1, <1>2, LiveWrite, LiveFinite
<1>8. /\ pass.create \in Nat /\ pass.delete \in Nat /\ lost \in Nat /\ MaxSize \in Nat
      /\ MinSize \in Nat /\ Limit \in Nat /\ unseen \in Nat /\ Limit' = Limit
  BY <1>2, <1>3, SizeAssumption DEF TypeOK, Limit
<1>9. RoomLeft'
  BY <1>3, <1>7, <1>8 DEF Inv, RoomLeft
<1>10. EnoughLeft'
  <2>1. pass.delete > 0 => pass.pc # "idle"
    BY DEF Inv, BetweenPasses, NoPass
  <2> QED BY <1>3, <1>4, <1>7, <1>8, <2>1 DEF Inv, EnoughLeft
<1> QED BY <1>4, <1>5, <1>6, <1>9, <1>10 DEF Inv

\* A pass lists the pods and decides.
LEMMA BeginKeepsInv ==
  ASSUME Inv, BeginPass
  PROVE  Inv'
<1> DEFINE total == Cardinality(Counted(cache))
           idle  == Cardinality(Idle(cache))
<1>1. PICK cooled \in BOOLEAN :
         pass' = [pc |-> "create", total |-> total, create |-> ScaleUp(total, idle, cooled),
                  delete |-> ScaleDown(total, idle, cooled), idle |-> Idle(cache),
                  scaled |-> FALSE]
  <2>1. cooling \in BOOLEAN
    BY DEF Inv, TypeOK
  <2> QED BY <2>1 DEF BeginPass
<1>2. TypeOK /\ pass.pc = "idle"
  BY DEF Inv, BeginPass, BetweenPasses
<1>3. /\ UNCHANGED <<pods, created, events, cache, cooling, claim, faults>>
      /\ unseen' = Cardinality(Live \ Counted(cache))
      /\ lost' = Cardinality(Counted(cache) \ Live)
  BY DEF BeginPass, cluster
<1>4. total \in Nat /\ idle \in Nat
  <2>1. Counted(cache) \in SUBSET Numbers /\ Idle(cache) \in SUBSET Numbers
    BY DEF Counted, Idle, Claimed, Pending
  <2> QED BY <2>1, LiveFinite, FS_Subset, FS_CardinalityType
<1> DEFINE up   == ScaleUp(total, idle, cooled)
           down == ScaleDown(total, idle, cooled)
<1>5. /\ up \in Nat /\ (total = 0 => up = MinSize) /\ (total > 0 /\ up > 0 => total + up <= MaxSize)
      /\ down \in Nat /\ down <= idle /\ (down > 0 => total >= MinSize + down)
  BY <1>4, Scaling
<1>6. /\ unseen' \in Nat /\ lost' \in Nat
      /\ Cardinality(Live) <= total + unseen' /\ total <= Cardinality(Live) + lost'
  BY <1>3, ListError
<1> HIDE DEF total, idle, up, down
<1>7. /\ pass'.pc = "create" /\ pass'.create = up /\ pass'.delete = down
      /\ pass'.idle = Idle(cache) /\ pass'.scaled = FALSE /\ pass'.total = total
  BY <1>1 DEF up, down
<1>8. pass' \in Passes
  <2>1. Idle(cache) \in SUBSET Numbers
    BY DEF Idle
  <2> QED BY <1>1, <1>4, <1>5, <2>1 DEF up, down, Passes
<1>9. TypeOK'
  <2>1. pass'.delete <= Cardinality(pass'.idle)
    BY <1>5, <1>7 DEF idle
  <2> QED BY <1>2, <1>3, <1>6, <1>8, <2>1 DEF TypeOK, Passes
<1>10. ClaimsNamePods' /\ BetweenPasses' /\ Live' = Live
  BY <1>3, <1>7 DEF Inv, ClaimsNamePods, BetweenPasses, Live, Counted, Idle, Claimed, Pending
<1>11. Cardinality(Live) \in Nat /\ MinSize \in Nat /\ MaxSize \in Nat /\ total \in Nat
  BY <1>4, LiveFinite, SizeAssumption
<1>12. RoomLeft'
  <2>1. Limit' = IF total = 0 THEN MinSize ELSE MaxSize
    BY <1>7 DEF Limit
  <2> SUFFICES ASSUME up > 0
               PROVE  Cardinality(Live) + up <= Limit' + unseen'
    BY <1>7, <1>10 DEF RoomLeft
  <2>2. CASE total = 0
    BY <1>5, <1>6, <1>11, <2>1, <2>2
  <2>3. CASE total > 0
    BY <1>5, <1>6, <1>11, <2>1, <2>3
  <2> QED BY <1>11, <2>2, <2>3
<1>13. EnoughLeft'
  <2> SUFFICES ASSUME down > 0
               PROVE  Cardinality(Live) + lost' >= MinSize + down
    BY <1>7, <1>10 DEF EnoughLeft
  <2> QED BY <1>5, <1>6, <1>11
<1> QED BY <1>9, <1>10, <1>12, <1>13 DEF Inv

\* The fields of a pass.
LEMMA PassFields ==
  ASSUME TypeOK
  PROVE  /\ pass.create \in Nat /\ pass.delete \in Nat /\ pass.idle \in SUBSET Numbers
         /\ lost \in Nat /\ unseen \in Nat /\ Limit \in Nat /\ created \in Nat /\ created <= MaxPods
         /\ MinSize \in Nat /\ MaxSize \in Nat /\ MaxPods \in Nat
         /\ IsFiniteSet(pass.idle) /\ Cardinality(pass.idle) \in Nat
<1>1. pass.idle \in SUBSET Numbers
  BY DEF TypeOK
<1>2. IsFiniteSet(pass.idle) /\ Cardinality(pass.idle) \in Nat
  BY <1>1, LiveFinite, FS_Subset, FS_CardinalityType
<1> QED BY <1>1, <1>2, SizeAssumption, BoundAssumption DEF TypeOK, Limit

\* A pass creates a pod.
LEMMA CreateKeepsInv ==
  ASSUME Inv, CreatePod
  PROVE  Inv' /\ Cardinality(Live') <= Limit + unseen
<1> DEFINE n == created + 1
           q == [phase |-> "Pending", job |-> NoJob]
<1>1. TypeOK /\ pass.pc = "create" /\ pass.create > 0 /\ created < MaxPods
  BY DEF Inv, CreatePod
<1>2. /\ Write(n, q) /\ created' = n /\ pass' = [pass EXCEPT !.create = @ - 1, !.scaled = TRUE]
      /\ UNCHANGED <<cache, cooling, claim, faults, unseen, lost>>
  BY DEF CreatePod
<1>3. n \in Numbers /\ n \in Nat /\ q \in Pods /\ q.phase = "Pending"
  BY <1>1, PassFields DEF Numbers, Pods, Phases
<1> HIDE DEF n, q
<1>4. /\ pods' \in [Numbers -> Pods] /\ pods'[n] = q
      /\ \A r \in Numbers : r # n => pods'[r] = pods[r]
      /\ events' \in Seq(Events) /\ Len(events') <= MaxLag
  BY <1>1, <1>2, <1>3, WriteLemma
<1>5. /\ pass'.pc = pass.pc /\ pass'.create = pass.create - 1 /\ pass'.delete = pass.delete
      /\ pass'.idle = pass.idle /\ pass'.total = pass.total
      /\ pass' \in Passes
  <2> DEFINE rest == pass.create - 1
  <2>1. pass \in Passes /\ rest \in Nat
    BY <1>1, PassFields DEF TypeOK, Passes
  <2>2. pass' = [pass EXCEPT !.create = rest, !.scaled = TRUE]
    BY <1>2
  <2>3. rest = pass.create - 1
    OBVIOUS
  <2> HIDE DEF rest
  <2>4. /\ pass'.pc = pass.pc /\ pass'.create = rest /\ pass'.delete = pass.delete
        /\ pass'.idle = pass.idle /\ pass'.total = pass.total /\ pass' \in Passes
    BY <2>1, <2>2 DEF Passes
  <2> QED BY <2>3, <2>4
<1>6. TypeOK'
  <2>1. created' \in 0 .. MaxPods
    BY <1>1, <1>2, PassFields DEF n
  <2>2. ASSUME NEW r \in Numbers, r > created' PROVE pods'[r] = NoPod
    <3>1. r \in Nat /\ r # n /\ r > created
      BY <1>1, <1>2, <2>2, PassFields DEF n, Numbers
    <3> QED BY <1>1, <1>4, <3>1 DEF TypeOK
  <2> QED BY <1>1, <1>2, <1>4, <1>5, <2>1, <2>2 DEF TypeOK, Events, Passes
<1>7. /\ Cardinality(Live') \in Nat /\ Cardinality(Live) \in Nat
      /\ Cardinality(Live') <= Cardinality(Live) + 1 /\ Cardinality(Live') >= Cardinality(Live)
  BY <1>1, <1>2, <1>3, LiveWrite, LiveFinite
<1>8. ClaimsNamePods' /\ BetweenPasses'
  BY <1>1, <1>2, <1>5 DEF Inv, ClaimsNamePods, BetweenPasses
<1>9. Cardinality(Live) + pass.create <= Limit + unseen /\ Limit' = Limit
  BY <1>1, <1>5 DEF Inv, RoomLeft, Limit
<1>10. RoomLeft'
  BY <1>1, <1>2, <1>5, <1>7, <1>9, PassFields DEF RoomLeft
<1>11. EnoughLeft'
  BY <1>1, <1>2, <1>5, <1>7, PassFields DEF Inv, EnoughLeft
<1>12. Cardinality(Live') <= Limit + unseen
  BY <1>1, <1>7, <1>9, PassFields
<1> QED BY <1>4, <1>6, <1>8, <1>10, <1>11, <1>12 DEF Inv

\* All pods are created.
LEMMA CreatedKeepsInv ==
  ASSUME Inv, Created
  PROVE  Inv'
<1>1. /\ TypeOK /\ pass.pc = "create" /\ pass' = [pass EXCEPT !.pc = "delete"]
      /\ UNCHANGED <<pods, created, events, cache, cooling, claim, faults, unseen, lost>>
  BY DEF Inv, Created, cluster
<1>2. /\ pass'.pc = "delete" /\ pass'.create = pass.create /\ pass'.delete = pass.delete
      /\ pass'.idle = pass.idle /\ pass'.total = pass.total
      /\ pass' \in Passes
  BY <1>1 DEF TypeOK, Passes
<1>3. TypeOK'
  BY <1>1, <1>2 DEF TypeOK, Passes
<1>4. Live' = Live
  BY <1>1 DEF Live, Counted, Idle, Claimed, Pending
<1> QED BY <1>1, <1>2, <1>3, <1>4
    DEF Inv, ClaimsNamePods, BetweenPasses, RoomLeft, EnoughLeft, Limit

\* A pass deletes a pod of its list.
LEMMA DeleteKeepsInv ==
  ASSUME Inv, NEW p \in Numbers, DeletePod(p)
  PROVE  Inv' /\ Cardinality(Live') + lost >= MinSize
<1>1. TypeOK /\ pass.pc = "delete" /\ pass.delete > 0 /\ p \in pass.idle
  BY DEF Inv, DeletePod
<1>2. /\ pass' = [pass EXCEPT !.delete = @ - 1, !.idle = @ \ {p}, !.scaled = TRUE]
      /\ UNCHANGED <<created, cache, cooling, claim, faults, unseen, lost>>
  BY DEF DeletePod, cluster
<1>3. /\ pass'.pc = pass.pc /\ pass'.create = pass.create /\ pass'.delete = pass.delete - 1
      /\ pass'.idle = pass.idle \ {p} /\ pass'.total = pass.total
      /\ pass' \in Passes
  <2> DEFINE n == pass.delete - 1
             s == pass.idle \ {p}
  <2>1. pass \in Passes /\ n \in Nat /\ s \in SUBSET Numbers
    BY <1>1, PassFields DEF TypeOK, Passes
  <2>2. pass' = [pass EXCEPT !.delete = n, !.idle = s, !.scaled = TRUE]
    BY <1>2
  <2>3. n = pass.delete - 1 /\ s = pass.idle \ {p}
    OBVIOUS
  <2> HIDE DEF n, s
  <2>4. /\ pass'.pc = pass.pc /\ pass'.create = pass.create /\ pass'.delete = n
        /\ pass'.idle = s /\ pass'.total = pass.total /\ pass' \in Passes
    BY <2>1, <2>2 DEF Passes
  <2> QED BY <2>3, <2>4
<1>4. pass'.delete <= Cardinality(pass'.idle)
  <2>1. Cardinality(pass'.idle) = Cardinality(pass.idle) - 1
    <3>1. IsFiniteSet(pass.idle)
      BY <1>1, PassFields
    <3>2. Cardinality(pass.idle \ {p}) = Cardinality(pass.idle) - 1
      BY <1>1, <3>1, FS_RemoveElement
    <3> QED BY <1>3, <3>2
  <2>2. pass.delete <= Cardinality(pass.idle)
    BY <1>1 DEF TypeOK
  <2> QED BY <1>1, <1>3, <2>1, <2>2, PassFields
<1>5. /\ pods' \in [Numbers -> Pods] /\ events' \in Seq(Events) /\ Len(events') <= MaxLag
      /\ \A r \in Numbers : r > created => pods'[r] = NoPod
      /\ Cardinality(Live') \in Nat /\ Cardinality(Live) \in Nat
      /\ Cardinality(Live') <= Cardinality(Live) /\ Cardinality(Live') + 1 >= Cardinality(Live)
  <2>1. CASE pods[p].phase \in {"absent", "Terminating"}
    <3>1. UNCHANGED <<pods, events>>
      BY <2>1 DEF DeletePod, cluster
    <3>2. Live' = Live
      BY <3>1 DEF Live, Counted, Idle, Claimed, Pending
    <3> QED BY <1>1, <3>1, <3>2, TypeFacts, LiveFinite DEF TypeOK
  <2>2. CASE pods[p].phase \notin {"absent", "Terminating"}
    <3> DEFINE q == [pods[p] EXCEPT !.phase = "Terminating"]
    <3>1. Write(p, q)
      BY <2>2 DEF DeletePod
    <3>2. q \in Pods /\ q.phase = "Terminating"
      <4>1. pods[p] \in Pods
        BY <1>1, TypeFacts
      <4> QED BY <4>1 DEF Pods, Phases
    <3> HIDE DEF q
    <3>3. /\ pods' \in [Numbers -> Pods] /\ pods'[p] = q
          /\ \A r \in Numbers : r # p => pods'[r] = pods[r]
          /\ events' \in Seq(Events) /\ Len(events') <= MaxLag
      BY <1>1, <1>2, <3>1, <3>2, WriteLemma
    <3>4. \A r \in Numbers : r > created => pods[r] = NoPod
      BY <1>1 DEF TypeOK
    <3>5. ~(p > created)
      BY <2>2, <3>4 DEF NoPod
    <3>6. \A r \in Numbers : r > created => pods'[r] = NoPod
      BY <3>3, <3>4, <3>5
    <3> QED BY <1>1, <3>1, <3>2, <3>3, <3>6, LiveWrite, LiveFinite
  <2> QED BY <2>1, <2>2
<1>6. TypeOK'
  BY <1>1, <1>2, <1>3, <1>4, <1>5 DEF TypeOK, Events, Passes
<1>7. ClaimsNamePods' /\ BetweenPasses'
  BY <1>1, <1>2, <1>3 DEF Inv, ClaimsNamePods, BetweenPasses
<1>8. RoomLeft'
  <2>1. Limit' = Limit
    BY <1>3 DEF Limit
  <2> QED BY <1>1, <1>2, <1>3, <1>5, <2>1, PassFields DEF Inv, RoomLeft
<1>9. Cardinality(Live) + lost >= MinSize + pass.delete
  BY <1>1 DEF Inv, EnoughLeft
<1>10. EnoughLeft'
  <2> SUFFICES Cardinality(Live') + lost >= MinSize + (pass.delete - 1)
    BY <1>2, <1>3 DEF EnoughLeft
  <2>1. \A a, b, c, d, e \in Nat :
          a + c >= d + e /\ b + 1 >= a /\ e > 0 => b + c >= d + (e - 1)
    OBVIOUS
  <2>2. lost \in Nat /\ MinSize \in Nat /\ pass.delete \in Nat
    BY <1>1, PassFields
  <2> QED BY <1>1, <1>5, <1>9, <2>1, <2>2
<1>11. Cardinality(Live') + lost >= MinSize
  BY <1>1, <1>5, <1>9, PassFields
<1> QED BY <1>5, <1>6, <1>7, <1>8, <1>10, <1>11 DEF Inv

\* A pass ends, with its status written or without.
LEMMA EndKeepsInv ==
  ASSUME Inv, UpdateStatus \/ PassFails
  PROVE  Inv'
<1>1. /\ TypeOK /\ pass' = NoPass /\ unseen' = 0 /\ lost' = 0
      /\ UNCHANGED <<pods, created, events, cache, claim>>
      /\ cooling' \in BOOLEAN
  BY DEF Inv, TypeOK, UpdateStatus, PassFails, EndPass, cluster
<1>2. faults' \in 0 .. MaxFaults
  <2>1. faults \in 0 .. MaxFaults /\ MaxFaults \in Nat
    BY <1>1, BoundAssumption DEF TypeOK
  <2> QED BY <2>1 DEF UpdateStatus, PassFails, Fault
<1>3. /\ NoPass.pc = "idle" /\ NoPass.create = 0 /\ NoPass.delete = 0 /\ NoPass.idle = {}
      /\ NoPass \in Passes
  BY DEF NoPass, Passes
<1>4. NoPass.delete <= Cardinality(NoPass.idle)
  BY <1>3, FS_EmptySet
<1>5. TypeOK'
  BY <1>1, <1>2, <1>3, <1>4 DEF TypeOK, Passes
<1> QED BY <1>1, <1>3, <1>5
    DEF Inv, ClaimsNamePods, BetweenPasses, RoomLeft, EnoughLeft, Limit

\* The cooldown passes.
LEMMA CooldownKeepsInv ==
  ASSUME Inv, CooldownPasses \/ UNCHANGED vars
  PROVE  Inv'
<1>1. UNCHANGED <<pods, created, events, cache, pass, claim, faults, unseen, lost>>
      /\ cooling' \in BOOLEAN
  BY DEF CooldownPasses, vars, cluster, Inv, TypeOK
<1>2. TypeOK'
  BY <1>1 DEF Inv, TypeOK
<1>3. ClaimsNamePods' /\ Live' = Live
  BY <1>1 DEF Inv, ClaimsNamePods, Live, Counted, Idle, Claimed, Pending
<1> QED BY <1>1, <1>2, <1>3, Bystander

\* A job chooses a pod, and claims it.
LEMMA ClaimKeepsInv ==
  ASSUME Inv, NEW j \in Jobs, ChoosePod(j) \/ PatchPod(j)
  PROVE  Inv'
<1> DEFINE Claims == [pc : {"none", "chosen", "held"}, pod : 0 .. MaxPods]
<1>1. TypeOK /\ claim \in [Jobs -> Claims] /\ claim[j] \in Claims
      /\ UNCHANGED <<created, cache, cooling, pass, faults, unseen, lost>>
  BY DEF Inv, TypeOK, ChoosePod, PatchPod, cluster
<1>2. CASE ChoosePod(j)
  <2>1. PICK p \in Numbers : claim' = [claim EXCEPT ![j] = [pc |-> "chosen", pod |-> p]]
    BY <1>2 DEF ChoosePod
  <2>2. [pc |-> "chosen", pod |-> p] \in Claims
    BY BoundAssumption DEF Numbers
  <2>3. UNCHANGED <<pods, events>>
    BY <1>2 DEF ChoosePod, cluster
  <2> HIDE DEF Claims
  <2>4. claim' \in [Jobs -> Claims]
    BY <1>1, <2>1, <2>2
  <2>5. ClaimsNamePods'
    BY <1>1, <2>1 DEF Inv, ClaimsNamePods
  <2>6. TypeOK'
    BY <1>1, <2>3, <2>4 DEF TypeOK, Claims
  <2>7. Live' = Live
    BY <2>3 DEF Live, Counted, Idle, Claimed, Pending
  <2> QED BY <1>1, <2>5, <2>6, <2>7, Bystander
<1>3. CASE PatchPod(j)
  <2> DEFINE p == claim[j].pod
  <2>1. p \in Numbers
    BY <1>3 DEF Inv, ClaimsNamePods, PatchPod
  <2>2. claim' \in [Jobs -> Claims] /\ ClaimsNamePods'
    <3>1. claim' = [claim EXCEPT ![j] = NoClaim] \/ claim' = [claim EXCEPT ![j].pc = "held"]
      BY <1>3 DEF PatchPod
    <3>2. NoClaim \in Claims /\ NoClaim.pc = "none"
      BY BoundAssumption DEF NoClaim
    <3>3. [claim[j] EXCEPT !.pc = "held"] \in Claims /\ [claim[j] EXCEPT !.pc = "held"].pc = "held"
      BY <1>1
    <3> HIDE DEF Claims
    <3>4. PICK c \in Claims : claim' = [claim EXCEPT ![j] = c] /\ c.pc # "chosen"
      BY <1>1, <3>1, <3>2, <3>3
    <3> QED BY <1>1, <3>4 DEF Inv, ClaimsNamePods
  <2>3. CASE pods[p].phase = "absent"
    <3>1. UNCHANGED <<pods, events>>
      BY <1>3, <2>3 DEF PatchPod, cluster
    <3>2. TypeOK'
      BY <1>1, <2>2, <3>1 DEF TypeOK
    <3>3. Live' = Live
      BY <3>1 DEF Live, Counted, Idle, Claimed, Pending
    <3> QED BY <1>1, <2>2, <3>2, <3>3, Bystander
  <2>4. CASE pods[p].phase # "absent"
    <3> DEFINE q == [pods[p] EXCEPT !.job = j]
    <3>1. Write(p, q)
      BY <1>3, <2>4 DEF PatchPod
    <3>2. q \in Pods /\ q.phase = pods[p].phase
      <4>1. pods[p] \in Pods
        BY <1>1, <2>1, TypeFacts
      <4> QED BY <4>1 DEF Pods
    <3> HIDE DEF q, p
    <3>3. /\ pods' \in [Numbers -> Pods] /\ pods'[p] = q
          /\ \A r \in Numbers : r # p => pods'[r] = pods[r]
          /\ events' \in Seq(Events) /\ Len(events') <= MaxLag
      BY <1>1, <2>1, <3>1, <3>2, WriteLemma
    <3>4. \A r \in Numbers : r > created => pods[r] = NoPod
      BY <1>1 DEF TypeOK
    <3>5. ~(p > created)
      BY <2>1, <2>4, <3>4 DEF NoPod
    <3>6. \A r \in Numbers : r > created' => pods'[r] = NoPod
      BY <1>1, <3>3, <3>4, <3>5
    <3>7. TypeOK'
      BY <1>1, <2>2, <3>3, <3>6 DEF TypeOK, Events
    <3>8. Live' = Live
      BY <1>1, <2>1, <3>1, <3>2, LiveWrite
    <3> QED BY <1>1, <2>2, <3>3, <3>7, <3>8, Bystander
  <2> QED BY <2>3, <2>4
<1> QED BY <1>2, <1>3

-----------------------------------------------------------------------------
(* Theorems.                                                                *)

\* Every step is one of the calls above.
LEMMA Steps ==
  ASSUME [Next]_vars
  PROVE  \/ BeginPass \/ CreatePod \/ Created \/ Deliver
         \/ UpdateStatus \/ PassFails
         \/ CooldownPasses \/ UNCHANGED vars
         \/ \E p \in Numbers : DeletePod(p)
         \/ \E p \in Numbers : PodMoves(p)
         \/ \E j \in Jobs : ChoosePod(j) \/ PatchPod(j)
  BY DEF Next, Reconcile

\* Inv holds of an empty pool.
LEMMA InitInv ==
  ASSUME Init
  PROVE  Inv
<1>1. /\ NoPass.pc = "idle" /\ NoPass.create = 0 /\ NoPass.delete = 0 /\ NoPass.idle = {}
      /\ NoPass \in Passes
  BY DEF NoPass, Passes
<1>2. NoPass.delete <= Cardinality(NoPass.idle)
  BY <1>1, FS_EmptySet
<1>3. /\ NoPod \in Pods /\ \A p \in Numbers : pods[p] = NoPod /\ cache[p] = NoPod
      /\ pods \in [Numbers -> Pods] /\ cache \in [Numbers -> Pods]
  BY DEF Init, NoPod, Pods, Phases
<1>4. events = <<>> /\ events \in Seq(Events) /\ Len(events) = 0
  BY DEF Init
<1>5. claim \in [Jobs -> [pc : {"none", "chosen", "held"}, pod : 0 .. MaxPods]] /\ ClaimsNamePods
  BY BoundAssumption DEF Init, NoClaim, ClaimsNamePods
<1>6. TypeOK
  <2>1. /\ created \in 0 .. MaxPods /\ faults \in 0 .. MaxFaults /\ lost \in Nat
        /\ Len(events) <= MaxLag
    BY <1>4, BoundAssumption DEF Init
  <2>2. cooling \in BOOLEAN /\ unseen \in Nat /\ pass = NoPass
    BY DEF Init
  <2>3. pass \in Passes /\ pass.delete <= Cardinality(pass.idle)
    BY <1>1, <1>2, <2>2
  <2> QED BY <1>3, <1>4, <1>5, <2>1, <2>2, <2>3 DEF TypeOK, Events, Passes
<1> QED BY <1>1, <1>5, <1>6 DEF Init, Inv, BetweenPasses, RoomLeft, EnoughLeft, Limit

\* Inv is inductive: a pass, the cluster and the jobs keep it in any interleaving.
THEOREM Invariance == Spec => []Inv
<1>1. Init => Inv
  BY InitInv
<1>2. Inv /\ [Next]_vars => Inv'
  <2> SUFFICES ASSUME Inv, [Next]_vars PROVE Inv'
    OBVIOUS
  <2> QED BY Steps, BeginKeepsInv, CreateKeepsInv, CreatedKeepsInv, DeliverKeepsInv, EndKeepsInv,
             CooldownKeepsInv, DeleteKeepsInv, PodMovesKeepsInv, ClaimKeepsInv
<1> QED BY <1>1, <1>2, PTL DEF Spec

\* The counters, the lists and the watch stream keep their types and bounds.
THEOREM TypeCorrect == Spec => []TypeOK
<1>1. Inv => TypeOK
  BY DEF Inv
<1> QED BY <1>1, Invariance, PTL

\* A pass of Reconcile takes the pool above what it scales up to by no more than the
\* live pods its list missed, however pods start, end and are claimed while it creates.
THEOREM WithinMax == Spec => PassWithinMax
<1>1. Inv /\ [Next]_vars
        => [created' > created => Cardinality(Live') <= Limit + unseen]_vars
  <2> SUFFICES ASSUME Inv, [Next]_vars, created' > created
               PROVE  Cardinality(Live') <= Limit + unseen
    OBVIOUS
  <2>1. created' # created
    BY PassFields DEF Inv
  <2>2. ~CreatePod => created' = created
    BY Steps DEF BeginPass, Created, Deliver, UpdateStatus, PassFails, CooldownPasses,
                 DeletePod, PodMoves, ChoosePod, PatchPod, vars, cluster
  <2> QED BY <2>1, <2>2, CreateKeepsInv
<1> QED BY <1>1, Invariance, PTL DEF Spec, PassWithinMax

\* A pass takes the pool below spec.minSize by no more than the pods its list showed
\* though they were gone, and those that ended by themselves since it began.
THEOREM KeepsMin == Spec => PassKeepsMin
<1>1. Inv /\ [Next]_vars
        => [pass'.delete < pass.delete /\ pass' # NoPass
              => Cardinality(Live') + lost >= MinSize]_vars
  <2> SUFFICES ASSUME Inv, [Next]_vars, pass'.delete < pass.delete, pass' # NoPass
               PROVE  Cardinality(Live') + lost >= MinSize
    OBVIOUS
  <2>1. pass.delete \in Nat /\ pass'.delete # pass.delete
    BY PassFields DEF Inv
  <2>2. BeginPass => pass.delete = 0 /\ pass'.delete \in Nat
    <3>1. BeginPass => Inv'
      BY BeginKeepsInv
    <3>2. Inv' => pass'.delete \in Nat
      BY DEF Inv, TypeOK
    <3>3. BeginPass => pass = NoPass
      BY DEF BeginPass, Inv, BetweenPasses
    <3>4. NoPass.delete = 0
      BY DEF NoPass
    <3> QED BY <3>1, <3>2, <3>3, <3>4
  <2>3. ~BeginPass /\ ~UpdateStatus /\ ~PassFails
    BY <2>1, <2>2 DEF UpdateStatus, PassFails, EndPass
  <2>4. CreatePod \/ Created => pass'.delete = pass.delete
    BY DEF CreatePod, Created, Inv, TypeOK
  <2>5. Deliver \/ CooldownPasses \/ UNCHANGED vars => pass' = pass
    BY DEF Deliver, CooldownPasses, vars
  <2>6. \A p \in Numbers : PodMoves(p) => pass' = pass
    BY DEF PodMoves
  <2>7. \A j \in Jobs : ChoosePod(j) \/ PatchPod(j) => pass' = pass
    BY DEF ChoosePod, PatchPod
  <2>8. \E p \in Numbers : DeletePod(p)
    BY <2>1, <2>3, <2>4, <2>5, <2>6, <2>7, Steps
  <2> QED BY <2>8, DeleteKeepsInv
<1> QED BY <1>1, Invariance, PTL DEF Spec, PassKeepsMin

=============================================================================
