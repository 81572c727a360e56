--------------------------- MODULE StepLogProofs ---------------------------
(***************************************************************************)
(* The properties of StepLog hold for any set of steps, any file size, any *)
(* length of the log and any number of kills, crashes and failed writes.   *)
(*                                                                         *)
(* The proof is by the invariant Inv.  A call of the writer merges what it *)
(* writes with an unfinished line, or appends a line, or only syncs; a     *)
(* crash keeps the synced lines in their order and moves them up by what   *)
(* it took before them.  Numbers are never reused for a later line, so a   *)
(* line that moved up carries a number larger than its position.           *)
(***************************************************************************)
EXTENDS StepLog, FiniteSetTheorems, WellFoundedInduction, TLAPS

-----------------------------------------------------------------------------
(* The lines a crash keeps.                                                 *)

\* The position that line i has among the lines K.
Pos(K, i) == Cardinality({h \in K : h <= i})

\* A set of line numbers that is not empty has a first one.
LEMMA FirstOf ==
  ASSUME NEW S \in SUBSET Nat, S # {}
  PROVE  \E x \in S : \A y \in S : x <= y
<1> DEFINE Less == {ss \in Nat \X Nat : ss[1] < ss[2]}
<1>1. IsWellFoundedOn(Less, Nat)
  BY NatLessThanWellFounded DEF OpToRel
<1>2. \A y \in Nat, z \in Nat : y < z => <<y, z>> \in Less
  OBVIOUS
<1> HIDE DEF Less
<1>3. PICK x \in S : \A y \in S : <<y, x>> \notin Less
  BY <1>1, WFMin
<1>4. ASSUME NEW y \in S PROVE x <= y
  <2>1. x \in Nat /\ y \in Nat
    OBVIOUS
  <2>2. ~(y < x)
    BY <1>2, <1>3, <2>1, Zenon
  <2> QED BY <2>1, <2>2
<1> QED BY <1>4

\* One of finitely many numbers is the largest: where the set of larger ones is minimal,
\* it is empty.
LEMMA LargestOf ==
  ASSUME NEW N \in Nat, N # 0, NEW f \in [1 .. N -> Nat]
  PROVE  \E i \in 1 .. N : \A j \in 1 .. N : f[j] <= f[i]
<1> DEFINE D == 1 .. N
           Above(i) == {j \in D : f[j] > f[i]}
           A == {Above(i) : i \in D}
<1>1. IsFiniteSet(D) /\ 1 \in D
  <2>1. 1 \in Int /\ N \in Int /\ 1 \in D
    OBVIOUS
  <2>2. IsFiniteSet(1 .. N)
    BY <2>1, FS_Interval
  <2> QED BY <2>1, <2>2
<1>2. IsWellFoundedOn(StrictSubsetOrdering(D), SUBSET D)
  <2>1. FiniteSubsetsOf(D) = SUBSET D
    BY <1>1, FS_FiniteSubsetsOfFinite
  <2>2. IsWellFoundedOn(StrictSubsetOrdering(D), FiniteSubsetsOf(D))
    BY FS_StrictSubsetOrderingWellFounded
  <2> HIDE DEF D
  <2> QED BY <2>1, <2>2
<1>3. A \subseteq SUBSET D /\ A # {}
  <2>1. Above(1) \in A
    BY <1>1
  <2>2. \A i \in D : Above(i) \subseteq D
    OBVIOUS
  <2> HIDE DEF D, Above
  <2> QED BY <2>1, <2>2
<1>4. PICK T \in A : \A U \in A : <<U, T>> \notin StrictSubsetOrdering(D)
  <2> HIDE DEF A, D
  <2> QED BY <1>2, <1>3, WFMin
<1>5. PICK i \in D : T = Above(i)
  BY <1>4
<1>6. ASSUME NEW j \in D, ~(f[j] <= f[i]) PROVE FALSE
  <2>0. f[j] \in Nat /\ f[i] \in Nat /\ f[j] > f[i]
    BY <1>6
  <2>1. Above(j) \subseteq T /\ j \in T /\ j \notin Above(j)
    <3>1. \A k \in D : f[k] \in Nat
      OBVIOUS
    <3>2. \A k \in D : f[k] > f[j] => f[k] > f[i]
      BY <2>0, <3>1
    <3> QED BY <1>5, <2>0, <3>2
  <2>2. Above(j) \in A /\ Above(j) \in SUBSET D /\ T \in SUBSET D
    BY <1>3, <1>4
  <2>3. <<Above(j), T>> \in StrictSubsetOrdering(D)
    BY <2>1, <2>2 DEF StrictSubsetOrdering
  <2> QED BY <1>4, <2>2, <2>3
<1> QED BY <1>5, <1>6

\* Line numbers are positive.
LEMMA LineNumbers ==
  ASSUME NEW N \in Nat, NEW K \in SUBSET (1 .. N)
  PROVE  /\ K \in SUBSET Nat
         /\ \A i \in K : i \in Nat /\ i \in 1 .. N /\ i >= 1
<1>1. \A i \in 1 .. N : i \in Nat /\ i >= 1
  OBVIOUS
<1> QED BY <1>1

\* The lines up to i, counted.
LEMMA PosType ==
  ASSUME NEW N \in Nat, NEW K \in SUBSET (1 .. N), NEW i \in K
  PROVE  /\ IsFiniteSet(K) /\ IsFiniteSet({h \in K : h <= i})
         /\ i \in Nat /\ Cardinality(K) \in Nat
         /\ Pos(K, i) \in 1 .. Cardinality(K) /\ Pos(K, i) <= i
<1> DEFINE U == {h \in K : h <= i}
<1>1. IsFiniteSet(1 .. N) /\ i \in 1 .. N /\ i \in Nat
  BY FS_Interval, LineNumbers
<1>2. IsFiniteSet(K)
  BY <1>1, FS_Subset
<1>3. U \in SUBSET K /\ i \in U
  BY <1>1
<1> HIDE DEF U
<1>4. IsFiniteSet(U) /\ Cardinality(U) <= Cardinality(K)
  BY <1>2, <1>3, FS_Subset
<1>5. Cardinality(U) \in Nat /\ Cardinality(K) \in Nat
  BY <1>2, <1>4, FS_CardinalityType
<1>6. Cardinality(U) # 0
  BY <1>3, <1>4, FS_EmptySet
<1>7. U \in SUBSET (1 .. i)
  <2>1. \A h \in K : h \in Nat /\ h >= 1
    BY LineNumbers
  <2>2. ASSUME NEW h \in U PROVE h \in 1 .. i
    <3>1. h \in K /\ h <= i
      BY DEF U
    <3> QED BY <1>1, <2>1, <3>1
  <2> QED BY <2>2
<1>8. IsFiniteSet(1 .. i) /\ Cardinality(1 .. i) = i
  BY <1>1, FS_Interval
<1>9. Cardinality(U) <= i
  BY <1>7, <1>8, FS_Subset
<1>10. IsFiniteSet({h \in K : h <= i}) /\ Pos(K, i) = Cardinality(U)
  BY <1>4 DEF U, Pos
<1> QED BY <1>1, <1>2, <1>4, <1>5, <1>6, <1>9, <1>10

\* A later line has a larger position.
LEMMA PosGrows ==
  ASSUME NEW N \in Nat, NEW K \in SUBSET (1 .. N), NEW i \in K, NEW j \in K, i < j
  PROVE  Pos(K, i) < Pos(K, j)
<1> DEFINE U == {h \in K : h <= i}
           V == {h \in K : h <= j}
<1>1. i \in Nat /\ j \in Nat /\ IsFiniteSet(U) /\ IsFiniteSet(V)
  BY PosType
<1>2. U \in SUBSET V /\ j \in V /\ j \notin U
  <2>1. \A h \in K : h \in Nat
    BY LineNumbers
  <2>2. \A h \in K : h <= i => h <= j
    BY <1>1, <2>1
  <2>3. j <= j /\ ~(j <= i)
    BY <1>1
  <2> QED BY <2>2, <2>3
<1>3. Pos(K, i) = Cardinality(U) /\ Pos(K, j) = Cardinality(V)
  BY DEF Pos
<1> HIDE DEF U, V
<1>4. Cardinality(U) <= Cardinality(V) /\ Cardinality(U) # Cardinality(V)
  BY <1>1, <1>2, FS_Subset
<1>5. Cardinality(U) \in Nat /\ Cardinality(V) \in Nat
  BY <1>1, FS_CardinalityType
<1> QED BY <1>3, <1>4, <1>5

\* A line keeps its position exactly if no line before it is lost.
LEMMA PosSame ==
  ASSUME NEW N \in Nat, NEW K \in SUBSET (1 .. N), NEW i \in K
  PROVE  Pos(K, i) = i <=> 1 .. i \subseteq K
<1> DEFINE U == {h \in K : h <= i}
<1>1. i \in Nat /\ IsFiniteSet(1 .. i) /\ Cardinality(1 .. i) = i
  <2>1. i \in Nat /\ i \in 1 .. N
    BY PosType
  <2> QED BY <2>1, FS_Interval
<1>2. U \in SUBSET (1 .. i) /\ Pos(K, i) = Cardinality(U)
  <2>1. \A h \in K : h \in Nat /\ h >= 1
    BY LineNumbers
  <2>2. \A h \in K : h <= i => h \in 1 .. i
    BY <1>1, <2>1
  <2> QED BY <2>2 DEF Pos
<1>3. (1 .. i \subseteq K) <=> (U = 1 .. i)
  <2>1. \A h \in 1 .. i : h <= i
    BY <1>1
  <2>2. \A h \in K : h <= i => h \in 1 .. i
    BY <1>1, LineNumbers
  <2> QED BY <2>1, <2>2
<1> HIDE DEF U
<1>4. Cardinality(U) = i => U = 1 .. i
  BY <1>1, <1>2, FS_Subset
<1> QED BY <1>1, <1>2, <1>3, <1>4

\* Every position up to the number of lines kept is the position of one of them.
LEMMA PosOnto ==
  ASSUME NEW N \in Nat, NEW K \in SUBSET (1 .. N)
  PROVE  \A n \in 1 .. Cardinality(K) : \E i \in K : Pos(K, i) = n
<1> DEFINE Bad == {n \in 1 .. Cardinality(K) : \A i \in K : Pos(K, i) # n}
<1>1. IsFiniteSet(K) /\ Cardinality(K) \in Nat
  <2>1. IsFiniteSet(1 .. N)
    BY FS_Interval
  <2>2. IsFiniteSet(K)
    BY <2>1, FS_Subset
  <2> QED BY <2>2, FS_CardinalityType
<1>2. SUFFICES ASSUME Bad # {} PROVE FALSE
  OBVIOUS
<1>3. Bad \in SUBSET Nat
  BY <1>1
<1>4. PICK n \in Bad : \A m \in Bad : n <= m
  BY <1>2, <1>3, FirstOf
<1>5. n \in 1 .. Cardinality(K) /\ n \in Nat /\ \A i \in K : Pos(K, i) # n
  BY <1>1, <1>4
<1>6. CASE n = 1
  <2>1. K # {} /\ K \in SUBSET Nat
    <3>1. Cardinality(K) # 0
      BY <1>1, <1>5
    <3> QED BY <3>1, FS_EmptySet, LineNumbers
  <2>2. PICK i \in K : \A h \in K : i <= h
    BY <2>1, FirstOf
  <2>3. {h \in K : h <= i} = {i}
    <3>1. \A h \in K : h <= i <=> h = i
      BY <2>1, <2>2
    <3> QED BY <3>1
  <2>4. Pos(K, i) = 1
    BY <2>3, FS_Singleton DEF Pos
  <2> QED BY <1>5, <1>6, <2>4
<1>7. CASE n # 1
  <2>1. n - 1 \in 1 .. Cardinality(K) /\ n - 1 \notin Bad
    BY <1>1, <1>4, <1>5, <1>7
  <2>2. PICK i \in K : Pos(K, i) = n - 1
    BY <2>1
  <2> DEFINE U == {h \in K : h <= i}
             V == {h \in K : h > i}
  <2>3. i \in Nat /\ IsFiniteSet(U) /\ Cardinality(U) = n - 1
    BY <2>2, PosType DEF Pos
  <2>4. V # {} /\ V \in SUBSET Nat /\ K \in SUBSET Nat
    <3>1. K \in SUBSET Nat
      BY LineNumbers
    <3>2. ASSUME V = {} PROVE FALSE
      <4>1. \A h \in K : h <= i
        BY <2>3, <3>1, <3>2
      <4>2. U = K
        BY <4>1
      <4>3. Cardinality(K) = n - 1 /\ Cardinality(K) \in Nat
        BY <1>1, <2>3, <4>2
      <4> QED BY <1>5, <4>3
    <3> QED BY <3>1, <3>2
  <2>5. PICK j \in V : \A h \in V : j <= h
    BY <2>4, FirstOf
  <2>6. j \in K /\ {h \in K : h <= j} = U \cup {j} /\ j \notin U
    <3>1. j \in K /\ j > i /\ \A h \in K : h > i => j <= h
      BY <2>5
    <3>2. \A h \in K : h <= j <=> (h <= i \/ h = j)
      BY <2>3, <2>4, <3>1
    <3>3. {h \in K : h <= j} = U \cup {j}
      BY <3>1, <3>2
    <3> QED BY <2>3, <2>4, <3>1, <3>3
  <2> HIDE DEF U, V
  <2>7. Cardinality(U \cup {j}) = n
    BY <1>5, <2>3, <2>6, FS_AddElement
  <2> QED BY <1>5, <2>6, <2>7 DEF Pos
<1> QED BY <1>6, <1>7

\* What is left of the log: the lines kept, in their order, and all of them synced.
LEMMA RemainsLemma ==
  ASSUME NEW lines \in Seq(Lines), NEW K \in SUBSET (1 .. Len(lines))
  PROVE  /\ Remains(K, lines) \in Seq(Lines) /\ Len(Remains(K, lines)) = Cardinality(K)
         /\ Cardinality(K) \in Nat /\ Cardinality(K) <= Len(lines)
         /\ \A i \in K : /\ Pos(K, i) \in 1 .. Cardinality(K)
                         /\ Remains(K, lines)[Pos(K, i)] = [lines[i] EXCEPT !.synced = TRUE]
         /\ \A n \in 1 .. Cardinality(K) : \E i \in K : Pos(K, i) = n
<1> DEFINE nth(n) == CHOOSE i \in K : Cardinality({h \in K : h <= i}) = n
           R == [n \in 1 .. Cardinality(K) |-> [lines[nth(n)] EXCEPT !.synced = TRUE]]
<1>1. Len(lines) \in Nat /\ IsFiniteSet(1 .. Len(lines)) /\ Cardinality(1 .. Len(lines)) = Len(lines)
  BY FS_Interval
<1>2. Cardinality(K) \in Nat /\ Cardinality(K) <= Len(lines)
  BY <1>1, FS_Subset, FS_CardinalityType
<1>3. \A n \in 1 .. Cardinality(K) : \E i \in K : Pos(K, i) = n
  BY <1>1, PosOnto
<1>4. ASSUME NEW n \in 1 .. Cardinality(K)
      PROVE  nth(n) \in K /\ Pos(K, nth(n)) = n
  BY <1>3 DEF Pos
<1>5. ASSUME NEW i \in K
      PROVE  Pos(K, i) \in 1 .. Cardinality(K) /\ nth(Pos(K, i)) = i
  <2>1. Pos(K, i) \in 1 .. Cardinality(K)
    BY <1>1, PosType
  <2> DEFINE j == nth(Pos(K, i))
  <2>2. j \in K /\ Pos(K, j) = Pos(K, i)
    BY <1>4, <2>1
  <2> HIDE DEF j
  <2>3. ~(i < j) /\ ~(j < i)
    <3>1. Pos(K, i) \in Nat
      BY <1>2, <2>1
    <3>2. i < j => Pos(K, i) < Pos(K, j)
      BY <1>1, <2>2, PosGrows
    <3>3. j < i => Pos(K, j) < Pos(K, i)
      BY <1>1, <2>2, PosGrows
    <3> QED BY <2>2, <3>1, <3>2, <3>3
  <2>4. i \in Nat /\ j \in Nat
    BY <1>1, <2>2, PosType
  <2>5. i = j
    BY <2>3, <2>4
  <2> QED BY <2>1, <2>5 DEF j
<1> HIDE DEF nth
<1>6. \A i \in K : lines[i] \in Lines
  BY <1>1
<1>7. \A l \in Lines : [l EXCEPT !.synced = TRUE] \in Lines
  BY DEF Lines
<1>8. R \in [1 .. Cardinality(K) -> Lines]
  BY <1>4, <1>6, <1>7
<1>9. R \in Seq(Lines) /\ Len(R) = Cardinality(K)
  BY <1>2, <1>8
<1>10. \A i \in K : R[Pos(K, i)] = [lines[i] EXCEPT !.synced = TRUE]
  BY <1>5
<1>11. Remains(K, lines) = R
  BY DEF Remains, nth
<1> HIDE DEF R
<1> QED BY <1>2, <1>3, <1>5, <1>9, <1>10, <1>11

-----------------------------------------------------------------------------
(* What a call of the writer does to the log.                               *)

\* Line m is line l, synced or not yet.
SameLine(l, m) ==
  /\ m.seq = l.seq /\ m.kind = l.kind /\ m.step = l.step
  /\ m.newline = l.newline /\ m.file = l.file
  /\ l.synced => m.synced

\* The same lines, maybe more of them synced.
Refreshed(old, new) ==
  /\ new \in Seq(Lines) /\ Len(new) = Len(old)
  /\ \A i \in 1 .. Len(old) : SameLine(old[i], new[i])

\* The bytes written have become part of an unfinished last line.
Merged(old, new) ==
  /\ new \in Seq(Lines) /\ Len(new) = Len(old) /\ Len(old) > 0
  /\ ~old[Len(old)].newline
  /\ LET n == Len(old) IN /\ new[n].kind = "junk" /\ new[n].file = old[n].file
                          /\ new[n].file = fileNum'
                          /\ old[n].synced => new[n].synced
  /\ \A i \in 1 .. Len(old) - 1 : SameLine(old[i], new[i])

\* Line l was added; an unfinished line before it is in a file that was closed.
Appended(old, new, l) ==
  /\ new \in Seq(Lines) /\ Len(new) = Len(old) + 1
  /\ SameLine(l, new[Len(old) + 1])
  /\ \A i \in 1 .. Len(old) : SameLine(old[i], new[i])
  /\ Len(old) > 0 /\ ~old[Len(old)].newline /\ old[Len(old)].file = fileNum
       => new[Len(old)].synced

\* Syncing a file changes nothing else.
LEMMA SyncedLemma ==
  ASSUME NEW lines \in Seq(Lines), NEW f
  PROVE  /\ Refreshed(lines, Synced(lines, f))
         /\ \A i \in 1 .. Len(lines) : lines[i].file = f => Synced(lines, f)[i].synced
<1>1. \A l \in Lines : /\ [l EXCEPT !.synced = TRUE] \in Lines
                       /\ SameLine(l, [l EXCEPT !.synced = TRUE])
                       /\ [l EXCEPT !.synced = TRUE].synced
                       /\ SameLine(l, l)
  BY DEF Lines, SameLine
<1>2. \A i \in 1 .. Len(lines) : lines[i] \in Lines
  OBVIOUS
<1>3. DOMAIN lines = 1 .. Len(lines) /\ Len(lines) \in Nat
  OBVIOUS
<1>4. Synced(lines, f) \in [1 .. Len(lines) -> Lines]
  BY <1>1, <1>2, <1>3 DEF Synced
<1>5. Synced(lines, f) \in Seq(Lines) /\ Len(Synced(lines, f)) = Len(lines)
  BY <1>3, <1>4
<1>6. \A i \in 1 .. Len(lines) :
         Synced(lines, f)[i] = IF lines[i].file = f THEN [lines[i] EXCEPT !.synced = TRUE]
                                                    ELSE lines[i]
  BY <1>3 DEF Synced
<1> QED BY <1>1, <1>2, <1>5, <1>6 DEF Refreshed

\* Rotation syncs the file it closes.
LEMMA RotatedLemma ==
  ASSUME TypeOK
  PROVE  /\ Refreshed(log, Rotated)
         /\ Full => \A i \in 1 .. Len(log) : log[i].file = fileNum => Rotated[i].synced
<1>1. log \in Seq(Lines)
  BY DEF TypeOK
<1>2. CASE Full
  BY <1>1, <1>2, SyncedLemma DEF Rotated
<1>3. CASE ~Full
  BY <1>1, <1>3 DEF Rotated, Refreshed, SameLine
<1> QED BY <1>2, <1>3

\* A write merges or appends.
LEMMA WrittenLemma ==
  ASSUME TypeOK, append, NEW l \in Lines, l.file = fileNum'
  PROVE  Merged(log, Written(l)) \/ Appended(log, Written(l), l)
<1> DEFINE n == Len(log)
           W == Written(l)
<1>1. log \in Seq(Lines) /\ n \in Nat /\ \A i \in 1 .. n : log[i] \in Lines
  BY DEF TypeOK
<1>2. /\ Refreshed(log, Rotated)
      /\ Full => \A i \in 1 .. n : log[i].file = fileNum => Rotated[i].synced
  BY RotatedLemma
<1>3. Rotated \in Seq(Lines) /\ Len(Rotated) = n /\ \A i \in 1 .. n : SameLine(log[i], Rotated[i])
  BY <1>2 DEF Refreshed
<1>4. CASE n > 0 /\ ~log[n].newline /\ log[n].file = l.file
  <2> DEFINE m == [Torn(Rotated[n]) EXCEPT !.newline = l.newline]
  <2>1. W = [Rotated EXCEPT ![n] = m]
    BY <1>4 DEF Written
  <2>2. n \in 1 .. n /\ Rotated[n] \in Lines /\ SameLine(log[n], Rotated[n])
    BY <1>1, <1>3, <1>4
  <2>3. m \in Lines /\ m.kind = "junk" /\ m.file = Rotated[n].file /\ m.synced = Rotated[n].synced
    BY <2>2 DEF Torn, Lines, Kinds
  <2> HIDE DEF m, W
  <2>4. W \in Seq(Lines) /\ Len(W) = n /\ W[n] = m /\ \A i \in 1 .. n - 1 : W[i] = Rotated[i]
    BY <1>1, <1>3, <2>1, <2>2, <2>3
  <2>5. \A i \in 1 .. n - 1 : SameLine(log[i], W[i])
    BY <1>1, <1>3, <2>4
  <2> QED BY <1>4, <2>2, <2>3, <2>4, <2>5 DEF Merged, SameLine, W
<1>5. CASE ~(n > 0 /\ ~log[n].newline /\ log[n].file = l.file)
  <2>1. W = Append(Rotated, l)
    BY <1>5 DEF Written
  <2> HIDE DEF W
  <2>2. /\ W \in Seq(Lines) /\ Len(W) = n + 1 /\ W[n + 1] = l
        /\ \A i \in 1 .. n : W[i] = Rotated[i]
    BY <1>1, <1>3, <2>1
  <2>3. SameLine(l, W[n + 1]) /\ \A i \in 1 .. n : SameLine(log[i], W[i])
    BY <1>3, <2>2 DEF SameLine
  <2>4. ASSUME n > 0, ~log[n].newline, log[n].file = fileNum
        PROVE  W[n].synced
    <3>1. Full
      BY <1>5, <2>4 DEF append
    <3>2. n \in 1 .. n
      BY <1>1, <2>4
    <3> QED BY <1>2, <2>2, <2>4, <3>1, <3>2
  <2> QED BY <2>2, <2>3, <2>4 DEF Appended, W
<1> QED BY <1>4, <1>5

\* Syncing after a write keeps what the write did.
LEMMA SyncAfter ==
  ASSUME NEW old \in Seq(Lines), NEW mid, NEW new, Refreshed(mid, new)
  PROVE  /\ Merged(old, mid) => Merged(old, new)
         /\ \A l \in Lines : Appended(old, mid, l) => Appended(old, new, l)
<1>1. Len(old) \in Nat
  OBVIOUS
<1>2. ASSUME Merged(old, mid) PROVE Merged(old, new)
  <2>1. \A i \in 1 .. Len(old) : SameLine(mid[i], new[i])
    BY <1>2 DEF Merged, Refreshed
  <2>2. \A i \in 1 .. Len(old) - 1 : i \in 1 .. Len(old) /\ SameLine(old[i], mid[i])
    BY <1>1, <1>2 DEF Merged
  <2>3. \A i \in 1 .. Len(old) - 1 : SameLine(old[i], new[i])
    BY <2>1, <2>2 DEF SameLine
  <2>4. Len(old) \in 1 .. Len(old) /\ SameLine(mid[Len(old)], new[Len(old)])
    BY <1>1, <1>2, <2>1 DEF Merged
  <2> QED BY <1>2, <2>3, <2>4 DEF Merged, Refreshed, SameLine
<1>3. ASSUME NEW l \in Lines, Appended(old, mid, l) PROVE Appended(old, new, l)
  <2>1. \A i \in 1 .. Len(old) + 1 : SameLine(mid[i], new[i])
    BY <1>3 DEF Appended, Refreshed
  <2>2. \A i \in 1 .. Len(old) : i \in 1 .. Len(old) + 1 /\ SameLine(old[i], mid[i])
    BY <1>1, <1>3 DEF Appended
  <2>3. \A i \in 1 .. Len(old) : SameLine(old[i], new[i])
    BY <2>1, <2>2 DEF SameLine
  <2>4. SameLine(l, new[Len(old) + 1])
    BY <1>1, <1>3, <2>1 DEF Appended, SameLine
  <2>5. Len(old) > 0 => SameLine(mid[Len(old)], new[Len(old)])
    BY <1>1, <2>1
  <2> QED BY <1>3, <2>3, <2>4, <2>5 DEF Appended, Refreshed, SameLine
<1> QED BY <1>2, <1>3

\* The record a call writes.
LEMMA RecordType ==
  ASSUME TypeOK, append, NEW s \in Steps, NEW kind \in Kinds
  PROVE  /\ Record(kind, s) \in Lines /\ Torn(Record(kind, s)) \in Lines
         /\ fileNum' \in Nat /\ fileNum <= fileNum'
         /\ Record(kind, s).file = fileNum' /\ Torn(Record(kind, s)).file = fileNum'
         /\ Record(kind, s).seq = seq + 1 /\ Record(kind, s).kind = kind
         /\ Record(kind, s).step = s /\ Record(kind, s).newline
         /\ Torn(Record(kind, s)).kind = "junk" /\ ~Torn(Record(kind, s)).newline
<1>1. fileNum' \in Nat /\ seq \in Nat /\ fileNum <= fileNum'
  BY DEF append, TypeOK
<1>2. Record(kind, s) = [seq |-> seq + 1, kind |-> kind, step |-> s, newline |-> TRUE,
                         file |-> fileNum', synced |-> FALSE]
  BY DEF Record, Line
<1>3. Record(kind, s) \in Lines
  BY <1>1, <1>2 DEF Lines
<1>4. \A l \in Lines : /\ Torn(l) \in Lines /\ Torn(l).file = l.file
                       /\ Torn(l).kind = "junk" /\ ~Torn(l).newline
  BY DEF Torn, Lines, Kinds
<1> QED BY <1>1, <1>2, <1>3, <1>4

\* A call that logs its record: merged or appended, and synced with its file unless it
\* is a begin.
LEMMA LoggedLemma ==
  ASSUME TypeOK, append, NEW s \in Steps, NEW kind \in Kinds, Logged(kind, s)
  PROVE  /\ Merged(log, log') \/ Appended(log, log', Record(kind, s))
         /\ kind # "begin" =>
              \A i \in 1 .. Len(log') : log'[i].file = fileNum' => log'[i].synced
<1> DEFINE l == Record(kind, s)
           W == Written(l)
<1>1. l \in Lines /\ l.file = fileNum' /\ log \in Seq(Lines)
  BY RecordType DEF TypeOK
<1>2. log' = IF kind = "begin" THEN W ELSE Synced(W, fileNum')
  BY DEF Logged
<1> HIDE DEF l
<1>3. Merged(log, W) \/ Appended(log, W, l)
  BY <1>1, WrittenLemma
<1>4. W \in Seq(Lines)
  BY <1>3 DEF Merged, Appended
<1> HIDE DEF W
<1>5. CASE kind = "begin"
  BY <1>2, <1>3, <1>5 DEF l
<1>6. CASE kind # "begin"
  <2>1. log' = Synced(W, fileNum')
    BY <1>2, <1>6
  <2>2. /\ Refreshed(W, log')
        /\ \A i \in 1 .. Len(W) : W[i].file = fileNum' => log'[i].synced
    BY <1>4, <2>1, SyncedLemma
  <2>3. Merged(log, log') \/ Appended(log, log', l)
    BY <1>1, <1>3, <2>2, SyncAfter
  <2> QED BY <2>2, <2>3 DEF Refreshed, SameLine, l
<1> QED BY <1>5, <1>6

-----------------------------------------------------------------------------
(* What every write keeps.                                                  *)

\* What a call of the writer that logs, or fails, can do to the log.
WriteStep(kind, s) ==
  \/ /\ UNCHANGED damaged
     /\ Merged(log, log') \/ Appended(log, log', Record(kind, s))
  \/ /\ damaged' = TRUE
     /\ \/ Refreshed(log, log') \/ Merged(log, log')
        \/ Appended(log, log', Torn(Record(kind, s)))

\* Logged or failed, a call does one of these.
LEMMA WriteCases ==
  ASSUME TypeOK, append, NEW s \in Steps, NEW kind \in Kinds,
         (Logged(kind, s) /\ UNCHANGED damaged) \/ Fails(kind, s)
  PROVE  WriteStep(kind, s)
<1>1. CASE Logged(kind, s) /\ UNCHANGED damaged
  BY <1>1, LoggedLemma DEF WriteStep
<1>2. CASE Fails(kind, s)
  <2>1. Refreshed(log, Rotated)
    BY RotatedLemma
  <2>2. \/ Merged(log, Written(Torn(Record(kind, s))))
        \/ Appended(log, Written(Torn(Record(kind, s))), Torn(Record(kind, s)))
    BY RecordType, WrittenLemma
  <2>3. \/ Merged(log, Written(Record(kind, s)))
        \/ Appended(log, Written(Record(kind, s)), Record(kind, s))
    BY RecordType, WrittenLemma
  <2>4. \/ log' = Rotated /\ damaged' = TRUE
        \/ log' = Written(Torn(Record(kind, s))) /\ damaged' = TRUE
        \/ log' = Written(Record(kind, s)) /\ UNCHANGED damaged
    BY <1>2 DEF Fails
  <2> QED BY <2>1, <2>2, <2>3, <2>4 DEF WriteStep
<1> QED BY <1>1, <1>2

\* The three things that can happen to the lines, whoever is to blame.
LEMMA WriteShapes ==
  ASSUME TypeOK, append, NEW s \in Steps, NEW kind \in Kinds, WriteStep(kind, s)
  PROVE  /\ log' \in Seq(Lines) /\ Len(log) \in Nat /\ log \in Seq(Lines)
         /\ \/ Refreshed(log, log')
            \/ Merged(log, log')
            \/ \E l \in Lines : /\ Appended(log, log', l) /\ l.file = fileNum'
                                /\ \/ l.kind = "junk" /\ ~l.newline
                                   \/ l = Record(kind, s)
<1>1. log \in Seq(Lines) /\ Len(log) \in Nat
  BY DEF TypeOK
<1>2. \/ Refreshed(log, log')
      \/ Merged(log, log')
      \/ \E l \in Lines : /\ Appended(log, log', l) /\ l.file = fileNum'
                          /\ \/ l.kind = "junk" /\ ~l.newline
                             \/ l = Record(kind, s)
  BY RecordType DEF WriteStep
<1>3. log' \in Seq(Lines)
  BY <1>2 DEF Refreshed, Merged, Appended
<1> QED BY <1>1, <1>2, <1>3

\* The log stays within its bounds.
LEMMA WriteTypes ==
  ASSUME TypeOK, append, NEW s \in Steps, NEW kind \in Kinds, WriteStep(kind, s)
  PROVE  /\ log' \in Seq(Lines) /\ Len(log') <= MaxLines
         /\ fileNum' \in Nat /\ \A i \in 1 .. Len(log') : log'[i].file <= fileNum'
         /\ seq' \in Nat
<1>1. /\ fileNum \in Nat /\ fileNum' \in Nat /\ fileNum <= fileNum'
      /\ \A i \in 1 .. Len(log) : log[i] \in Lines /\ log[i].file \in Nat /\ log[i].file <= fileNum
      /\ Len(log) \in Nat /\ Len(log) < MaxLines /\ seq' \in Nat
  <2>1. log \in Seq(Lines) /\ \A l \in Lines : l.file \in Nat
    BY DEF TypeOK, Lines
  <2>2. \A i \in 1 .. Len(log) : log[i] \in Lines /\ log[i].file <= fileNum
    BY DEF TypeOK
  <2>3. fileNum \in Nat /\ Len(log) \in Nat /\ Len(log) < MaxLines /\ seq' \in Nat
    BY DEF TypeOK, append
  <2> QED BY <2>1, <2>2, <2>3, RecordType
<1>2. \A i \in 1 .. Len(log) : log[i].file <= fileNum'
  BY <1>1
<1>3. CASE Refreshed(log, log')
  <2>1. \A i \in 1 .. Len(log) : log'[i].file = log[i].file
    BY <1>3 DEF Refreshed, SameLine
  <2> QED BY <1>1, <1>2, <1>3, <2>1, LinesAssumption DEF Refreshed
<1>4. CASE Merged(log, log')
  <2>1. \A i \in 1 .. Len(log) : i = Len(log) \/ i \in 1 .. Len(log) - 1
    BY <1>1
  <2>2. \A i \in 1 .. Len(log) : log'[i].file = log[i].file
    BY <1>4, <2>1 DEF Merged, SameLine
  <2> QED BY <1>1, <1>2, <1>4, <2>2, LinesAssumption DEF Merged
<1>5. ASSUME NEW l \in Lines, Appended(log, log', l), l.file = fileNum'
      PROVE  /\ Len(log') <= MaxLines
             /\ \A i \in 1 .. Len(log') : log'[i].file <= fileNum'
  <2>1. \A i \in 1 .. Len(log) + 1 : i = Len(log) + 1 \/ i \in 1 .. Len(log)
    BY <1>1
  <2>2. log'[Len(log) + 1].file = fileNum' /\ \A i \in 1 .. Len(log) : log'[i].file = log[i].file
    BY <1>5 DEF Appended, SameLine
  <2>3. \A i \in 1 .. Len(log) + 1 : log'[i].file <= fileNum'
    BY <1>1, <1>2, <2>1, <2>2
  <2> QED BY <1>1, <1>5, <2>3, LinesAssumption DEF Appended
<1> QED BY <1>1, <1>3, <1>4, <1>5, WriteShapes

\* A number is taken for at most one line.
LEMMA WriteNumbers ==
  ASSUME TypeOK, NumbersTaken, append, NEW s \in Steps, NEW kind \in Kinds, WriteStep(kind, s)
  PROVE  /\ seq' = seq + 1 /\ seq >= Len(log) /\ seq' >= Len(log')
         /\ (Merged(log, log') \/ Refreshed(log, log')) => seq' > Len(log')
<1>1. seq \in Nat /\ Len(log) \in Nat /\ seq >= Len(log) /\ seq' = seq + 1
  BY DEF TypeOK, NumbersTaken, append
<1> QED BY <1>1, WriteShapes DEF Refreshed, Merged, Appended

\* A record gets a number that is at least its place.
LEMMA WriteKept ==
  ASSUME TypeOK, NumbersTaken, NumbersKept, append, NEW s \in Steps, NEW kind \in Kinds,
         WriteStep(kind, s)
  PROVE  NumbersKept'
<1>1. /\ Len(log) \in Nat /\ seq \in Nat /\ seq >= Len(log)
      /\ \A i \in 1 .. Len(log) : log[i].kind # "junk" => log[i].seq >= i
  BY DEF TypeOK, NumbersTaken, NumbersKept, append
<1>2. CASE Refreshed(log, log')
  BY <1>1, <1>2 DEF Refreshed, SameLine, NumbersKept
<1>3. CASE Merged(log, log')
  <2>1. \A i \in 1 .. Len(log) : i = Len(log) \/ i \in 1 .. Len(log) - 1
    BY <1>1
  <2>2. \A i \in 1 .. Len(log) - 1 : i \in 1 .. Len(log)
    BY <1>1
  <2>3. log'[Len(log)].kind = "junk"
    BY <1>3 DEF Merged
  <2>4. \A i \in 1 .. Len(log) - 1 : log'[i].kind = log[i].kind /\ log'[i].seq = log[i].seq
    BY <1>3 DEF Merged, SameLine
  <2> QED BY <1>1, <1>3, <2>1, <2>2, <2>3, <2>4 DEF Merged, NumbersKept
<1>4. ASSUME NEW l \in Lines, Appended(log, log', l), l.kind = "junk" \/ l = Record(kind, s)
      PROVE  NumbersKept'
  <2>1. \A i \in 1 .. Len(log) + 1 : i = Len(log) + 1 \/ i \in 1 .. Len(log)
    BY <1>1
  <2>2. l.kind # "junk" => l.seq >= Len(log) + 1
    BY <1>1, <1>4, RecordType
  <2>3. log'[Len(log) + 1].kind = l.kind /\ log'[Len(log) + 1].seq = l.seq
    BY <1>4 DEF Appended, SameLine
  <2>4. \A i \in 1 .. Len(log) : log'[i].kind = log[i].kind /\ log'[i].seq = log[i].seq
    BY <1>4 DEF Appended, SameLine
  <2>5. Len(log') = Len(log) + 1
    BY <1>4 DEF Appended
  <2> QED BY <1>1, <2>1, <2>2, <2>3, <2>4, <2>5 DEF NumbersKept
<1> QED BY <1>2, <1>3, <1>4, WriteShapes

\* Every end with exit code 0 in the log happened.
LEMMA WriteEnds ==
  ASSUME TypeOK, EndsHappened, append, NEW s \in Steps, NEW kind \in Kinds, WriteStep(kind, s),
         ended \subseteq ended', kind = "endOK" => s \in ended'
  PROVE  EndsHappened'
<1>1. Len(log) \in Nat /\ \A i \in 1 .. Len(log) : log[i].kind = "endOK" => log[i].step \in ended'
  BY DEF TypeOK, EndsHappened
<1>2. CASE Refreshed(log, log')
  BY <1>1, <1>2 DEF Refreshed, SameLine, EndsHappened
<1>3. CASE Merged(log, log')
  <2>1. \A i \in 1 .. Len(log) : i = Len(log) \/ i \in 1 .. Len(log) - 1
    BY <1>1
  <2>2. \A i \in 1 .. Len(log) - 1 : i \in 1 .. Len(log)
    BY <1>1
  <2>3. log'[Len(log)].kind # "endOK"
    BY <1>3 DEF Merged
  <2>4. \A i \in 1 .. Len(log) - 1 : log'[i].kind = log[i].kind /\ log'[i].step = log[i].step
    BY <1>3 DEF Merged, SameLine
  <2> QED BY <1>1, <1>3, <2>1, <2>2, <2>3, <2>4 DEF Merged, EndsHappened
<1>4. ASSUME NEW l \in Lines, Appended(log, log', l), l.kind = "junk" \/ l = Record(kind, s)
      PROVE  EndsHappened'
  <2>1. \A i \in 1 .. Len(log) + 1 : i = Len(log) + 1 \/ i \in 1 .. Len(log)
    BY <1>1
  <2>2. l.kind = "endOK" => l.step \in ended'
    BY <1>4, RecordType
  <2>3. log'[Len(log) + 1].kind = l.kind /\ log'[Len(log) + 1].step = l.step
    BY <1>4 DEF Appended, SameLine
  <2>4. \A i \in 1 .. Len(log) : log'[i].kind = log[i].kind /\ log'[i].step = log[i].step
    BY <1>4 DEF Appended, SameLine
  <2>5. Len(log') = Len(log) + 1
    BY <1>4 DEF Appended
  <2> QED BY <1>1, <2>1, <2>2, <2>3, <2>4, <2>5 DEF EndsHappened
<1> QED BY <1>2, <1>3, <1>4, WriteShapes

\* A log that is whole stays whole unless the call damages it.
LEMMA WriteWhole ==
  ASSUME TypeOK, WholeLog, append, NEW s \in Steps, NEW kind \in Kinds \ {"junk"},
         WriteStep(kind, s)
  PROVE  WholeLog'
<1> SUFFICES ASSUME ~damaged' PROVE WholeLog'
  BY DEF WholeLog
<1>1. ~damaged
  BY DEF WriteStep
<1>2. /\ \A i \in 1 .. Len(log) : log[i].kind # "junk" /\ log[i].newline /\ log[i].seq = i
      /\ seq = Len(log) /\ Len(log) \in Nat /\ seq' = seq + 1 /\ pc' = "up"
  BY <1>1 DEF WholeLog, append, TypeOK
<1>3. Appended(log, log', Record(kind, s))
  <2>1. ~Merged(log, log')
    BY <1>2 DEF Merged
  <2> QED BY <2>1 DEF WriteStep
<1>4. \A i \in 1 .. Len(log) + 1 : i = Len(log) + 1 \/ i \in 1 .. Len(log)
  BY <1>2
<1>5. log'[Len(log) + 1].kind = kind /\ log'[Len(log) + 1].newline /\ log'[Len(log) + 1].seq = seq + 1
  BY <1>3, RecordType DEF Appended, SameLine
<1>6. \A i \in 1 .. Len(log) : log'[i].kind # "junk" /\ log'[i].newline /\ log'[i].seq = i
  BY <1>2, <1>3 DEF Appended, SameLine
<1>7. Len(log') = Len(log) + 1
  BY <1>3 DEF Appended
<1> QED BY <1>2, <1>4, <1>5, <1>6, <1>7 DEF WholeLog

\* What shows an acknowledged step stays, as long as nobody begins or ends it again.
LEMMA WriteShown ==
  ASSUME TypeOK, append, NEW s \in Steps, NEW kind \in Kinds, WriteStep(kind, s),
         NEW r \in Steps, Shown(r), r # s \/ kind = "other"
  PROVE  Shown(r)'
<1>1. PICK e \in 1 .. Len(log) :
         /\ log[e].synced
         /\ log[e].kind = "junk" \/ log[e].seq > e \/ (log[e].seq = e /\ ShowsDone(r, e))
  BY DEF Shown
<1>2. Len(log) \in Nat /\ e \in Nat
  BY DEF TypeOK
<1>3. e \in 1 .. Len(log') /\ log'[e].synced
  <2>1. CASE Refreshed(log, log')
    BY <1>1, <2>1 DEF Refreshed, SameLine
  <2>2. CASE Merged(log, log')
    <3>1. e = Len(log) \/ e \in 1 .. Len(log) - 1
      BY <1>2
    <3> QED BY <1>1, <2>2, <3>1 DEF Merged, SameLine
  <2>3. ASSUME NEW l \in Lines, Appended(log, log', l) PROVE e \in 1 .. Len(log') /\ log'[e].synced
    BY <1>1, <1>2, <2>3 DEF Appended, SameLine
  <2> QED BY <2>1, <2>2, <2>3, WriteShapes
<1>4. CASE log'[e].kind = "junk"
  BY <1>3, <1>4 DEF Shown
<1>5. CASE log'[e].kind # "junk"
  <2>0. \A i \in 1 .. Len(log) - 1 : i \in 1 .. Len(log)
    BY <1>2
  <2>1. SameLine(log[e], log'[e]) /\ \A i \in 1 .. e : SameLine(log[i], log'[i])
    <3>1. CASE Refreshed(log, log')
      BY <1>2, <3>1 DEF Refreshed
    <3>2. CASE Merged(log, log')
      <4>1. e # Len(log)
        BY <1>5, <3>2 DEF Merged
      <4>2. e \in 1 .. Len(log) - 1 /\ \A i \in 1 .. e : i \in 1 .. Len(log) - 1
        BY <1>2, <4>1
      <4> QED BY <3>2, <4>2 DEF Merged
    <3>3. ASSUME NEW l \in Lines, Appended(log, log', l)
          PROVE  \A i \in 1 .. e : SameLine(log[i], log'[i])
      BY <1>2, <3>3 DEF Appended
    <3>4. \A i \in 1 .. e : SameLine(log[i], log'[i])
      BY <3>1, <3>2, <3>3, WriteShapes
    <3> QED BY <1>2, <3>4
  <2>2. CASE log[e].seq > e
    BY <1>3, <2>1, <2>2 DEF Shown, SameLine
  <2>3. CASE log[e].seq = e /\ ShowsDone(r, e)
    <3>1. ASSUME NEW i \in 1 .. Len(log'), i > e
          PROVE  log'[i].step # r \/ log'[i].kind \notin {"begin", "endOK", "endError"}
      <4>1. ASSUME i \in 1 .. Len(log), SameLine(log[i], log'[i])
            PROVE  log'[i].step # r \/ log'[i].kind \notin {"begin", "endOK", "endError"}
        BY <2>3, <3>1, <4>1 DEF ShowsDone, SameLine
      <4>2. CASE Refreshed(log, log')
        BY <4>1, <4>2 DEF Refreshed
      <4>3. CASE Merged(log, log')
        <5>1. i = Len(log) \/ i \in 1 .. Len(log) - 1
          BY <1>2, <4>3 DEF Merged
        <5>2. CASE i = Len(log)
          BY <4>3, <5>2 DEF Merged
        <5>3. CASE i \in 1 .. Len(log) - 1
          BY <2>0, <4>1, <4>3, <5>3 DEF Merged
        <5> QED BY <5>1, <5>2, <5>3
      <4>4. ASSUME NEW l \in Lines, Appended(log, log', l), l.kind = "junk" \/ l = Record(kind, s)
            PROVE  log'[i].step # r \/ log'[i].kind \notin {"begin", "endOK", "endError"}
        <5>1. i = Len(log) + 1 \/ i \in 1 .. Len(log)
          BY <1>2, <4>4 DEF Appended
        <5>2. CASE i = Len(log) + 1
          <6>1. log'[i].step = l.step /\ log'[i].kind = l.kind
            BY <4>4, <5>2 DEF Appended, SameLine
          <6> QED BY <4>4, <6>1, RecordType
        <5>3. CASE i \in 1 .. Len(log)
          BY <4>1, <4>4, <5>3 DEF Appended
        <5> QED BY <5>1, <5>2, <5>3
      <4> QED BY <4>2, <4>3, <4>4, WriteShapes
    <3>2. log'[e].kind = "endOK" /\ log'[e].step = r /\ log'[e].seq = e
      BY <2>1, <2>3 DEF ShowsDone, SameLine
    <3>3. \E b \in 1 .. e - 1 : log'[b].kind = "begin" /\ log'[b].step = r
      <4>1. PICK b \in 1 .. e - 1 : log[b].kind = "begin" /\ log[b].step = r
        BY <2>3 DEF ShowsDone
      <4>2. b \in 1 .. e
        BY <1>2
      <4> QED BY <2>1, <4>1, <4>2 DEF SameLine
    <3> QED BY <1>3, <3>1, <3>2, <3>3 DEF Shown, ShowsDone
  <2> QED BY <1>1, <1>5, <2>1, <2>2, <2>3 DEF SameLine
<1> QED BY <1>4, <1>5

\* What the log shows of the begin of a running step stays.
LEMMA WriteBegun ==
  ASSUME TypeOK, NumbersTaken, append, NEW s \in Steps, NEW kind \in Kinds, WriteStep(kind, s),
         NEW r \in Steps, BegunOrBroken(r)
  PROVE  BegunOrBroken(r)'
<1>1. Len(log) \in Nat /\ seq \in Nat /\ seq' = seq + 1
  BY DEF TypeOK, append
<1>2. CASE Refreshed(log, log') \/ Merged(log, log')
  BY <1>2, WriteNumbers DEF BegunOrBroken
<1>3. ASSUME NEW l \in Lines, Appended(log, log', l) PROVE BegunOrBroken(r)'
  <2>1. Len(log') = Len(log) + 1 /\ \A i \in 1 .. Len(log) : SameLine(log[i], log'[i])
    BY <1>3 DEF Appended
  <2>2. \A i \in 1 .. Len(log) : i \in 1 .. Len(log')
    BY <1>1, <2>1
  <2>3. CASE seq > Len(log)
    BY <1>1, <2>1, <2>3 DEF BegunOrBroken
  <2>4. ASSUME NEW b \in 1 .. Len(log), log[b].kind = "begin", log[b].step = r
        PROVE  BegunOrBroken(r)'
    BY <2>1, <2>2, <2>4 DEF BegunOrBroken, SameLine
  <2>5. ASSUME NEW j \in 1 .. Len(log), log[j].kind = "junk",
               log[j].synced \/ (j = Len(log) /\ ~log[j].newline /\ log[j].file = fileNum)
        PROVE  BegunOrBroken(r)'
    <3>1. log'[j].kind = "junk"
      BY <2>1, <2>5 DEF SameLine
    <3>2. log'[j].synced
      <4>1. CASE log[j].synced
        BY <2>1, <4>1 DEF SameLine
      <4>2. CASE j = Len(log) /\ ~log[j].newline /\ log[j].file = fileNum
        BY <1>1, <1>3, <4>2 DEF Appended
      <4> QED BY <2>5, <4>1, <4>2
    <3> QED BY <2>2, <3>1, <3>2 DEF BegunOrBroken
  <2> QED BY <2>3, <2>4, <2>5 DEF BegunOrBroken
<1> QED BY <1>2, <1>3, WriteShapes

\* A step that was just begun, logged or not, has its begin in the log or a gap instead.
LEMMA BeginShows ==
  ASSUME TypeOK, NumbersTaken, append, NEW s \in Steps, WriteStep("begin", s)
  PROVE  BegunOrBroken(s)'
<1>1. Len(log) \in Nat
  BY DEF TypeOK
<1>2. CASE Refreshed(log, log') \/ Merged(log, log')
  BY <1>2, WriteNumbers DEF BegunOrBroken, Kinds
<1>3. ASSUME NEW l \in Lines, Appended(log, log', l), l.file = fileNum',
             (l.kind = "junk" /\ ~l.newline) \/ l = Record("begin", s)
      PROVE  BegunOrBroken(s)'
  <2>1. Len(log') = Len(log) + 1 /\ SameLine(l, log'[Len(log) + 1]) /\ Len(log) + 1 \in 1 .. Len(log')
    BY <1>1, <1>3 DEF Appended
  <2>2. CASE l = Record("begin", s)
    <3>1. l.kind = "begin" /\ l.step = s
      BY <2>2, RecordType DEF Kinds
    <3> QED BY <2>1, <3>1 DEF BegunOrBroken, SameLine
  <2>3. CASE l.kind = "junk" /\ ~l.newline
    BY <1>3, <2>1, <2>3 DEF BegunOrBroken, SameLine
  <2> QED BY <1>3, <2>2, <2>3
<1> QED BY <1>2, <1>3, WriteShapes DEF Kinds

\* An acknowledged end with exit code 0 is shown.
LEMMA EndShows ==
  ASSUME TypeOK, NumbersTaken, append, NEW s \in Steps, BegunOrBroken(s), Logged("endOK", s),
         UNCHANGED damaged
  PROVE  Shown(s)'
<1>1. Len(log) \in Nat /\ seq \in Nat /\ seq' = seq + 1 /\ "endOK" \in Kinds /\ "endOK" # "begin"
  BY DEF TypeOK, append, Kinds
<1>2. /\ Merged(log, log') \/ Appended(log, log', Record("endOK", s))
      /\ \A i \in 1 .. Len(log') : log'[i].file = fileNum' => log'[i].synced
  BY <1>1, LoggedLemma
<1>3. WriteStep("endOK", s)
  BY <1>1, WriteCases
<1>4. CASE Merged(log, log')
  <2>1. Len(log) \in 1 .. Len(log') /\ log'[Len(log)].kind = "junk" /\ log'[Len(log)].file = fileNum'
    BY <1>1, <1>4 DEF Merged
  <2> QED BY <1>2, <2>1 DEF Shown
<1>5. CASE Appended(log, log', Record("endOK", s))
  <2> DEFINE e == Len(log) + 1
  <2>1. /\ e \in 1 .. Len(log') /\ Len(log') = e
        /\ \A i \in 1 .. Len(log) : SameLine(log[i], log'[i]) /\ i \in 1 .. Len(log')
        /\ SameLine(Record("endOK", s), log'[e])
    BY <1>1, <1>5 DEF Appended
  <2>2. /\ log'[e].kind = "endOK" /\ log'[e].step = s /\ log'[e].seq = seq + 1
        /\ log'[e].file = fileNum'
    BY <1>1, <2>1, RecordType DEF SameLine
  <2>3. log'[e].synced
    BY <1>2, <2>1, <2>2
  <2>4. BegunOrBroken(s)'
    BY <1>1, <1>3, WriteBegun
  <2>5. seq >= Len(log)
    BY <1>1, <1>3, WriteNumbers
  <2>6. CASE seq' > Len(log')
    <3>1. log'[e].seq > e
      BY <1>1, <2>1, <2>2, <2>6
    <3> QED BY <2>1, <2>3, <3>1 DEF Shown
  <2>7. ASSUME NEW b \in 1 .. Len(log'), log'[b].kind = "begin", log'[b].step = s,
               ~(seq' > Len(log'))
        PROVE  Shown(s)'
    <3>1. log'[e].seq = e
      BY <1>1, <2>1, <2>2, <2>5, <2>7
    <3>2. b \in 1 .. e - 1
      <4>1. b # e
        BY <2>2, <2>7
      <4> QED BY <1>1, <2>1, <4>1
    <3>3. \A i \in 1 .. Len(log') : ~(i > e)
      BY <1>1, <2>1
    <3> QED BY <2>1, <2>2, <2>3, <2>7, <3>1, <3>2, <3>3 DEF Shown, ShowsDone
  <2>8. ASSUME NEW j \in 1 .. Len(log'), log'[j].kind = "junk",
               log'[j].synced \/ (j = Len(log') /\ ~log'[j].newline /\ log'[j].file = fileNum')
        PROVE  Shown(s)'
    BY <1>2, <2>8 DEF Shown
  <2> QED BY <2>4, <2>6, <2>7, <2>8 DEF BegunOrBroken
<1> QED BY <1>2, <1>4, <1>5

-----------------------------------------------------------------------------
(* The steps of the workload: each is one call of the writer.               *)

\* What the calls of a running workload have in common.  No call touches a step that
\* stays acknowledged, but to note something of it.
LEMMA CallKeepsInv ==
  ASSUME Inv, append, NEW s \in Steps, NEW kind \in Kinds \ {"junk"}, WriteStep(kind, s),
         step' \in [Steps -> {"todo", "running", "done"}], faults' \in 0 .. MaxFaults,
         ended \subseteq ended', ended' \subseteq Steps, kind = "endOK" => s \in ended',
         acked' \subseteq acked \cup {s},
         \A r \in Steps : r # s => step'[r] = step[r],
         s \in acked /\ s \in acked' => kind = "other" /\ step' = step,
         s \in acked' \ acked => step'[s] = "done" /\ Shown(s)',
         step'[s] = "running" => step[s] = "running" \/ kind = "begin"
  PROVE  Inv'
<1> USE DEF Inv
<1>1. TypeOK'
  <2>1. acked' \subseteq Steps /\ completed' \subseteq Steps /\ recovery' \in BOOLEAN
        /\ pc' \in {"down", "up", "refused"} /\ damaged' \in BOOLEAN
    BY DEF TypeOK, append, WriteStep
  <2> QED BY <2>1, WriteTypes DEF TypeOK
<1>2. NumbersTaken'
  BY WriteNumbers DEF NumbersTaken
<1>3. EndsHappened'
  BY WriteEnds
<1>4. SkippedWasDone'
  BY DEF SkippedWasDone, append
<1>5. WholeLog'
  BY WriteWhole
<1>6. NumbersKept' /\ RefusedMeansDamage'
  BY WriteKept DEF RefusedMeansDamage, append
<1>7. AckedShown'
  <2> SUFFICES ASSUME NEW r \in acked' PROVE Shown(r)'
    BY DEF AckedShown
  <2>1. CASE r \in acked
    <3>1. r \in Steps /\ Shown(r) /\ (r # s \/ kind = "other")
      BY <2>1 DEF TypeOK, AckedShown
    <3> QED BY <3>1, WriteShown
  <2>2. CASE r \notin acked
    BY <2>2
  <2> QED BY <2>1, <2>2
<1>8. AckedOver'
  <2> SUFFICES ASSUME NEW r \in acked'
               PROVE  /\ step'[r] # "running"
                      /\ pc' = "up" /\ recovery' => step'[r] = "done" \/ r \in completed'
    BY DEF AckedOver
  <2>1. CASE r \in acked
    BY <2>1 DEF AckedOver, append, TypeOK
  <2>2. CASE r \notin acked
    BY <2>2
  <2> QED BY <2>1, <2>2
<1>9. RunningBegun'
  <2> SUFFICES ASSUME NEW r \in Steps, step'[r] = "running"
               PROVE  pc' = "up" /\ BegunOrBroken(r)'
    BY DEF RunningBegun
  <2>1. CASE step[r] = "running"
    BY <2>1, WriteBegun DEF RunningBegun, append
  <2>2. CASE step[r] # "running"
    <3>1. r = s /\ kind = "begin"
      BY <2>2
    <3> QED BY <3>1, BeginShows DEF append
  <2> QED BY <2>1, <2>2
<1> QED BY <1>1, <1>2, <1>3, <1>4, <1>5, <1>6, <1>7, <1>8, <1>9

\* In recovery mode an acknowledged step is not begun again; without it, it no longer
\* counts as acknowledged.
LEMMA BeginKeepsInv ==
  ASSUME Inv, NEW s \in Steps, StepBegin(s)
  PROVE  Inv'
<1>1. append /\ step[s] = "todo" /\ ~(recovery /\ s \in completed) /\ UNCHANGED ended
      /\ acked' = IF recovery THEN acked ELSE acked \ {s}
  BY DEF StepBegin
<1>2. s \notin acked' /\ acked' \subseteq acked
  BY <1>1 DEF Inv, AckedOver, append
<1>3. TypeOK /\ step \in [Steps -> {"todo", "running", "done"}] /\ ended \subseteq Steps
      /\ faults \in 0 .. MaxFaults
  BY DEF Inv, TypeOK
<1>4. /\ (Logged("begin", s) /\ UNCHANGED damaged) \/ Fails("begin", s)
      /\ step' \in {step, [step EXCEPT ![s] = "running"]}
      /\ UNCHANGED faults \/ (faults < MaxFaults /\ faults' = faults + 1)
  BY DEF StepBegin, Succeeds, ReplyLost, Fails
<1>5. "begin" \in Kinds \ {"junk"} /\ "begin" \in Kinds
  BY DEF Kinds
<1>6. WriteStep("begin", s)
  BY <1>1, <1>3, <1>4, <1>5, WriteCases
<1>7. faults' \in 0 .. MaxFaults
  BY <1>3, <1>4, LogFaultsAssumption
<1>8. step' \in [Steps -> {"todo", "running", "done"}] /\ \A r \in Steps : r # s => step'[r] = step[r]
  BY <1>3, <1>4
<1> QED BY <1>1, <1>2, <1>3, <1>5, <1>6, <1>7, <1>8, CallKeepsInv

\* An end is acknowledged only once it is in the log, synced.
LEMMA EndKeepsInv ==
  ASSUME Inv, NEW s \in Steps, NEW kind \in {"endOK", "endError"}, StepEnd(s, kind)
  PROVE  Inv'
<1> DEFINE next == IF kind = "endOK" THEN "done" ELSE "todo"
<1>1. append /\ step[s] = "running" /\ ended' = IF kind = "endOK" THEN ended \cup {s} ELSE ended
  BY DEF StepEnd
<1>2. s \notin acked
  BY <1>1 DEF Inv, AckedOver
<1>3. TypeOK /\ step \in [Steps -> {"todo", "running", "done"}] /\ ended \subseteq Steps
      /\ faults \in 0 .. MaxFaults /\ NumbersTaken /\ BegunOrBroken(s)
  BY <1>1 DEF Inv, TypeOK, RunningBegun
<1>4. /\ (Logged(kind, s) /\ UNCHANGED damaged) \/ Fails(kind, s)
      /\ step' \in {step, [step EXCEPT ![s] = next]}
      /\ UNCHANGED faults \/ (faults < MaxFaults /\ faults' = faults + 1)
      /\ \/ UNCHANGED acked
         \/ /\ Logged(kind, s) /\ UNCHANGED damaged
            /\ step' = [step EXCEPT ![s] = next]
            /\ acked' = IF kind = "endOK" THEN acked \cup {s} ELSE acked
  BY DEF StepEnd, Succeeds, ReplyLost, Fails
<1>5. kind \in Kinds \ {"junk"} /\ kind \in Kinds /\ next \in {"todo", "done"}
  BY DEF Kinds
<1>6. WriteStep(kind, s)
  BY <1>1, <1>3, <1>4, <1>5, WriteCases
<1>7. faults' \in 0 .. MaxFaults
  BY <1>3, <1>4, LogFaultsAssumption
<1>8. step' \in [Steps -> {"todo", "running", "done"}] /\ \A r \in Steps : r # s => step'[r] = step[r]
  BY <1>3, <1>4, <1>5
<1>9. ASSUME s \in acked' \ acked PROVE step'[s] = "done" /\ Shown(s)'
  <2>1. kind = "endOK" /\ Logged(kind, s) /\ UNCHANGED damaged /\ step' = [step EXCEPT ![s] = next]
    BY <1>4, <1>9
  <2> QED BY <1>1, <1>3, <2>1, EndShows
<1>10. acked' \subseteq acked \cup {s} /\ ended \subseteq ended' /\ ended' \subseteq Steps
       /\ (kind = "endOK" => s \in ended')
  BY <1>1, <1>3, <1>4
<1> HIDE DEF next
<1> QED BY <1>1, <1>2, <1>5, <1>6, <1>7, <1>8, <1>9, <1>10, CallKeepsInv

\* A note says nothing of the end of a step.
LEMMA NoteKeepsInv ==
  ASSUME Inv, NEW s \in Steps, append, Succeeds("other", s) \/ Fails("other", s),
         UNCHANGED <<ended, acked>>,
         UNCHANGED step \/ (step[s] = "running" /\ step' = [step EXCEPT ![s] = "todo"])
  PROVE  Inv'
<1>1. TypeOK /\ step \in [Steps -> {"todo", "running", "done"}] /\ ended \subseteq Steps
      /\ faults \in 0 .. MaxFaults
  BY DEF Inv, TypeOK
<1>2. "other" \in Kinds \ {"junk"} /\ "other" \in Kinds
  BY DEF Kinds
<1>3. WriteStep("other", s)
  BY <1>1, <1>2, WriteCases DEF Succeeds
<1>4. faults' \in 0 .. MaxFaults
  BY <1>1, LogFaultsAssumption DEF Succeeds, Fails
<1>5. step' \in [Steps -> {"todo", "running", "done"}] /\ \A r \in Steps : r # s => step'[r] = step[r]
  BY <1>1
<1>6. s \in acked => step' = step
  BY DEF Inv, AckedOver
<1>7. step'[s] = "running" => step[s] = "running"
  BY <1>1
<1> QED BY <1>1, <1>2, <1>3, <1>4, <1>5, <1>6, <1>7, CallKeepsInv

\* A completed step is skipped.
LEMMA SkipKeepsInv ==
  ASSUME Inv, NEW s \in Steps, SkipStep(s)
  PROVE  Inv'
<1> USE DEF Inv, disk, history
<1>1. /\ UNCHANGED <<log, fileNum, pc, seq, recovery, completed, faults, ended, acked, damaged>>
      /\ pc = "up" /\ recovery /\ s \in completed /\ step' = [step EXCEPT ![s] = "done"]
  BY DEF SkipStep
<1>2. TypeOK'
  BY <1>1 DEF TypeOK
<1>3. NumbersTaken' /\ EndsHappened' /\ SkippedWasDone' /\ WholeLog' /\ NumbersKept'
      /\ RefusedMeansDamage'
  BY <1>1 DEF NumbersTaken, EndsHappened, SkippedWasDone, WholeLog, NumbersKept, RefusedMeansDamage
<1>4. AckedShown'
  BY <1>1 DEF AckedShown, Shown, ShowsDone
<1>5. step \in [Steps -> {"todo", "running", "done"}] /\ acked \subseteq Steps
  BY DEF TypeOK
<1>6. AckedOver'
  BY <1>1, <1>5 DEF AckedOver
<1>7. RunningBegun'
  BY <1>1, <1>5 DEF RunningBegun, BegunOrBroken
<1> QED BY <1>2, <1>3, <1>4, <1>6, <1>7

-----------------------------------------------------------------------------
(* Runners come and go.                                                     *)

\* A log without a gap ends with its length.
LEMMA LastNumber ==
  ASSUME log \in Seq(Lines), Continuous(log)
  PROVE  lastSeqInDir(log) = Len(log)
<1> DEFINE S == {0} \cup {log[i].seq : i \in DOMAIN log}
<1>1. Len(log) \in Nat /\ DOMAIN log = 1 .. Len(log) /\ \A i \in 1 .. Len(log) : log[i].seq = i
  BY DEF Continuous
<1>2. Len(log) \in S
  <2>1. CASE Len(log) = 0
    BY <2>1
  <2>2. CASE Len(log) # 0
    <3>1. Len(log) \in DOMAIN log /\ log[Len(log)].seq = Len(log)
      BY <1>1, <2>2
    <3> QED BY <3>1
  <2> QED BY <2>1, <2>2
<1>3. \A i \in DOMAIN log : log[i].seq <= Len(log)
  BY <1>1
<1>4. ASSUME NEW n \in S, \A i \in DOMAIN log : log[i].seq <= n
      PROVE  n = Len(log)
  <2>1. n \in Nat /\ n <= Len(log)
    BY <1>1
  <2>2. CASE Len(log) = 0
    BY <2>1, <2>2
  <2>3. CASE Len(log) # 0
    <3>1. Len(log) \in DOMAIN log /\ log[Len(log)].seq = Len(log)
      BY <1>1, <2>3
    <3>2. Len(log) <= n
      BY <1>4, <3>1
    <3>3. n \in Nat /\ Len(log) \in Nat /\ n <= Len(log)
      BY <1>1, <2>1
    <3> HIDE DEF S
    <3> QED BY <3>2, <3>3
  <2> QED BY <2>2, <2>3
<1> HIDE DEF S
<1>5. lastSeqInDir(log) = CHOOSE n \in S : \A i \in DOMAIN log : log[i].seq <= n
  BY DEF lastSeqInDir, S
<1> QED BY <1>2, <1>3, <1>4, <1>5

\* A log without junk has a largest number, which is at least its length.
LEMMA LastNumberBound ==
  ASSUME log \in Seq(Lines), readWALFile(log), NumbersKept
  PROVE  lastSeqInDir(log) \in Nat /\ lastSeqInDir(log) >= Len(log)
<1> DEFINE S == {0} \cup {log[i].seq : i \in DOMAIN log}
           P(n) == n \in S /\ \A i \in DOMAIN log : log[i].seq <= n
<1>1. /\ Len(log) \in Nat /\ DOMAIN log = 1 .. Len(log)
      /\ \A i \in 1 .. Len(log) : log[i].seq \in Nat /\ log[i].seq >= i
  <2>1. \A l \in Lines : l.seq \in Nat
    BY DEF Lines
  <2> QED BY <2>1 DEF NumbersKept, readWALFile
<1>2. \E n : P(n)
  <2>1. CASE Len(log) = 0
    <3>1. P(0)
      BY <1>1, <2>1
    <3> QED BY <3>1
  <2>2. CASE Len(log) # 0
    <3> DEFINE f == [i \in 1 .. Len(log) |-> log[i].seq]
    <3>1. f \in [1 .. Len(log) -> Nat]
      BY <1>1
    <3>2. PICK i \in 1 .. Len(log) : \A j \in 1 .. Len(log) : f[j] <= f[i]
      <4> HIDE DEF f
      <4> QED BY <1>1, <2>2, <3>1, LargestOf
    <3>3. P(log[i].seq)
      BY <1>1, <3>2
    <3> QED BY <3>3
  <2> QED BY <2>1, <2>2
<1>3. ASSUME NEW n, P(n) PROVE n \in Nat /\ n >= Len(log)
  <2>1. n \in Nat
    BY <1>1, <1>3
  <2>2. CASE Len(log) = 0
    BY <2>1, <2>2
  <2>3. CASE Len(log) # 0
    <3>1. Len(log) \in 1 .. Len(log)
      BY <1>1, <2>3
    <3>2. log[Len(log)].seq \in Nat /\ log[Len(log)].seq >= Len(log) /\ log[Len(log)].seq <= n
      BY <1>1, <1>3, <3>1
    <3> HIDE DEF P
    <3> QED BY <1>1, <2>1, <3>2
  <2> QED BY <2>2, <2>3
<1>4. lastSeqInDir(log) = CHOOSE n : P(n)
  BY DEF lastSeqInDir
<1> HIDE DEF P
<1> QED BY <1>2, <1>3, <1>4

\* A log that shows an acknowledged step and is readable shows it as completed.
LEMMA ShownIsCompleted ==
  ASSUME TypeOK, Readable(log), NEW s \in Steps, Shown(s)
  PROVE  s \in CompletedSteps(log)
<1>1. Len(log) \in Nat /\ DOMAIN log = 1 .. Len(log)
  BY DEF TypeOK
<1>2. PICK e \in 1 .. Len(log) :
         log[e].kind = "junk" \/ log[e].seq > e \/ (log[e].seq = e /\ ShowsDone(s, e))
  BY DEF Shown
<1>3. log[e].kind # "junk" /\ log[e].seq = e /\ e \in Nat
  BY <1>1 DEF Readable, readWALFile, Continuous
<1>4. ShowsDone(s, e)
  BY <1>2, <1>3
<1>5. PICK b \in 1 .. e - 1 : log[b].kind = "begin" /\ log[b].step = s
  BY <1>4 DEF ShowsDone
<1>6. b \in DOMAIN log /\ e \in DOMAIN log /\ b < e
  BY <1>1, <1>3
<1> QED BY <1>1, <1>4, <1>5, <1>6 DEF ShowsDone, CompletedSteps

\* A runner starts on a log it can read, or refuses it.
LEMMA NewRunnerKeepsInv ==
  ASSUME Inv, NewRunner
  PROVE  Inv'
<1> USE DEF Inv, history
<1>1. /\ UNCHANGED <<log, recovery, step, faults, ended, acked, damaged>> /\ pc = "down"
      /\ log \in Seq(Lines) /\ Len(log) \in Nat /\ DOMAIN log = 1 .. Len(log)
  BY DEF NewRunner, TypeOK
<1>2. \A s \in Steps : step[s] # "running"
  BY <1>1 DEF RunningBegun
<1>3. EndsHappened' /\ AckedShown' /\ RunningBegun' /\ NumbersKept'
  BY <1>1, <1>2 DEF EndsHappened, AckedShown, Shown, ShowsDone, RunningBegun, NumbersKept
<1>4. CASE ~(readWALFile(log) /\ (recovery => Readable(log)))
  <2>1. pc' = "refused" /\ UNCHANGED <<seq, fileNum, completed>>
    BY <1>4 DEF NewRunner
  <2>2. damaged
    <3>1. CASE ~damaged
      BY <1>1, <1>4, <3>1 DEF WholeLog, readWALFile, Readable, Continuous
    <3> QED BY <3>1
  <2>3. TypeOK'
    BY <1>1, <2>1 DEF TypeOK
  <2>4. NumbersTaken' /\ SkippedWasDone' /\ WholeLog' /\ AckedOver' /\ RefusedMeansDamage'
    BY <1>1, <2>1, <2>2 DEF NumbersTaken, SkippedWasDone, WholeLog, AckedOver, RefusedMeansDamage
  <2> QED BY <1>3, <2>3, <2>4
<1>5. CASE readWALFile(log) /\ (recovery => Readable(log))
  <2>1. /\ pc' = "up" /\ seq' = lastSeqInDir(log)
        /\ fileNum' = IF Full THEN fileNum + 1 ELSE fileNum
        /\ completed' = IF recovery THEN CompletedSteps(log) ELSE {}
    BY <1>5 DEF NewRunner, LastFile
  <2>2. seq' \in Nat /\ seq' >= Len(log)
    BY <1>1, <1>5, <2>1, LastNumberBound
  <2>3. ~damaged => seq' = Len(log)
    <3>1. ~damaged => Continuous(log)
      BY <1>1 DEF WholeLog, Continuous
    <3> QED BY <1>1, <2>1, <3>1, LastNumber
  <2>4. TypeOK'
    <3>1. fileNum' \in Nat /\ fileNum <= fileNum' /\ fileNum \in Nat
      BY <2>1 DEF TypeOK
    <3>2. \A i \in 1 .. Len(log) : log[i].file \in Nat /\ log[i].file <= fileNum
      <4>1. \A l \in Lines : l.file \in Nat
        BY DEF Lines
      <4>2. \A i \in 1 .. Len(log) : log[i] \in Lines /\ log[i].file <= fileNum
        BY <1>1 DEF TypeOK
      <4> QED BY <4>1, <4>2
    <3>3. \A i \in 1 .. Len(log) : log[i].file <= fileNum'
      BY <3>1, <3>2
    <3>4. completed' \subseteq Steps
      BY <2>1 DEF CompletedSteps
    <3> QED BY <1>1, <2>1, <2>2, <3>1, <3>3, <3>4 DEF TypeOK
  <2>5. NumbersTaken' /\ WholeLog' /\ RefusedMeansDamage'
    BY <1>1, <2>1, <2>2, <2>3 DEF NumbersTaken, WholeLog, RefusedMeansDamage
  <2>6. SkippedWasDone'
    <3>1. CompletedSteps(log) \subseteq ended
      BY <1>1 DEF CompletedSteps, EndsHappened
    <3> QED BY <1>1, <2>1, <3>1 DEF SkippedWasDone
  <2>7. AckedOver'
    <3> SUFFICES ASSUME NEW s \in acked
                 PROVE  step[s] # "running" /\ (recovery => s \in completed')
      BY <1>1 DEF AckedOver
    <3>1. s \in Steps /\ Shown(s)
      BY DEF TypeOK, AckedShown
    <3> QED BY <1>2, <1>5, <2>1, <3>1, ShownIsCompleted
  <2> QED BY <1>3, <2>4, <2>5, <2>6, <2>7
<1> QED BY <1>4, <1>5

\* A runner is gone: the next one reads the log that is left, here one that has the
\* same lines or those a crash left.
LEMMA GoneKeepsInv ==
  ASSUME Inv, NextRunner, log' \in Seq(Lines), Len(log') <= Len(log),
         UNCHANGED <<fileNum, ended, acked>>, faults' \in 0 .. MaxFaults,
         damaged' \in BOOLEAN, damaged => damaged',
         \A i \in 1 .. Len(log') : \E h \in 1 .. Len(log) :
            /\ log'[i].file = log[h].file
            /\ log'[i].kind = "endOK" => log[h].kind = "endOK" /\ log'[i].step = log[h].step
            /\ i <= h /\ (log'[i].kind # "junk" => log[h].kind # "junk" /\ log'[i].seq = log[h].seq),
         ~damaged' => \A i \in 1 .. Len(log') : SameLine(log[i], log'[i]),
         \A s \in acked : Shown(s)'
  PROVE  Inv'
<1> USE DEF Inv
<1>1. /\ pc' = "down" /\ seq' = 0 /\ completed' = {} /\ recovery' \in BOOLEAN
      /\ step' = [s \in Steps |-> "todo"]
  BY DEF NextRunner
<1>2. Len(log) \in Nat /\ Len(log') \in Nat /\ Len(log) <= MaxLines
  BY DEF TypeOK
<1>3. TypeOK'
  <2>1. \A i \in 1 .. Len(log') : log'[i].file <= fileNum'
    BY DEF TypeOK
  <2>2. Len(log') <= MaxLines
    BY <1>2, LinesAssumption
  <2> QED BY <1>1, <2>1, <2>2 DEF TypeOK
<1>4. NumbersTaken' /\ SkippedWasDone' /\ RefusedMeansDamage' /\ RunningBegun'
  BY <1>1 DEF NumbersTaken, SkippedWasDone, RefusedMeansDamage, RunningBegun
<1>5. EndsHappened' /\ NumbersKept'
  <2>1. EndsHappened'
    BY DEF EndsHappened
  <2>2. ASSUME NEW i \in 1 .. Len(log'), log'[i].kind # "junk" PROVE log'[i].seq >= i
    <3>1. PICK h \in 1 .. Len(log) :
            i <= h /\ log[h].kind # "junk" /\ log'[i].seq = log[h].seq
      BY <2>2
    <3>2. log[h].seq >= h /\ log[h] \in Lines
      BY <3>1 DEF NumbersKept, TypeOK
    <3>3. log[h].seq \in Nat
      BY <3>2 DEF Lines
    <3> QED BY <1>2, <3>1, <3>2, <3>3
  <2> QED BY <2>1, <2>2 DEF NumbersKept
<1>6. WholeLog'
  <2> SUFFICES ASSUME ~damaged' PROVE WholeLog'
    BY DEF WholeLog
  <2>1. \A i \in 1 .. Len(log') : i \in 1 .. Len(log)
    BY <1>2
  <2>2. \A i \in 1 .. Len(log') : SameLine(log[i], log'[i])
    OBVIOUS
  <2>3. \A i \in 1 .. Len(log) : log[i].kind # "junk" /\ log[i].newline /\ log[i].seq = i
    BY DEF WholeLog
  <2> QED BY <1>1, <2>1, <2>2, <2>3 DEF WholeLog, SameLine
<1>7. AckedShown' /\ AckedOver'
  <2>1. acked \subseteq Steps
    BY DEF TypeOK
  <2> QED BY <1>1, <2>1 DEF AckedShown, AckedOver
<1> QED BY <1>3, <1>4, <1>5, <1>6, <1>7

\* More synced lines show no less.
LEMMA RefreshedShown ==
  ASSUME Refreshed(log, log'), NEW s, Shown(s)
  PROVE  Shown(s)'
<1>1. PICK e \in 1 .. Len(log) :
         /\ log[e].synced
         /\ log[e].kind = "junk" \/ log[e].seq > e \/ (log[e].seq = e /\ ShowsDone(s, e))
  BY DEF Shown
<1>2. Len(log') = Len(log) /\ \A i \in 1 .. Len(log) : SameLine(log[i], log'[i])
  BY DEF Refreshed
<1>3. e \in 1 .. Len(log') /\ log'[e].synced /\ log'[e].kind = log[e].kind /\ log'[e].seq = log[e].seq
  BY <1>1, <1>2 DEF SameLine
<1>4. ASSUME ShowsDone(s, e) PROVE ShowsDone(s, e)'
  <2>1. PICK b \in 1 .. e - 1 : log[b].kind = "begin" /\ log[b].step = s
    BY <1>4 DEF ShowsDone
  <2>2. b \in 1 .. Len(log)
    <3>1. log' \in Seq(Lines) /\ Len(log') \in Nat
      BY DEF Refreshed
    <3> QED BY <1>2, <3>1
  <2> QED BY <1>2, <1>4, <2>1, <2>2 DEF ShowsDone, SameLine
<1> QED BY <1>1, <1>3, <1>4 DEF Shown

\* A runner is closed or killed.
LEMMA StopKeepsInv ==
  ASSUME Inv, Close \/ Kill
  PROVE  Inv'
<1>1. log \in Seq(Lines) /\ faults \in 0 .. MaxFaults /\ damaged \in BOOLEAN
  BY DEF Inv, TypeOK
<1>2. NextRunner /\ UNCHANGED <<fileNum, ended, acked, damaged>> /\ faults' \in 0 .. MaxFaults
  BY <1>1, LogFaultsAssumption DEF Close, Kill, disk, history
<1>3. Refreshed(log, log')
  <2>1. CASE Close
    BY <1>1, <2>1, SyncedLemma DEF Close
  <2>2. CASE Kill
    BY <1>1, <2>2 DEF Kill, disk, Refreshed, SameLine
  <2> QED BY <2>1, <2>2
<1>4. \A s \in acked : Shown(s)'
  BY <1>3, RefreshedShown DEF Inv, AckedShown
<1>5. /\ log' \in Seq(Lines) /\ Len(log') = Len(log) /\ Len(log) \in Nat
      /\ \A i \in 1 .. Len(log') : SameLine(log[i], log'[i])
  BY <1>1, <1>3 DEF Refreshed
<1>6. Len(log') <= Len(log)
  BY <1>5
<1>7. \A i \in 1 .. Len(log') : \E h \in 1 .. Len(log) :
            /\ log'[i].file = log[h].file
            /\ log'[i].kind = "endOK" => log[h].kind = "endOK" /\ log'[i].step = log[h].step
            /\ i <= h /\ (log'[i].kind # "junk" => log[h].kind # "junk" /\ log'[i].seq = log[h].seq)
  BY <1>5 DEF SameLine
<1> QED BY <1>1, <1>2, <1>4, <1>5, <1>6, <1>7, GoneKeepsInv

\* What a crash leaves of a line: the line, or a part of it.
Left(l, m) ==
  /\ m.file = l.file /\ m.synced
  /\ \/ m.kind = "junk"
     \/ m.kind = l.kind /\ m.step = l.step /\ m.seq = l.seq

\* The lines K of a log, one of which may be damaged if it was not synced, show every
\* acknowledged step.
LEMMA CrashShown ==
  ASSUME log \in Seq(Lines), NEW K \in SUBSET (1 .. Len(log)),
         log' \in Seq(Lines), Len(log') = Cardinality(K),
         \A i \in K : Pos(K, i) \in 1 .. Len(log') /\ Left(log[i], log'[Pos(K, i)]),
         \A n \in 1 .. Len(log') : \E i \in K : Pos(K, i) = n,
         \A i \in 1 .. Len(log) : log[i].synced => i \in K,
         NEW s, Shown(s)
  PROVE  Shown(s)'
<1>1. PICK e \in 1 .. Len(log) :
         /\ log[e].synced
         /\ log[e].kind = "junk" \/ log[e].seq > e \/ (log[e].seq = e /\ ShowsDone(s, e))
  BY DEF Shown
<1>2. /\ Len(log) \in Nat /\ Len(log') \in Nat /\ e \in K /\ e \in Nat
      /\ log[e].seq \in Nat
  <2>1. \A l \in Lines : l.seq \in Nat
    BY DEF Lines
  <2>2. Len(log) \in Nat /\ Len(log') \in Nat /\ e \in Nat /\ log[e] \in Lines
    OBVIOUS
  <2> QED BY <1>1, <2>1, <2>2
<1> DEFINE p == Pos(K, e)
<1>3. p \in 1 .. Len(log') /\ Left(log[e], log'[p]) /\ p <= e /\ p \in Nat
  BY <1>2, PosType
<1>4. CASE log'[p].kind = "junk"
  BY <1>3, <1>4 DEF Shown, Left
<1>5. CASE log'[p].kind # "junk"
  <2>1. /\ log'[p].synced /\ log'[p].kind = log[e].kind /\ log'[p].step = log[e].step
        /\ log'[p].seq = log[e].seq
    BY <1>3, <1>5 DEF Left
  <2>2. CASE log[e].seq > p
    BY <1>3, <2>1, <2>2 DEF Shown
  <2>3. CASE ~(log[e].seq > p)
    <3>1. p = e /\ log[e].seq = e /\ ShowsDone(s, e)
      BY <1>1, <1>2, <1>3, <1>5, <2>1, <2>3
    <3>2. 1 .. e \subseteq K
      BY <1>2, <3>1, PosSame
    <3>3. ASSUME NEW i \in 1 .. e PROVE Pos(K, i) = i /\ Left(log[i], log'[i])
      <4>0. i \in 1 .. e /\ \A h \in 1 .. i : h \in 1 .. e
        BY <1>2
      <4>1. i \in K /\ 1 .. i \subseteq K
        BY <3>2, <4>0
      <4>2. Pos(K, i) = i
        BY <1>2, <4>1, PosSame
      <4> QED BY <4>1, <4>2
    <3>4. PICK b \in 1 .. e - 1 : log[b].kind = "begin" /\ log[b].step = s
      BY <3>1 DEF ShowsDone
    <3>5. b \in 1 .. e /\ b \in 1 .. Len(log') /\ e \in 1 .. Len(log')
      BY <1>2, <1>3, <3>1
    <3>6. Left(log[b], log'[b])
      BY <3>3, <3>5
    <3>7. CASE log'[b].kind = "junk"
      BY <3>5, <3>6, <3>7 DEF Left, Shown
    <3>8. CASE log'[b].kind # "junk"
      <4>1. log'[b].kind = "begin" /\ log'[b].step = s
        BY <3>4, <3>6, <3>8 DEF Left
      <4>2. ASSUME NEW n \in 1 .. Len(log'), n > e
            PROVE  log'[n].step # s \/ log'[n].kind \notin {"begin", "endOK", "endError"}
        <5>1. PICK i \in K : Pos(K, i) = n
          OBVIOUS
        <5>2. i \in Nat /\ i \in 1 .. Len(log) /\ n <= i
          BY <1>2, <5>1, PosType, LineNumbers
        <5>3. i > e
          BY <1>2, <4>2, <5>2
        <5>4. log[i].step # s \/ log[i].kind \notin {"begin", "endOK", "endError"}
          BY <3>1, <5>2, <5>3 DEF ShowsDone
        <5> QED BY <5>1, <5>4 DEF Left
      <4>3. ShowsDone(s, e)'
        BY <2>1, <3>1, <4>1, <4>2 DEF ShowsDone
      <4>4. log'[e].synced /\ log'[e].seq = e
        BY <2>1, <3>1
      <4> QED BY <3>5, <4>3, <4>4 DEF Shown
    <3> QED BY <3>7, <3>8
  <2> QED BY <2>2, <2>3
<1> QED BY <1>4, <1>5

\* The lines that a crash kept, some line of them damaged, keep Inv.
LEMMA LeftKeepsInv ==
  ASSUME Inv, NextRunner, UNCHANGED <<fileNum, ended, acked>>, faults' \in 0 .. MaxFaults,
         damaged' \in BOOLEAN, damaged => damaged',
         NEW K \in SUBSET (1 .. Len(log)), NEW lines \in Seq(Lines), Len(lines) = Len(log),
         log' = Remains(K, lines),
         \A i \in K : Left(log[i], [lines[i] EXCEPT !.synced = TRUE]),
         \A i \in 1 .. Len(log) : log[i].synced => i \in K,
         ~damaged' => lines = log /\ \A i \in K : 1 .. i \subseteq K
  PROVE  Inv'
<1>1. log \in Seq(Lines) /\ Len(log) \in Nat
  BY DEF Inv, TypeOK
<1>2. /\ log' \in Seq(Lines) /\ Len(log') = Cardinality(K) /\ Len(log') <= Len(log)
      /\ \A i \in K : /\ Pos(K, i) \in 1 .. Len(log')
                      /\ log'[Pos(K, i)] = [lines[i] EXCEPT !.synced = TRUE]
      /\ \A n \in 1 .. Len(log') : \E i \in K : Pos(K, i) = n
  BY RemainsLemma
<1>3. \A i \in K : Left(log[i], log'[Pos(K, i)])
  BY <1>2
<1>4. \A s \in acked : Shown(s)'
  BY <1>1, <1>2, <1>3, CrashShown DEF Inv, AckedShown
<1>5. ASSUME NEW n \in 1 .. Len(log')
      PROVE  \E h \in 1 .. Len(log) :
               /\ log'[n].file = log[h].file
               /\ log'[n].kind = "endOK" => log[h].kind = "endOK" /\ log'[n].step = log[h].step
               /\ n <= h
               /\ log'[n].kind # "junk" => log[h].kind # "junk" /\ log'[n].seq = log[h].seq
  <2>1. PICK h \in K : Pos(K, h) = n
    BY <1>2
  <2>2. h \in 1 .. Len(log) /\ Left(log[h], log'[n]) /\ n <= h
    BY <1>1, <1>3, <2>1, PosType
  <2> QED BY <2>2 DEF Left
<1>6. ASSUME ~damaged', NEW n \in 1 .. Len(log')
      PROVE  SameLine(log[n], log'[n])
  <2>1. PICK i \in K : Pos(K, i) = n
    BY <1>2
  <2>2. i = n
    BY <1>1, <1>6, <2>1, PosSame
  <2>3. log'[n] = [lines[n] EXCEPT !.synced = TRUE] /\ lines = log
    BY <1>2, <1>6, <2>1, <2>2
  <2>4. log[n] \in Lines
    BY <1>1, <2>1, <2>2
  <2>5. \A l \in Lines : SameLine(l, [l EXCEPT !.synced = TRUE])
    BY DEF SameLine, Lines
  <2> QED BY <2>3, <2>4, <2>5
<1> QED BY <1>2, <1>4, <1>5, <1>6, GoneKeepsInv

\* The machine crashes.
LEMMA CrashKeepsInv ==
  ASSUME Inv, Crash
  PROVE  Inv'
<1>1. /\ log \in Seq(Lines) /\ Len(log) \in Nat /\ DOMAIN log = 1 .. Len(log)
      /\ faults \in 0 .. MaxFaults /\ damaged \in BOOLEAN
  BY DEF Inv, TypeOK
<1>2. NextRunner /\ UNCHANGED <<fileNum, ended, acked>> /\ faults' \in 0 .. MaxFaults
  BY <1>1, LogFaultsAssumption DEF Crash
<1>3. ASSUME NEW K \in Kept
      PROVE  K \in SUBSET (1 .. Len(log)) /\ \A i \in 1 .. Len(log) : log[i].synced => i \in K
  BY <1>1 DEF Kept
<1>4. \A l \in Lines : /\ Left(l, [l EXCEPT !.synced = TRUE])
                       /\ Torn(l) \in Lines /\ Left(l, [Torn(l) EXCEPT !.synced = TRUE])
                       /\ [l EXCEPT !.newline = FALSE] \in Lines
                       /\ Left(l, [[l EXCEPT !.newline = FALSE] EXCEPT !.synced = TRUE])
  BY DEF Lines, Kinds, Torn, Left
<1>5. \A i \in 1 .. Len(log) : log[i] \in Lines
  BY <1>1
<1>6. ASSUME NEW K \in Kept, log' = Remains(K, log),
             damaged' = (damaged \/ \E i \in K : 1 .. i \ K # {})
      PROVE  Inv'
  <2>1. K \in SUBSET (1 .. Len(log)) /\ \A i \in 1 .. Len(log) : log[i].synced => i \in K
    BY <1>3
  <2>2. damaged' \in BOOLEAN /\ (damaged => damaged')
        /\ (~damaged' => \A i \in K : 1 .. i \subseteq K)
    BY <1>6
  <2>3. \A i \in K : Left(log[i], [log[i] EXCEPT !.synced = TRUE])
    BY <1>4, <1>5, <2>1
  <2> QED BY <1>1, <1>2, <1>6, <2>1, <2>2, <2>3, LeftKeepsInv
<1>7. ASSUME NEW K \in Kept, NEW i \in DOMAIN log \ K, K \cup {i} \in Kept,
             NEW l \in {Torn(log[i]), [log[i] EXCEPT !.newline = FALSE]},
             log' = Remains(K \cup {i}, [log EXCEPT ![i] = l]), damaged' = TRUE
      PROVE  Inv'
  <2> DEFINE J == K \cup {i}
             lines == [log EXCEPT ![i] = l]
  <2>1. J \in SUBSET (1 .. Len(log)) /\ \A h \in 1 .. Len(log) : log[h].synced => h \in J
    BY <1>3, <1>7
  <2>2. l \in Lines /\ Left(log[i], [l EXCEPT !.synced = TRUE]) /\ i \in 1 .. Len(log)
    BY <1>1, <1>4, <1>5
  <2>3. lines \in Seq(Lines) /\ Len(lines) = Len(log) /\ lines[i] = l
        /\ \A h \in 1 .. Len(log) : h # i => lines[h] = log[h]
    BY <1>1, <2>2
  <2>4. \A h \in J : Left(log[h], [lines[h] EXCEPT !.synced = TRUE])
    BY <1>4, <1>5, <2>1, <2>2, <2>3
  <2>5. log' = Remains(J, lines) /\ damaged' \in BOOLEAN /\ (damaged => damaged')
        /\ (~damaged' => lines = log /\ \A h \in J : 1 .. h \subseteq J)
    BY <1>7
  <2> HIDE DEF J, lines
  <2> QED BY <1>2, <2>1, <2>3, <2>4, <2>5, LeftKeepsInv
<1> QED BY <1>6, <1>7 DEF Crash

-----------------------------------------------------------------------------
(* The theorems.                                                            *)

\* Inv is inductive.
THEOREM Invariance == Spec => []Inv
<1>1. Init => Inv
  <2> SUFFICES ASSUME Init PROVE Inv
    OBVIOUS
  <2>1. log = <<>> /\ Len(log) = 0 /\ log \in Seq(Lines) /\ faults \in 0 .. MaxFaults
    BY LogFaultsAssumption DEF Init
  <2>2. TypeOK
    <3>1. Len(log) <= MaxLines /\ \A i \in 1 .. Len(log) : log[i].file <= fileNum
      BY <2>1, LinesAssumption
    <3> QED BY <2>1, <3>1 DEF Init, TypeOK
  <2> QED BY <2>1, <2>2
      DEF Init, Inv, NumbersTaken, EndsHappened, SkippedWasDone, WholeLog, NumbersKept,
          AckedShown, AckedOver, RunningBegun, RefusedMeansDamage
<1>2. Inv /\ [Next]_vars => Inv'
  <2> SUFFICES ASSUME Inv, [Next]_vars PROVE Inv'
    OBVIOUS
  <2>1. CASE NewRunner
    BY <2>1, NewRunnerKeepsInv
  <2>2. CASE JobCancelled
    BY <2>2, NoteKeepsInv DEF JobCancelled
  <2>3. CASE Close \/ Kill
    BY <2>3, StopKeepsInv
  <2>4. CASE Crash
    BY <2>4, CrashKeepsInv
  <2>5. ASSUME NEW s \in Steps, SkipStep(s) PROVE Inv'
    BY <2>5, SkipKeepsInv
  <2>6. ASSUME NEW s \in Steps, StepBegin(s) PROVE Inv'
    BY <2>6, BeginKeepsInv
  <2>7. ASSUME NEW s \in Steps, StepNote(s) PROVE Inv'
    BY <2>7, NoteKeepsInv DEF StepNote
  <2>8. ASSUME NEW s \in Steps, NEW kind \in {"endOK", "endError"}, StepEnd(s, kind) PROVE Inv'
    BY <2>8, EndKeepsInv
  <2>9. CASE UNCHANGED vars
    BY <2>9 DEF vars, disk, history, Inv, TypeOK, NumbersTaken, EndsHappened, SkippedWasDone,
                WholeLog, NumbersKept, AckedShown, Shown, ShowsDone, AckedOver, RunningBegun,
                BegunOrBroken, RefusedMeansDamage
  <2> QED BY <2>1, <2>2, <2>3, <2>4, <2>5, <2>6, <2>7, <2>8, <2>9 DEF Next
<1> QED BY <1>1, <1>2, PTL DEF Spec

\* The log stays a log: every line a record or junk of a file there is, within MaxLines.
THEOREM TypeCorrect == Spec => []TypeOK
<1>1. Inv => TypeOK
  BY DEF Inv
<1> QED BY <1>1, Invariance, PTL

\* A runner in recovery skips only what really ended with exit code 0, however the log
\* was cut before.
THEOREM SkipsAreTrue == Spec => []SkippedWasDone
<1>1. Inv => SkippedWasDone
  BY DEF Inv
<1> QED BY <1>1, Invariance, PTL

\* No acknowledged step runs again, after any kills, crashes and failed writes.
THEOREM Acknowledged == Spec => []AckedNeverRerun
<1>1. Inv => AckedNeverRerun
  BY DEF Inv, AckedOver, AckedNeverRerun
<1> QED BY <1>1, Invariance, PTL

\* NewRunner refuses only a log that was damaged.
THEOREM Refusals == Spec => []RefusedMeansDamage
<1>1. Inv => RefusedMeansDamage
  BY DEF Inv
<1> QED BY <1>1, Invariance, PTL

=============================================================================
