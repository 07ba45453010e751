--------------------------- MODULE Coverage_proofs --------------------------
(***************************************************************************)
(* Theorems about CoverageProvider, WorkerPool and ThreadedCoverage, for   *)
(* every finite set of items and of workers, every batch size and every    *)
(* bound on what happens around them.                                      *)
(***************************************************************************)
EXTENDS CoverageProvider, ThreadedCoverage, FiniteSetTheorems, TLAPS

\* What the provider holds and how far it skips ahead, in its proper place.
InPlace ==
  /\ pc \in {"idle", "looking"} => batch = {}
  /\ pc # "idle" /\ pass = 1 => offset = 0

LEMMA SubsetsOfItems ==
  ASSUME NEW S \in SUBSET Items
  PROVE  IsFiniteSet(S) /\ Cardinality(S) \in Nat
BY CoverageAssumption, FS_Subset, FS_CardinalityType

LEMMA NeedIsItems == \A p : NeedCoverage(p) \in SUBSET Items
BY DEF NeedCoverage

(* A batch is a set of items that need coverage.                           *)
LEMMA BatchNeeds ==
  ASSUME NEW need \in SUBSET Items, NEW b \in Batches(need)
  PROVE  b \subseteq need
BY DEF Batches, kSubset

(* The offset moves past the results that leave their item in the query.   *)
LEMMA OffsetMoves ==
  /\ OffsetIncrement = Cardinality({i \in batch : results[i] \in Results \ CountAsCovered(pass)})
  /\ pass = 1 => OffsetIncrement = 0
<1> DEFINE Left == {i \in batch : results[i] \in Results \ CountAsCovered(pass)}
<1>1. UNION {Outcome(kind) : kind \in Results \ CountAsCovered(pass)} = Left
  BY DEF Outcome
<1>2. pass = 1 => Left = {}
  BY DEF CountAsCovered, Results, Attempted
<1> QED
  BY <1>1, <1>2, FS_EmptySet DEF OffsetIncrement

-----------------------------------------------------------------------------
(* Type correctness of the provider and its records.                       *)
THEOREM TypeCorrect == Spec => []TypeOK
<1>1. ASSUME Init
      PROVE  TypeOK
  <2>1. /\ status \in [Items -> Statuses] /\ stale \subseteq Items /\ dirty \subseteq Items
        /\ batch \subseteq Items /\ due \subseteq Items /\ tried \subseteq Items
    BY <1>1 DEF Init
  <2>2. finish \in BOOLEAN /\ exception \in BOOLEAN
    BY <1>1 DEF Init
  <2>3. /\ pass \in {1, 2} /\ offset \in Nat /\ attempts \in Nat
        /\ outside \in 0..MaxOutside /\ deaths \in 0..MaxDeaths
    BY <1>1, CoverageAssumption DEF Init
  <2>5. setting \in Settings
    BY <1>1 DEF Init
  <2>4. pc = "idle" /\ results = <<>>
    BY <1>1 DEF Init
  <2> QED
    BY <2>1, <2>2, <2>3, <2>4, <2>5 DEF TypeOK
<1>2. ASSUME TypeOK, [Next]_coverageVars
      PROVE  TypeOK'
  <2> USE DEF TypeOK, records, progress, history, world
  <2>0. \A p : NeedCoverage(p) \subseteq Items
    BY NeedIsItems
  <2>1. CASE StartRun
    BY <1>2, <2>1, <2>0 DEF StartRun, BeginPass
  <2>2. CASE FindNothing
    BY <1>2, <2>2 DEF FindNothing
  <2>3. CASE FindBatch
    BY <1>2, <2>3, <2>0, BatchNeeds DEF FindBatch
  <2>4. CASE ProcessBatch
    BY <1>2, <2>4 DEF ProcessBatch
  <2>5. CASE Raise
    BY <1>2, <2>5 DEF Raise
  <2>6. CASE RecordResults
    <3>1. OffsetIncrement \in Nat
      BY <1>2, OffsetMoves, SubsetsOfItems
    <3>2. Cardinality(batch) \in Nat
      BY <1>2, SubsetsOfItems
    <3>3. status' \in [Items -> Statuses]
      BY <1>2, <2>6 DEF RecordResults, Results, Statuses
    <3> HIDE DEF OffsetIncrement
    <3> QED
      BY <1>2, <2>6, <3>1, <3>2, <3>3 DEF RecordResults
  <2>7. CASE NextPass
    BY <1>2, <2>7, <2>0 DEF NextPass, BeginPass
  <2>8. CASE EndRun
    BY <1>2, <2>8 DEF EndRun
  <2>9. ASSUME NEW i \in Items, ChangeItem(i) \/ RegisterItem(i) \/ EnsureCoverage(i)
        PROVE  TypeOK'
    <3>1. status' \in [Items -> Statuses] /\ stale' \subseteq Items /\ dirty' \subseteq Items
      BY <1>2, <2>9 DEF ChangeItem, RegisterItem, EnsureCoverage, Statuses, Results
    <3>2. outside' \in 0..MaxOutside
      BY <1>2, <2>9, CoverageAssumption DEF ChangeItem, RegisterItem, EnsureCoverage
    <3> QED
      BY <1>2, <2>9, <3>1, <3>2 DEF ChangeItem, RegisterItem, EnsureCoverage
  <2>10. CASE Die
    BY <1>2, <2>10, CoverageAssumption DEF Die
  <2>11. CASE UNCHANGED coverageVars
    BY <1>2, <2>11 DEF coverageVars
  <2> QED
    BY <1>2, <2>1, <2>2, <2>3, <2>4, <2>5, <2>6, <2>7, <2>8, <2>9, <2>10, <2>11 DEF Next, Step
<1> QED
  BY <1>1, <1>2, PTL DEF Spec

(* A batch is in hand only between FindBatch and RecordResults, and the    *)
(* first pass never skips an item.                                         *)
THEOREM FirstPassNeverSkips == Spec => []InPlace
<1>1. Init => InPlace
  BY DEF Init, InPlace
<1>2. ASSUME TypeOK, InPlace, [Next]_coverageVars
      PROVE  InPlace'
  <2> USE DEF InPlace, records, progress, history, world
  <2>1. CASE RecordResults
    <3>1. OffsetIncrement \in Nat
      BY <1>2, OffsetMoves, SubsetsOfItems DEF TypeOK
    <3> HIDE DEF OffsetIncrement
    <3> QED
      BY <1>2, <2>1, <3>1, OffsetMoves DEF RecordResults
  <2>2. CASE StartRun \/ NextPass
    BY <1>2, <2>2 DEF StartRun, NextPass, BeginPass
  <2>3. CASE FindNothing \/ FindBatch \/ ProcessBatch \/ Raise \/ EndRun
    BY <1>2, <2>3 DEF FindNothing, FindBatch, ProcessBatch, Raise, EndRun
  <2>4. ASSUME NEW i \in Items, ChangeItem(i) \/ RegisterItem(i) \/ EnsureCoverage(i)
        PROVE  InPlace'
    BY <1>2, <2>4 DEF ChangeItem, RegisterItem, EnsureCoverage
  <2>5. CASE Die \/ UNCHANGED coverageVars
    BY <1>2, <2>5 DEF Die, coverageVars
  <2> QED
    BY <1>2, <2>1, <2>2, <2>3, <2>4, <2>5 DEF Next, Step
<1> QED
  BY <1>1, <1>2, TypeCorrect, PTL DEF Spec

(* The first pass does not end, but by an exception, while an item that    *)
(* was never attempted remains.                                            *)
THEOREM FirstPassIsThorough == Spec => FirstPassLeavesNothingUnattempted
<1> DEFINE Thorough == (pass = 1 /\ ~finish /\ finish' /\ ~exception') => NeedCoverage(1) = {}
<1>1. ASSUME TypeOK, InPlace, [Next]_coverageVars
      PROVE  Thorough
  <2> USE DEF records, progress, history, world
  <2>1. CASE FindNothing
    <3>1. pass = 1 => Cardinality(NeedCoverage(1)) <= 0
      BY <1>1, <2>1 DEF FindNothing, InPlace
    <3>2. IsFiniteSet(NeedCoverage(1)) /\ Cardinality(NeedCoverage(1)) \in Nat
      BY NeedIsItems, SubsetsOfItems
    <3>3. Cardinality(NeedCoverage(1)) = 0 => NeedCoverage(1) = {}
      BY <3>2, FS_EmptySet
    <3> QED
      BY <3>1, <3>2, <3>3
  <2>2. CASE Raise
    BY <2>2 DEF Raise
  <2>3. CASE StartRun \/ NextPass
    BY <2>3 DEF StartRun, NextPass, BeginPass
  <2>4. CASE FindBatch \/ ProcessBatch \/ RecordResults \/ EndRun \/ Die \/ UNCHANGED coverageVars
    BY <2>4 DEF FindBatch, ProcessBatch, RecordResults, EndRun, Die, coverageVars
  <2>5. ASSUME NEW i \in Items, ChangeItem(i) \/ RegisterItem(i) \/ EnsureCoverage(i)
        PROVE  Thorough
    BY <2>5 DEF ChangeItem, RegisterItem, EnsureCoverage
  <2> QED
    BY <1>1, <2>1, <2>2, <2>3, <2>4, <2>5 DEF Next, Step
<1> QED
  BY <1>1, TypeCorrect, FirstPassNeverSkips, PTL DEF Spec, FirstPassLeavesNothingUnattempted
-----------------------------------------------------------------------------
(* The inductive invariant for AttemptsBounded: what was attempted, what   *)
(* is in hand and what is still ahead of the offset never exceed what the  *)
(* pass began with and what the application added to it.                   *)
Ahead == NeedCoverage(pass) \ batch

A == Cardinality(Ahead)           \* still ahead
B == Cardinality(due) + outside     \* the budget of the pass
C == Cardinality(batch)           \* in hand

Budget ==
  /\ attempts + C <= B
  /\ pc # "idle" => attempts + C + A - offset <= B

(* Adding an item to a finite set, or removing a batch from it.            *)
LEMMA CountUnion ==
  ASSUME NEW S \in SUBSET Items, NEW T \in SUBSET Items
  PROVE  Cardinality(S \cup T) <= Cardinality(S) + Cardinality(T)
<1>1. IsFiniteSet(S) /\ IsFiniteSet(T)
  BY SubsetsOfItems
<1>2. Cardinality(S \cup T) = Cardinality(S) + Cardinality(T) - Cardinality(S \cap T)
  BY <1>1, FS_Union
<1> QED
  BY <1>2, SubsetsOfItems

LEMMA CountSubset ==
  ASSUME NEW S \in SUBSET Items, NEW T \in SUBSET S
  PROVE  Cardinality(T) <= Cardinality(S)
BY SubsetsOfItems, FS_Subset

LEMMA CountSplit ==
  ASSUME NEW S \in SUBSET Items, NEW T \in SUBSET S
  PROVE  Cardinality(S) = Cardinality(T) + Cardinality(S \ T)
<1>1. IsFiniteSet(S) /\ IsFiniteSet(S \ T)
  BY SubsetsOfItems
<1>2. Cardinality(S \ T) = Cardinality(S) - Cardinality(S \cap T)
  BY <1>1, FS_Difference
<1>3. Cardinality(S \cap T) = Cardinality(T)
  <2>1. S \cap T = T
    OBVIOUS
  <2> QED
    BY <2>1
<1>4. Cardinality(S) \in Nat /\ Cardinality(T) \in Nat
  BY SubsetsOfItems
<1> QED
  BY <1>2, <1>3, <1>4

(* No two items have the same number of smaller ones before them.          *)
LEMMA RanksDiffer ==
  ASSUME NEW need \in SUBSET Items, NEW x \in need, NEW y \in need, x < y
  PROVE  Cardinality({j \in need : j < x}) # Cardinality({j \in need : j < y})
<1> DEFINE Below(z) == {j \in need : j < z}
<1>1. \A j \in need : j \in Nat
  BY CoverageAssumption
<1>2. Below(x) \subseteq Below(y) /\ x \in Below(y) /\ x \notin Below(x)
  BY <1>1
<1>3. IsFiniteSet(Below(y))
  BY SubsetsOfItems
<1> QED
  BY <1>2, <1>3, FS_Subset

(* Nor does a batch hold more items than the slice has places.             *)
LEMMA SliceFits ==
  ASSUME NEW need \in SUBSET Items, NEW low \in Nat, NEW size \in Nat
  PROVE  Cardinality({i \in need : /\ low <= Cardinality({j \in need : j < i})
                                   /\ Cardinality({j \in need : j < i}) < low + size}) <= size
<1> DEFINE rank(i) == Cardinality({j \in need : j < i})
           slice == {i \in need : low <= rank(i) /\ rank(i) < low + size}
           places == low .. (low + size - 1)
           f == [i \in slice |-> rank(i)]
<1>1. \A i \in need : rank(i) \in Nat /\ i \in Nat
  BY SubsetsOfItems, CoverageAssumption
<1>2. f \in [slice -> places]
  BY <1>1
<1>3. ASSUME NEW x \in slice, NEW y \in slice, f[x] = f[y]
      PROVE  x = y
  <2>1. ~(x < y) /\ ~(y < x)
    BY <1>3, RanksDiffer
  <2> QED
    BY <2>1, <1>1
<1>4. IsFiniteSet(places) /\ Cardinality(places) = size
  BY FS_Interval
<1>5. f \in Injection(slice, places)
  BY <1>2, <1>3 DEF Injection, IsInjective
<1> HIDE DEF slice, places, f
<1>6. Cardinality(slice) <= Cardinality(places)
  BY <1>4, <1>5, FS_Injection
<1> QED
  BY <1>4, <1>6 DEF slice

(* A query returns a batch no larger than what is left of it.              *)
LEMMA BatchFits ==
  ASSUME NEW need \in SUBSET Items, NEW b \in Batches(need),
         offset \in Nat, offset < Cardinality(need)
  PROVE  Cardinality(b) <= Cardinality(need) - offset
<1> DEFINE left == Cardinality(need) - offset
           size == Min({BatchSize, left})
<1>1. left \in Nat /\ BatchSize \in Nat
  BY SubsetsOfItems, CoverageAssumption
<1>2. size <= left /\ size \in Nat
  <2>1. \E x \in {BatchSize, left} : \A y \in {BatchSize, left} : x =< y
    BY <1>1
  <2>2. size \in {BatchSize, left} /\ \A y \in {BatchSize, left} : size =< y
    <3> HIDE DEF left
    <3> QED
      BY <2>1 DEF Min
  <2> QED
    BY <2>2, <1>1
<1>3. CASE setting.ordered
  <2>1. b = {i \in need : /\ offset <= Cardinality({j \in need : j < i})
                          /\ Cardinality({j \in need : j < i}) < offset + size}
    BY <1>3 DEF Batches
  <2> HIDE DEF size
  <2>2. Cardinality(b) <= size
    BY <2>1, <1>2, SliceFits
  <2>3. Cardinality(b) \in Nat
    BY SubsetsOfItems, BatchNeeds
  <2> QED
    BY <2>2, <2>3, <1>1, <1>2
<1>4. CASE ~setting.ordered
  <2>1. Cardinality(b) = size
    BY <1>4 DEF Batches, kSubset
  <2> QED
    BY <2>1, <1>2
<1> QED
  BY <1>3, <1>4

(* What the application does lengthens the query by one item at most.      *)
LEMMA OutsideAddsOne ==
  ASSUME TypeOK, NEW i \in Items, ChangeItem(i) \/ RegisterItem(i) \/ EnsureCoverage(i)
  PROVE  /\ Ahead' \subseteq Ahead \cup {i}
         /\ outside' = outside + 1
         /\ UNCHANGED <<pc, batch, attempts, offset, due>>
<1>1. /\ outside' = outside + 1
      /\ UNCHANGED <<pc, batch, attempts, offset, due, pass, setting>>
  BY DEF ChangeItem, RegisterItem, EnsureCoverage, progress, history
<1>2. \A j \in Items \ {i} : status'[j] = status[j] /\ (j \in stale' <=> j \in stale)
  BY DEF ChangeItem, RegisterItem, EnsureCoverage, TypeOK
<1>3. NeedCoverage(pass)' \subseteq NeedCoverage(pass) \cup {i}
  BY <1>1, <1>2 DEF NeedCoverage, CountAsCovered
<1> QED
  BY <1>1, <1>3 DEF Ahead

(* Recording a batch leaves in the query what the offset moves past.       *)
LEMMA RecordingMovesOn ==
  ASSUME TypeOK, RecordResults
  PROVE  Cardinality(NeedCoverage(pass)') <= Cardinality(Ahead) + OffsetIncrement
<1> DEFINE Left == {i \in batch : results[i] \in Results \ CountAsCovered(pass)}
<1>1. NeedCoverage(pass)' \subseteq Ahead \cup Left
  <2>1. \A i \in batch : results[i] \in Results /\ status'[i] = results[i] /\ i \notin stale'
    BY DEF TypeOK, RecordResults
  <2>2. \A i \in Items \ batch : status'[i] = status[i] /\ (i \in stale' <=> i \in stale)
    BY DEF TypeOK, RecordResults
  <2>3. pass' = pass /\ setting' = setting
    BY DEF RecordResults, world
  <2> QED
    BY <2>1, <2>2, <2>3 DEF NeedCoverage, Ahead, CountAsCovered
<1>2. Left \in SUBSET Items /\ Ahead \in SUBSET Items
  BY NeedIsItems DEF TypeOK, Ahead
<1>3. Cardinality(NeedCoverage(pass)') <= Cardinality(Ahead \cup Left)
  BY <1>1, <1>2, CountSubset
<1>4. Cardinality(Ahead \cup Left) <= Cardinality(Ahead) + Cardinality(Left)
  BY <1>2, CountUnion
<1>5. OffsetIncrement = Cardinality(Left)
  BY OffsetMoves
<1>6. NeedCoverage(pass)' \in SUBSET Items /\ Ahead \cup Left \in SUBSET Items
  BY <1>1, <1>2
<1>7. /\ Cardinality(NeedCoverage(pass)') \in Nat /\ Cardinality(Ahead \cup Left) \in Nat
      /\ Cardinality(Ahead) \in Nat /\ Cardinality(Left) \in Nat
  BY <1>2, <1>6, SubsetsOfItems
<1> HIDE DEF Left
<1> QED
  BY <1>3, <1>4, <1>5, <1>7

(* Whatever order the database returns items in, a pass attempts no more   *)
(* than it began with and the application added: no item is retried for    *)
(* ever.                                                                   *)
THEOREM PassIsBounded == Spec => []AttemptsBounded
<1>0. ASSUME TypeOK
      PROVE  B \in Nat /\ C \in Nat /\ A \in Nat /\ attempts \in Nat /\ offset \in Nat
  BY <1>0, SubsetsOfItems, NeedIsItems, CoverageAssumption DEF TypeOK, Ahead, A, B, C
<1>1. Init => Budget
  BY FS_EmptySet DEF Init, Budget, B, C
<1>2. ASSUME TypeOK, TypeOK', InPlace, InPlace', Budget, [Next]_coverageVars
      PROVE  Budget'
  <2> USE DEF records, progress, history, world
  <2>0. /\ B \in Nat /\ C \in Nat /\ A \in Nat /\ attempts \in Nat /\ offset \in Nat
        /\ B' \in Nat /\ C' \in Nat /\ A' \in Nat /\ attempts' \in Nat /\ offset' \in Nat
    <3>1. B \in Nat /\ C \in Nat /\ A \in Nat /\ attempts \in Nat /\ offset \in Nat
      BY <1>0, <1>2
    <3>2. Cardinality(due') \in Nat /\ C' \in Nat /\ A' \in Nat
      <4>1. due' \in SUBSET Items /\ batch' \in SUBSET Items /\ Ahead' \in SUBSET Items
        BY <1>2 DEF TypeOK, Ahead, NeedCoverage
      <4> QED
        BY <4>1, SubsetsOfItems DEF A, C
    <3>3. outside' \in Nat /\ attempts' \in Nat /\ offset' \in Nat
      BY <1>2, CoverageAssumption DEF TypeOK
    <3> QED
      BY <3>1, <3>2, <3>3 DEF B
  <2>1. CASE StartRun \/ NextPass
    <3>1. batch = {} /\ batch' = {} /\ attempts' = 0 /\ offset' = 0 /\ outside' = outside
      BY <1>2, <2>1 DEF StartRun, NextPass, BeginPass, InPlace
    <3>2. Ahead' = due'
      BY <2>1, <3>1 DEF StartRun, NextPass, BeginPass, Ahead, NeedCoverage, CountAsCovered
    <3>3. C' = 0
      BY <3>1, FS_EmptySet DEF C
    <3>4. outside' \in Nat /\ Cardinality(due') \in Nat
      BY <1>2, SubsetsOfItems, CoverageAssumption DEF TypeOK
    <3> QED
      BY <3>1, <3>2, <3>3, <3>4 DEF Budget, A, B
  <2>2. CASE FindNothing \/ ProcessBatch \/ UNCHANGED coverageVars
    <3>1. UNCHANGED <<setting, status, stale, pass, batch, attempts, offset, due, outside>>
          /\ (pc' # "idle" => pc # "idle")
      BY <2>2 DEF FindNothing, ProcessBatch, coverageVars
    <3>2. NeedCoverage(pass)' = NeedCoverage(pass)
      BY <3>1 DEF NeedCoverage, CountAsCovered
    <3> QED
      BY <1>2, <3>1, <3>2 DEF Budget, Ahead, A, B, C
  <2>3. CASE FindBatch
    <3> DEFINE need == NeedCoverage(pass)
    <3>1. /\ batch = {} /\ pc = "looking" /\ offset < Cardinality(need)
          /\ batch' \in Batches(need)
          /\ UNCHANGED <<setting, status, stale, pass, attempts, offset, due, outside>>
      BY <1>2, <2>3 DEF FindBatch, InPlace
    <3>2. need \in SUBSET Items /\ batch' \in SUBSET need /\ need' = need
      BY <3>1, NeedIsItems, BatchNeeds DEF NeedCoverage, CountAsCovered
    <3>3. Cardinality(batch') <= Cardinality(need) - offset
      BY <1>2, <3>1, <3>2, BatchFits DEF TypeOK
    <3>4. Cardinality(need) = Cardinality(batch') + Cardinality(need \ batch')
      BY <3>2, CountSplit
    <3>5. Ahead = need /\ Ahead' = need \ batch'
      BY <3>1, <3>2 DEF Ahead
    <3>6. C = 0
      BY <3>1, FS_EmptySet DEF C
    <3>7. attempts + Cardinality(need) - offset <= B
      BY <1>2, <2>0, <3>1, <3>5, <3>6 DEF Budget, A
    <3>8. B' = B
      BY <3>1 DEF B
    <3> HIDE DEF need
    <3> QED
      BY <2>0, <3>1, <3>3, <3>4, <3>5, <3>7, <3>8 DEF Budget, A, C
  <2>4. CASE Raise \/ Die \/ EndRun
    <3>1. batch' = {} /\ pc # "idle"
          /\ UNCHANGED <<setting, status, stale, pass, attempts, offset, due, outside>>
      BY <1>2, <2>4 DEF Raise, Die, EndRun, InPlace
    <3>2. Ahead' \subseteq Ahead \cup batch
      BY <3>1 DEF Ahead, NeedCoverage, CountAsCovered
    <3>3. Ahead \in SUBSET Items /\ batch \in SUBSET Items /\ Ahead \cup batch \in SUBSET Items
      BY <1>2, NeedIsItems DEF TypeOK, Ahead
    <3>4. A' <= Cardinality(Ahead \cup batch) /\ Cardinality(Ahead \cup batch) <= A + C
      BY <3>2, <3>3, CountSubset, CountUnion DEF A, C
    <3>5. C' = 0 /\ B' = B /\ attempts' = attempts /\ offset' = offset
      BY <3>1, FS_EmptySet DEF B, C
    <3>9. A' <= A + C
      <4>1. Cardinality(Ahead \cup batch) \in Nat
        BY <3>3, SubsetsOfItems
      <4> QED
        BY <2>0, <3>4, <4>1
    <3>6. attempts + C <= B /\ attempts + C + A - offset <= B
      BY <1>2, <3>1 DEF Budget
    <3>7. attempts' + C' <= B' /\ attempts' + C' + A' - offset' <= B'
      <4>1. PICK n, a, a1, b, c, o \in Nat :
              n = attempts /\ a = A /\ a1 = A' /\ b = B /\ c = C /\ o = offset
        BY <2>0
      <4>2. /\ n + c <= b => n + 0 <= b
            /\ a1 <= a + c /\ n + c + a - o <= b => n + 0 + a1 - o <= b
        OBVIOUS
      <4> QED
        BY <3>5, <3>6, <3>9, <4>1, <4>2
    <3> QED
      BY <3>7 DEF Budget
  <2>5. CASE RecordResults
    <3>1. batch' = {} /\ pc # "idle" /\ attempts' = attempts + C
          /\ offset' = offset + OffsetIncrement /\ due' = due /\ outside' = outside
      BY <2>5 DEF RecordResults, C
    <3>2. Ahead' = NeedCoverage(pass)'
      BY <3>1 DEF Ahead
    <3>3. A' <= A + OffsetIncrement
      BY <1>2, <2>5, <3>2, RecordingMovesOn DEF A
    <3>4. C' = 0 /\ B' = B
      BY <3>1, FS_EmptySet DEF B, C
    <3>5. attempts + C <= B /\ attempts + C + A - offset <= B
      BY <1>2, <3>1 DEF Budget
    <3>6. OffsetIncrement \in Nat
      BY <1>2, OffsetMoves, SubsetsOfItems DEF TypeOK
    <3>7. attempts' + C' <= B' /\ attempts' + C' + A' - offset' <= B'
      <4>1. PICK n, a, a1, b, c, o, k \in Nat :
              /\ n = attempts /\ a = A /\ a1 = A' /\ b = B /\ c = C /\ o = offset
              /\ k = OffsetIncrement
        BY <2>0, <3>6
      <4>2. /\ n + c <= b => (n + c) + 0 <= b
            /\ a1 <= a + k /\ n + c + a - o <= b => (n + c) + 0 + a1 - (o + k) <= b
        OBVIOUS
      <4> QED
        BY <3>1, <3>3, <3>4, <3>5, <4>1, <4>2
    <3> QED
      BY <3>7 DEF Budget
  <2>6. ASSUME NEW i \in Items, ChangeItem(i) \/ RegisterItem(i) \/ EnsureCoverage(i)
        PROVE  Budget'
    <3>1. /\ Ahead' \subseteq Ahead \cup {i} /\ outside' = outside + 1
          /\ UNCHANGED <<pc, batch, attempts, offset, due>>
      BY <1>2, <2>6, OutsideAddsOne
    <3>2. Ahead \in SUBSET Items /\ {i} \in SUBSET Items /\ Ahead \cup {i} \in SUBSET Items
      BY NeedIsItems DEF Ahead
    <3>3. A' <= Cardinality(Ahead \cup {i}) /\ Cardinality(Ahead \cup {i}) <= A + Cardinality({i})
      BY <3>1, <3>2, CountSubset, CountUnion DEF A
    <3>4. Cardinality({i}) = 1 /\ C' = C /\ B' = B + 1
      <4>1. outside \in Int /\ Cardinality(due) \in Nat
        BY <1>2, SubsetsOfItems DEF TypeOK
      <4>2. Cardinality({i}) = 1
        BY FS_Singleton
      <4>3. due' = due /\ batch' = batch /\ outside' = outside + 1
        BY <3>1
      <4>4. B' = Cardinality(due) + (outside + 1)
        BY <4>3 DEF B
      <4> QED
        BY <4>1, <4>2, <4>3, <4>4 DEF B, C
    <3>5. A' <= A + 1
      <4>1. Cardinality(Ahead \cup {i}) \in Nat
        BY <3>2, SubsetsOfItems
      <4> QED
        BY <2>0, <3>3, <3>4, <4>1
    <3>6. attempts + C <= B /\ (pc # "idle" => attempts + C + A - offset <= B)
      BY <1>2 DEF Budget
    <3>7. attempts' + C' <= B' /\ (pc' # "idle" => attempts' + C' + A' - offset' <= B')
      <4>1. PICK n, a, a1, b, c, o \in Nat :
              n = attempts /\ a = A /\ a1 = A' /\ b = B /\ c = C /\ o = offset
        BY <2>0
      <4>2. /\ n + c <= b => n + c <= b + 1
            /\ a1 <= a + 1 /\ n + c + a - o <= b => n + c + a1 - o <= b + 1
        OBVIOUS
      <4> QED
        BY <3>1, <3>3, <3>4, <3>5, <3>6, <4>1, <4>2
    <3> QED
      BY <3>7 DEF Budget
  <2> QED
    BY <1>2, <2>1, <2>2, <2>3, <2>4, <2>5, <2>6 DEF Next, Step
<1>3. ASSUME TypeOK, Budget
      PROVE  AttemptsBounded
  <2>1. attempts + C <= B
    BY <1>3 DEF Budget
  <2>2. attempts <= B
    BY <2>1, <1>0, <1>3
  <2> QED
    BY <2>2 DEF AttemptsBounded, B
<1> QED
  BY <1>1, <1>2, <1>3, TypeCorrect, FirstPassNeverSkips, PTL DEF Spec

-----------------------------------------------------------------------------
(***************************************************************************)
(* The pool of workers.                                                    *)
(***************************************************************************)
(* The jobs are handed out in the order they were put, each to one worker. *)
Taken == job_total - Len(queue)
Numbered ==
  /\ \A i \in 1..Len(queue) : queue[i] = Taken + i
  /\ \A w \in Workers : job[w] <= Taken /\ (job[w] = 0 <=> state[w] = "getting")
  /\ \A v, w \in Workers : v # w /\ job[v] # 0 => job[v] # job[w]
  /\ \A j \in failed : j <= Taken
  /\ \A w \in Workers : state[w] = "running" => job[w] \notin failed

(* Everything in PoolTypeOK but `unfinished`, which is typed by what it counts. *)
Typed ==
  /\ main \in {"putting", "joining", "done"}
  /\ job_total \in 0..MaxJobs
  /\ queue \in Seq(Nat) /\ Len(queue) <= job_total
  /\ error_count \in Nat
  /\ state \in [Workers -> WorkerStates]
  /\ job \in [Workers -> Nat]
  /\ read \in [Workers -> Nat]
  /\ failed \subseteq Nat \ {0} /\ IsFiniteSet(failed)

Busy   == {w \in Workers : state[w] # "getting"}
Erring == {w \in Workers : state[w] \in {"failing", "counting"}}

(* Each unfinished job is in the queue or in somebody's hands, and every   *)
(* worker that is still to count an error leaves room for it.              *)
Accounted ==
  /\ unfinished = Len(queue) + Cardinality(Busy)
  /\ error_count + Cardinality(Erring) <= Cardinality(failed)
  /\ \A w \in Workers : state[w] = "counting" =>
       read[w] + Cardinality(Erring) <= Cardinality(failed)
  /\ failed # {} => error_count > 0 \/ Erring # {}
  /\ main = "done" => unfinished = 0

IInv == Typed /\ Numbered /\ Accounted

LEMMA WorkersFinite ==
  ASSUME NEW S \in SUBSET Workers
  PROVE  IsFiniteSet(S) /\ Cardinality(S) \in Nat
BY WorkersAssumption, FS_Subset, FS_CardinalityType

LEMMA InitIInv == PoolInit => IInv
<1> SUFFICES ASSUME PoolInit PROVE IInv
  OBVIOUS
<1>1. Busy = {} /\ Erring = {} /\ failed = {}
  BY DEF PoolInit, Busy, Erring
<1>2. Typed
  BY WorkersAssumption, FS_EmptySet DEF PoolInit, Typed, WorkerStates
<1>3. Numbered
  BY DEF PoolInit, Numbered, Taken
<1>4. Accounted
  BY <1>1, FS_EmptySet DEF PoolInit, Accounted
<1> QED
  BY <1>2, <1>3, <1>4 DEF IInv

LEMMA TypedStep ==
  ASSUME IInv, [PoolNext]_poolVars
  PROVE  Typed'
<1> USE DEF IInv, Typed
<1>1. CASE Put
  BY <1>1, WorkersAssumption DEF Put
<1>2. CASE Join \/ Joined \/ UNCHANGED poolVars
  BY <1>2 DEF Join, Joined, poolVars
<1>3. ASSUME NEW w \in Workers, Get(w)
      PROVE  Typed'
  <2>1. queue # <<>> /\ Head(queue) \in Nat /\ queue' = Tail(queue)
    BY <1>3 DEF Get
  <2>2. queue' \in Seq(Nat) /\ Len(queue') = Len(queue) - 1
    BY <2>1
  <2> QED
    BY <1>3, <2>1, <2>2 DEF Get, WorkerStates
<1>4. ASSUME NEW w \in Workers, Succeed(w) \/ Load(w) \/ Store(w) \/ TaskDone(w)
      PROVE  Typed'
  <2>1. state' \in [Workers -> WorkerStates]
    BY <1>4 DEF Succeed, Load, Store, TaskDone, WorkerStates
  <2>2. /\ error_count' \in Nat /\ job' \in [Workers -> Nat] /\ read' \in [Workers -> Nat]
        /\ UNCHANGED <<main, job_total, queue, failed>>
    BY <1>4 DEF Succeed, Load, Store, TaskDone
  <2> QED
    BY <2>1, <2>2
<1>5. ASSUME NEW w \in Workers, Fail(w)
      PROVE  Typed'
  <2>1. job[w] # 0
    BY <1>5 DEF Fail, Numbered
  <2>2. IsFiniteSet(failed \cup {job[w]})
    BY FS_AddElement
  <2>3. failed' \subseteq Nat \ {0} /\ IsFiniteSet(failed')
    BY <1>5, <2>1, <2>2 DEF Fail
  <2>4. state' \in [Workers -> WorkerStates]
    BY <1>5 DEF Fail, WorkerStates
  <2> QED
    BY <1>5, <2>3, <2>4 DEF Fail
<1> QED
  BY <1>1, <1>2, <1>3, <1>4, <1>5 DEF PoolNext, Work

LEMMA NumberedStep ==
  ASSUME IInv, [PoolNext]_poolVars
  PROVE  Numbered'
<1> USE DEF IInv, Typed
<1>0. job_total \in Nat /\ Len(queue) \in Nat /\ Taken \in Nat
  BY DEF Taken
<1>1. CASE Put
  <2>1. Len(queue') = Len(queue) + 1 /\ Taken' = Taken /\ Taken + (Len(queue) + 1) = job_total + 1
    BY <1>1, <1>0 DEF Put, Taken
  <2>2. ASSUME NEW i \in 1..Len(queue') PROVE queue'[i] = Taken' + i
    <3>1. CASE i = Len(queue) + 1
      BY <3>1, <2>1, <1>0, <1>1 DEF Put
    <3>2. CASE i # Len(queue) + 1
      <4>1. i \in 1..Len(queue)
        BY <3>2, <2>1, <1>0
      <4>2. queue'[i] = queue[i]
        BY <4>1, <1>1 DEF Put
      <4> QED
        BY <4>1, <4>2, <2>1 DEF Numbered
    <3> QED
      BY <3>1, <3>2
  <2> QED
    BY <1>1, <2>1, <2>2 DEF Put, Numbered
<1>2. CASE Join \/ Joined \/ UNCHANGED poolVars
  BY <1>2 DEF Join, Joined, poolVars, Numbered, Taken
<1>3. ASSUME NEW w \in Workers, Get(w)
      PROVE  Numbered'
  <2>1. /\ queue # <<>> /\ Head(queue) = queue[1] /\ 1 \in 1..Len(queue)
        /\ Len(queue') = Len(queue) - 1
        /\ \A i \in 1..Len(queue') : i + 1 \in 1..Len(queue) /\ queue'[i] = queue[i + 1]
    BY <1>3 DEF Get
  <2>2. Head(queue) = Taken + 1
    BY <2>1 DEF Numbered
  <2>3. Taken' = Taken + 1
    BY <2>1, <1>0, <1>3 DEF Get, Taken
  <2>4. \A i \in 1..Len(queue') : queue'[i] = Taken' + i
    BY <2>1, <2>3, <1>0 DEF Numbered
  <2>5. job' = [job EXCEPT ![w] = Taken + 1] /\ failed' = failed
        /\ state' = [state EXCEPT ![w] = "running"]
    BY <1>3, <2>2 DEF Get
  <2>6. \A v \in Workers : job[v] \in Nat /\ job[v] <= Taken
    BY DEF Numbered
  <2>7. Taken + 1 \notin failed
    BY <1>0 DEF Numbered
  <2>8. \A v \in Workers : job'[v] <= Taken' /\ (job'[v] = 0 <=> state'[v] = "getting")
    BY <2>3, <2>5, <2>6, <1>0 DEF Numbered
  <2>9. \A u, v \in Workers : u # v /\ job'[u] # 0 => job'[u] # job'[v]
    <3>1. \A v \in Workers : job[v] # Taken + 1
      BY <2>6, <1>0
    <3> QED
      BY <2>5, <3>1 DEF Numbered
  <2>10. \A v \in Workers : state'[v] = "running" => job'[v] \notin failed'
    BY <2>5, <2>7 DEF Numbered
  <2>11. \A j \in failed' : j <= Taken'
    BY <2>3, <2>5, <1>0 DEF Numbered
  <2> QED
    BY <2>4, <2>8, <2>9, <2>10, <2>11 DEF Numbered
<1>4. ASSUME NEW w \in Workers, Succeed(w) \/ Load(w) \/ Store(w)
      PROVE  Numbered'
  BY <1>4, <1>0 DEF Succeed, Load, Store, Numbered, Taken, WorkerStates
<1>5. ASSUME NEW w \in Workers, TaskDone(w)
      PROVE  Numbered'
  <2>1. Taken' = Taken /\ queue' = queue /\ failed' = failed
        /\ job' = [job EXCEPT ![w] = 0] /\ state' = [state EXCEPT ![w] = "getting"]
    BY <1>5 DEF TaskDone, Taken
  <2> QED
    BY <2>1, <1>0 DEF Numbered
<1>6. ASSUME NEW w \in Workers, Fail(w)
      PROVE  Numbered'
  <2>1. Taken' = Taken /\ queue' = queue /\ failed' = failed \cup {job[w]} /\ job' = job
        /\ state' = [state EXCEPT ![w] = "failing"] /\ state[w] = "running"
    BY <1>6 DEF Fail, Taken
  <2>2. job[w] # 0 /\ job[w] <= Taken
    BY <2>1 DEF Numbered
  <2>3. \A v \in Workers : state'[v] = "running" => v # w /\ job[v] \notin failed /\ job[v] # job[w]
    BY <2>1, <2>2 DEF Numbered
  <2> QED
    BY <2>1, <2>2, <2>3, <1>0 DEF Numbered
<1> QED
  BY <1>1, <1>2, <1>3, <1>4, <1>5, <1>6 DEF PoolNext, Work
LEMMA AccountedStep ==
  ASSUME IInv, [PoolNext]_poolVars
  PROVE  Accounted'
<1> USE DEF IInv, Typed
<1>0. /\ Cardinality(Busy) \in Nat /\ Cardinality(Erring) \in Nat /\ Cardinality(failed) \in Nat
      /\ Len(queue) \in Nat /\ error_count \in Nat
      /\ IsFiniteSet(Busy) /\ IsFiniteSet(Erring) /\ IsFiniteSet(failed)
      /\ \A v \in Workers : read[v] \in Nat
  BY WorkersFinite, FS_CardinalityType DEF Busy, Erring
<1>1. CASE Put
  <2>1. Len(queue') = Len(queue) + 1 /\ Busy' = Busy /\ Erring' = Erring
    BY <1>1 DEF Put, Busy, Erring
  <2> QED
    BY <2>1, <1>0, <1>1 DEF Put, Accounted
<1>2. CASE Join \/ Joined \/ UNCHANGED poolVars
  <2>1. Busy' = Busy /\ Erring' = Erring
    BY <1>2 DEF Join, Joined, poolVars, Busy, Erring
  <2> QED
    BY <2>1, <1>2 DEF Join, Joined, poolVars, Accounted
<1>3. ASSUME NEW w \in Workers, Get(w)
      PROVE  Accounted'
  <2>1. Busy' = Busy \cup {w} /\ w \notin Busy /\ Erring' = Erring
    BY <1>3 DEF Get, Busy, Erring, WorkerStates
  <2>2. Cardinality(Busy') = Cardinality(Busy) + 1
    BY <2>1, <1>0, FS_AddElement
  <2>3. Len(queue) = Len(queue') + 1 /\ Len(queue') \in Nat
    BY <1>3, <1>0 DEF Get
  <2>4. unfinished' = Len(queue') + Cardinality(Busy')
    BY <2>2, <2>3, <1>0, <1>3 DEF Get, Accounted
  <2>5. /\ UNCHANGED <<main, unfinished, error_count, read, failed>>
        /\ \A v \in Workers : state'[v] = "counting" => state[v] = "counting"
    BY <1>3 DEF Get
  <2> QED
    BY <2>1, <2>4, <2>5 DEF Accounted
<1>4. ASSUME NEW w \in Workers, Succeed(w)
      PROVE  Accounted'
  <2>1. Busy' = Busy /\ Erring' = Erring
        /\ \A v \in Workers : state'[v] = "counting" => state[v] = "counting"
    BY <1>4 DEF Succeed, Busy, Erring, WorkerStates
  <2> QED
    BY <2>1, <1>4 DEF Succeed, Accounted
<1>5. ASSUME NEW w \in Workers, Fail(w)
      PROVE  Accounted'
  <2>1. Busy' = Busy /\ Erring' = Erring \cup {w} /\ w \notin Erring
        /\ \A v \in Workers : state'[v] = "counting" => state[v] = "counting"
    BY <1>5 DEF Fail, Busy, Erring, WorkerStates
  <2>2. failed' = failed \cup {job[w]} /\ job[w] \notin failed
    BY <1>5 DEF Fail, Numbered
  <2>3. Cardinality(Erring') = Cardinality(Erring) + 1
    BY <2>1, <1>0, FS_AddElement
  <2>4. Cardinality(failed') = Cardinality(failed) + 1
    BY <2>2, <1>0, FS_AddElement
  <2>5. UNCHANGED <<main, unfinished, queue, error_count, read>>
    BY <1>5 DEF Fail
  <2>6. error_count' + Cardinality(Erring') <= Cardinality(failed')
    <3>1. error_count + Cardinality(Erring) <= Cardinality(failed) /\ error_count' = error_count
      BY <2>5 DEF Accounted
    <3> HIDE DEF IInv, Typed
    <3> QED
      BY <2>3, <2>4, <3>1, <1>0
  <2>7. \A v \in Workers : state'[v] = "counting" =>
          read'[v] + Cardinality(Erring') <= Cardinality(failed')
    <3> SUFFICES ASSUME NEW v \in Workers, state'[v] = "counting"
                 PROVE  read'[v] + Cardinality(Erring') <= Cardinality(failed')
      OBVIOUS
    <3>1. read[v] + Cardinality(Erring) <= Cardinality(failed) /\ read'[v] = read[v] /\ read[v] \in Nat
      BY <2>1, <2>5, <1>0 DEF Accounted
    <3> HIDE DEF IInv, Typed
    <3> QED
      BY <2>3, <2>4, <3>1, <1>0
  <2> QED
    BY <2>1, <2>5, <2>6, <2>7 DEF Accounted
<1>6. ASSUME NEW w \in Workers, Load(w)
      PROVE  Accounted'
  <2>1. Busy' = Busy /\ Erring' = Erring
        /\ \A v \in Workers \ {w} : state'[v] = state[v] /\ read'[v] = read[v]
    BY <1>6 DEF Load, Busy, Erring, WorkerStates
  <2>2. UNCHANGED <<main, unfinished, queue, error_count, failed>> /\ read'[w] = error_count
    BY <1>6 DEF Load
  <2> QED
    BY <2>1, <2>2, <1>0 DEF Accounted
<1>7. ASSUME NEW w \in Workers, Store(w)
      PROVE  Accounted'
  <2>1. Busy' = Busy /\ Erring' = Erring \ {w} /\ w \in Erring
        /\ \A v \in Workers : state'[v] = "counting" => v # w /\ state[v] = "counting"
    BY <1>7 DEF Store, Busy, Erring, WorkerStates
  <2>2. UNCHANGED <<main, unfinished, queue, failed>> /\ error_count' = read[w] + 1
        /\ state[w] = "counting" /\ \A v \in Workers \ {w} : read'[v] = read[v]
    BY <1>7 DEF Store
  <2>3. Cardinality(Erring) = Cardinality(Erring') + 1 /\ Cardinality(Erring') \in Nat
    <3>1. Cardinality(Erring') = Cardinality(Erring) - 1 /\ IsFiniteSet(Erring')
      BY <2>1, <1>0, FS_RemoveElement
    <3>2. Cardinality(Erring') \in Nat
      BY <3>1, FS_CardinalityType
    <3> QED
      BY <3>1, <3>2, <1>0
  <2>4. error_count' + Cardinality(Erring') <= Cardinality(failed')
    BY <2>2, <2>3, <1>0 DEF Accounted
  <2>5. \A v \in Workers : state'[v] = "counting" =>
          read'[v] + Cardinality(Erring') <= Cardinality(failed')
    <3> SUFFICES ASSUME NEW v \in Workers, state'[v] = "counting"
                 PROVE  read'[v] + Cardinality(Erring') <= Cardinality(failed')
      OBVIOUS
    <3>1. state[v] = "counting" /\ read'[v] = read[v] /\ read[v] \in Nat
      BY <2>1, <2>2, <1>0
    <3>2. read[v] + Cardinality(Erring) <= Cardinality(failed)
      BY <3>1 DEF Accounted
    <3>3. failed' = failed
      BY <2>2
    <3> QED
      BY <3>1, <3>2, <3>3, <2>3, <1>0
  <2>6. error_count' > 0
    BY <2>2, <1>0
  <2> QED
    BY <2>1, <2>2, <2>4, <2>5, <2>6 DEF Accounted
<1>8. ASSUME NEW w \in Workers, TaskDone(w)
      PROVE  Accounted'
  <2>1. Busy' = Busy \ {w} /\ w \in Busy /\ Erring' = Erring
        /\ \A v \in Workers : state'[v] = "counting" => state[v] = "counting"
    BY <1>8 DEF TaskDone, Busy, Erring, WorkerStates
  <2>2. UNCHANGED <<main, queue, error_count, read, failed>> /\ unfinished' = unfinished - 1
    BY <1>8 DEF TaskDone
  <2>3. Cardinality(Busy') = Cardinality(Busy) - 1 /\ Cardinality(Busy) > 0
    <3>1. Cardinality(Busy') = Cardinality(Busy) - 1
      BY <2>1, <1>0, FS_RemoveElement
    <3>2. Busy # {}
      BY <2>1
    <3> QED
      BY <3>1, <3>2, <1>0, FS_EmptySet
  <2>4. unfinished' = Len(queue') + Cardinality(Busy')
    BY <2>2, <2>3, <1>0 DEF Accounted
  <2>5. main # "done"
    BY <2>3, <1>0 DEF Accounted
  <2> QED
    BY <2>1, <2>2, <2>4, <2>5 DEF Accounted
<1> QED
  BY <1>1, <1>2, <1>3, <1>4, <1>5, <1>6, <1>7, <1>8 DEF PoolNext, Work

LEMMA Invariance == PoolBehaves => []IInv
<1>1. IInv /\ [PoolNext]_poolVars => IInv'
  <2>1. ASSUME IInv, [PoolNext]_poolVars
        PROVE  Typed' /\ Numbered' /\ Accounted'
    BY <2>1, TypedStep, NumberedStep, AccountedStep
  <2> QED
    BY <2>1 DEF IInv
<1> QED
  BY <1>1, InitIInv, PTL DEF PoolBehaves

-----------------------------------------------------------------------------
(* The pool's counters, its queue and its workers stay well-formed.        *)
THEOREM PoolTypeCorrect == PoolBehaves => []PoolTypeOK
<1>1. ASSUME IInv
      PROVE  PoolTypeOK
  <2> USE <1>1 DEF IInv, Typed
  <2>1. job_total \in Nat /\ Len(queue) \in Nat /\ Taken \in Nat /\ Taken <= job_total
    BY WorkersAssumption DEF Taken
  <2>2. queue \in Seq(1..job_total)
    <3>1. \A i \in 1..Len(queue) : queue[i] \in 1..job_total
      <4>1. \A i \in 1..Len(queue) : queue[i] = Taken + i
        BY DEF Numbered
      <4> QED
        BY <4>1, <2>1 DEF Taken
    <3> QED
      BY <3>1
  <2>3. job \in [Workers -> 0..job_total]
    <3>1. \A w \in Workers : job[w] \in 0..job_total
      BY <2>1 DEF Numbered
    <3> QED
      BY <3>1
  <2>4. failed \subseteq 1..job_total
    BY <2>1 DEF Numbered
  <2>5. unfinished \in Nat
    <3>1. Cardinality(Busy) \in Nat
      BY WorkersFinite DEF Busy
    <3> QED
      BY <3>1, <2>1 DEF Accounted
  <2> QED
    BY <2>2, <2>3, <2>4, <2>5 DEF PoolTypeOK
<1> QED
  BY <1>1, Invariance, PTL

(* The `with` block of a pool is left only when all its jobs are over.     *)
THEOREM JoinIsABarrier == PoolBehaves => []JoinWaits
<1>1. ASSUME IInv
      PROVE  JoinWaits
  <2> SUFFICES ASSUME main = "done"
               PROVE  queue = <<>> /\ \A w \in Workers : state[w] = "getting"
    BY DEF JoinWaits
  <2>1. Len(queue) \in Nat /\ Cardinality(Busy) \in Nat /\ IsFiniteSet(Busy)
    BY <1>1, WorkersFinite DEF IInv, Typed, Busy
  <2>2. Len(queue) + Cardinality(Busy) = 0
    BY <1>1 DEF IInv, Accounted
  <2>3. Len(queue) = 0 /\ Cardinality(Busy) = 0
    BY <2>1, <2>2
  <2>4. Busy = {}
    BY <2>1, <2>3, FS_EmptySet
  <2>5. queue = <<>>
    BY <1>1, <2>3 DEF IInv, Typed
  <2> QED
    BY <2>4, <2>5 DEF Busy
<1> QED
  BY <1>1, Invariance, PTL

(* Racing workers may lose errors, but neither invent one nor lose all.    *)
THEOREM ErrorsAreNoticed == PoolBehaves => []SomeErrorsCounted
<1>1. ASSUME IInv, JoinWaits
      PROVE  SomeErrorsCounted
  <2>1. Cardinality(Erring) \in Nat /\ Cardinality(failed) \in Nat /\ error_count \in Nat
    BY <1>1, WorkersFinite, FS_CardinalityType DEF IInv, Typed, Erring
  <2>2. error_count <= Cardinality(failed)
    BY <1>1, <2>1 DEF IInv, Accounted
  <2>3. main = "done" => Erring = {}
    BY <1>1 DEF JoinWaits, Erring
  <2> QED
    BY <1>1, <2>2, <2>3 DEF IInv, Accounted, SomeErrorsCounted
<1> QED
  BY <1>1, Invariance, JoinIsABarrier, PTL

-----------------------------------------------------------------------------
(***************************************************************************)
(* The threaded script uses its pool as a pool: all of this holds of it.   *)
(***************************************************************************)
(* A step of the script is, to the pool, one of its own steps or none.     *)
LEMMA StepsOfThePool ==
  ASSUME [ThreadedNext]_<<poolVars, threadVars>>
  PROVE  [PoolNext]_poolVars
<1>1. CASE CountItems
  BY <1>1 DEF CountItems, poolVars
<1>2. CASE PutJob \/ JoinAll \/ AllJoined
  BY <1>2 DEF PutJob, JoinAll, AllJoined, PoolNext
<1>3. ASSUME NEW w \in Workers, Idle(w)
      PROVE  [PoolNext]_poolVars
  BY <1>3 DEF Idle, PoolNext, Work
<1>4. ASSUME NEW w \in Workers, ReadBatch(w)
      PROVE  [PoolNext]_poolVars
  BY <1>4 DEF ReadBatch, poolVars
<1>5. ASSUME NEW w \in Workers, RecordBatch(w) \/ JobRaises(w)
      PROVE  [PoolNext]_poolVars
  BY <1>5 DEF RecordBatch, JobRaises, PoolNext, Work
<1>6. CASE UNCHANGED <<poolVars, threadVars>>
  BY <1>6
<1> QED
  BY <1>1, <1>2, <1>3, <1>4, <1>5, <1>6 DEF ThreadedNext

(* Whatever jobs the script makes, its threads do what a pool's threads do: each of *)
(* their steps is made of one of the pool's.                                       *)
LEMMA ScriptUsesPool == ThreadedSpec => PoolBehaves
<1>1. ThreadedInit => PoolInit
  BY DEF ThreadedInit
<1>2. [ThreadedNext]_<<poolVars, threadVars>> => [PoolNext]_poolVars
  BY StepsOfThePool
<1> QED
  BY <1>1, <1>2, PTL DEF ThreadedSpec, PoolBehaves

(* When the script has left its pool no worker is at work.                 *)
THEOREM ScriptJoins == ThreadedSpec => []JoinWaits
BY ScriptUsesPool, JoinIsABarrier, PTL

(* Once it has left, no coverage record is written any more.               *)
THEOREM NothingIsLate == ThreadedSpec => NothingRecordedAfterwards
<1>1. ASSUME PoolTypeOK, JoinWaits, [ThreadedNext]_<<poolVars, threadVars>>
      PROVE  main = "done" => UNCHANGED <<covered, attempted>>
  <2> SUFFICES ASSUME main = "done"
               PROVE  UNCHANGED <<covered, attempted>>
    OBVIOUS
  <2>1. \A w \in Workers : state[w] = "getting"
    BY <1>1 DEF JoinWaits
  <2>2. ASSUME NEW w \in Workers
        PROVE  ~Succeed(w) /\ ~Fail(w)
    BY <2>1, <2>2 DEF Succeed, Fail
  <2>3. CASE CountItems \/ PutJob \/ JoinAll \/ AllJoined
    BY <2>3 DEF CountItems, PutJob, JoinAll, AllJoined, threadVars
  <2>4. ASSUME NEW w \in Workers, Idle(w) \/ ReadBatch(w)
        PROVE  UNCHANGED <<covered, attempted>>
    BY <2>4 DEF Idle, ReadBatch, threadVars
  <2>5. ASSUME NEW w \in Workers, RecordBatch(w) \/ JobRaises(w)
        PROVE  FALSE
    BY <2>5, <2>2 DEF RecordBatch, JobRaises
  <2>6. CASE UNCHANGED <<poolVars, threadVars>>
    BY <2>6 DEF threadVars
  <2> QED
    BY <1>1, <2>3, <2>4, <2>5, <2>6 DEF ThreadedNext
<1> QED
  BY <1>1, ScriptUsesPool, PoolTypeCorrect, JoinIsABarrier, PTL
  DEF ThreadedSpec, NothingRecordedAfterwards
=============================================================================
