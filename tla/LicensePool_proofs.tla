------------------------- MODULE LicensePool_proofs -------------------------
(***************************************************************************)
(* Theorems about LicensePool and DistributorFeed, for every set of reports, *)
(* events and bounds the constants allow.                                  *)
(***************************************************************************)
EXTENDS DistributorFeed, SequenceTheorems, TLAPS

(***************************************************************************)
(* The pool and its counters.                                              *)
(***************************************************************************)
(* Every event turns counters into counters, and whatever it found leaves  *)
(* no more copies available than owned.                                    *)
LEMMA ChangeSound ==
  ASSUME NEW p \in Counts, NEW type \in EventTypes, NEW delta \in Nat
  PROVE  /\ CalculateChange(p, type, delta) \in Counts
         /\ CalculateChange(p, type, delta).available <= CalculateChange(p, type, delta).owned
<1> DEFINE raw == RawChange(p, type, delta)
<1>1. raw \in Counts
  <2>1. \A v \in Counter : Deduct(v, delta) \in Nat /\ v + delta \in Counter
    BY DEF Deduct, Counter, Unlimited
  <2>2. p.holds \in Nat /\ p.reserved \in Nat /\ p.owned \in Counter /\ p.available \in Counter
    BY DEF Counts
  <2>3. Deduct(delta, p.holds) \in Nat
    BY <2>2 DEF Deduct
  <2>4. CASE type \in {"hold_place", "hold_release", "availability_notify"}
    <3>1. p.holds + delta \in Nat /\ Deduct(p.holds, delta) \in Nat /\ p.reserved + delta \in Nat
      BY <2>2, <2>1 DEF Counter
    <3> HIDE DEF Deduct
    <3> QED
      BY <2>4, <3>1 DEF RawChange, Counts, Counter
  <2>5. CASE type = "check_in"
    BY <2>5, <2>1, <2>2, <2>3 DEF RawChange, Counts, Counter, Unlimited
  <2>6. CASE type = "check_out"
    BY <2>6, <2>1, <2>2 DEF RawChange, Counts, Counter
  <2>7. CASE type \in {"license_add", "license_remove"}
    BY <2>7, <2>1, <2>2 DEF RawChange, Counts, Counter
  <2>8. CASE type = "title_remove"
    BY <2>8 DEF RawChange
  <2> QED
    BY <2>4, <2>5, <2>6, <2>7, <2>8 DEF EventTypes
<1> QED
  BY <1>1 DEF CalculateChange, CapAvailable, Counts, Counter, Unlimited

(* A report turns counters into counters. *)
LEMMA MergeSound ==
  ASSUME NEW p \in Counts, NEW report \in Reports
  PROVE  Merge(p, report) \in Counts
BY DEF Merge, Counts, Reports

LEMMA ReportsAreReports == \A report \in Snapshots : report \in Reports
BY ConstantsAssumption

(* The effect of a step on the counters, whichever action takes it. *)
LEMMA StepTypes ==
  ASSUME TypeOK, [Next]_vars
  PROVE  TypeOK'
<1> USE DEF TypeOK, Time
<1>0. NoCounts \in Counts
  BY DEF NoCounts, Counts, Counter
<1>1. CASE ForForeignId
  BY <1>1, <1>0 DEF ForForeignId
<1>2. ASSUME NEW report \in Snapshots, NEW asOf \in {now} \cup Undated,
             UpdateAvailability(report, asOf)
      PROVE  TypeOK'
  <2>1. pool' \in Counts
    BY <1>2, MergeSound, ReportsAreReports DEF UpdateAvailability, Update
  <2>2. last_checked' \in Nat \cup {None}
    BY <1>2 DEF UpdateAvailability, Update, Undated
  <2>3. reindex' \in BOOLEAN /\ silent' \in BOOLEAN
    BY <1>2 DEF UpdateAvailability, Update
  <2> QED
    BY <1>2, <2>1, <2>2, <2>3 DEF UpdateAvailability, ImpliedEvents
<1>3. ASSUME NEW report \in Snapshots, NEW t \in 1..now, NEW made \in BOOLEAN,
             ApplyCirculationData(report, t, made)
      PROVE  TypeOK'
  <2>1. pool' \in Counts
    BY <1>3, MergeSound, ReportsAreReports DEF ApplyCirculationData
  <2>2. last_checked' \in Nat \cup {None} /\ reindex' \in BOOLEAN /\ hasWork' \in BOOLEAN
    BY <1>3 DEF ApplyCirculationData, MakeWork
  <2> QED
    BY <1>3, <2>1, <2>2 DEF ApplyCirculationData, ImpliedEvents
<1>4. ASSUME NEW report \in Snapshots, NEW t \in 1..now, NEW made \in BOOLEAN,
             FirstCirculationData(report, t, made)
      PROVE  TypeOK'
  <2>1. pool' \in Counts
    BY <1>4, <1>0, MergeSound, ReportsAreReports DEF FirstCirculationData
  <2> QED
    BY <1>4, <2>1 DEF FirstCirculationData, MakeWork, ImpliedEvents
<1>5. ASSUME NEW type \in EventTypes, NEW date \in PastDates, NEW delta \in Deltas,
             UpdateAvailabilityFromDelta(type, date, delta)
      PROVE  TypeOK'
  <2>0. delta \in Nat /\ date \in Nat \cup {NoDate}
    BY ConstantsAssumption DEF PastDates
  <2> DEFINE change == CalculateChange(pool, type, delta)
  <2>1. change \in Counts
    BY <2>0, ChangeSound
  <2>2. change \in Reports
    BY <2>1 DEF Counts, Reports
  <2>3. pool' \in Counts
    BY <1>5, <2>2, MergeSound DEF UpdateAvailabilityFromDelta, Update
  <2>4. last_checked' \in Nat \cup {None} /\ reindex' \in BOOLEAN /\ silent' \in BOOLEAN
    BY <1>5, <2>0 DEF UpdateAvailabilityFromDelta, Update
  <2> QED
    BY <1>5, <2>3, <2>4 DEF UpdateAvailabilityFromDelta, ImpliedEvents
<1>6. ASSUME NEW value \in Toggles, SetUnlimitedAccess(value)
      PROVE  TypeOK'
  BY <1>6 DEF SetUnlimitedAccess, Counts, Counter, Unlimited
<1>7. CASE ConsolidateWorks
  BY <1>7 DEF ConsolidateWorks
<1>8. CASE Reindex
  BY <1>8 DEF Reindex, SearchDocument
<1>9. CASE Tick
  BY <1>9 DEF Tick
<1>10. CASE UNCHANGED vars
  BY <1>10 DEF vars
<1> HIDE DEF TypeOK
<1> QED
  BY <1>1, <1>2, <1>3, <1>4, <1>5, <1>6, <1>7, <1>8, <1>9, <1>10 DEF Next

(* The counters, dates and flags keep their types: no arithmetic on the     *)
(* unlimited -1 takes a counter below it.                                   *)
THEOREM TypeCorrect == Spec => []TypeOK
<1>0. NoCounts \in Counts
  BY DEF NoCounts, Counts, Counter
<1>1. ASSUME Init PROVE TypeOK
  <2>1. exists \in BOOLEAN /\ hasWork \in BOOLEAN /\ reindex \in BOOLEAN /\ silent \in BOOLEAN
    BY <1>1 DEF Init
  <2>2. pool \in Counts
    BY <1>1, <1>0 DEF Init
  <2>3. collected \subseteq EventTypes \cup {"title_add"}
    BY <1>1 DEF Init
  <2>4. /\ last_checked \in Time \cup {None}
        /\ now \in Time /\ heard \in EventTypes \cup {None}
        /\ indexed \in {"absent", "available", "unavailable"}
    BY <1>1 DEF Init, Time
  <2> QED
    BY <2>1, <2>2, <2>3, <2>4 DEF TypeOK
<1> QED
  BY <1>1, StepTypes, PTL DEF Spec

(* What a report must satisfy: it mentions both of `owned` and `available`, *)
(* consistently, or neither.                                                *)
Consistent(report) ==
  \/ report.owned = None /\ report.available = None
  \/ /\ report.owned # None /\ report.available # None
     /\ report.available <= report.owned

(* Merging a consistent report keeps `available` within `owned`. *)
LEMMA MergeConsistent ==
  ASSUME NEW p \in Counts, p.available <= p.owned,
         NEW report \in Reports, Consistent(report)
  PROVE  Merge(p, report).available <= Merge(p, report).owned
BY DEF Merge, Counts, Reports, Consistent

(* If the distributor's reports are consistent, no order of reports, late   *)
(* importers, repeated events and switches of unlimited access makes the    *)
(* pool offer more copies than it owns.                                     *)
THEOREM NeverMoreThanOwned ==
  ASSUME \A report \in Snapshots : Consistent(report)
  PROVE  Spec => []AvailableWithinOwned
<1> DEFINE Inv == TypeOK /\ AvailableWithinOwned
<1> USE DEF AvailableWithinOwned
<1>0. NoCounts \in Counts /\ NoCounts.available <= NoCounts.owned
  BY DEF NoCounts, Counts, Counter
<1>1. Init => AvailableWithinOwned
  BY <1>0 DEF Init
<1>2. ASSUME TypeOK, AvailableWithinOwned, [Next]_vars
      PROVE  AvailableWithinOwned'
  <2>0. pool \in Counts
    BY <1>2 DEF TypeOK
  <2>1. CASE ForForeignId
    BY <2>1, <1>0 DEF ForForeignId
  <2>2. ASSUME NEW report \in Snapshots, NEW asOf, UpdateAvailability(report, asOf)
        PROVE  AvailableWithinOwned'
    BY <2>2, <1>2, <2>0, MergeConsistent, ReportsAreReports DEF UpdateAvailability, Update
  <2>3. ASSUME NEW report \in Snapshots, NEW t, NEW made, ApplyCirculationData(report, t, made)
        PROVE  AvailableWithinOwned'
    BY <2>3, <1>2, <2>0, MergeConsistent, ReportsAreReports DEF ApplyCirculationData
  <2>4. ASSUME NEW report \in Snapshots, NEW t, NEW made, FirstCirculationData(report, t, made)
        PROVE  AvailableWithinOwned'
    BY <2>4, <1>0, MergeConsistent, ReportsAreReports DEF FirstCirculationData
  <2>5. ASSUME NEW type \in EventTypes, NEW date, NEW delta \in Deltas,
               UpdateAvailabilityFromDelta(type, date, delta)
        PROVE  AvailableWithinOwned'
    <3> DEFINE change == CalculateChange(pool, type, delta)
    <3>1. change \in Counts /\ change.available <= change.owned
      BY <2>0, ChangeSound, ConstantsAssumption
    <3>2. change \in Reports /\ Consistent(change)
      BY <3>1, ConstantsAssumption DEF Counts, Reports, Consistent, Counter, Unlimited
    <3> HIDE DEF change
    <3> QED
      BY <2>5, <1>2, <2>0, <3>2, MergeConsistent
      DEF UpdateAvailabilityFromDelta, Update, change
  <2>6. ASSUME NEW value, SetUnlimitedAccess(value)
        PROVE  AvailableWithinOwned'
    BY <2>6, <2>0 DEF SetUnlimitedAccess, Counts, Unlimited
  <2>7. CASE ConsolidateWorks \/ Reindex \/ Tick \/ UNCHANGED vars
    BY <2>7, <1>2 DEF ConsolidateWorks, Reindex, Tick, vars
  <2> QED
    BY <1>2, <2>1, <2>2, <2>3, <2>4, <2>5, <2>6, <2>7 DEF Next, PastDates
<1> QED
  BY <1>1, <1>2, TypeCorrect, PTL DEF Spec

(* A report that mentions nothing changes nothing. *)
LEMMA SilentReport ==
  ASSUME NEW p \in Counts, NEW report \in Reports, ~Mentions(report)
  PROVE  Merge(p, report) = p
<1>1. report.owned = None /\ report.available = None /\ report.reserved = None /\ report.holds = None
  BY DEF Mentions, Reports
<1> QED
  BY <1>1 DEF Merge, Counts

(* Before the pool exists nothing hangs on it, and what it knows is never   *)
(* from the future.                                                         *)
NoPoolYet == ~exists => (~hasWork /\ last_checked = None)
NotFromTheFuture == last_checked # None => last_checked <= now

THEOREM PoolHistory == Spec => [](NoPoolYet /\ NotFromTheFuture)
<1> DEFINE Inv == NoPoolYet /\ NotFromTheFuture
<1> USE DEF NoPoolYet, NotFromTheFuture
<1>1. Init => Inv
  BY DEF Init
<1>2. ASSUME TypeOK, Inv, [Next]_vars
      PROVE  Inv'
  <2>0. now \in Nat /\ last_checked \in Nat \cup {None} /\ None \notin Int
    BY <1>2, ConstantsAssumption DEF TypeOK, Time
  <2>1. CASE ForForeignId
    BY <2>1, <1>2 DEF ForForeignId
  <2>2. ASSUME NEW report, NEW asOf \in {now} \cup Undated, UpdateAvailability(report, asOf)
        PROVE  Inv'
    BY <2>2, <1>2, <2>0 DEF UpdateAvailability, Update, Undated
  <2>3. ASSUME NEW report, NEW t \in 1..now, NEW made, ApplyCirculationData(report, t, made)
        PROVE  Inv'
    BY <2>3, <1>2, <2>0 DEF ApplyCirculationData
  <2>4. ASSUME NEW report, NEW t \in 1..now, NEW made, FirstCirculationData(report, t, made)
        PROVE  Inv'
    BY <2>4, <1>2, <2>0 DEF FirstCirculationData
  <2>5. ASSUME NEW type, NEW date \in PastDates, NEW delta,
               UpdateAvailabilityFromDelta(type, date, delta)
        PROVE  Inv'
    BY <2>5, <1>2, <2>0 DEF UpdateAvailabilityFromDelta, Update, PastDates
  <2>6. ASSUME NEW value, SetUnlimitedAccess(value)
        PROVE  Inv'
    BY <2>6, <1>2 DEF SetUnlimitedAccess
  <2>7. CASE Tick
    BY <2>7, <1>2, <2>0 DEF Tick
  <2>8. CASE ConsolidateWorks \/ Reindex \/ UNCHANGED vars
    BY <2>8, <1>2 DEF ConsolidateWorks, Reindex, vars
  <2> QED
    BY <1>2, <2>1, <2>2, <2>3, <2>4, <2>5, <2>6, <2>7, <2>8 DEF Next
<1> QED
  BY <1>1, <1>2, TypeCorrect, PTL DEF Spec

(* Whatever is reported, in whatever order, the search index is truthful    *)
(* whenever no reindexing is pending and no silent change has been made.    *)
THEOREM IndexStaysCurrent == Spec => []IndexIsCurrent
<1>1. Init => IndexIsCurrent
  BY DEF Init, IndexIsCurrent, SearchDocument
<1>2. ASSUME TypeOK, NoPoolYet, IndexIsCurrent, [Next]_vars
      PROVE  IndexIsCurrent'
  <2> USE DEF IndexIsCurrent
  <2>0. pool \in Counts /\ hasWork \in BOOLEAN
    BY <1>2 DEF TypeOK
  <2>1. \A p : SearchDocument(p, FALSE) = "absent"
    BY DEF SearchDocument
  <2>2. CASE ForForeignId
    <3>1. hasWork = FALSE /\ hasWork' = FALSE /\ UNCHANGED <<reindex, indexed, silent>>
      BY <2>2, <2>0, <1>2 DEF ForForeignId, NoPoolYet
    <3> QED
      BY <3>1, <2>1, <1>2
  <2>3. ASSUME NEW report \in Reports, NEW asOf,
               Update(pool, report, asOf, last_checked), UNCHANGED <<hasWork, indexed>>
        PROVE  IndexIsCurrent'
    <3>1. CASE hasWork = FALSE
      <4>1. hasWork' = FALSE /\ indexed' = indexed
            /\ (reindex => reindex') /\ (silent => silent')
        BY <3>1, <2>3 DEF Update
      <4> QED
        BY <4>1, <3>1, <2>1, <1>2
    <3>2. CASE hasWork = TRUE /\ Mentions(report)
      BY <3>2, <2>3 DEF Update
    <3>4. CASE asOf = NoDate
      BY <3>4, <2>3 DEF Update
    <3>3. CASE ~Mentions(report)
      BY <3>3, <2>3, <2>0, <1>2, SilentReport DEF Update
    <3> QED
      BY <3>1, <3>2, <3>3, <3>4, <2>0
  <2>4. ASSUME NEW report \in Snapshots, NEW asOf \in {now} \cup Undated,
               UpdateAvailability(report, asOf)
        PROVE  IndexIsCurrent'
    BY <2>4, <2>3, ReportsAreReports DEF UpdateAvailability
  <2>5. ASSUME NEW report \in Snapshots, NEW t, NEW made \in BOOLEAN,
               ApplyCirculationData(report, t, made)
        PROVE  IndexIsCurrent'
    <3>1. CASE made
      BY <3>1, <2>5 DEF ApplyCirculationData
    <3>2. CASE ~made /\ ~NeedsUpdate(t)
      BY <3>2, <2>5, <1>2, <2>0 DEF ApplyCirculationData, MakeWork
    <3>3. CASE ~made /\ NeedsUpdate(t)
      <4>1. hasWork' = hasWork /\ indexed' = indexed /\ silent' = silent
            /\ pool' = Merge(pool, report)
            /\ reindex' = (reindex \/ (Mentions(report) /\ hasWork))
        BY <3>3, <2>5, <2>0 DEF ApplyCirculationData, MakeWork
      <4>2. CASE hasWork = FALSE
        BY <4>1, <4>2, <2>1, <1>2
      <4>3. CASE ~Mentions(report)
        BY <4>1, <4>3, <2>0, <1>2, SilentReport, ReportsAreReports
      <4>4. CASE hasWork = TRUE /\ Mentions(report)
        BY <4>1, <4>4
      <4> QED
        BY <4>2, <4>3, <4>4, <2>0
    <3> QED
      BY <3>1, <3>2, <3>3
  <2>6. ASSUME NEW report \in Snapshots, NEW t, NEW made \in BOOLEAN,
               FirstCirculationData(report, t, made)
        PROVE  IndexIsCurrent'
    <3>1. CASE made
      BY <3>1, <2>6 DEF FirstCirculationData
    <3>2. CASE ~made
      <4>1. hasWork = FALSE /\ hasWork' = FALSE
        BY <3>2, <2>6, <2>0, <1>2 DEF FirstCirculationData, MakeWork, NoPoolYet
      <4> QED
        BY <4>1, <3>2, <2>6, <2>1, <1>2 DEF FirstCirculationData
    <3> QED
      BY <3>1, <3>2
  <2>7. ASSUME NEW type \in EventTypes, NEW date \in PastDates, NEW delta \in Deltas,
               UpdateAvailabilityFromDelta(type, date, delta)
        PROVE  IndexIsCurrent'
    <3>1. CASE Ignored(date)
      BY <3>1, <2>7, <1>2 DEF UpdateAvailabilityFromDelta
    <3>2. CASE ~Ignored(date)
      <4> DEFINE change == CalculateChange(pool, type, delta)
      <4>1. change \in Counts
        BY <2>0, ChangeSound, ConstantsAssumption
      <4>2. change \in Reports
        BY <4>1 DEF Counts, Reports
      <4> HIDE DEF change
      <4> QED
        BY <3>2, <2>7, <4>2, <2>3 DEF UpdateAvailabilityFromDelta, change
    <3> QED
      BY <3>1, <3>2
  <2>8. CASE Reindex \/ \E value \in Toggles : SetUnlimitedAccess(value)
    BY <2>8 DEF Reindex, SetUnlimitedAccess
  <2>9. CASE ConsolidateWorks \/ Tick \/ UNCHANGED vars
    BY <2>9, <1>2 DEF ConsolidateWorks, Tick, vars
  <2> QED
    BY <1>2, <2>2, <2>4, <2>5, <2>6, <2>7, <2>8, <2>9 DEF Next
<1> QED
  BY <1>1, <1>2, TypeCorrect, PoolHistory, PTL DEF Spec

(* Neither an event nor a slow importer's data takes last_checked back.     *)
THEOREM NeverForgets == Spec => LastCheckedNeverRunsBack
<1> DEFINE Forward == last_checked # None => (last_checked' # None /\ last_checked' >= last_checked)
<1>1. ASSUME TypeOK, NoPoolYet, NotFromTheFuture, [Next]_vars
      PROVE  Forward
  <2>0. now \in Nat /\ last_checked \in Nat \cup {None} /\ None \notin Int /\ NoDate \notin Int
    BY <1>1, ConstantsAssumption DEF TypeOK, Time
  <2>1. ASSUME NEW report, NEW asOf \in {now} \cup Undated, UpdateAvailability(report, asOf)
        PROVE  Forward
    BY <2>1, <1>1, <2>0 DEF UpdateAvailability, Update, Undated, NotFromTheFuture
  <2>2. ASSUME NEW report, NEW t \in 1..now, NEW made,
               \/ ApplyCirculationData(report, t, made)
               \/ FirstCirculationData(report, t, made)
        PROVE  Forward
    BY <2>2, <1>1, <2>0
    DEF ApplyCirculationData, FirstCirculationData, NeedsUpdate, NoPoolYet
  <2>3. ASSUME NEW type, NEW date \in PastDates, NEW delta,
               UpdateAvailabilityFromDelta(type, date, delta)
        PROVE  Forward
    <3>1. date \in Nat \cup {NoDate}
      BY ConstantsAssumption DEF PastDates, Time
    <3> QED
      BY <3>1, <2>3, <2>0 DEF UpdateAvailabilityFromDelta, Update, Ignored
  <2>4. CASE ForForeignId \/ ConsolidateWorks \/ Reindex \/ Tick \/ UNCHANGED vars
    BY <2>4, <2>0 DEF ForForeignId, ConsolidateWorks, Reindex, Tick, vars
  <2>5. ASSUME NEW value, SetUnlimitedAccess(value)
        PROVE  Forward
    BY <2>5, <2>0 DEF SetUnlimitedAccess
  <2> QED
    BY <1>1, <2>1, <2>2, <2>3, <2>4, <2>5 DEF Next
<1> QED
  BY <1>1, TypeCorrect, PoolHistory, PTL DEF Spec, LastCheckedNeverRunsBack

(* Loans, returns and holds leave an unlimited title unlimited.             *)
THEOREM TrafficKeepsUnlimited == Spec => UnlimitedSurvivesTraffic
<1> DEFINE IsUnlimited(p) == p.owned = Unlimited /\ p.available = Unlimited
<1> DEFINE Kept == (heard' \notin {None, "license_add", "license_remove"} /\ IsUnlimited(pool))
                      => IsUnlimited(pool')
<1>1. ASSUME TypeOK, [Next]_vars
      PROVE  Kept
  <2>0. pool \in Counts
    BY <1>1 DEF TypeOK
  <2>1. ASSUME NEW type \in EventTypes \ {"license_add", "license_remove"},
               NEW date, NEW delta \in Deltas, IsUnlimited(pool),
               UpdateAvailabilityFromDelta(type, date, delta)
        PROVE  IsUnlimited(pool')
    <3> DEFINE change == CalculateChange(pool, type, delta)
    <3>1. delta \in Nat
      BY ConstantsAssumption
    <3>2. RawChange(pool, type, delta).owned = Unlimited
      BY <2>0, <2>1, <3>1 DEF RawChange, Counts, EventTypes
    <3>3. RawChange(pool, type, delta).available \in Nat \cup {Unlimited}
      <4>1. CASE type = "check_in"
        <5>1. Deduct(delta, pool.holds) \in Nat /\ pool.holds \in Nat
          BY <2>0, <3>1 DEF Deduct, Counts
        <5>2. Unlimited + delta \in Nat \cup {Unlimited}
              /\ Unlimited + Deduct(delta, pool.holds) \in Nat \cup {Unlimited}
          BY <3>1, <5>1 DEF Unlimited
        <5> HIDE DEF Deduct, Unlimited
        <5> QED
          BY <4>1, <5>2, <2>0, <2>1 DEF RawChange, Counts
      <4>2. CASE type # "check_in"
        BY <4>2, <2>0, <2>1, <3>1 DEF RawChange, Counts, EventTypes, Unlimited, Deduct
      <4> QED
        BY <4>1, <4>2
    <3>4. IsUnlimited(change)
      <4>1. change.owned = Unlimited /\ change.available \in {Unlimited, RawChange(pool, type, delta).available}
        BY <2>0, <2>1, <3>1, <3>2 DEF CalculateChange, CapAvailable, RawChange, Counts, EventTypes
      <4>2. change.available \in Nat \cup {Unlimited}
        BY <4>1, <3>3
      <4>3. change.available <= change.owned
        BY <2>0, <2>1, <3>1, ChangeSound
      <4> HIDE DEF change
      <4> QED
        BY <4>1, <4>2, <4>3 DEF Unlimited
    <3>5. change \in Counts
      BY <3>1, <2>0, <2>1, ChangeSound
    <3>6. pool' = pool \/ pool' = Merge(pool, change)
      BY <2>1 DEF UpdateAvailabilityFromDelta, Update
    <3> HIDE DEF change
    <3> QED
      BY <3>4, <3>5, <3>6, <2>1, ConstantsAssumption DEF Merge, Unlimited, Counts
  <2>2. CASE heard' = None
    BY <2>2
  <2>3. CASE UNCHANGED vars
    BY <2>3 DEF vars
  <2> QED
    BY <1>1, <2>1, <2>2, <2>3
    DEF Next, ForForeignId, UpdateAvailability, ApplyCirculationData, FirstCirculationData,
        UpdateAvailabilityFromDelta, SetUnlimitedAccess, ConsolidateWorks, Reindex, Tick
<1> QED
  BY <1>1, TypeCorrect, PTL DEF Spec, UnlimitedSurvivesTraffic

-----------------------------------------------------------------------------
\* What an event changes, if anything, is what its type says, unless it is the loan of
\* a reserved copy.
LEMMA ChangeIsOfItsType ==
  ASSUME NEW p \in Counts, p.owned \in Nat, p.available \in Nat, p.available <= p.owned,
         NEW type \in EventTypes, NEW delta \in Nat, delta > 0,
         CalculateChange(p, type, delta) # p
  PROVE  \/ type \in ImpliedEvents(p, CalculateChange(p, type, delta))
         \/ type = "check_out" /\ p.available = 0 /\ CalculateChange(p, type, delta).reserved < p.reserved
<1> DEFINE raw == RawChange(p, type, delta)
           change == CalculateChange(p, type, delta)
<1>1. p.holds \in Nat /\ p.reserved \in Nat /\ DOMAIN p = {"owned", "available", "reserved", "holds"}
      /\ p = [owned |-> p.owned, available |-> p.available, reserved |-> p.reserved, holds |-> p.holds]
  BY DEF Counts
<1>2. change = IF raw.owned < raw.available THEN [raw EXCEPT !.available = raw.owned] ELSE raw
  BY DEF CalculateChange, CapAvailable
<1>3. CASE type = "hold_place"
  <2>1. raw = [owned |-> p.owned, available |-> 0, reserved |-> p.reserved, holds |-> p.holds + delta]
    BY <1>1, <1>3 DEF RawChange
  <2>2. change.holds > p.holds
    BY <1>1, <1>2, <2>1
  <2> QED BY <1>3, <2>2 DEF ImpliedEvents
<1>4. CASE type = "hold_release"
  <2>1. raw = [owned |-> p.owned, available |-> p.available, reserved |-> p.reserved, holds |-> Deduct(p.holds, delta)]
    BY <1>1, <1>4 DEF RawChange
  <2>2. change = raw
    BY <1>1, <1>2, <2>1
  <2>3. Deduct(p.holds, delta) < p.holds \/ Deduct(p.holds, delta) = p.holds
    BY <1>1 DEF Deduct
  <2>4. change.holds < p.holds
    BY <1>1, <2>1, <2>2, <2>3
  <2> QED BY <1>4, <2>4 DEF ImpliedEvents
<1>5. CASE type = "check_in"
  <2>1. PICK n \in Nat : raw = [owned |-> p.owned, available |-> p.available + n, reserved |-> p.reserved, holds |-> p.holds]
    <3>1. Deduct(delta, p.holds) \in Nat
      BY <1>1 DEF Deduct
    <3>2. CASE p.holds = 0
      BY <1>1, <1>5, <3>2 DEF RawChange
    <3>3. CASE p.holds # 0
      BY <1>1, <1>5, <3>1, <3>3 DEF RawChange
    <3> QED BY <3>2, <3>3
  <2>2. change = [owned |-> p.owned, available |-> IF p.owned < p.available + n THEN p.owned ELSE p.available + n,
                  reserved |-> p.reserved, holds |-> p.holds]
    BY <1>2, <2>1
  <2> HIDE DEF change
  <2>3. change.available # p.available
    BY <1>1, <2>2 DEF change
  <2>4. change.available > p.available
    BY <2>2, <2>3
  <2> QED BY <1>5, <2>4 DEF ImpliedEvents, change
<1>6. CASE type = "check_out" /\ p.available = 0
  <2>1. raw = [owned |-> p.owned, available |-> p.available, reserved |-> Deduct(p.reserved, delta), holds |-> p.holds]
    BY <1>1, <1>6 DEF RawChange
  <2>2. change = raw
    BY <1>1, <1>2, <2>1
  <2>3. Deduct(p.reserved, delta) < p.reserved \/ Deduct(p.reserved, delta) = p.reserved
    BY <1>1 DEF Deduct
  <2>4. change.reserved < p.reserved
    BY <1>1, <2>1, <2>2, <2>3
  <2> QED BY <1>6, <2>4
<1>7. CASE type = "check_out" /\ p.available # 0
  <2>1. raw = [owned |-> p.owned, available |-> Deduct(p.available, delta), reserved |-> p.reserved, holds |-> p.holds]
    BY <1>1, <1>7 DEF RawChange
  <2>2. Deduct(p.available, delta) < p.available /\ Deduct(p.available, delta) \in Nat
    BY <1>7 DEF Deduct
  <2>3. change.available < p.available
    BY <1>2, <2>1, <2>2
  <2> QED BY <1>7, <2>3 DEF ImpliedEvents
<1>8. CASE type = "license_add"
  <2>1. raw.owned = p.owned + delta
    <3>1. CASE p.holds = 0
      BY <1>1, <1>8, <3>1 DEF RawChange
    <3>2. CASE p.holds # 0
      BY <1>1, <1>8, <3>2 DEF RawChange
    <3> QED BY <3>1, <3>2
  <2>2. change.owned > p.owned
    BY <1>2, <2>1
  <2> QED BY <1>8, <2>2 DEF ImpliedEvents
<1>9. CASE type = "license_remove"
  <2>1. raw = [owned |-> Deduct(p.owned, delta), available |-> p.available, reserved |-> p.reserved, holds |-> p.holds]
    BY <1>1, <1>9 DEF RawChange
  <2>2. Deduct(p.owned, delta) \in Nat /\ (Deduct(p.owned, delta) < p.owned \/ Deduct(p.owned, delta) = p.owned)
    BY DEF Deduct
  <2>3. change.owned = Deduct(p.owned, delta)
    BY <1>2, <2>1
  <2>4. Deduct(p.owned, delta) = p.owned => change = p
    BY <1>1, <1>2, <2>1
  <2>5. change.owned < p.owned
    BY <2>2, <2>3, <2>4
  <2> QED BY <1>9, <2>5 DEF ImpliedEvents
<1>10. CASE type = "availability_notify"
  <2>1. raw = [owned |-> p.owned, available |-> p.available, reserved |-> p.reserved + delta, holds |-> Deduct(p.holds, delta)]
    BY <1>1, <1>10 DEF RawChange
  <2>2. change.reserved > p.reserved
    BY <1>1, <1>2, <2>1
  <2> QED BY <1>10, <2>2 DEF ImpliedEvents
<1>11. CASE type = "title_remove"
  <2>1. raw = p
    BY <1>11 DEF RawChange
  <2>2. change = p
    BY <1>2, <2>1
  <2> QED BY <2>2
<1> QED BY <1>3, <1>4, <1>5, <1>6, <1>7, <1>8, <1>9, <1>10, <1>11 DEF EventTypes

\* Analytics records the receipt of every event (update_availability_from_delta), but for
\* the loans of reserved copies, whatever was reported before: if reports are consistent
\* and events have a magnitude.  (One hold_place of magnitude zero would empty the shelf,
\* and be recorded as a check_out alone.)
THEOREM ReceiptsAreRecorded ==
  ASSUME \A report \in Snapshots : Consistent(report), 0 \notin Deltas
  PROVE  Spec => OnlyReservedCheckoutsGoUnrecorded
<1> DEFINE Unrecorded == heard' # None /\ heard' \notin collected' /\ Unlimited \notin {pool.owned, pool.available}
           ReservedCheckout == heard' = "check_out" /\ pool.available = 0 /\ pool'.reserved < pool.reserved
<1>1. ASSUME TypeOK, AvailableWithinOwned, [Next]_vars, Unrecorded
      PROVE  ReservedCheckout \/ UNCHANGED vars
  <2>1. ASSUME NEW type \in EventTypes, NEW date, NEW delta \in Deltas, UpdateAvailabilityFromDelta(type, date, delta)
        PROVE  ReservedCheckout
    <3> DEFINE change == CalculateChange(pool, type, delta)
    <3>1. delta \in Nat /\ delta > 0
      BY ConstantsAssumption
    <3>2. pool \in Counts /\ pool.owned \in Nat /\ pool.available \in Nat /\ pool.available <= pool.owned
      BY <1>1 DEF TypeOK, AvailableWithinOwned, Counts, Counter
    <3>3. change \in Counts
      BY <3>1, <3>2, ChangeSound
    <3>4. Merge(pool, change) = change
      <4> HIDE DEF change
      <4> QED BY <3>3, ConstantsAssumption DEF Merge, Counts, Counter, Unlimited
    <3>5. heard' = type /\ collected' = (IF pool' = pool THEN {type} ELSE ImpliedEvents(pool, pool')) /\ (pool' = pool \/ pool' = change)
      BY <2>1, <3>4 DEF UpdateAvailabilityFromDelta, Update
    <3>6. pool' # pool /\ type \notin ImpliedEvents(pool, pool')
      BY <1>1, <3>5
    <3>7. pool' = change
      BY <3>5, <3>6
    <3> HIDE DEF change
    <3>8. type = "check_out" /\ pool.available = 0 /\ change.reserved < pool.reserved
      BY <3>1, <3>2, <3>6, <3>7, ChangeIsOfItsType DEF change
    <3> QED BY <3>5, <3>7, <3>8
  <2>2. CASE UNCHANGED vars
    BY <2>2
  <2> QED
    BY <1>1, <2>1, <2>2
    DEF Next, ForForeignId, UpdateAvailability, ApplyCirculationData, FirstCirculationData,
        SetUnlimitedAccess, ConsolidateWorks, Reindex, Tick
<1> HIDE DEF Unrecorded, ReservedCheckout
<1>2. ASSUME TypeOK, AvailableWithinOwned, [Next]_vars PROVE [Unrecorded => ReservedCheckout]_vars
  <2>1. CASE Unrecorded
    BY <1>1, <1>2, <2>1
  <2>2. CASE ~Unrecorded
    BY <2>2
  <2> QED BY <2>1, <2>2
<1> USE DEF Unrecorded, ReservedCheckout
<1> QED
  BY <1>2, TypeCorrect, NeverMoreThanOwned, PTL DEF Spec, OnlyReservedCheckoutsGoUnrecorded

-----------------------------------------------------------------------------
(***************************************************************************)
(* A pool that hears from one distributor.                                 *)
(***************************************************************************)
\* The distributor's history: every event changed what it knew in one of the ways it
\* may, nothing is set aside for nobody, and nobody waits for a copy on the shelf.
Follows(before, type, after) ==
  \E c \in Consequences(before) : c.type = type /\ c.after = after

Orderly(d) == d.setAside <= d.holds /\ (d.available > 0 => d.setAside = d.holds)

HistoryOK ==
  /\ log \in Seq(EventTypes) /\ truth \in Seq(Lending) /\ Len(truth) = Len(log) + 1
  /\ \A i \in 1 .. Len(truth) : Orderly(truth[i])
  /\ \A i \in 1 .. Len(log) : Follows(truth[i], log[i], truth[i + 1])

\* What the distributor says when it has had n events.
ReportAfter(n) ==
  [owned |-> truth[n + 1].owned, available |-> truth[n + 1].available,
   reserved |-> truth[n + 1].reserved, holds |-> truth[n + 1].holds]

SaysOf(n) ==
  /\ snapshot.report = ReportAfter(n)
  /\ snapshot.at = 2 * n \/ (n > 0 /\ snapshot.at = 2 * n - 1)

SnapshotOK ==
  snapshot # None =>
    \E n \in 0 .. Len(log) : SaysOf(n)

Numbers == [owned : Nat, available : Nat, reserved : Nat, holds : Nat]

\* The counters are those of the distributor but for r events counted twice and s
\* licenses lost unnoticed.  While nobody waits, the copies set aside for those who do
\* may be on the pool's shelf; while somebody waits, none is that should not be.
Near(p, d, r, s) ==
  /\ p.owned <= d.owned + r /\ d.owned <= p.owned + r
  /\ p.holds <= d.holds + r /\ d.holds <= p.holds + r
  /\ p.holds > 0 => p.available <= d.available + s
  /\ p.holds = 0 => p.available + d.holds <= d.available + d.setAside + r + s

\* The pool is as it was after n events, none of which is still to be heard unless a
\* snapshot was already taken after it.
KnownSince(n) ==
  /\ n >= heardUpTo
  /\ last_checked = 2 * n \/ (n > 0 /\ last_checked = 2 * n - 1)
  /\ Near(pool, truth[n + 1], repeated, offShelf)

PoolOK ==
  /\ pool \in Numbers /\ repeated \in Nat /\ offShelf \in Nat
  /\ heardUpTo \in 0 .. Len(log)
  /\ last_checked = None => heardUpTo = 0
  /\ ~exists => last_checked = None
  /\ last_checked # None => \E n \in 0 .. Len(log) : KnownSince(n)

FeedInv == trusted => HistoryOK /\ SnapshotOK /\ PoolOK

-----------------------------------------------------------------------------
\* What an event does to what the distributor knows.
Becomes(d, type, e) ==
  \/ /\ type = "hold_place" /\ e.owned = d.owned /\ e.holds = d.holds + 1
     /\ e.available = d.available /\ e.setAside = d.setAside /\ d.available = 0
  \/ /\ type = "hold_release" /\ e.owned = d.owned /\ e.holds = d.holds - 1
     /\ \/ /\ e.setAside = d.setAside - 1 /\ d.setAside = d.holds
           /\ e.available = d.available + 1
        \/ /\ e.setAside = d.setAside /\ e.available = d.available
           /\ ~(d.setAside = d.holds /\ d.setAside > 0)
  \/ /\ type = "check_in" \/ type = "license_add"
     /\ e.holds = d.holds
     /\ e.owned = IF type = "check_in" THEN d.owned ELSE d.owned + 1
     /\ \/ d.holds > d.setAside /\ e.setAside = d.setAside + 1 /\ e.available = d.available
        \/ d.holds <= d.setAside /\ e.setAside = d.setAside /\ e.available = d.available + 1
  \/ /\ type = "check_out" /\ e.owned = d.owned /\ e.holds = d.holds /\ e.setAside = d.setAside
     /\ e.available = d.available - 1 \/ e.available = d.available
  \/ /\ type = "license_remove" /\ e.owned = d.owned - 1 /\ e.holds = d.holds
     /\ \/ e.available = d.available /\ e.setAside = d.setAside
        \/ e.available = d.available - 1 /\ e.setAside = d.setAside
        \/ d.available = 0 /\ e.available = 0 /\ e.setAside = d.setAside - 1
  \/ /\ type = "availability_notify" /\ e.owned = d.owned /\ e.holds = d.holds - 1
     /\ e.available = d.available /\ e.setAside = d.setAside - 1

LEMMA WhatHappens ==
  ASSUME NEW d \in Lending, NEW c \in Consequences(d), NEW after, after = c.after
  PROVE  after \in Lending /\ Becomes(d, c.type, after)
<1>1. after \in Lending
  BY DEF Consequences
<1>2. /\ d.owned \in Nat /\ d.available \in Nat /\ d.reserved \in Nat /\ d.holds \in Nat
      /\ d.loans \in Nat /\ d.setAside \in Nat
      /\ d = [owned |-> d.owned, available |-> d.available, reserved |-> d.reserved, holds |-> d.holds,
              loans |-> d.loans, setAside |-> d.setAside]
  BY DEF Lending
<1> DEFINE returned == [d EXCEPT !.loans = @ - 1]
           bought == [d EXCEPT !.owned = @ + 1]
<1>3. \/ c = [type |-> "hold_place", after |-> [d EXCEPT !.holds = @ + 1]]
      \/ c = [type |-> "hold_release",
              after |-> IF d.setAside = d.holds /\ d.setAside > 0
                        THEN [d EXCEPT !.holds = @ - 1, !.setAside = @ - 1, !.available = @ + 1]
                        ELSE [d EXCEPT !.holds = @ - 1]]
      \/ c = [type |-> "check_in", after |-> Shelve(returned)]
      \/ c = [type |-> "check_out", after |-> [d EXCEPT !.available = @ - 1, !.loans = @ + 1]]
      \/ c = [type |-> "check_out", after |-> [d EXCEPT !.reserved = @ - 1, !.loans = @ + 1]]
      \/ c = [type |-> "license_add", after |-> Shelve(bought)]
      \/ c = [type |-> "license_remove", after |-> [d EXCEPT !.owned = @ - 1, !.loans = @ - 1]]
      \/ c = [type |-> "license_remove", after |-> [d EXCEPT !.owned = @ - 1, !.reserved = @ - 1]]
      \/ c = [type |-> "license_remove",
              after |-> IF d.available > 0 THEN [d EXCEPT !.owned = @ - 1, !.available = @ - 1]
                        ELSE [d EXCEPT !.owned = @ - 1, !.setAside = @ - 1]]
      \/ c = [type |-> "availability_notify",
              after |-> [d EXCEPT !.holds = @ - 1, !.setAside = @ - 1, !.reserved = @ + 1]]
  BY DEF Consequences
<1>4. CASE c = [type |-> "hold_place", after |-> [d EXCEPT !.holds = @ + 1]]
  <2>1. d.available = 0
    BY <1>4 DEF Consequences
  <2> QED BY <1>1, <1>2, <1>4, <2>1 DEF Becomes
<1>5. CASE c = [type |-> "hold_release",
                after |-> IF d.setAside = d.holds /\ d.setAside > 0
                          THEN [d EXCEPT !.holds = @ - 1, !.setAside = @ - 1, !.available = @ + 1]
                          ELSE [d EXCEPT !.holds = @ - 1]]
  BY <1>1, <1>2, <1>5 DEF Becomes
<1>6. CASE c = [type |-> "check_in", after |-> Shelve(returned)]
  <2>1. returned.owned = d.owned /\ returned.holds = d.holds /\ returned.setAside = d.setAside
        /\ returned.available = d.available /\ returned = [returned EXCEPT !.owned = d.owned]
    BY <1>2
  <2>2. after = IF returned.holds > returned.setAside THEN [returned EXCEPT !.setAside = @ + 1]
                ELSE [returned EXCEPT !.available = @ + 1]
    BY <1>6 DEF Shelve
  <2>3. c.type = "check_in"
    BY <1>6
  <2> QED BY <1>1, <1>2, <2>1, <2>2, <2>3 DEF Becomes
<1>7. CASE c = [type |-> "check_out", after |-> [d EXCEPT !.available = @ - 1, !.loans = @ + 1]]
  <2>1. /\ after.owned = d.owned /\ after.holds = d.holds /\ after.setAside = d.setAside
        /\ after.available = d.available - 1 /\ c.type = "check_out"
    BY <1>2, <1>7
  <2> QED BY <1>1, <1>2, <2>1 DEF Becomes
<1>8. CASE c = [type |-> "check_out", after |-> [d EXCEPT !.reserved = @ - 1, !.loans = @ + 1]]
  <2>1. /\ after.owned = d.owned /\ after.holds = d.holds /\ after.setAside = d.setAside
        /\ after.available = d.available /\ c.type = "check_out"
    BY <1>2, <1>8
  <2> QED BY <1>1, <1>2, <2>1 DEF Becomes
<1>9. CASE c = [type |-> "license_add", after |-> Shelve(bought)]
  <2>1. bought.owned = d.owned + 1 /\ bought.holds = d.holds /\ bought.setAside = d.setAside
        /\ bought.available = d.available /\ bought = [bought EXCEPT !.owned = d.owned + 1]
    BY <1>2
  <2>2. after = IF bought.holds > bought.setAside THEN [bought EXCEPT !.setAside = @ + 1]
                ELSE [bought EXCEPT !.available = @ + 1]
    BY <1>9 DEF Shelve
  <2>3. c.type = "license_add"
    BY <1>9
  <2> QED BY <1>1, <1>2, <2>1, <2>2, <2>3 DEF Becomes
<1>10. CASE c = [type |-> "license_remove", after |-> [d EXCEPT !.owned = @ - 1, !.loans = @ - 1]]
  BY <1>1, <1>2, <1>10 DEF Becomes
<1>12. CASE c = [type |-> "license_remove", after |-> [d EXCEPT !.owned = @ - 1, !.reserved = @ - 1]]
  BY <1>1, <1>2, <1>12 DEF Becomes
<1>13. CASE c = [type |-> "license_remove",
                 after |-> IF d.available > 0 THEN [d EXCEPT !.owned = @ - 1, !.available = @ - 1]
                           ELSE [d EXCEPT !.owned = @ - 1, !.setAside = @ - 1]]
  BY <1>1, <1>2, <1>13 DEF Becomes
<1>11. CASE c = [type |-> "availability_notify",
                 after |-> [d EXCEPT !.holds = @ - 1, !.setAside = @ - 1, !.reserved = @ + 1]]
  BY <1>1, <1>2, <1>11 DEF Becomes
<1> QED BY <1>3, <1>4, <1>5, <1>6, <1>7, <1>8, <1>9, <1>10, <1>11, <1>12, <1>13

\* What one event makes of the counters.
LEMMA WhatAnEventDoes ==
  ASSUME NEW p \in Numbers, NEW type, NEW q, q = CalculateChange(p, type, 1)
  PROVE  /\ type \in EventTypes => q \in Numbers
         /\ type = "hold_place" =>
              q.owned = p.owned /\ q.holds = p.holds + 1 /\ q.available = 0
         /\ type = "hold_release" =>
              q.owned = p.owned /\ q.holds = Deduct(p.holds, 1) /\ q.available <= p.available
         /\ type = "check_in" =>
              /\ q.owned = p.owned /\ q.holds = p.holds
              /\ q.available <= IF p.holds = 0 THEN p.available + 1 ELSE p.available
         /\ type = "check_out" =>
              /\ q.owned = p.owned /\ q.holds = p.holds
              /\ q.available <= Deduct(p.available, 1)
         /\ type = "license_add" =>
              /\ q.owned = p.owned + 1 /\ q.holds = p.holds
              /\ q.available <= IF p.holds = 0 THEN p.available + 1 ELSE p.available
         /\ type = "license_remove" =>
              q.owned = Deduct(p.owned, 1) /\ q.holds = p.holds /\ q.available <= p.available
         /\ type = "availability_notify" =>
              q.owned = p.owned /\ q.holds = Deduct(p.holds, 1) /\ q.available <= p.available
<1> DEFINE raw == RawChange(p, type, 1)
           With(owned, available, reserved, holds) ==
             [owned |-> owned, available |-> available, reserved |-> reserved, holds |-> holds]
<1>1. /\ p.owned \in Nat /\ p.available \in Nat /\ p.reserved \in Nat /\ p.holds \in Nat
      /\ p = With(p.owned, p.available, p.reserved, p.holds)
  BY DEF Numbers
<1>2. \A n \in Nat : Deduct(n, 1) \in Nat /\ Deduct(n, 1) = (IF n = 0 THEN 0 ELSE n - 1)
  BY DEF Deduct
<1>3. p.holds # 0 => Deduct(1, p.holds) = 0
  BY <1>1 DEF Deduct
<1>4. /\ type = "hold_place" => raw = With(p.owned, 0, p.reserved, p.holds + 1)
      /\ type = "hold_release" => raw = With(p.owned, p.available, p.reserved, Deduct(p.holds, 1))
      /\ type = "license_remove" => raw = With(Deduct(p.owned, 1), p.available, p.reserved, p.holds)
      /\ type = "availability_notify" =>
           raw = With(p.owned, p.available, p.reserved + 1, Deduct(p.holds, 1))
  BY <1>1 DEF RawChange
<1>5. /\ type = "check_in" =>
           raw = With(p.owned, IF p.holds = 0 THEN p.available + 1 ELSE p.available, p.reserved, p.holds)
      /\ type = "license_add" =>
           raw = With(p.owned + 1, IF p.holds = 0 THEN p.available + 1 ELSE p.available, p.reserved, p.holds)
  <2>1. CASE type = "check_in"
    <3>1. raw = IF p.holds = 0 THEN [p EXCEPT !.available = @ + 1]
                ELSE [p EXCEPT !.available = @ + Deduct(1, p.holds)]
      BY <2>1 DEF RawChange
    <3> HIDE DEF raw
    <3> QED BY <1>1, <1>3, <2>1, <3>1
  <2>2. CASE type = "license_add"
    <3>1. raw = IF p.holds = 0 THEN [p EXCEPT !.owned = @ + 1, !.available = @ + 1]
                ELSE [p EXCEPT !.owned = @ + 1]
      BY <2>2 DEF RawChange
    <3> HIDE DEF raw
    <3> QED BY <1>1, <2>2, <3>1
  <2> QED BY <2>1, <2>2
<1>6. type = "check_out" =>
        raw = IF p.available = 0 THEN With(p.owned, p.available, Deduct(p.reserved, 1), p.holds)
              ELSE With(p.owned, Deduct(p.available, 1), p.reserved, p.holds)
  BY <1>1 DEF RawChange
<1>7. type = "title_remove" => raw = p
  BY DEF RawChange
<1>8. raw \in Numbers =>
        q \in Numbers /\ q.owned = raw.owned /\ q.holds = raw.holds /\ q.available <= raw.available
  <2> HIDE DEF raw
  <2>1. q = IF raw.owned < raw.available THEN [raw EXCEPT !.available = raw.owned] ELSE raw
    BY DEF CalculateChange, CapAvailable, raw
  <2> QED BY <2>1 DEF Numbers
<1> HIDE DEF raw
<1>9. CASE type \in {"hold_place", "hold_release", "license_remove", "availability_notify"}
  <2>1. Deduct(p.owned, 1) \in Nat /\ Deduct(p.holds, 1) \in Nat
    BY <1>1, <1>2
  <2>2. raw \in Numbers /\ raw.available <= p.available
    BY <1>1, <1>4, <1>9, <2>1 DEF Numbers
  <2>3. CASE type = "hold_place"
    <3>1. raw.owned = p.owned /\ raw.holds = p.holds + 1 /\ raw.available = 0
      BY <1>4, <2>3
    <3>2. q.available = 0
      BY <1>8, <2>2, <3>1 DEF Numbers
    <3> QED BY <1>8, <2>2, <2>3, <3>1, <3>2
  <2>4. CASE type = "hold_release" \/ type = "availability_notify"
    <3>1. raw.owned = p.owned /\ raw.holds = Deduct(p.holds, 1) /\ raw.available = p.available
      BY <1>4, <2>4
    <3> QED BY <1>8, <2>2, <2>4, <3>1
  <2>5. CASE type = "license_remove"
    <3>1. raw.owned = Deduct(p.owned, 1) /\ raw.holds = p.holds /\ raw.available = p.available
      BY <1>4, <2>5
    <3> QED BY <1>8, <2>2, <2>5, <3>1
  <2> QED BY <1>9, <2>3, <2>4, <2>5
<1>10. CASE type \in {"check_in", "license_add"}
  <2>1. raw \in Numbers
    BY <1>1, <1>5, <1>10 DEF Numbers
  <2> QED BY <1>1, <1>5, <1>8, <1>10, <2>1
<1>11. CASE type = "check_out"
  <2>1. raw \in Numbers /\ raw.owned = p.owned /\ raw.holds = p.holds
        /\ raw.available = Deduct(p.available, 1)
    BY <1>1, <1>2, <1>6, <1>11 DEF Numbers
  <2> QED BY <1>1, <1>2, <1>8, <1>11, <2>1
<1>12. CASE type = "title_remove"
  BY <1>7, <1>8, <1>12
<1>13. CASE type \notin EventTypes
  BY <1>13 DEF EventTypes
<1> QED BY <1>9, <1>10, <1>11, <1>12, <1>13 DEF EventTypes

\* An event heard for the first time keeps the counters as near to the distributor's as
\* they were, but that it may have cost a copy the pool goes on offering.
LEMMA EventKeepsNear ==
  ASSUME NEW p \in Numbers, NEW d \in Lending, NEW c \in Consequences(d), NEW type, type = c.type,
         NEW r \in Nat, NEW s \in Nat, Near(p, d, r, s), Orderly(d),
         NEW lost \in {0, 1},
         lost = IF type = "license_remove"
                   /\ c.after.available + c.after.setAside < d.available + d.setAside THEN 1 ELSE 0
  PROVE  /\ CalculateChange(p, type, 1) \in Numbers
         /\ Near(CalculateChange(p, type, 1), c.after, r, s + lost)
<1> DEFINE q == CalculateChange(p, type, 1)
           e == c.after
<1>0. Becomes(d, type, e)
  BY WhatHappens
<1>1. e \in Lending /\ type \in EventTypes /\ type # "title_remove"
  BY WhatHappens DEF Becomes, EventTypes
<1>2. /\ p.owned \in Nat /\ p.available \in Nat /\ p.holds \in Nat
      /\ d.owned \in Nat /\ d.available \in Nat /\ d.holds \in Nat /\ d.setAside \in Nat
      /\ e.owned \in Nat /\ e.available \in Nat /\ e.holds \in Nat /\ e.setAside \in Nat
  BY <1>1 DEF Numbers, Lending
<1>3. q \in Numbers
  BY <1>1, WhatAnEventDoes
<1>4. q.owned \in Nat /\ q.available \in Nat /\ q.holds \in Nat
  BY <1>3 DEF Numbers
<1>5. \A n \in Nat : Deduct(n, 1) \in Nat /\ Deduct(n, 1) = (IF n = 0 THEN 0 ELSE n - 1)
  BY DEF Deduct
<1> HIDE DEF q, e
<1>6. CASE type = "hold_place"
  <2>1. q.owned = p.owned /\ q.holds = p.holds + 1 /\ q.available = 0
    BY <1>6, WhatAnEventDoes DEF q
  <2>2. e.owned = d.owned /\ e.holds = d.holds + 1 /\ e.available = d.available /\ e.setAside = d.setAside
    BY <1>0, <1>6 DEF Becomes
  <2> QED BY <1>2, <1>4, <1>6, <2>1, <2>2, <1>3 DEF Near, q, e
<1>7. CASE type = "hold_release"
  <2>1. q.owned = p.owned /\ q.holds = (IF p.holds = 0 THEN 0 ELSE p.holds - 1) /\ q.available <= p.available
    BY <1>2, <1>5, <1>7, WhatAnEventDoes DEF q
  <2>2. /\ e.owned = d.owned /\ e.holds = d.holds - 1
        /\ \/ e.setAside = d.setAside - 1 /\ d.setAside = d.holds /\ e.available = d.available + 1
           \/ e.setAside = d.setAside /\ e.available = d.available
    BY <1>0, <1>7 DEF Becomes
  <2>3. lost = 0
    BY <1>7
  <2>4. Near(q, e, r, s)
    BY <1>2, <1>4, <2>1, <2>2 DEF Near
  <2> QED BY <1>3, <2>3, <2>4 DEF q, e
<1>8. CASE type \in {"check_in", "license_add"}
  <2>1. /\ q.owned = (IF type = "check_in" THEN p.owned ELSE p.owned + 1) /\ q.holds = p.holds
        /\ q.available <= IF p.holds = 0 THEN p.available + 1 ELSE p.available
    BY <1>8, WhatAnEventDoes DEF q
  <2>2. /\ e.owned = (IF type = "check_in" THEN d.owned ELSE d.owned + 1) /\ e.holds = d.holds
        /\ \/ e.setAside = d.setAside + 1 /\ e.available = d.available
           \/ e.setAside = d.setAside /\ e.available = d.available + 1
    BY <1>0, <1>8 DEF Becomes
  <2>3. lost = 0
    BY <1>8
  <2>4. Near(q, e, r, s)
    BY <1>2, <1>4, <2>1, <2>2 DEF Near
  <2> QED BY <1>3, <2>3, <2>4 DEF q, e
<1>9. CASE type = "check_out"
  <2>1. q.owned = p.owned /\ q.holds = p.holds /\ q.available <= IF p.available = 0 THEN 0 ELSE p.available - 1
    BY <1>2, <1>5, <1>9, WhatAnEventDoes DEF q
  <2>2. /\ e.owned = d.owned /\ e.holds = d.holds /\ e.setAside = d.setAside
        /\ e.available = d.available - 1 \/ e.available = d.available
    BY <1>0, <1>9 DEF Becomes
  <2>3. lost = 0
    BY <1>9
  <2>4. Near(q, e, r, s)
    BY <1>2, <1>4, <2>1, <2>2 DEF Near, Orderly
  <2> QED BY <1>3, <2>3, <2>4 DEF q, e
<1>10. CASE type = "license_remove"
  <2>1. q.owned = (IF p.owned = 0 THEN 0 ELSE p.owned - 1) /\ q.holds = p.holds /\ q.available <= p.available
    BY <1>2, <1>5, <1>10, WhatAnEventDoes DEF q
  <2>2. /\ e.owned = d.owned - 1 /\ e.holds = d.holds
        /\ \/ e.available = d.available /\ e.setAside = d.setAside
           \/ e.available = d.available - 1 /\ e.setAside = d.setAside
           \/ d.available = 0 /\ e.available = 0 /\ e.setAside = d.setAside - 1
    BY <1>0, <1>10 DEF Becomes
  <2>3. lost = IF e.available + e.setAside < d.available + d.setAside THEN 1 ELSE 0
    BY <1>10 DEF e
  <2>4. Near(q, e, r, s + lost)
    BY <1>2, <1>4, <2>1, <2>2, <2>3 DEF Near
  <2> QED BY <1>3, <2>4 DEF q, e
<1>11. CASE type = "availability_notify"
  <2>1. q.owned = p.owned /\ q.holds = (IF p.holds = 0 THEN 0 ELSE p.holds - 1) /\ q.available <= p.available
    BY <1>2, <1>5, <1>11, WhatAnEventDoes DEF q
  <2>2. /\ e.owned = d.owned /\ e.holds = d.holds - 1 /\ e.setAside = d.setAside - 1
        /\ e.available = d.available
    BY <1>0, <1>11 DEF Becomes
  <2>3. lost = 0
    BY <1>11
  <2>4. Near(q, e, r, s)
    BY <1>2, <1>4, <2>1, <2>2, Orderly(d) DEF Near, Orderly
  <2> QED BY <1>3, <2>3, <2>4 DEF q, e
<1> QED BY <1>1, <1>6, <1>7, <1>8, <1>9, <1>10, <1>11 DEF EventTypes

\* An event heard again takes them one further apart at most.
LEMMA RepeatKeepsNear ==
  ASSUME NEW p \in Numbers, NEW d \in Lending, NEW type \in EventTypes,
         NEW r \in Nat, NEW s \in Nat, Near(p, d, r, s), Orderly(d)
  PROVE  /\ CalculateChange(p, type, 1) \in Numbers
         /\ type # "title_remove" => Near(CalculateChange(p, type, 1), d, r + 1, s)
<1> DEFINE q == CalculateChange(p, type, 1)
<1>1. /\ p.owned \in Nat /\ p.available \in Nat /\ p.holds \in Nat
      /\ d.owned \in Nat /\ d.available \in Nat /\ d.holds \in Nat /\ d.setAside \in Nat
  BY DEF Numbers, Lending
<1>2. q \in Numbers
  BY WhatAnEventDoes
<1>3. q.owned \in Nat /\ q.available \in Nat /\ q.holds \in Nat
  BY <1>2 DEF Numbers
<1>4. \A n \in Nat : Deduct(n, 1) \in Nat /\ Deduct(n, 1) = (IF n = 0 THEN 0 ELSE n - 1)
  BY DEF Deduct
<1> HIDE DEF q
<1>5. ASSUME type # "title_remove"
      PROVE  \/ q.owned = p.owned /\ q.holds = p.holds + 1 /\ q.available = 0
             \/ /\ q.owned \in {p.owned, p.owned + 1} /\ q.holds = p.holds
                /\ q.available <= IF p.holds = 0 THEN p.available + 1 ELSE p.available
             \/ /\ q.owned = (IF p.owned = 0 THEN 0 ELSE p.owned - 1) /\ q.holds = p.holds
                /\ q.available <= p.available
             \/ /\ q.owned = p.owned /\ q.holds = (IF p.holds = 0 THEN 0 ELSE p.holds - 1)
                /\ q.available <= p.available
  <2>1. CASE type = "hold_place"
    BY <2>1, WhatAnEventDoes DEF q
  <2>2. CASE type = "check_in" \/ type = "license_add"
    BY <2>2, WhatAnEventDoes DEF q
  <2>3. CASE type = "check_out"
    <3>1. q.owned = p.owned /\ q.holds = p.holds /\ q.available <= Deduct(p.available, 1)
      BY <2>3, WhatAnEventDoes DEF q
    <3>2. q.available <= p.available
      BY <1>1, <1>3, <1>4, <3>1
    <3> QED BY <1>1, <1>3, <3>1, <3>2
  <2>4. CASE type = "license_remove"
    BY <1>1, <1>4, <2>4, WhatAnEventDoes DEF q
  <2>5. CASE type = "hold_release" \/ type = "availability_notify"
    BY <1>1, <1>4, <2>5, WhatAnEventDoes DEF q
  <2> QED BY <1>5, <2>1, <2>2, <2>3, <2>4, <2>5 DEF EventTypes
<1>6. type # "title_remove" => Near(q, d, r + 1, s)
  BY <1>1, <1>3, <1>5 DEF Near, Orderly
<1> QED BY <1>2, <1>6 DEF q

\* What is set aside is set aside for somebody.
LEMMA StaysOrderly ==
  ASSUME NEW d \in Lending, Orderly(d), NEW c \in Consequences(d)
  PROVE  c.after \in Lending /\ Orderly(c.after) /\ c.type \in EventTypes \ {"title_remove"}
<1> DEFINE e == c.after
<1>1. e \in Lending
  BY WhatHappens
<1>2. /\ d.setAside \in Nat /\ d.holds \in Nat /\ d.available \in Nat
      /\ e.setAside \in Nat /\ e.holds \in Nat /\ e.available \in Nat
  BY <1>1 DEF Lending
<1>3. c.type \in EventTypes \ {"title_remove"}
  BY WhatHappens DEF Becomes, EventTypes
<1>4. \/ /\ e.holds = d.holds + 1 /\ e.available = 0 /\ e.setAside = d.setAside
      \/ /\ e.holds = d.holds - 1
         /\ \/ e.setAside = d.setAside - 1 /\ (d.setAside = d.holds \/ e.available = d.available)
            \/ /\ e.setAside = d.setAside /\ e.available = d.available
               /\ ~(d.setAside = d.holds /\ d.setAside > 0)
      \/ /\ e.holds = d.holds
         /\ \/ d.holds > d.setAside /\ e.setAside = d.setAside + 1 /\ e.available = d.available
            \/ d.holds <= d.setAside /\ e.setAside = d.setAside /\ e.available = d.available + 1
            \/ e.setAside = d.setAside /\ e.available = d.available
            \/ e.setAside = d.setAside /\ e.available = d.available - 1
            \/ e.available = 0 /\ e.setAside = d.setAside - 1
  BY WhatHappens DEF Becomes
<1> HIDE DEF e
<1>5. Orderly(e)
  BY <1>2, <1>4 DEF Orderly
<1> QED BY <1>1, <1>3, <1>5 DEF e

-----------------------------------------------------------------------------
\* Something happens, or not: what was known of the past stays true.
LEMMA HappenKeepsInv ==
  ASSUME trusted, FeedInv, Happen
  PROVE  FeedInv'
<1> USE DEF FeedInv
<1>1. PICK c \in Consequences(Now) :
        /\ truth' = Append(truth, c.after) /\ log' = Append(log, c.type)
        /\ UNCHANGED <<exists, pool, last_checked, trusted, heardUpTo, snapshot, repeated, offShelf>>
  BY DEF Happen
<1> DEFINE n == Len(log)
<1>2. /\ n \in Nat /\ Len(truth) = n + 1 /\ truth \in Seq(Lending) /\ log \in Seq(EventTypes)
      /\ Now = truth[n + 1] /\ Now \in Lending /\ Orderly(Now)
  BY DEF HistoryOK, Now
<1>3. c.after \in Lending /\ Orderly(c.after) /\ c.type \in EventTypes
  BY <1>2, StaysOrderly
<1>4. /\ truth' \in Seq(Lending) /\ Len(truth') = n + 2 /\ truth'[n + 2] = c.after
      /\ \A i \in 1 .. n + 1 : truth'[i] = truth[i]
  BY <1>1, <1>2, <1>3, AppendProperties
<1>5. /\ log' \in Seq(EventTypes) /\ Len(log') = n + 1 /\ log'[n + 1] = c.type
      /\ \A i \in 1 .. n : log'[i] = log[i]
  BY <1>1, <1>2, <1>3, AppendProperties
<1> HIDE DEF n
<1>6. HistoryOK'
  <2>1. \A i \in 1 .. n + 2 : Orderly(truth'[i])
    <3>1. \A i \in 1 .. n + 1 : Orderly(truth'[i])
      BY <1>2, <1>4 DEF HistoryOK
    <3>2. Orderly(truth'[n + 2])
      BY <1>3, <1>4
    <3>3. \A i \in 1 .. n + 2 : i = n + 2 \/ i \in 1 .. n + 1
      BY <1>2
    <3> QED BY <3>1, <3>2, <3>3
  <2>2. \A i \in 1 .. n + 1 : Follows(truth'[i], log'[i], truth'[i + 1])
    <3>1. Follows(truth'[n + 1], log'[n + 1], truth'[n + 2])
      BY <1>2, <1>4, <1>5 DEF Follows
    <3>2. ASSUME NEW i \in 1 .. n PROVE Follows(truth'[i], log'[i], truth'[i + 1])
      <4>1. Follows(truth[i], log[i], truth[i + 1])
        BY DEF HistoryOK, n
      <4>2. truth'[i] = truth[i] /\ truth'[i + 1] = truth[i + 1] /\ log'[i] = log[i]
        BY <1>2, <1>4, <1>5
      <4> QED BY <4>1, <4>2
    <3>3. \A i \in 1 .. n + 1 : i = n + 1 \/ i \in 1 .. n
      BY <1>2
    <3>4. n + 1 + 1 = n + 2
      BY <1>2
    <3> QED BY <3>1, <3>2, <3>3, <3>4
  <2> QED BY <1>2, <1>4, <1>5, <2>1, <2>2 DEF HistoryOK
<1>7. \A k \in 0 .. n : k \in 0 .. n + 1 /\ truth'[k + 1] = truth[k + 1]
  BY <1>2, <1>4
<1>8. SnapshotOK'
  <2> SUFFICES ASSUME snapshot' # None
               PROVE  \E k \in 0 .. n + 1 : SaysOf(k)'
    BY <1>5 DEF SnapshotOK
  <2>1. PICK k \in 0 .. n : SaysOf(k)
    BY <1>1 DEF SnapshotOK, n
  <2>2. ReportAfter(k)' = ReportAfter(k)
    BY <1>7 DEF ReportAfter
  <2>3. SaysOf(k)'
    BY <1>1, <2>1, <2>2 DEF SaysOf
  <2> QED BY <1>7, <2>3
<1>9. PoolOK'
  <2>1. heardUpTo' \in 0 .. n + 1
    BY <1>1, <1>2 DEF PoolOK, n
  <2>2. last_checked' # None => \E k \in 0 .. n + 1 : KnownSince(k)'
    BY <1>1, <1>7 DEF PoolOK, KnownSince, n
  <2> QED BY <1>1, <1>5, <2>1, <2>2 DEF PoolOK
<1> QED BY <1>1, <1>6, <1>8, <1>9

LEMMA TakeSnapshotKeepsInv ==
  ASSUME trusted, FeedInv, TakeSnapshot
  PROVE  FeedInv'
<1> USE DEF FeedInv
<1>1. UNCHANGED <<exists, pool, last_checked, trusted, truth, log, heardUpTo, repeated, offShelf>>
  BY DEF TakeSnapshot
<1>2. Len(log) \in Nat /\ Now = truth[Len(log) + 1]
  BY DEF HistoryOK, Now
<1>3. /\ snapshot'.report = ReportAfter(Len(log))
      /\ snapshot'.at = 2 * Len(log) \/ (Len(log) > 0 /\ snapshot'.at = 2 * Len(log) - 1)
  BY <1>2 DEF TakeSnapshot, ReportAfter, Present, Instants, EventDate
<1>4. SnapshotOK'
  <2>1. PICK n \in 0 .. Len(log) : n = Len(log)
    BY <1>2
  <2>2. ReportAfter(n)' = ReportAfter(n)
    BY <1>1 DEF ReportAfter
  <2>3. SaysOf(n)' /\ n \in 0 .. Len(log')
    BY <1>1, <1>3, <2>1, <2>2 DEF SaysOf
  <2> QED BY <2>3 DEF SnapshotOK
<1>5. HistoryOK' /\ PoolOK'
  BY <1>1 DEF HistoryOK, PoolOK, KnownSince
<1> QED BY <1>4, <1>5

\* What a snapshot says replaces what was known, if it is news.
LEMMA ApplySnapshotKeepsInv ==
  ASSUME trusted, FeedInv, ApplySnapshot
  PROVE  FeedInv'
<1> USE DEF FeedInv
<1>1. snapshot # None /\ snapshot' = None /\ UNCHANGED <<trusted, truth, log, heardUpTo>>
  BY DEF ApplySnapshot
<1>2. HistoryOK' /\ SnapshotOK'
  BY <1>1 DEF HistoryOK, SnapshotOK
<1>3. PICK n \in 0 .. Len(log) : SaysOf(n)
  BY <1>1 DEF SnapshotOK
<1> DEFINE t == snapshot.at
<1>4. /\ truth[n + 1] \in Lending /\ n \in Nat /\ Len(log) \in Nat /\ Orderly(truth[n + 1])
      /\ t \in Nat /\ (t = 2 * n \/ (n > 0 /\ t = 2 * n - 1))
  BY <1>3 DEF HistoryOK, SaysOf
<1>5. ReportAfter(n) \in Numbers
  BY <1>4 DEF ReportAfter, Numbers, Lending
<1>6. \A p : Merge(p, ReportAfter(n)) = ReportAfter(n)
  BY <1>5, ConstantsAssumption DEF Merge, Numbers
<1>7. Mentions(ReportAfter(n))
  BY <1>5, ConstantsAssumption DEF Mentions, Numbers
<1>8. \/ /\ pool' = ReportAfter(n) /\ last_checked' = t /\ exists' /\ repeated' = 0 /\ offShelf' = 0
         /\ NeedsUpdate(t) \/ ~exists
      \/ UNCHANGED <<pool, last_checked, exists, repeated, offShelf>>
  <2>1. snapshot.report = ReportAfter(n)
    BY <1>3 DEF SaysOf
  <2>2. CASE ApplyCirculationData(snapshot.report, snapshot.at, FALSE)
    <3>1. exists /\ exists'
      BY <2>2 DEF ApplyCirculationData
    <3>2. CASE NeedsUpdate(t)
      <4>1. repeated' = 0 /\ offShelf' = 0
        BY <3>2 DEF ApplySnapshot
      <4> QED BY <1>6, <1>7, <2>1, <2>2, <3>1, <3>2, <4>1 DEF ApplyCirculationData
    <3>3. CASE ~NeedsUpdate(t)
      <4>1. UNCHANGED <<repeated, offShelf>>
        BY <3>1, <3>3 DEF ApplySnapshot
      <4> QED BY <2>2, <3>1, <3>3, <4>1 DEF ApplyCirculationData
    <3> QED BY <3>2, <3>3
  <2>3. CASE FirstCirculationData(snapshot.report, snapshot.at, FALSE)
    <3>1. ~exists /\ exists' /\ repeated' = 0 /\ offShelf' = 0
      BY <2>3 DEF FirstCirculationData, ApplySnapshot
    <3> QED BY <1>6, <2>1, <2>3, <3>1 DEF FirstCirculationData
  <2> QED BY <2>2, <2>3 DEF ApplySnapshot
<1> HIDE DEF t
<1>9. PoolOK'
  <2>1. CASE UNCHANGED <<pool, last_checked, exists, repeated, offShelf>>
    BY <1>1, <2>1 DEF PoolOK, KnownSince
  <2>2. CASE /\ pool' = ReportAfter(n) /\ last_checked' = t /\ exists' /\ repeated' = 0 /\ offShelf' = 0
             /\ NeedsUpdate(t) \/ ~exists
    <3>1. n >= heardUpTo
      <4>1. CASE last_checked = None
        BY <1>4, <4>1 DEF PoolOK
      <4>2. CASE last_checked # None
        <5>1. PICK k \in 0 .. Len(log) : KnownSince(k)
          BY <4>2 DEF PoolOK
        <5>2. t >= last_checked
          BY <2>2, <4>2 DEF NeedsUpdate, PoolOK
        <5>3. heardUpTo \in Nat /\ k \in Nat
          BY DEF PoolOK
        <5> QED BY <1>4, <5>1, <5>2, <5>3 DEF KnownSince
      <4> QED BY <4>1, <4>2
    <3>2. Near(ReportAfter(n), truth[n + 1], 0, 0)
      BY <1>4 DEF Near, ReportAfter, Lending, Orderly
    <3>3. KnownSince(n)'
      BY <1>1, <1>4, <2>2, <3>1, <3>2 DEF KnownSince
    <3>4. last_checked' # None
      BY <1>4, <2>2, ConstantsAssumption
    <3>5. \E k \in 0 .. Len(log') : KnownSince(k)'
      BY <1>1, <3>3
    <3> QED BY <1>1, <1>5, <2>2, <3>4, <3>5 DEF PoolOK
  <2> QED BY <1>8, <2>1, <2>2
<1> QED BY <1>1, <1>2, <1>9

\* An event that is applied is the one after those the pool reflects, or the last of
\* them; one that was overtaken is ignored.
LEMMA HearKeepsNear ==
  ASSUME HistoryOK, PoolOK, NEW n \in 0 .. Len(log), KnownSince(n), last_checked # None,
         NEW i \in 1 .. Len(log), i <= heardUpTo + 1, Hear(i), UNCHANGED <<truth, log>>
  PROVE  \E m \in 0 .. Len(log) :
           /\ m >= n /\ m >= i
           /\ last_checked' = 2 * m \/ (m > 0 /\ last_checked' = 2 * m - 1)
           /\ Near(pool', truth[m + 1], repeated', offShelf')
           /\ pool' \in Numbers /\ repeated' \in Nat /\ offShelf' \in Nat
           /\ exists' /\ last_checked' \in Nat
<1> DEFINE changed == CalculateChange(pool, log[i], 1)
           Ends(m) == /\ m >= n /\ m >= i
                      /\ last_checked' = 2 * m \/ (m > 0 /\ last_checked' = 2 * m - 1)
                      /\ Near(pool', truth[m + 1], repeated', offShelf')
                      /\ pool' \in Numbers /\ repeated' \in Nat /\ offShelf' \in Nat
                      /\ exists' /\ last_checked' \in Nat
<1>1. /\ UpdateAvailabilityFromDelta(log[i], EventDate(i), 1)
      /\ repeated' = IF EventDate(i) = last_checked THEN repeated + 1 ELSE repeated
      /\ offShelf' = IF EventDate(i) > last_checked /\ OffShelf(i) THEN offShelf + 1 ELSE offShelf
  BY DEF Hear
<1>2. /\ n \in Nat /\ heardUpTo \in Nat /\ Len(log) \in Nat /\ i \in Nat /\ n >= heardUpTo
      /\ pool \in Numbers /\ repeated \in Nat /\ offShelf \in Nat
      /\ last_checked = 2 * n \/ (n > 0 /\ last_checked = 2 * n - 1)
      /\ Near(pool, truth[n + 1], repeated, offShelf)
  BY DEF PoolOK, HistoryOK, KnownSince
<1>3. EventDate(i) = 2 * i - 1 /\ EventDate(i) \in Nat /\ EventDate(i) # NoDate /\ last_checked \in Nat
  BY <1>2, ConstantsAssumption DEF EventDate
<1>4. exists'
  BY <1>1 DEF UpdateAvailabilityFromDelta
<1>5. \A k \in 0 .. Len(log) : truth[k + 1] \in Lending /\ Orderly(truth[k + 1])
  BY <1>2 DEF HistoryOK
<1>6. ASSUME ~Ignored(EventDate(i)), changed \in Numbers
      PROVE  pool' = changed /\ last_checked' = 2 * i - 1
  <2>1. Update(pool, changed, EventDate(i), last_checked)
    BY <1>1, <1>6 DEF UpdateAvailabilityFromDelta
  <2> HIDE DEF changed
  <2>2. Merge(pool, changed) = changed /\ Mentions(changed)
    BY <1>6, ConstantsAssumption DEF Merge, Mentions, Numbers
  <2> QED BY <1>3, <2>1, <2>2 DEF Update
<1>7. CASE Ignored(EventDate(i))
  <2>1. UNCHANGED <<pool, last_checked>>
    BY <1>1, <1>7 DEF UpdateAvailabilityFromDelta
  <2>2. 2 * i - 1 < last_checked
    BY <1>3, <1>7 DEF Ignored
  <2>3. UNCHANGED <<repeated, offShelf>>
    BY <1>1, <1>3, <2>2
  <2>4. Ends(n)
    BY <1>2, <1>3, <1>4, <2>1, <2>2, <2>3
  <2> QED BY <2>4
<1>8. CASE ~Ignored(EventDate(i)) /\ last_checked = 2 * i - 1
  <2>1. n = i /\ repeated' = repeated + 1 /\ offShelf' = offShelf
    BY <1>1, <1>2, <1>3, <1>8
  <2>2. log[i] \in EventTypes /\ log[i] # "title_remove"
    <3>1. Follows(truth[i], log[i], truth[i + 1]) /\ truth[i] \in Lending /\ Orderly(truth[i])
      BY <1>2 DEF HistoryOK
    <3> QED BY <3>1, StaysOrderly DEF Follows
  <2>3. changed \in Numbers /\ Near(changed, truth[n + 1], repeated + 1, offShelf)
    BY <1>2, <1>5, <2>2, RepeatKeepsNear
  <2>4. Ends(n)
    BY <1>2, <1>3, <1>4, <1>6, <1>8, <2>1, <2>3
  <2> QED BY <2>4
<1>9. CASE ~Ignored(EventDate(i)) /\ last_checked # 2 * i - 1
  <2>1. 2 * i - 1 > last_checked
    BY <1>2, <1>3, <1>9 DEF Ignored
  <2>2. n = i - 1 /\ repeated' = repeated
    BY <1>1, <1>2, <1>3, <2>1
  <2>3. /\ truth[i] \in Lending /\ Orderly(truth[i]) /\ Near(pool, truth[i], repeated, offShelf)
        /\ Follows(truth[i], log[i], truth[i + 1])
    BY <1>2, <2>2 DEF HistoryOK
  <2>4. PICK c \in Consequences(truth[i]) : c.type = log[i] /\ c.after = truth[i + 1]
    BY <2>3 DEF Follows
  <2> DEFINE lost == IF OffShelf(i) THEN 1 ELSE 0
  <2>5. lost \in {0, 1} /\ offShelf' = offShelf + lost
    BY <1>1, <1>2, <1>3, <2>1
  <2>6. lost = IF log[i] = "license_remove"
                  /\ c.after.available + c.after.setAside < truth[i].available + truth[i].setAside
               THEN 1 ELSE 0
    BY <2>4 DEF OffShelf
  <2> HIDE DEF lost
  <2>7. changed \in Numbers /\ Near(changed, truth[i + 1], repeated, offShelf + lost)
    BY <1>2, <2>3, <2>4, <2>5, <2>6, EventKeepsNear
  <2>8. offShelf' \in Nat
    BY <1>2, <2>5
  <2>9. Ends(i)
    BY <1>2, <1>3, <1>4, <1>6, <1>9, <2>2, <2>5, <2>7, <2>8
  <2> QED BY <1>2, <2>9
<1> QED BY <1>7, <1>8, <1>9

LEMMA FetchKeepsInv ==
  ASSUME trusted, FeedInv, Fetch \/ FetchAgain
  PROVE  FeedInv'
<1> USE DEF FeedInv
<1>1. /\ heardUpTo \in Nat /\ Len(log) \in Nat /\ heardUpTo <= Len(log)
      /\ heardUpTo > 0 => last_checked # None
  BY DEF PoolOK, HistoryOK
<1>2. PICK i \in 1 .. Len(log) :
        /\ i <= heardUpTo + 1 /\ Hear(i) /\ last_checked # None
        /\ heardUpTo' = i \/ heardUpTo' = heardUpTo
        /\ UNCHANGED <<trusted, truth, log, snapshot>>
  <2>1. CASE Fetch
    <3>1. heardUpTo + 1 \in 1 .. Len(log)
      BY <1>1, <2>1 DEF Fetch
    <3> QED BY <1>1, <2>1, <3>1 DEF Fetch
  <2>2. CASE FetchAgain
    <3>1. PICK i \in 1 .. heardUpTo : Hear(i)
      BY <2>2 DEF FetchAgain
    <3>2. i \in 1 .. Len(log) /\ i <= heardUpTo + 1 /\ heardUpTo > 0
      BY <1>1
    <3> QED BY <1>1, <2>2, <3>1, <3>2 DEF FetchAgain
  <2> QED BY <2>1, <2>2
<1>3. HistoryOK' /\ SnapshotOK'
  BY <1>2 DEF HistoryOK, SnapshotOK, SaysOf, ReportAfter
<1>4. PICK n \in 0 .. Len(log) : KnownSince(n)
  BY <1>2 DEF PoolOK
<1>5. PICK m \in 0 .. Len(log) :
        /\ m >= n /\ m >= i
        /\ last_checked' = 2 * m \/ (m > 0 /\ last_checked' = 2 * m - 1)
        /\ Near(pool', truth[m + 1], repeated', offShelf')
        /\ pool' \in Numbers /\ repeated' \in Nat /\ offShelf' \in Nat
        /\ exists' /\ last_checked' \in Nat
  BY <1>2, <1>4, HearKeepsNear
<1>6. m >= heardUpTo' /\ heardUpTo' \in 0 .. Len(log)
  BY <1>1, <1>2, <1>4, <1>5 DEF KnownSince
<1>7. KnownSince(m)'
  BY <1>2, <1>5, <1>6 DEF KnownSince
<1>8. last_checked' # None /\ log' = log
  BY <1>2, <1>5, ConstantsAssumption
<1>9. \E k \in 0 .. Len(log') : KnownSince(k)'
  BY <1>7, <1>8
<1>10. PoolOK'
  BY <1>5, <1>6, <1>8, <1>9 DEF PoolOK
<1> QED BY <1>3, <1>10

LEMMA FeedInvIsInductive ==
  /\ FeedInit => FeedInv
  /\ FeedInv /\ [FeedNext]_<<vars, feedVars>> => FeedInv'
<1>1. ASSUME FeedInit PROVE FeedInv
  <2>1. PICK copies \in 0 .. MaxCopies :
          truth = <<[owned |-> copies, available |-> copies, reserved |-> 0,
                     holds |-> 0, loans |-> 0, setAside |-> 0]>>
    BY <1>1 DEF FeedInit
  <2>2. log = <<>> /\ heardUpTo = 0 /\ snapshot = None /\ repeated = 0 /\ offShelf = 0 /\ exists = FALSE /\ last_checked = None /\ pool = NoCounts
    BY <1>1 DEF FeedInit, Init
  <2>3. truth[1] \in Lending /\ Len(truth) = 1 /\ truth \in Seq(Lending) /\ Orderly(truth[1])
    BY <2>1, ConstantsAssumption DEF Lending, Orderly
  <2>4. HistoryOK
    BY <2>2, <2>3 DEF HistoryOK
  <2>5. SnapshotOK /\ PoolOK
    BY <2>2 DEF SnapshotOK, PoolOK, NoCounts, Numbers
  <2> QED BY <2>4, <2>5 DEF FeedInv
<1>2. ASSUME FeedInv, [FeedNext]_<<vars, feedVars>> PROVE FeedInv'
  <2>1. CASE trusted /\ (Happen \/ TakeSnapshot \/ ApplySnapshot)
    BY <1>2, <2>1, HappenKeepsInv, TakeSnapshotKeepsInv, ApplySnapshotKeepsInv
  <2>2. CASE trusted /\ (Fetch \/ FetchAgain)
    BY <1>2, <2>2, FetchKeepsInv
  <2>3. CASE ~trusted /\ UNCHANGED feedVars
    BY <2>3 DEF FeedInv, feedVars
  <2>4. CASE UNCHANGED <<vars, feedVars>>
    BY <1>2, <2>4 DEF vars, feedVars, FeedInv, HistoryOK, SnapshotOK, SaysOf, ReportAfter, PoolOK, KnownSince
  <2> QED BY <1>2, <2>1, <2>2, <2>3, <2>4 DEF FeedNext
<1> QED BY <1>1, <1>2

LEMMA NearMeans ==
  ASSUME NEW p \in Numbers, NEW d \in Lending, NEW r \in Nat, NEW s \in Nat, Near(p, d, r, s), Orderly(d)
  PROVE  /\ p.owned - d.owned \in -r .. r
         /\ p.holds - d.holds \in -r .. r
         /\ p.available <= d.available + r + s
<1>1. /\ p.owned \in Nat /\ p.available \in Nat /\ p.holds \in Nat
      /\ d.owned \in Nat /\ d.available \in Nat /\ d.holds \in Nat /\ d.setAside \in Nat
  BY DEF Numbers, Lending
<1> QED BY <1>1 DEF Near, Orderly

\* LicensePool's update_availability and update_availability_from_delta under the monitors
\* and importers of one distributor: whatever mixture of snapshots and events, late,
\* overtaken or handed over again, the pool learns from, its licenses and its queue are
\* right as of last_checked but for the events dated last_checked that were applied again
\* since the last snapshot; and it offers no copy that was not on the shelf then but for
\* those, and for the copies that were lost from the shelf.
THEOREM CountsFollowTheDistributor == FeedSpec => []CountsAreThoseOfLastChecked
<1>1. FeedInv => CountsAreThoseOfLastChecked
  <2> DEFINE d == TruthAt(last_checked)
  <2> SUFFICES ASSUME FeedInv, trusted, last_checked # None
               PROVE  /\ pool.owned - d.owned \in -repeated .. repeated
                      /\ pool.holds - d.holds \in -repeated .. repeated
                      /\ pool.available <= d.available + repeated + offShelf
    BY DEF CountsAreThoseOfLastChecked
  <2>1. PICK n \in 0 .. Len(log) : KnownSince(n)
    BY DEF FeedInv, PoolOK
  <2>2. n \in Nat /\ truth[n + 1] \in Lending /\ Orderly(truth[n + 1])
    BY DEF FeedInv, HistoryOK
  <2>3. ((last_checked + 1) \div 2) + 1 = n + 1
    BY <2>1, <2>2 DEF KnownSince
  <2>4. d = truth[n + 1]
    BY <2>3 DEF TruthAt
  <2> HIDE DEF d
  <2>5. /\ d \in Lending /\ pool \in Numbers /\ repeated \in Nat /\ offShelf \in Nat
        /\ Orderly(d) /\ Near(pool, d, repeated, offShelf)
    BY <2>1, <2>2, <2>4 DEF FeedInv, PoolOK, KnownSince
  <2> QED BY <2>5, NearMeans
<1> QED BY <1>1, FeedInvIsInductive, PTL DEF FeedSpec
=============================================================================
