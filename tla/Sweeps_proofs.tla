---------------------------- MODULE Sweeps_proofs ---------------------------
(***************************************************************************)
(* Theorems about SweepMonitor, Reapers, Presentation and WorkClassifier,  *)
(* for every table, every batch size and every set of rows that may raise, *)
(* for every set of pools, for every set of sources and whatever they may  *)
(* say of a book, and for every set of classifications.                    *)
(***************************************************************************)
EXTENDS SweepMonitor, Reapers, Presentation, WorkClassifier,
        FiniteSetTheorems, WellFoundedInduction, TLAPS

(* The numbers that a set of naturals lacks up to MaxId have a least one,  *)
(* so that the set has a greatest.                                         *)
LEMMA MaxOfIds ==
  ASSUME NEW S \in SUBSET Ids, S # {}
  PROVE  Max(S) \in S /\ \A i \in S : i <= Max(S)
<1> USE SweepAssumption
<1> DEFINE T == {MaxId - i : i \in S}
<1>1. T \subseteq Nat /\ T # {}
  <2>1. \A i \in S : i \in Int /\ i <= MaxId
    BY DEF Ids
  <2>2. \A i \in S : MaxId - i \in Nat
    BY <2>1
  <2>3. T # {}
    BY Zenon
  <2> QED BY <2>2, <2>3
<1>2. PICK t \in T : \A u \in T : ~ (<<u, t>> \in OpToRel(<, Nat))
  BY <1>1, NatLessThanWellFounded, WFMin, Zenon
<1>3. \A u \in T : ~ (u < t)
  BY <1>1, <1>2 DEF OpToRel
<1>4. PICK m \in S : t = MaxId - m
  OBVIOUS
<1>5. \A i \in S : i \in Int
  BY DEF Ids
<1>6. \A i \in S : m >= i
  <2> TAKE i \in S
  <2>1. ~ (MaxId - i < MaxId - m)
    BY <1>3, <1>4
  <2> QED
    BY <1>5, <2>1
<1>7. \E x \in S : \A y \in S : x >= y
  BY <1>6
<1>8. Max(S) \in S /\ \A y \in S : Max(S) >= y
  BY <1>7, Zenon DEF Max
<1> QED
  BY <1>5, <1>8

LEMMA IdsAreFinite ==
  ASSUME NEW S \in SUBSET Ids
  PROVE  IsFiniteSet(S) /\ Cardinality(S) \in Nat /\ (S # {} => Cardinality(S) > 0)
<1>1. IsFiniteSet(Ids)
  BY SweepAssumption, FS_Interval DEF Ids
<1>2. IsFiniteSet(S)
  BY <1>1, FS_Subset
<1>3. Cardinality(S) \in Nat
  BY <1>2, FS_CardinalityType
<1> QED
  BY <1>2, <1>3, FS_EmptySet

(* The first rows past the offset are some, if there are any, and a row    *)
(* they leave out is behind all of them.                                   *)
LEMMA BatchesAreFirst ==
  ASSUME table \subseteq Ids, Ahead # {}, NEW b, IsBatch(b)
  PROVE  /\ b # {} /\ b \subseteq Ahead
         /\ \A i \in Ahead, j \in b : i <= j => i \in b
<1>1. Ahead \subseteq Ids
  BY DEF Ahead
<1>2. Cardinality(Ahead) \in Nat /\ Cardinality(Ahead) > 0
  BY <1>1, IdsAreFinite
<1>3. BatchSize \in Nat /\ BatchSize > 0
  BY SweepAssumption
<1>4. Min({BatchSize, Cardinality(Ahead)}) > 0
  <2>1. \E x \in {BatchSize, Cardinality(Ahead)} :
          \A y \in {BatchSize, Cardinality(Ahead)} : x =< y
    BY <1>2, <1>3
  <2>2. Min({BatchSize, Cardinality(Ahead)}) \in {BatchSize, Cardinality(Ahead)}
    BY <2>1, Zenon DEF Min
  <2> QED
    BY <1>2, <1>3, <2>2
<1>5. b # {}
  BY <1>4, FS_EmptySet DEF IsBatch
<1>6. \A i \in Ids : i \in Int
  BY DEF Ids
<1> QED
  BY <1>1, <1>5, <1>6 DEF IsBatch

(* What the counter says of the rows that have been there since the sweep  *)
(* began, and what the batch in hand adds to it.                           *)
Behind(rows) == \A i \in steady : i <= counter => i \in rows

InHand ==
  /\ items # {}
  /\ items \subseteq done \cup todo
  /\ \A i \in steady, j \in items : (i > offset /\ i <= j) => i \in items
  /\ Behind(doneBefore)

Inv ==
  /\ SweepTypeOK
  /\ stage # "idle" => offset = counter
  /\ Behind(done)
  /\ IF stage = "processing" THEN InHand ELSE items = {} /\ todo = {} /\ doneBefore = {}

LEMMA InitInv == SweepInit => Inv
<1> SUFFICES ASSUME SweepInit
             PROVE  Inv
  OBVIOUS
<1>1. SweepTypeOK
  <2>1. table \subseteq Ids /\ unborn \subseteq Ids /\ poison \subseteq Ids /\ steady \subseteq table
    BY SweepAssumption DEF SweepInit
  <2>2. /\ todo \subseteq items /\ items \subseteq Ids
        /\ doneBefore \subseteq done /\ done \subseteq Ids
    BY DEF SweepInit
  <2>3. counter \in Nat /\ offset \in Nat /\ failed \in BOOLEAN
    BY DEF SweepInit
  <2>4. stage \in {"idle", "fetching", "processing"}
    BY DEF SweepInit
  <2>5. deaths \in 0..MaxDeaths
    <3>1. deaths = 0 /\ MaxDeaths \in Nat
      BY SweepAssumption DEF SweepInit
    <3> QED
      BY <3>1
  <2> QED
    BY <2>1, <2>2, <2>3, <2>4, <2>5 DEF SweepTypeOK
<1>2. \A i \in steady : ~ (i <= counter)
  BY DEF SweepInit, Ids
<1> QED
  BY <1>1, <1>2 DEF SweepInit, Inv, Behind

LEMMA StepInv == Inv /\ [SweepNext]_sweepVars => Inv'
<1> SUFFICES ASSUME Inv, [SweepNext]_sweepVars
             PROVE  Inv'
  OBVIOUS
<1> USE SweepAssumption DEF Inv, SweepTypeOK
<1>1. ASSUME NEW i \in Ids, Insert(i)
      PROVE  Inv'
  BY <1>1 DEF Insert, Behind, InHand
<1>2. ASSUME NEW i \in Ids, Delete(i)
      PROVE  Inv'
  BY <1>2 DEF Delete, Behind, InHand
<1>11. ASSUME NEW i \in Ids, Mend(i)
       PROVE  Inv'
  BY <1>11 DEF Mend, Behind, InHand
<1>3. CASE StartSweep
  BY <1>3 DEF StartSweep, Behind
<1>4. CASE FetchBatch
  <2>1. PICK b \in SUBSET Ahead : IsBatch(b) /\ items' = b
    BY <1>4 DEF FetchBatch
  <2>2. /\ b # {} /\ b \subseteq Ahead
        /\ \A i \in Ahead, j \in b : i <= j => i \in b
    BY <1>4, <2>1, BatchesAreFirst DEF FetchBatch
  <2>3. \A i \in steady : i > offset => i \in Ahead
    BY DEF Ahead
  <2>4. b \subseteq Ids
    BY <2>2 DEF Ahead
  <2>5. UNCHANGED <<table, unborn, poison, counter, failed, offset, done, steady, deaths>>
        /\ todo' = b /\ items' = b /\ doneBefore' = done /\ stage' = "processing"
        /\ stage = "fetching"
    BY <1>4, <2>1 DEF FetchBatch
  <2>6. InHand'
    BY <2>2, <2>3, <2>5 DEF InHand, Behind
  <2> QED
    BY <2>4, <2>5, <2>6 DEF Behind
<1>5. ASSUME NEW i \in Ids, ProcessItem(i)
      PROVE  Inv'
  <2>1. SweepTypeOK' /\ UNCHANGED <<stage, offset, counter, items, doneBefore, steady>> /\ stage = "processing"
    BY <1>5 DEF ProcessItem
  <2>2. items \subseteq done' \cup todo'
    BY <1>5, <2>1 DEF ProcessItem, InHand
  <2>3. Behind(done)'
    BY <1>5 DEF ProcessItem, Behind
  <2> QED
    BY <2>1, <2>2, <2>3 DEF InHand, Behind
<1>6. CASE CompleteBatch
  <2>1. stage = "processing" /\ items # {} /\ todo = {}
    BY <1>6 DEF CompleteBatch, InHand
  <2>2. Max(items) \in items /\ \A i \in items : i <= Max(items)
    BY <2>1, MaxOfIds
  <2>3. Max(items) \in Nat
    <3>1. \A i \in items : i \in Nat
      BY DEF Ids
    <3> QED
      BY <2>2, <3>1
  <2>4. Behind(done)'
    <3> SUFFICES ASSUME NEW i \in steady, i <= Max(items)
                 PROVE  i \in done
      BY <1>6 DEF CompleteBatch, Behind
    <3>1. CASE i <= counter
      BY <3>1 DEF Behind
    <3>2. CASE i > offset
      BY <2>1, <2>2, <3>2 DEF InHand
    <3> QED
      BY <2>1, <3>1, <3>2 DEF Ids
  <2>5. /\ offset' = Max(items) /\ counter' = Max(items) /\ failed' = FALSE
        /\ items' = {} /\ doneBefore' = {} /\ stage' = "fetching"
        /\ UNCHANGED <<table, unborn, poison, todo, done, steady, deaths>>
    BY <1>6 DEF CompleteBatch
  <2> HIDE DEF Inv
  <2>6. SweepTypeOK'
    BY <2>1, <2>3, <2>5 DEF Inv
  <2> QED
    BY <2>1, <2>4, <2>5, <2>6 DEF Inv
<1>7. CASE CompleteSweep
  <2>1. \A i \in table : ~ (i <= 0)
    BY DEF Ids
  <2>2. Behind(done)'
    BY <1>7, <2>1 DEF CompleteSweep, Behind
  <2>3. SweepTypeOK'
    BY <1>7 DEF CompleteSweep
  <2> QED
    BY <1>7, <2>2, <2>3 DEF CompleteSweep
<1>8. CASE Raise
  BY <1>8 DEF Raise, Behind
<1>9. CASE SweepDies
  BY <1>9 DEF SweepDies, Behind, InHand
<1>10. CASE UNCHANGED sweepVars
  BY <1>10 DEF sweepVars, Behind, InHand
<1> QED
  BY <1>1, <1>2, <1>3, <1>4, <1>5, <1>6, <1>7, <1>8, <1>9, <1>10, <1>11 DEF SweepNext, SweepGoesOn

LEMMA Invariance == SweepSpec => []Inv
  BY InitInv, StepInv, PTL DEF SweepSpec

(* The monitor's variables have their types: the batch is part of the      *)
(* table's IDs and what is left of it part of the batch.                   *)
THEOREM TypeCorrect == SweepSpec => []SweepTypeOK
<1>1. Inv => SweepTypeOK
  BY DEF Inv
<1> QED
  BY <1>1, Invariance, PTL

(* For every table, what is behind the counter has been processed in this  *)
(* sweep or was not there when it began.                                   *)
THEOREM CounterStaysHonest == SweepSpec => []CounterIsHonest
<1>1. Inv => CounterIsHonest
  BY DEF Inv, Behind, CounterIsHonest
<1> QED
  BY <1>1, Invariance, PTL

(* For every table, however often items raise and the process dies, the    *)
(* sweep that ends has processed every row that was there throughout.      *)
THEOREM SweepsComplete == SweepSpec => SweepsAreComplete
<1> DEFINE Thorough ==
      (stage = "fetching" /\ stage' = "idle" /\ deaths' = deaths) => steady \subseteq done
<1>1. Inv /\ [SweepNext]_sweepVars => [Thorough]_sweepVars
  <2> SUFFICES ASSUME Inv, SweepNext, stage = "fetching", stage' = "idle", deaths' = deaths
               PROVE  steady \subseteq done
    OBVIOUS
  <2>1. CompleteSweep
    <3>1. deaths \in Nat
      BY SweepAssumption DEF Inv, SweepTypeOK
    <3> QED
      BY <3>1 DEF SweepNext, SweepGoesOn, Insert, Delete, Mend, StartSweep, FetchBatch, ProcessItem,
                  CompleteBatch, CompleteSweep, Raise, SweepDies
  <2>2. \A i \in steady : ~ (i > counter)
    BY <2>1 DEF CompleteSweep, Ahead, Inv, SweepTypeOK
  <2>3. \A i \in steady : i \in Int /\ counter \in Int
    BY DEF Inv, SweepTypeOK, Ids
  <2> QED
    BY <2>2, <2>3 DEF Inv, Behind
<1> QED
  BY <1>1, Invariance, PTL DEF SweepSpec, SweepsAreComplete

-----------------------------------------------------------------------------
(***************************************************************************)
(* What the reapers leave of the search index.                             *)
(***************************************************************************)
\* Only what belongs to marked collections is being deleted.
OnlyMarkedGo ==
  /\ reaping # 0 => reaping \in marked
  /\ doomedPools \subseteq pools
  /\ \A p \in doomedPools : p.collection \in marked

\* What has been deleted and not committed is in the index no more, unless its
\* document was uploaded since; what is about to be uploaded was there to be read.
DeletedLeaveTheIndex ==
  /\ documents \cap doomedWorks \subseteq overtaken
  /\ uploading \subseteq works \cup overtaken

ReapersInv == OnlyMarkedGo /\ DeletedLeaveTheIndex /\ DocumentsFollowWorks

\* A work of a collection that stays is never left without pools.
LEMMA OrphansWereMarked ==
  ASSUME ReapersInv, NEW p \in PoolsIn(reaping), reaping # 0, Orphaned(p),
         NEW q \in pools, q.collection \notin marked
  PROVE  q.work # p.work
<1>1. p.collection \in marked
  BY DEF PoolsIn, ReapersInv, OnlyMarkedGo
<1>2. q # p /\ q \notin doomedPools
  BY <1>1 DEF ReapersInv, OnlyMarkedGo
<1> QED BY <1>2 DEF Orphaned, PoolsOf

LEMMA DeletePoolKeepsReapersInv ==
  ASSUME ReapersInv, NEW p \in Pools, DeletePool(p)
  PROVE  ReapersInv'
<1>1. p \in PoolsIn(reaping) /\ reaping # 0 /\ UNCHANGED <<marked, reaping, uploading>>
  BY DEF DeletePool
<1>2. p \in pools /\ p.collection \in marked
  BY <1>1 DEF PoolsIn, ReapersInv, OnlyMarkedGo
<1>3. PICK commits \in BOOLEAN, sees \in BOOLEAN :
        LET goes == Orphaned(p) /\ (commits \/ sees) IN
        /\ IF commits
           THEN /\ pools' = pools \ (doomedPools \cup {p}) /\ DeleteWorks(doomedWorks)
                /\ doomedPools' = {} /\ doomedWorks' = {w \in {p.work} : goes}
           ELSE /\ doomedPools' = doomedPools \cup {p}
                /\ doomedWorks' = doomedWorks \cup {w \in {p.work} : goes}
                /\ UNCHANGED <<pools, works, overtaken>>
        /\ documents' = documents \ {w \in {p.work} : goes}
  BY DEF DeletePool
<1> DEFINE gone == {w \in {p.work} : Orphaned(p) /\ (commits \/ sees)}
<1>4. documents' = documents \ gone /\ gone \subseteq {p.work} /\ (gone # {} => Orphaned(p))
  BY <1>3
<1>5. \A q \in pools : q.collection \notin marked => q.work \in documents'
  BY <1>1, <1>4, OrphansWereMarked DEF ReapersInv, DocumentsFollowWorks
<1>6. CASE commits
  <2>1. /\ pools' = pools \ (doomedPools \cup {p}) /\ doomedPools' = {} /\ doomedWorks' = gone
        /\ works' = works \ doomedWorks /\ overtaken' = overtaken \cup (doomedWorks \cap uploading)
    BY <1>3, <1>6 DEF DeleteWorks
  <2> HIDE DEF gone
  <2> QED BY <2>1, <1>1, <1>4, <1>5 DEF ReapersInv, OnlyMarkedGo, DeletedLeaveTheIndex, DocumentsFollowWorks
<1>7. CASE ~commits
  <2>1. /\ doomedPools' = doomedPools \cup {p} /\ doomedWorks' = doomedWorks \cup gone
        /\ UNCHANGED <<pools, works, overtaken>>
    BY <1>3, <1>7
  <2> HIDE DEF gone
  <2> QED BY <2>1, <1>1, <1>2, <1>4, <1>5 DEF ReapersInv, OnlyMarkedGo, DeletedLeaveTheIndex, DocumentsFollowWorks
<1> QED BY <1>6, <1>7

LEMMA ReapersInvIsInductive == ReapersSpec => []ReapersInv
<1>1. ReapersInit => ReapersInv
  BY DEF ReapersInit, ReapersInv, OnlyMarkedGo, DeletedLeaveTheIndex, DocumentsFollowWorks
<1>2. ReapersInv /\ [ReapersNext]_reapersVars => ReapersInv'
  <2> SUFFICES ASSUME ReapersInv, [ReapersNext]_reapersVars PROVE ReapersInv'
    OBVIOUS
  <2> USE DEF ReapersInv, OnlyMarkedGo, DeletedLeaveTheIndex, DocumentsFollowWorks, tables, reaper
  <2>1. ASSUME NEW c \in Shelves, MarkForDeletion(c) \/ ReapCollection(c) PROVE ReapersInv'
    BY <2>1 DEF MarkForDeletion, ReapCollection
  <2>2. ASSUME NEW p \in Pools, DeletePool(p) PROVE ReapersInv'
    BY <2>2, DeletePoolKeepsReapersInv
  <2>3. CASE DeleteCollection \/ CommitBatch
    <3>1. works' = works \ doomedWorks /\ overtaken' = overtaken \cup (doomedWorks \cap uploading)
          /\ pools' \subseteq pools /\ doomedWorks' = {} /\ UNCHANGED <<marked, documents, uploading>>
      BY <2>3 DEF DeleteCollection, CommitBatch, DeleteWorks
    <3>2. OnlyMarkedGo'
      BY <2>3 DEF DeleteCollection, CommitBatch
    <3> QED BY <3>1, <3>2
  <2>4. ASSUME NEW w \in Titles, ReapWork(w) PROVE ReapersInv'
    BY <2>4 DEF ReapWork
  <2>5. CASE ReaperDies
    BY <2>5 DEF ReaperDies
  <2>6. CASE MakeDocuments
    BY <2>6 DEF MakeDocuments
  <2>7. CASE UploadDocuments
    BY <2>7 DEF UploadDocuments
  <2>8. CASE UNCHANGED reapersVars
    BY <2>8 DEF reapersVars
  <2> QED BY <2>1, <2>2, <2>3, <2>4, <2>5, <2>6, <2>7, <2>8 DEF ReapersNext, CollectionReaper, WorkReaper
<1> QED BY <1>1, <1>2, PTL DEF ReapersSpec

(* A search document outlives its work only when it had been made before the work's    *)
(* deletion was committed, and a work of a collection that stays keeps its document,   *)
(* for every set of pools and of works, however the deletions are cut into commits and *)
(* wherever the reapers die: Collection.delete, WorkReaper and Work.delete.            *)
THEOREM DocumentsGoWithWorks == ReapersSpec => []DocumentsFollowWorks
<1>1. ReapersInv => DocumentsFollowWorks
  BY DEF ReapersInv
<1> QED BY <1>1, ReapersInvIsInductive, PTL

-----------------------------------------------------------------------------
(***************************************************************************)
(* What readers see of a Work.                                             *)
(***************************************************************************)
IsEdition(e) == e = [series |-> e.series, cover |-> e.cover, updated |-> e.updated]

PresentationTypeOK ==
  /\ edition = [s \in SourceSet |-> edition[s]] /\ said = [s \in SourceSet |-> said[s]]
  /\ \A s \in SourceSet :
       /\ IsEdition(edition[s]) /\ edition[s].series # Cleared
       /\ edition[s] = NoEdition \/ edition[s].updated \in Nat
       /\ said[s].cover \in Int \cup {None} /\ said[s].description \in Int \cup {None}
  /\ edition[Own].updated \in Nat
  /\ IsEdition(composite)
  /\ work.edition \in {"own", "composite"}

DescriptionsAreOffered ==
  \A s \in SourceSet : said[s].description = None \/ \E o \in Offers[s] : said[s].description = o.description

\* The cover of an Edition was chosen when its source last spoke, or later.
CoversAreChosen ==
  \A s \in SourceSet : said[s].cover # None => edition[s].cover # None /\ edition[s].cover >= said[s].cover

\* As long as the expensive recalculation is not registered, it would change nothing,
\* unless a description was withdrawn.
ClassifiedUnlessFlagged ==
  "classify" \notin flagged =>
    /\ work.genres = GenresOf(said)
    /\ work.summary = BestSummary(said) \/ work.summary \notin Descriptions(said, SourceSet)

\* As long as none is registered, neither would the cheap one.
ChosenUnlessFlagged ==
  flagged = {} =>
    /\ Presented.cover = BestCover(said)
    /\ Presented.series = Combined \/ Combined = None

\* The OPDS entry is that of the Work and of a composite, whatever is registered.
EntryIsFollowed ==
  /\ entry.summary = work.summary /\ entry.genres = work.genres
  /\ work.edition = "composite" => entry = Shown(composite, work)

PresentationInv ==
  /\ PresentationTypeOK /\ DescriptionsAreOffered /\ CoversAreChosen
  /\ ClassifiedUnlessFlagged /\ ChosenUnlessFlagged /\ EntryIsFollowed

-----------------------------------------------------------------------------
LEMMA SourcesAreFinite == IsFiniteSet(SourceSet)
<1>1. Len(Sources) \in Nat /\ DOMAIN Sources = 1 .. Len(Sources)
  BY PresentationAssumption
<1>2. IsFiniteSet(DOMAIN Sources)
  BY <1>1, FS_Interval
<1>3. \A t \in SourceSet : \E i \in DOMAIN Sources : Sources[i] = t
  BY DEF SourceSet
<1>4. Sources \in [DOMAIN Sources -> SourceSet]
  BY <1>1, PresentationAssumption
<1>5. Sources \in Surjection(DOMAIN Sources, SourceSet)
  BY <1>3, <1>4 DEF Surjection
<1> QED BY <1>2, <1>5, FS_Surjection

\* The greatest of finitely many numbers: the one that most are below.
LEMMA Greatest ==
  ASSUME NEW S, S \subseteq Int, IsFiniteSet(S), S # {}
  PROVE  Max(S) \in S /\ \A x \in S : x <= Max(S)
<1> DEFINE Above(x) == {y \in S : y > x}
           T == {Cardinality(Above(x)) : x \in S}
<1>1. ASSUME NEW x \in S PROVE IsFiniteSet(Above(x)) /\ Cardinality(Above(x)) \in Nat
  <2>1. Above(x) \subseteq S
    OBVIOUS
  <2> QED BY <2>1, FS_Subset, FS_CardinalityType
<1>2. PICK t \in T : \A u \in T : ~ (<<u, t>> \in OpToRel(<, Nat))
  <2>1. T # {}
    <3>1. PICK x \in S : TRUE
      OBVIOUS
    <3>2. Cardinality(Above(x)) \in T
      OBVIOUS
    <3> QED BY <3>2
  <2>2. T \subseteq Nat
    <3> HIDE DEF Above
    <3> QED BY <1>1
  <2> QED BY <2>1, <2>2, NatLessThanWellFounded, WFMin, Zenon
<1>3. PICK x \in S : t = Cardinality(Above(x))
  OBVIOUS
<1>4. ASSUME NEW y \in S, y > x PROVE FALSE
  <2>1. Above(y) \subseteq Above(x) /\ y \in Above(x) /\ y \notin Above(y)
    <3>1. x \in Int /\ y \in Int /\ \A z \in Above(y) : z \in S /\ z \in Int /\ z > y
      BY <1>4
    <3>2. \A z \in Above(y) : z > x
      BY <1>4, <3>1
    <3>3. Above(y) \subseteq Above(x)
      <4> SUFFICES ASSUME NEW z \in Above(y) PROVE z \in Above(x)
        OBVIOUS
      <4>1. z \in S /\ z > x
        BY <3>1, <3>2
      <4> QED BY <4>1
    <3>4. y \in Above(x) /\ y \notin Above(y)
      BY <1>4, <3>1
    <3> HIDE DEF Above
    <3> QED BY <3>3, <3>4
  <2>2. Cardinality(Above(y)) <= Cardinality(Above(x)) /\ (Cardinality(Above(y)) = Cardinality(Above(x)) => Above(y) = Above(x))
    BY <1>1, <2>1, FS_Subset
  <2>3. Cardinality(Above(y)) \in Nat /\ Cardinality(Above(x)) \in Nat
    BY <1>1, <1>4
  <2>4. Cardinality(Above(y)) < Cardinality(Above(x))
    BY <2>1, <2>2, <2>3
  <2>5. <<Cardinality(Above(y)), t>> \in OpToRel(<, Nat)
    BY <1>3, <2>3, <2>4 DEF OpToRel
  <2>6. Cardinality(Above(y)) \in T
    BY <1>4
  <2> HIDE DEF T, Above
  <2> QED BY <1>2, <2>5, <2>6
<1>5. \A y \in S : x >= y
  BY <1>4
<1> HIDE DEF T, Above
<1>6. Max(S) \in S /\ \A y \in S : Max(S) >= y
  BY <1>5 DEF Max
<1> QED BY <1>6

\* The greatest one is the greatest of what remains as long as it remains.
LEMMA GreatestStays ==
  ASSUME NEW S, S \subseteq Int, IsFiniteSet(S), NEW T, T \subseteq S, Max(S) \in T
  PROVE  Max(T) = Max(S)
<1>1. IsFiniteSet(T) /\ T # {} /\ S # {}
  BY FS_Subset
<1>2. Max(T) \in T /\ \A x \in T : x <= Max(T)
  BY <1>1, Greatest
<1>3. Max(S) \in S /\ \A x \in S : x <= Max(S)
  BY <1>1, Greatest
<1>4. Max(S) \in Int /\ Max(T) \in Int
  BY <1>2, <1>3
<1>5. Max(T) <= Max(S)
  BY <1>2, <1>3
<1>6. Max(S) <= Max(T)
  BY <1>2
<1> QED BY <1>4, <1>5, <1>6

LEMMA LastOfSources ==
  ASSUME NEW S, S \subseteq DOMAIN Sources, S # {}
  PROVE  Max(S) \in S /\ Max(S) \in DOMAIN Sources
<1>1. Len(Sources) \in Nat /\ DOMAIN Sources = 1 .. Len(Sources)
  BY PresentationAssumption
<1>2. S \subseteq Int
  BY <1>1
<1>3. IsFiniteSet(DOMAIN Sources)
  BY <1>1, FS_Interval
<1>4. IsFiniteSet(S)
  BY <1>3, FS_Subset
<1> QED BY <1>2, <1>4, Greatest

LEMMA SameFields ==
  ASSUME \A i \in DOMAIN Sources : edition'[Sources[i]].series = edition[Sources[i]].series
  PROVE  Combined' = Combined
<1> DEFINE having == {i \in DOMAIN Sources : edition[Sources[i]].series # None}
           having2 == {i \in DOMAIN Sources : edition'[Sources[i]].series # None}
<1>1. having2 = having
  OBVIOUS
<1>2. /\ Combined = IF having = {} THEN None ELSE edition[Sources[Max(having)]].series
      /\ Combined' = IF having2 = {} THEN None ELSE edition'[Sources[Max(having2)]].series
  BY DEF Combined
<1>3. having # {} => Max(having) \in DOMAIN Sources
  <2>1. having \subseteq DOMAIN Sources
    OBVIOUS
  <2> HIDE DEF having
  <2> QED BY <2>1, LastOfSources
<1> HIDE DEF having, having2
<1> QED BY <1>1, <1>2, <1>3

-----------------------------------------------------------------------------
(* What a source says that flags nothing.                                  *)
Quiet(s, offer) ==
  /\ offer.series \in {None, edition[s].series}
  /\ offer.cover = None /\ BestCover(Replaced(s, offer)) = edition[s].cover

LEMMA ReplacedIs ==
  ASSUME PresentationTypeOK, NEW s \in SourceSet, NEW offer
  PROVE  /\ Replaced(s, offer)[s] = LinksOf(offer)
         /\ \A u \in SourceSet \ {s} : Replaced(s, offer)[u] = said[u]
         /\ Replaced(s, offer) = [u \in SourceSet |-> Replaced(s, offer)[u]]
BY DEF PresentationTypeOK, Replaced

\* The links of the best covers that go are no better than the cover that stays.
LEMMA QuietCovers ==
  ASSUME PresentationTypeOK, CoversAreChosen, NEW s \in SourceSet, NEW offer, Quiet(s, offer)
  PROVE  BestCover(Replaced(s, offer)) = BestCover(said)
<1> DEFINE now == Replaced(s, offer)
           old == {said[u].cover : u \in SourceSet} \ {None}
           new == {now[u].cover : u \in SourceSet} \ {None}
<1>1. /\ now[s].cover = None /\ \A u \in SourceSet \ {s} : now[u].cover = said[u].cover
  <2>1. now[s] = LinksOf(offer) /\ \A u \in SourceSet \ {s} : now[u] = said[u]
    BY ReplacedIs, Zenon
  <2>2. LinksOf(offer).cover = None
    BY DEF Quiet, LinksOf
  <2> HIDE DEF now
  <2> QED BY <2>1, <2>2
<1>2. new \subseteq old /\ old \subseteq new \cup {said[s].cover}
  <2> HIDE DEF now
  <2>1. ASSUME NEW x \in new PROVE x \in old
    <3>1. PICK u \in SourceSet : x = now[u].cover /\ x # None
      BY <2>1
    <3>2. u # s
      BY <1>1, <3>1
    <3> QED BY <1>1, <3>1, <3>2
  <2>2. ASSUME NEW x \in old, x # said[s].cover PROVE x \in new
    <3>1. PICK u \in SourceSet : x = said[u].cover /\ x # None
      BY <2>2
    <3>2. u # s
      BY <2>2, <3>1
    <3> QED BY <1>1, <3>1, <3>2
  <2> HIDE DEF old, new
  <2> QED BY <2>1, <2>2
<1>3. BestCover(now) = (IF new = {} THEN None ELSE Max(new)) /\ BestCover(said) = IF old = {} THEN None ELSE Max(old)
  BY DEF BestCover
<1>4. old \subseteq Int /\ IsFiniteSet(old)
  <2>1. old \subseteq Int
    BY DEF PresentationTypeOK
  <2>2. IsFiniteSet({said[u].cover : u \in SourceSet})
    <3> DEFINE f == [u \in SourceSet |-> said[u].cover]
    <3>1. f \in Surjection(SourceSet, {said[u].cover : u \in SourceSet})
      BY DEF Surjection
    <3> HIDE DEF f
    <3> QED BY <3>1, SourcesAreFinite, FS_Surjection
  <2> QED BY <2>1, <2>2, FS_Subset
<1> HIDE DEF now, old, new
<1>5. CASE said[s].cover = None
  <2>1. new = old
    BY <1>2, <1>5 DEF old
  <2> QED BY <1>3, <2>1 DEF now
<1>6. CASE said[s].cover # None
  <2>1. edition[s].cover # None /\ edition[s].cover >= said[s].cover /\ edition[s].cover = BestCover(now)
    BY <1>6 DEF CoversAreChosen, Quiet, now
  <2>2. new # {} /\ BestCover(now) = Max(new)
    BY <1>3, <2>1
  <2>3. IsFiniteSet(new) /\ new \subseteq Int
    BY <1>2, <1>4, FS_Subset
  <2>4. Max(new) \in new /\ \A x \in new : x <= Max(new)
    BY <2>2, <2>3, Greatest
  <2>5. said[s].cover \in Int
    BY <1>6 DEF PresentationTypeOK
  <2>6. old # {} /\ Max(old) \in old /\ \A x \in old : x <= Max(old)
    BY <1>2, <1>4, <2>4, Greatest
  <2>7. Max(new) \in Int /\ Max(old) \in Int /\ Max(new) <= Max(old)
    BY <1>2, <1>4, <2>3, <2>4, <2>6
  <2>8. Max(old) <= Max(new)
    <3>1. CASE Max(old) \in new
      BY <2>4, <3>1
    <3>2. CASE Max(old) = said[s].cover
      BY <2>1, <2>2, <3>2
    <3> QED BY <1>2, <2>6, <3>1, <3>2
  <2>9. Max(old) = Max(new)
    BY <2>7, <2>8
  <2> QED BY <1>3, <2>2, <2>6, <2>9 DEF now
<1> QED BY <1>5, <1>6

\* A description that goes takes the summary with it, or leaves it the best there is.
LEMMA QuietDescriptions ==
  ASSUME PresentationTypeOK, DescriptionsAreOffered, NEW s \in SourceSet, NEW offer, offer.description = None,
         NEW summary, summary = BestSummary(said) \/ summary \notin Descriptions(said, SourceSet)
  PROVE  summary = BestSummary(Replaced(s, offer)) \/ summary \notin Descriptions(Replaced(s, offer), SourceSet)
<1> DEFINE now == Replaced(s, offer)
<1>1. /\ now[s].description = None /\ \A u \in SourceSet \ {s} : now[u].description = said[u].description
  <2>1. now[s] = LinksOf(offer) /\ \A u \in SourceSet \ {s} : now[u] = said[u]
    BY ReplacedIs, Zenon
  <2>2. LinksOf(offer).description = None
    BY DEF LinksOf
  <2> HIDE DEF now
  <2> QED BY <2>1, <2>2
<1>2. Staff \in SourceSet /\ Own \in SourceSet /\ Staff # Own
  BY PresentationAssumption
<1> HIDE DEF now
<1>3. Descriptions(now, SourceSet) \subseteq Descriptions(said, SourceSet)
  BY <1>1 DEF Descriptions
<1>4. SUFFICES ASSUME summary = BestSummary(said), summary \in Descriptions(now, SourceSet)
               PROVE  summary = BestSummary(now)
  BY <1>3 DEF now
<1>5. PICK u \in SourceSet : summary = now[u].description /\ summary # None
  BY <1>4 DEF Descriptions
<1>6. u # s /\ summary = said[u].description
  BY <1>1, <1>5
<1>7. \A v \in SourceSet : said[v].description = summary => v = u
  <2> SUFFICES ASSUME NEW v \in SourceSet, said[v].description = summary PROVE v = u
    OBVIOUS
  <2>1. PICK o \in Offers[u] : o.description = summary
    BY <1>5, <1>6 DEF DescriptionsAreOffered
  <2>2. PICK p \in Offers[v] : p.description = summary
    BY <1>5 DEF DescriptionsAreOffered
  <2>3. o.description = p.description /\ o.description # None
    BY <1>5, <2>1, <2>2
  <2>4. v = u \/ o.description = None
    BY <2>3, PresentationAssumption
  <2> QED BY <2>3, <2>4
<1>8. \A S \in SUBSET SourceSet : IsFiniteSet(Descriptions(said, S)) /\ Descriptions(said, S) \subseteq Int
  <2> SUFFICES ASSUME NEW S \in SUBSET SourceSet
               PROVE  IsFiniteSet(Descriptions(said, S)) /\ Descriptions(said, S) \subseteq Int
    OBVIOUS
  <2>1. Descriptions(said, S) \subseteq Int
    BY DEF Descriptions, PresentationTypeOK
  <2>2. IsFiniteSet({said[v].description : v \in S})
    <3> DEFINE f == [v \in S |-> said[v].description]
    <3>1. f \in Surjection(S, {said[v].description : v \in S})
      BY DEF Surjection
    <3>2. IsFiniteSet(S)
      BY SourcesAreFinite, FS_Subset
    <3> HIDE DEF f
    <3> QED BY <3>1, <3>2, FS_Surjection
  <2> QED BY <2>1, <2>2, FS_Subset DEF Descriptions
<1>9. ASSUME NEW v \in SourceSet, said[v].description # None
      PROVE  Descriptions(said, {v}) # {} /\ Max(Descriptions(said, {v})) = said[v].description
  <2>1. Descriptions(said, {v}) = {said[v].description}
    BY <1>9 DEF Descriptions
  <2>2. IsFiniteSet(Descriptions(said, {v})) /\ Descriptions(said, {v}) \subseteq Int
    BY <1>8
  <2> QED BY <2>1, <2>2, Greatest
<1>10. CASE said[Staff].description # None
  <2>1. BestSummary(said) = said[Staff].description
    BY <1>2, <1>9, <1>10 DEF BestSummary
  <2>2. u = Staff
    BY <1>2, <1>4, <1>7, <2>1
  <2>3. now[Staff].description = summary /\ Descriptions(now, {Staff}) = Descriptions(said, {Staff})
    BY <1>5, <1>6, <2>2 DEF Descriptions
  <2> QED BY <1>5, <1>4, <1>10, <2>3 DEF BestSummary
<1>11. CASE said[Staff].description = None /\ said[Own].description # None
  <2>1. BestSummary(said) = said[Own].description
    BY <1>2, <1>9, <1>11 DEF BestSummary
  <2>2. u = Own
    BY <1>2, <1>4, <1>7, <2>1
  <2>3. now[Own].description = summary /\ Descriptions(now, {Own}) = Descriptions(said, {Own}) /\ now[Staff].description = None
    BY <1>1, <1>2, <1>5, <1>6, <1>11, <2>2 DEF Descriptions
  <2> QED BY <1>5, <1>4, <1>11, <2>3 DEF BestSummary
<1>12. CASE said[Staff].description = None /\ said[Own].description = None
  <2>1. now[Staff].description = None /\ now[Own].description = None
    BY <1>1, <1>2, <1>12
  <2>2. Descriptions(said, SourceSet) # {} /\ Descriptions(now, SourceSet) # {}
    BY <1>3, <1>4
  <2>3. summary = Max(Descriptions(said, SourceSet))
    BY <1>4, <1>12, <2>2 DEF BestSummary
  <2>4. Max(Descriptions(now, SourceSet)) = summary
    BY <1>3, <1>4, <1>8, <2>3, GreatestStays
  <2> QED BY <2>1, <2>2, <2>4 DEF BestSummary
<1> QED BY <1>10, <1>11, <1>12

\* The best cover is one of the best, and there is one where a source has one.
LEMMA BestCoverIs ==
  ASSUME NEW all, \A u \in SourceSet : all[u].cover \in Int \cup {None},
         NEW s \in SourceSet, all[s].cover # None
  PROVE  BestCover(all) # None /\ BestCover(all) >= all[s].cover
<1> DEFINE covers == {all[u].cover : u \in SourceSet} \ {None}
<1>1. covers \subseteq Int /\ all[s].cover \in covers /\ None \notin covers
  OBVIOUS
<1>2. IsFiniteSet(covers)
  <2> DEFINE f == [u \in SourceSet |-> all[u].cover]
  <2>1. f \in Surjection(SourceSet, {all[u].cover : u \in SourceSet})
    BY DEF Surjection
  <2> HIDE DEF f
  <2>2. IsFiniteSet({all[u].cover : u \in SourceSet})
    BY <2>1, SourcesAreFinite, FS_Surjection
  <2> QED BY <2>2, FS_Subset
<1>3. BestCover(all) = IF covers = {} THEN None ELSE Max(covers)
  BY DEF BestCover
<1> HIDE DEF covers
<1>4. Max(covers) \in covers /\ \A x \in covers : x <= Max(covers)
  BY <1>1, <1>2, Greatest
<1>5. BestCover(all) = Max(covers)
  BY <1>1, <1>3
<1>6. Max(covers) \in Int /\ all[s].cover \in Int /\ all[s].cover <= Max(covers)
  BY <1>1, <1>4
<1> QED BY <1>1, <1>4, <1>5, <1>6

\* Whatever a source says, and whatever its update flags, the invariant stays.
LEMMA ApplyKeeps ==
  ASSUME PresentationInv, NEW s \in SourceSet, NEW offer \in Offers[s], NEW updated \in Nat,
         ApplyMetadata(s, offer, updated)
  PROVE  PresentationInv'
<1> DEFINE old == edition[s]
           now == Replaced(s, offer)
           new == [series |-> Applied(offer.series, old.series), cover |-> BestCover(now), updated |-> updated]
           full == said[s].subjects # offer.subjects \/ offer.description # None
           cheap == offer.series \notin {None, old.series} \/ offer.cover # None \/ new.cover # old.cover
<1>1. /\ said' = now /\ edition' = [edition EXCEPT ![s] = new] /\ flagged' = flagged \cup Flag(full, cheap)
      /\ composite' = composite /\ work' = work /\ entry' = entry
  BY Zenon DEF ApplyMetadata
<1>2. PresentationTypeOK /\ DescriptionsAreOffered /\ CoversAreChosen
  BY DEF PresentationInv
<1>3. now[s] = LinksOf(offer) /\ (\A u \in SourceSet \ {s} : now[u] = said[u]) /\ now = [u \in SourceSet |-> now[u]]
  BY <1>2, ReplacedIs, Zenon
<1>4. edition'[s] = new /\ (\A u \in SourceSet \ {s} : edition'[u] = edition[u]) /\ edition' = [u \in SourceSet |-> edition'[u]]
  <2>1. edition = [u \in SourceSet |-> edition[u]]
    BY <1>2 DEF PresentationTypeOK
  <2> HIDE DEF new
  <2> QED BY <1>1, <2>1
<1>5. LinksOf(offer).cover = offer.cover /\ LinksOf(offer).description = offer.description /\ LinksOf(offer).subjects = offer.subjects
  BY DEF LinksOf
<1>6. offer.cover \in Int \cup {None} /\ offer.description \in Int \cup {None} /\ None # Cleared
  BY PresentationAssumption
<1>7. new.series = Applied(offer.series, old.series) /\ new.cover = BestCover(now) /\ new.updated = updated /\ IsEdition(new)
  BY DEF IsEdition
<1>8. \A u \in SourceSet : now[u].cover \in Int \cup {None} /\ now[u].description \in Int \cup {None}
  <2> HIDE DEF now
  <2> QED BY <1>2, <1>3, <1>5, <1>6 DEF PresentationTypeOK
<1>9. new.series # Cleared
  BY <1>2, <1>6, <1>7 DEF Applied, PresentationTypeOK
<1>10. "classify" \notin flagged' => "classify" \notin flagged /\ ~full
  BY <1>1 DEF Flag
<1>11. flagged' = {} => flagged = {} /\ ~full /\ ~cheap
  BY <1>1 DEF Flag
<1> HIDE DEF now, new
<1>12. PresentationTypeOK'
  <2>1. said' = [u \in SourceSet |-> said'[u]]
    BY <1>1, <1>3
  <2>2. ASSUME NEW u \in SourceSet
        PROVE  /\ IsEdition(edition'[u]) /\ edition'[u].series # Cleared
               /\ edition'[u] = NoEdition \/ edition'[u].updated \in Nat
               /\ said'[u].cover \in Int \cup {None} /\ said'[u].description \in Int \cup {None}
    <3>1. CASE u = s
      BY <1>1, <1>4, <1>7, <1>8, <1>9, <3>1
    <3>2. CASE u # s
      BY <1>1, <1>2, <1>4, <1>8, <3>2 DEF PresentationTypeOK
    <3> QED BY <3>1, <3>2
  <2>3. edition'[Own].updated \in Nat
    <3>1. Own \in SourceSet
      BY PresentationAssumption
    <3> QED BY <1>2, <1>4, <1>7, <3>1 DEF PresentationTypeOK
  <2>4. IsEdition(composite') /\ work'.edition \in {"own", "composite"}
    BY <1>1, <1>2 DEF PresentationTypeOK
  <2>5. ASSUME NEW e PROVE IsEdition(e)' <=> IsEdition(e)
    BY DEF IsEdition
  <2> QED BY <1>4, <2>1, <2>2, <2>3, <2>4 DEF PresentationTypeOK, IsEdition
<1>13. DescriptionsAreOffered'
  BY <1>1, <1>2, <1>3, <1>5 DEF DescriptionsAreOffered
<1>14. CoversAreChosen'
  <2>1. ASSUME NEW u \in SourceSet, said'[u].cover # None
        PROVE  edition'[u].cover # None /\ edition'[u].cover >= said'[u].cover
    <3>1. CASE u = s
      <4>1. BestCover(now) # None /\ BestCover(now) >= now[s].cover
        BY <1>1, <1>8, <2>1, <3>1, BestCoverIs
      <4> QED BY <1>1, <1>4, <1>7, <3>1, <4>1
    <3>2. CASE u # s
      BY <1>1, <1>2, <1>3, <1>4, <2>1, <3>2 DEF CoversAreChosen
    <3> QED BY <3>1, <3>2
  <2> QED BY <2>1 DEF CoversAreChosen
<1>15. ClassifiedUnlessFlagged'
  <2> SUFFICES ASSUME "classify" \notin flagged'
               PROVE  /\ work.genres = GenresOf(now)
                      /\ work.summary = BestSummary(now) \/ work.summary \notin Descriptions(now, SourceSet)
    BY <1>1 DEF ClassifiedUnlessFlagged, GenresOf, BestSummary, Descriptions
  <2>1. "classify" \notin flagged /\ said[s].subjects = offer.subjects /\ offer.description = None
    BY <1>10
  <2>2. /\ work.genres = GenresOf(said)
        /\ work.summary = BestSummary(said) \/ work.summary \notin Descriptions(said, SourceSet)
    BY <2>1 DEF PresentationInv, ClassifiedUnlessFlagged
  <2>3. \A u \in SourceSet : now[u].subjects = said[u].subjects
    BY <1>3, <1>5, <2>1
  <2>4. GenresOf(now) = GenresOf(said)
    <3>1. {now[u].subjects : u \in SourceSet} = {said[u].subjects : u \in SourceSet}
      BY <2>3
    <3> QED BY <3>1 DEF GenresOf
  <2>5. work.summary = BestSummary(now) \/ work.summary \notin Descriptions(now, SourceSet)
    BY <1>2, <2>1, <2>2, QuietDescriptions DEF now
  <2> QED BY <2>2, <2>4, <2>5
<1>16. ChosenUnlessFlagged'
  <2> SUFFICES ASSUME flagged' = {}
               PROVE  /\ Presented'.cover = BestCover(now)
                      /\ Presented'.series = Combined' \/ Combined' = None
    BY <1>1 DEF ChosenUnlessFlagged, BestCover
  <2>1. flagged = {} /\ offer.series \in {None, old.series} /\ offer.cover = None /\ new.cover = old.cover
    BY <1>11
  <2>2. Quiet(s, offer)
    BY <1>7, <2>1 DEF Quiet, now
  <2>3. BestCover(now) = BestCover(said)
    BY <1>2, <2>2, QuietCovers DEF now
  <2>4. new.series = old.series
    BY <1>2, <1>7, <2>1 DEF Applied, PresentationTypeOK
  <2>5. \A u \in SourceSet : edition'[u].series = edition[u].series /\ edition'[u].cover = edition[u].cover
    BY <1>4, <2>1, <2>4
  <2>6. Combined' = Combined
    <3>1. \A i \in DOMAIN Sources : edition'[Sources[i]].series = edition[Sources[i]].series
      BY <2>5 DEF SourceSet
    <3> QED BY <3>1, SameFields
  <2>7. Presented'.series = Presented.series /\ Presented'.cover = Presented.cover
    <3>1. Own \in SourceSet
      BY PresentationAssumption
    <3>2. /\ Presented = IF work.edition = "own" THEN edition[Own] ELSE composite
          /\ Presented' = IF work.edition = "own" THEN edition'[Own] ELSE composite
      BY <1>1 DEF Presented
    <3> QED BY <2>5, <3>1, <3>2
  <2>8. Presented.cover = BestCover(said) /\ (Presented.series = Combined \/ Combined = None)
    BY <2>1 DEF PresentationInv, ChosenUnlessFlagged
  <2> QED BY <2>3, <2>6, <2>7, <2>8
<1>17. EntryIsFollowed'
  BY <1>1 DEF PresentationInv, EntryIsFollowed, Shown
<1> QED BY <1>12, <1>13, <1>14, <1>15, <1>16, <1>17 DEF PresentationInv

-----------------------------------------------------------------------------
LEMMA LoneEdition ==
  ASSUME PresentationTypeOK, Cardinality(Editions) = 1
  PROVE  \A u \in SourceSet : u # Own => edition[u] = NoEdition
<1>1. Own \in SourceSet
  BY PresentationAssumption
<1>2. edition[Own] # NoEdition
  BY DEF PresentationTypeOK, NoEdition
<1>3. Own \in Editions /\ Editions \subseteq SourceSet
  BY <1>1, <1>2 DEF Editions
<1>4. IsFiniteSet(Editions)
  BY <1>3, SourcesAreFinite, FS_Subset
<1>5. PICK x : Editions = {x}
  BY <1>4, FS_Singleton
<1> QED BY <1>3, <1>5 DEF Editions

\* The field that is combined from a lone Edition is its own.
LEMMA LoneField ==
  ASSUME PresentationTypeOK, Cardinality(Editions) = 1
  PROVE  edition[Own].series = Combined \/ Combined = None
<1> DEFINE having == {i \in DOMAIN Sources : edition[Sources[i]].series # None}
<1>1. \A i \in having : Sources[i] = Own
  <2> SUFFICES ASSUME NEW i \in having PROVE Sources[i] = Own
    OBVIOUS
  <2>1. Sources[i] \in SourceSet /\ edition[Sources[i]].series # None
    BY DEF SourceSet
  <2> QED BY <2>1, LoneEdition DEF NoEdition
<1>2. Combined = IF having = {} THEN None ELSE edition[Sources[Max(having)]].series
  BY DEF Combined
<1>3. having # {} => Max(having) \in having
  <2>1. having \subseteq DOMAIN Sources
    OBVIOUS
  <2> HIDE DEF having
  <2> QED BY <2>1, LastOfSources
<1> HIDE DEF having
<1> QED BY <1>1, <1>2, <1>3

\* What is combined was not cleared.
LEMMA CombinedIsAField ==
  ASSUME PresentationTypeOK
  PROVE  Combined # Cleared
<1> DEFINE having == {i \in DOMAIN Sources : edition[Sources[i]].series # None}
<1>1. Combined = IF having = {} THEN None ELSE edition[Sources[Max(having)]].series
  BY DEF Combined
<1>2. having # {} => Max(having) \in DOMAIN Sources
  <2>1. having \subseteq DOMAIN Sources
    OBVIOUS
  <2> HIDE DEF having
  <2> QED BY <2>1, LastOfSources
<1>3. \A i \in DOMAIN Sources : edition[Sources[i]].series # Cleared
  BY DEF SourceSet, PresentationTypeOK
<1>4. None # Cleared
  BY PresentationAssumption
<1> HIDE DEF having
<1> QED BY <1>1, <1>2, <1>3, <1>4

\* However much of a Work is recalculated, its Edition is chosen, and what the policy
\* leaves alone needed nothing or stays registered.
LEMMA RecalculateKeeps ==
  ASSUME PresentationInv, NEW policy, Recalculate(policy),
         policy.classify \in BOOLEAN, policy.regenerate \in BOOLEAN
  PROVE  PresentationInv'
<1> DEFINE calculated == Calculated
           value == Calculated.value
           lone == Cardinality(Editions) = 1
           new == [edition |-> calculated.name,
                   summary |-> IF policy.classify THEN BestSummary(said) ELSE work.summary,
                   genres |-> IF policy.classify THEN GenresOf(said) ELSE work.genres]
           old == IF calculated.name = "own" THEN edition[Own] ELSE composite
           changed == new # work \/ calculated.value # old
<1>1. /\ work' = new
      /\ edition' = IF calculated.name = "own" THEN [edition EXCEPT ![Own] = value] ELSE edition
      /\ composite' = IF calculated.name = "own" THEN composite ELSE value
      /\ entry' = IF changed \/ policy.regenerate THEN Shown(value, new) ELSE entry
      /\ flagged' = flagged \ ({"choose-edition"} \cup (IF policy.classify THEN {"classify"} ELSE {}))
      /\ said' = said
  BY Zenon DEF Recalculate
<1>2. PresentationTypeOK /\ DescriptionsAreOffered /\ CoversAreChosen
  BY DEF PresentationInv
<1>3. Own \in SourceSet
  BY PresentationAssumption
<1>4. lone => /\ calculated.name = "own"
              /\ value = [series |-> edition[Own].series, cover |-> BestCover(said), updated |-> edition[Own].updated]
  <2>1. IsEdition(edition[Own])
    BY <1>2, <1>3 DEF PresentationTypeOK
  <2>2. Covered(edition[Own]) = [series |-> edition[Own].series, cover |-> BestCover(said), updated |-> edition[Own].updated]
    BY <2>1 DEF Covered, IsEdition
  <2> QED BY <2>2 DEF Calculated
<1>5. ~lone => /\ calculated.name = "composite"
               /\ value = [series |-> Applied(Combined, composite.series), cover |-> BestCover(said), updated |-> composite.updated]
  <2>1. IsEdition(composite)
    BY <1>2 DEF PresentationTypeOK
  <2> DEFINE field == Applied(Combined, composite.series)
             filled == [series |-> field, cover |-> composite.cover, updated |-> composite.updated]
  <2>2. [composite EXCEPT !.series = field] = filled
    <3> HIDE DEF field
    <3> QED BY <2>1 DEF IsEdition
  <2>3. Covered(filled) = [series |-> field, cover |-> BestCover(said), updated |-> composite.updated]
    <3> HIDE DEF field
    <3> QED BY DEF Covered
  <2> HIDE DEF filled
  <2> QED BY <2>2, <2>3 DEF Calculated
<1>6. calculated.name = "own" <=> lone
  BY <1>4, <1>5
<1>7. /\ new.edition = calculated.name
      /\ new.summary = IF policy.classify THEN BestSummary(said) ELSE work.summary
      /\ new.genres = IF policy.classify THEN GenresOf(said) ELSE work.genres
  OBVIOUS
<1>8. value.cover = BestCover(said)
  BY <1>4, <1>5
<1>9. \A u \in SourceSet : u # Own => edition'[u] = edition[u]
  BY <1>1
<1>10. /\ edition = [u \in SourceSet |-> edition[u]] /\ edition' = [u \in SourceSet |-> edition'[u]]
       /\ edition'[Own] = IF lone THEN value ELSE edition[Own]
  <2>1. edition = [u \in SourceSet |-> edition[u]]
    BY <1>2 DEF PresentationTypeOK
  <2> HIDE DEF value, calculated
  <2> QED BY <1>1, <1>3, <1>6, <2>1
<1>11. edition'[Own].series = edition[Own].series /\ edition'[Own].updated = edition[Own].updated /\ IsEdition(edition'[Own])
  <2>1. IsEdition(edition[Own])
    BY <1>2, <1>3 DEF PresentationTypeOK
  <2> QED BY <1>4, <1>10, <2>1 DEF IsEdition
<1>12. work'.edition = IF lone THEN "own" ELSE "composite"
  BY <1>1, <1>4, <1>5, <1>7
<1>13. \A u \in SourceSet : edition'[u].series = edition[u].series
  BY <1>9, <1>11
<1>14. composite' = IF lone THEN composite ELSE value
  BY <1>1, <1>6
<1>15. entry' = (IF changed \/ policy.regenerate THEN Shown(value, new) ELSE entry) /\ (~changed => new = work /\ value = old)
  BY <1>1
<1>16. old = IF lone THEN edition[Own] ELSE composite
  BY <1>6
<1> HIDE DEF calculated, value, lone, new, old, changed
<1>17. PresentationTypeOK'
  <2>1. said' = [u \in SourceSet |-> said'[u]] /\ \A u \in SourceSet : said'[u].cover \in Int \cup {None} /\ said'[u].description \in Int \cup {None}
    BY <1>1, <1>2 DEF PresentationTypeOK
  <2>2. ASSUME NEW u \in SourceSet
        PROVE  IsEdition(edition'[u]) /\ edition'[u].series # Cleared /\ (edition'[u] = NoEdition \/ edition'[u].updated \in Nat)
    <3>1. CASE u = Own
      BY <1>2, <1>3, <1>11, <3>1 DEF PresentationTypeOK
    <3>2. CASE u # Own
      BY <1>2, <1>9, <3>2 DEF PresentationTypeOK
    <3> QED BY <3>1, <3>2
  <2>3. edition'[Own].updated \in Nat
    BY <1>2, <1>11 DEF PresentationTypeOK
  <2>4. IsEdition(composite')
    <3>1. CASE lone
      BY <1>2, <1>14, <3>1 DEF PresentationTypeOK
    <3>2. CASE ~lone
      BY <1>5, <1>14, <3>2 DEF IsEdition
    <3> QED BY <3>1, <3>2
  <2>5. work'.edition \in {"own", "composite"}
    BY <1>12
  <2> QED BY <1>10, <2>1, <2>2, <2>3, <2>4, <2>5 DEF PresentationTypeOK, IsEdition
<1>18. DescriptionsAreOffered'
  BY <1>1, <1>2 DEF DescriptionsAreOffered
<1>19. CoversAreChosen'
  <2>1. ASSUME NEW u \in SourceSet, said[u].cover # None
        PROVE  edition'[u].cover # None /\ edition'[u].cover >= said[u].cover
    <3>1. CASE u = Own /\ lone
      <4>1. BestCover(said) # None /\ BestCover(said) >= said[u].cover
        BY <1>2, <2>1, BestCoverIs DEF PresentationTypeOK
      <4> QED BY <1>8, <1>10, <3>1, <4>1
    <3>2. CASE u # Own \/ ~lone
      BY <1>2, <1>9, <1>10, <2>1, <3>2 DEF CoversAreChosen
    <3> QED BY <3>1, <3>2
  <2> QED BY <1>1, <2>1 DEF CoversAreChosen
<1>20. ClassifiedUnlessFlagged'
  <2> SUFFICES ASSUME "classify" \notin flagged'
               PROVE  /\ work'.genres = GenresOf(said)
                      /\ work'.summary = BestSummary(said) \/ work'.summary \notin Descriptions(said, SourceSet)
    BY <1>1 DEF ClassifiedUnlessFlagged, GenresOf, BestSummary, Descriptions
  <2>1. CASE policy.classify
    BY <1>1, <1>7, <2>1
  <2>2. CASE ~policy.classify
    <3>1. "classify" \notin flagged
      BY <1>1, <2>2
    <3> QED BY <1>1, <1>7, <2>2, <3>1 DEF PresentationInv, ClassifiedUnlessFlagged
  <2> QED BY <2>1, <2>2
<1>21. Combined' = Combined
  <2>1. \A i \in DOMAIN Sources : edition'[Sources[i]].series = edition[Sources[i]].series
    BY <1>13 DEF SourceSet
  <2> QED BY <2>1, SameFields
<1>22. ChosenUnlessFlagged'
  <2>1. Presented' = value
    BY <1>10, <1>12, <1>14 DEF Presented
  <2>2. BestCover(said)' = BestCover(said)
    BY <1>1 DEF BestCover
  <2>3. value.series = Combined \/ Combined = None
    <3>1. CASE lone
      BY <1>2, <1>4, <3>1, LoneField DEF lone
    <3>2. CASE ~lone
      BY <1>2, <1>5, <3>2, CombinedIsAField DEF Applied
    <3> QED BY <3>1, <3>2
  <2> QED BY <1>8, <1>21, <2>1, <2>2, <2>3 DEF ChosenUnlessFlagged
<1>23. EntryIsFollowed'
  <2>1. Shown(value, new).summary = new.summary /\ Shown(value, new).genres = new.genres
    BY DEF Shown
  <2>2. CASE changed \/ policy.regenerate
    <3>1. entry' = Shown(value, new)
      BY <1>15, <2>2
    <3>2. work'.edition = "composite" => composite' = value
      BY <1>12, <1>14
    <3>3. Shown(composite, work)' = Shown(composite', work')
      BY DEF Shown
    <3> QED BY <1>1, <2>1, <3>1, <3>2, <3>3 DEF EntryIsFollowed
  <2>3. CASE ~(changed \/ policy.regenerate)
    <3>1. entry' = entry /\ work' = work /\ value = old
      BY <1>1, <1>15, <2>3
    <3>2. work'.edition = "composite" => composite' = composite
      BY <1>12, <1>14, <1>16, <3>1
    <3> QED BY <3>1, <3>2 DEF PresentationInv, EntryIsFollowed, Shown
  <2> QED BY <2>2, <2>3
<1> QED BY <1>17, <1>18, <1>19, <1>20, <1>22, <1>23 DEF PresentationInv

LEMMA PresentationStarts ==
  ASSUME PresentationInit
  PROVE  PresentationInv
<1> DEFINE first(offer) == [s \in SourceSet |-> IF s = Own THEN LinksOf(offer) ELSE Nothing]
<1>1. PICK offer \in Offers[Own] :
        /\ said = first(offer)
        /\ edition = [s \in SourceSet |->
             IF s = Own THEN [series |-> Applied(offer.series, None), cover |-> BestCover(first(offer)), updated |-> 0] ELSE NoEdition]
        /\ composite = NoEdition
        /\ work = [edition |-> "own", summary |-> BestSummary(first(offer)), genres |-> GenresOf(first(offer))]
        /\ flagged = {}
        /\ entry = Shown(edition[Own], work)
  BY Zenon DEF PresentationInit
<1>2. Own \in SourceSet /\ None # Cleared /\ offer.cover \in Int \cup {None} /\ offer.description \in Int \cup {None}
  BY PresentationAssumption
<1>3. said[Own] = LinksOf(offer) /\ \A s \in SourceSet \ {Own} : said[s] = Nothing /\ edition[s] = NoEdition
  BY <1>1, <1>2
<1>4. edition[Own] = [series |-> Applied(offer.series, None), cover |-> BestCover(said), updated |-> 0]
  BY <1>1, <1>2
<1>5. PresentationTypeOK
  <2>1. edition = [s \in SourceSet |-> edition[s]] /\ said = [s \in SourceSet |-> said[s]]
    BY <1>1
  <2>2. ASSUME NEW s \in SourceSet
        PROVE  /\ IsEdition(edition[s]) /\ edition[s].series # Cleared
               /\ edition[s] = NoEdition \/ edition[s].updated \in Nat
               /\ said[s].cover \in Int \cup {None} /\ said[s].description \in Int \cup {None}
    <3>1. CASE s = Own
      <4>1. said[s].cover = offer.cover /\ said[s].description = offer.description
        BY <1>3, <3>1 DEF LinksOf
      <4>2. edition[s].series # Cleared
        BY <1>2, <1>4, <3>1 DEF Applied
      <4> QED BY <1>2, <1>4, <3>1, <4>1, <4>2 DEF IsEdition
    <3>2. CASE s # Own
      BY <1>2, <1>3, <3>2 DEF IsEdition, NoEdition, Nothing
    <3> QED BY <3>1, <3>2
  <2>3. edition[Own].updated \in Nat /\ IsEdition(composite) /\ work.edition \in {"own", "composite"}
    BY <1>1, <1>4 DEF IsEdition, NoEdition
  <2> QED BY <2>1, <2>2, <2>3 DEF PresentationTypeOK
<1>6. DescriptionsAreOffered
  BY <1>3 DEF DescriptionsAreOffered, LinksOf, Nothing
<1>7. CoversAreChosen
  <2>1. ASSUME NEW s \in SourceSet, said[s].cover # None
        PROVE  edition[s].cover # None /\ edition[s].cover >= said[s].cover
    <3>1. s = Own
      BY <1>3, <2>1 DEF Nothing
    <3>2. BestCover(said) # None /\ BestCover(said) >= said[s].cover
      BY <1>5, <2>1, BestCoverIs DEF PresentationTypeOK
    <3> QED BY <1>4, <3>1, <3>2
  <2> QED BY <2>1 DEF CoversAreChosen
<1>8. ClassifiedUnlessFlagged
  BY <1>1 DEF ClassifiedUnlessFlagged
<1>9. ChosenUnlessFlagged
  <2>1. Presented = edition[Own]
    BY <1>1 DEF Presented
  <2>2. edition[Own].series = Combined \/ Combined = None
    <3>1. Editions = {Own}
      BY <1>2, <1>3, <1>4 DEF Editions, NoEdition
    <3> QED BY <1>5, <3>1, FS_Singleton, LoneField
  <2> QED BY <1>4, <2>1, <2>2 DEF ChosenUnlessFlagged
<1>10. EntryIsFollowed
  BY <1>1 DEF EntryIsFollowed, Shown
<1> QED BY <1>5, <1>6, <1>7, <1>8, <1>9, <1>10 DEF PresentationInv

\* A Work for which no recalculation is registered shows what its sources say of it
\* (Metadata.apply, Work.calculate_presentation), whatever they said, and however often.
THEOREM WorksAreUpToDate == PresentationSpec => []NothingIsForgotten
<1>1. PresentationInit => PresentationInv
  BY PresentationStarts
<1>2. PresentationInv /\ [PresentationNext]_presentationVars => PresentationInv'
  <2> SUFFICES ASSUME PresentationInv, [PresentationNext]_presentationVars PROVE PresentationInv'
    OBVIOUS
  <2>1. ASSUME NEW s \in SourceSet, NEW updated \in (IF s \in Unchecked THEN {0} ELSE 1..MaxTime), NEW offer \in Offers[s],
               ApplyMetadata(s, offer, updated)
        PROVE  PresentationInv'
    <3>1. updated \in Nat
      BY PresentationAssumption
    <3> QED BY <2>1, <3>1, ApplyKeeps
  <2>2. ASSUME NEW policy \in {Default, Cheap, Everything}, Recalculate(policy) PROVE PresentationInv'
    <3>1. Default.classify \in BOOLEAN /\ Default.regenerate \in BOOLEAN
      BY DEF Default
    <3>2. Cheap.classify \in BOOLEAN /\ Cheap.regenerate \in BOOLEAN
      BY DEF Cheap
    <3>3. Everything.classify \in BOOLEAN /\ Everything.regenerate \in BOOLEAN
      BY DEF Everything
    <3>4. policy.classify \in BOOLEAN /\ policy.regenerate \in BOOLEAN
      BY <3>1, <3>2, <3>3, Zenon
    <3> QED BY <2>2, <3>4, RecalculateKeeps
  <2>3. CASE UNCHANGED presentationVars
    <3>1. PresentationTypeOK'
      BY <2>3 DEF PresentationInv, presentationVars, PresentationTypeOK, IsEdition
    <3>2. DescriptionsAreOffered' /\ CoversAreChosen' /\ EntryIsFollowed'
      BY <2>3 DEF PresentationInv, presentationVars, DescriptionsAreOffered, CoversAreChosen, EntryIsFollowed, Shown
    <3>3. ClassifiedUnlessFlagged'
      BY <2>3 DEF PresentationInv, presentationVars, ClassifiedUnlessFlagged, GenresOf, BestSummary, Descriptions
    <3>4. ChosenUnlessFlagged'
      BY <2>3 DEF PresentationInv, presentationVars, ChosenUnlessFlagged, Presented, BestCover, Combined
    <3> QED BY <3>1, <3>2, <3>3, <3>4 DEF PresentationInv
  <2> QED BY <2>1, <2>2, <2>3, Zenon DEF PresentationNext, ChooseEdition, ClassifyWork, CalculateWork
<1>3. PresentationInv => NothingIsForgotten
  BY DEF PresentationInv, ClassifiedUnlessFlagged, ChosenUnlessFlagged, EntryIsFollowed, NothingIsForgotten
<1> QED BY <1>1, <1>2, <1>3, PTL DEF PresentationSpec

-----------------------------------------------------------------------------
(***************************************************************************)
(* Counters, and their sums: in whatever order votes are added, the total  *)
(* is the same.                                                            *)
(***************************************************************************)
IsCounter(c) == c = [k \in DOMAIN c |-> c[k]] /\ \A k \in DOMAIN c : c[k] \in Int
Single(key, weight) == [k \in {key} |-> weight]
Together(c, d) == [k \in DOMAIN c \cup DOMAIN d |-> Count(c, k) + Count(d, k)]

LEMMA NothingCounted == IsCounter(<<>>) /\ DOMAIN <<>> = {}
BY DEF IsCounter

LEMMA CountsAreNumbers ==
  ASSUME NEW c, IsCounter(c), NEW k
  PROVE  Count(c, k) \in Int
BY DEF IsCounter, Count

IsSum(p, c, d) ==
  IsCounter(p) /\ DOMAIN p = DOMAIN c \cup DOMAIN d /\ \A k : Count(p, k) = Count(c, k) + Count(d, k)

LEMMA TogetherIsSum ==
  ASSUME NEW c, IsCounter(c), NEW d, IsCounter(d)
  PROVE  IsSum(Together(c, d), c, d)
<1>1. \A k : Count(c, k) \in Int /\ Count(d, k) \in Int
  BY CountsAreNumbers
<1>2. \A k : k \notin DOMAIN c => Count(c, k) = 0
  BY DEF Count
<1>3. \A k : k \notin DOMAIN d => Count(d, k) = 0
  BY DEF Count
<1>4. /\ DOMAIN Together(c, d) = DOMAIN c \cup DOMAIN d
      /\ \A k \in DOMAIN c \cup DOMAIN d : Together(c, d)[k] = Count(c, k) + Count(d, k)
      /\ Together(c, d) = [k \in DOMAIN Together(c, d) |-> Together(c, d)[k]]
  BY DEF Together
<1>5. \A k : Count(Together(c, d), k) = Count(c, k) + Count(d, k)
  <2> DEFINE e == Together(c, d)
  <2> SUFFICES ASSUME NEW k PROVE Count(e, k) = Count(c, k) + Count(d, k)
    OBVIOUS
  <2>1. CASE k \in DOMAIN c \cup DOMAIN d
    BY <1>4, <2>1 DEF Count
  <2>2. CASE k \notin DOMAIN c \cup DOMAIN d
    <3>1. Count(c, k) = 0 /\ Count(d, k) = 0
      BY <1>2, <1>3, <2>2
    <3>2. k \notin DOMAIN e
      BY <1>4, <2>2
    <3> HIDE DEF e
    <3>3. Count(e, k) = 0
      BY <3>2 DEF Count
    <3> QED BY <3>1, <3>3
  <2> QED BY <2>1, <2>2
<1> QED BY <1>1, <1>4, <1>5 DEF IsCounter, IsSum

LEMMA TogetherIsCounter ==
  ASSUME NEW c, IsCounter(c), NEW d, IsCounter(d)
  PROVE  IsCounter(Together(c, d))
BY TogetherIsSum DEF IsSum

LEMMA SameCounters ==
  ASSUME NEW c, IsCounter(c), NEW d, IsCounter(d), DOMAIN c = DOMAIN d, \A k : Count(c, k) = Count(d, k)
  PROVE  c = d
<1>1. \A k \in DOMAIN c : c[k] = d[k]
  BY DEF Count
<1>2. c = [k \in DOMAIN c |-> c[k]] /\ d = [k \in DOMAIN c |-> d[k]]
  BY DEF IsCounter
<1> QED BY <1>1, <1>2

IsSumOfThree(p, c, d, e) ==
  /\ IsCounter(p) /\ DOMAIN p = (DOMAIN c \cup DOMAIN d) \cup DOMAIN e
  /\ \A k : Count(p, k) = (Count(c, k) + Count(d, k)) + Count(e, k)

LEMMA ThreeTogether ==
  ASSUME NEW c, IsCounter(c), NEW d, IsCounter(d), NEW e, IsCounter(e)
  PROVE  IsSumOfThree(Together(Together(c, d), e), c, d, e)
<1> DEFINE cd == Together(c, d)
           p == Together(cd, e)
<1>1. IsSum(cd, c, d)
  BY TogetherIsSum
<1>2. IsCounter(cd)
  BY <1>1 DEF IsSum
<1> HIDE DEF cd
<1>3. IsSum(p, cd, e)
  BY <1>2, TogetherIsSum
<1> HIDE DEF p
<1>4. IsSumOfThree(p, c, d, e)
  BY <1>1, <1>3 DEF IsSum, IsSumOfThree
<1> QED BY <1>4 DEF p, cd

LEMMA TogetherInAnyOrder ==
  ASSUME NEW c, IsCounter(c), NEW d, IsCounter(d), NEW e, IsCounter(e)
  PROVE  Together(Together(c, d), e) = Together(Together(c, e), d)
<1> DEFINE p == Together(Together(c, d), e)
           q == Together(Together(c, e), d)
<1>1. IsSumOfThree(p, c, d, e)
  BY ThreeTogether
<1>2. IsSumOfThree(q, c, e, d)
  BY ThreeTogether
<1>3. \A k : Count(c, k) \in Int /\ Count(d, k) \in Int /\ Count(e, k) \in Int
  BY CountsAreNumbers
<1> HIDE DEF p, q
<1>4. DOMAIN p = DOMAIN q /\ IsCounter(p) /\ IsCounter(q)
  BY <1>1, <1>2 DEF IsSumOfThree
<1>5. \A k : Count(p, k) = Count(q, k)
  BY <1>1, <1>2, <1>3 DEF IsSumOfThree
<1>6. p = q
  BY <1>4, <1>5, SameCounters
<1> QED BY <1>6 DEF p, q

LEMMA NothingIsAdded ==
  ASSUME NEW c, IsCounter(c)
  PROVE  Together(c, <<>>) = c /\ Together(<<>>, c) = c
<1> DEFINE nothing == <<>>
           p == Together(c, nothing)
           q == Together(nothing, c)
<1>1. IsCounter(nothing) /\ DOMAIN nothing = {}
  BY NothingCounted
<1> HIDE DEF nothing
<1>2. IsSum(p, c, nothing) /\ IsSum(q, nothing, c)
  BY <1>1, TogetherIsSum
<1> HIDE DEF p, q
<1>3. \A k : Count(nothing, k) = 0 /\ Count(c, k) \in Int
  BY <1>1, CountsAreNumbers DEF Count
<1>4. DOMAIN p = DOMAIN c /\ DOMAIN q = DOMAIN c /\ IsCounter(p) /\ IsCounter(q)
  BY <1>1, <1>2 DEF IsSum
<1>5. \A k : Count(p, k) = Count(c, k) /\ Count(q, k) = Count(c, k)
  BY <1>2, <1>3 DEF IsSum
<1>6. p = c /\ q = c
  BY <1>4, <1>5, SameCounters
<1> QED BY <1>6 DEF p, q, nothing

LEMMA CountedTogether ==
  ASSUME NEW c, NEW key, NEW weight \in Int
  PROVE  Counted(c, key, weight) = Together(c, Single(key, weight)) /\ IsCounter(Single(key, weight))
<1> DEFINE d == [k \in {key} |-> weight]
<1>1. DOMAIN d = {key} /\ d[key] = weight
  OBVIOUS
<1>2. d = [k \in DOMAIN d |-> d[k]]
  OBVIOUS
<1>3. Counted(c, key, weight) = [k \in DOMAIN c \cup {key} |-> Count(c, k) + (IF k = key THEN weight ELSE 0)]
  BY DEF Counted, Count
<1> HIDE DEF d
<1>4. \A k : Count(d, k) = IF k = key THEN weight ELSE 0
  BY <1>1 DEF Count
<1>5. Together(c, d) = [k \in DOMAIN c \cup {key} |-> Count(c, k) + (IF k = key THEN weight ELSE 0)]
  BY <1>1, <1>4 DEF Together
<1>6. IsCounter(d)
  BY <1>1, <1>2 DEF IsCounter
<1> QED BY <1>3, <1>5, <1>6 DEF d, Single

\* The totals of all parts of S, if every p votes V[p].
IsTotal(T, V, S) ==
  /\ T[{}] = <<>>
  /\ \A Y \in SUBSET S : IsCounter(T[Y]) /\ \A p \in S \ Y : T[Y \cup {p}] = Together(T[Y], V[p])
Total(V, S) == CHOOSE T : IsTotal(T, V, S)

LEMMA TotalsOfMore ==
  ASSUME NEW S, NEW p \in S, NEW V, \A q \in S : IsCounter(V[q]), NEW T, IsTotal(T, V, S \ {p})
  PROVE  \E U : IsTotal(U, V, S)
<1> DEFINE U == [Y \in SUBSET S |-> IF p \in Y THEN Together(T[Y \ {p}], V[p]) ELSE T[Y]]
<1>1. \A Y \in SUBSET S : p \in Y => U[Y] = Together(T[Y \ {p}], V[p])
  OBVIOUS
<1>2. \A Y \in SUBSET S : p \notin Y => U[Y] = T[Y]
  OBVIOUS
<1>3. \A Y \in SUBSET (S \ {p}) : IsCounter(T[Y]) /\ \A q \in (S \ {p}) \ Y : T[Y \cup {q}] = Together(T[Y], V[q])
  BY DEF IsTotal
<1> HIDE DEF U
<1>4. U[{}] = <<>>
  BY <1>2 DEF IsTotal
<1>5. ASSUME NEW Y \in SUBSET S PROVE IsCounter(U[Y])
  <2>1. CASE p \in Y
    <3>1. Y \ {p} \in SUBSET (S \ {p})
      OBVIOUS
    <3>2. IsCounter(T[Y \ {p}])
      BY <1>3, <3>1
    <3> QED BY <1>1, <2>1, <3>2, TogetherIsCounter
  <2>2. CASE p \notin Y
    <3>1. Y \in SUBSET (S \ {p})
      BY <2>2
    <3> QED BY <1>2, <1>3, <2>2, <3>1
  <2> QED BY <2>1, <2>2
<1>6. ASSUME NEW Y \in SUBSET S, NEW q \in S \ Y PROVE U[Y \cup {q}] = Together(U[Y], V[q])
  <2>0. Y \cup {q} \in SUBSET S
    OBVIOUS
  <2>1. CASE q = p
    <3>1. p \in Y \cup {q} /\ p \notin Y /\ (Y \cup {q}) \ {p} = Y
      BY <2>1
    <3>2. U[Y \cup {q}] = Together(T[Y], V[p])
      BY <1>1, <2>0, <3>1
    <3> QED BY <1>2, <2>1, <3>1, <3>2
  <2>2. CASE q # p /\ p \notin Y
    <3>1. Y \in SUBSET (S \ {p}) /\ q \in (S \ {p}) \ Y /\ p \notin Y \cup {q}
      BY <2>2
    <3>2. U[Y \cup {q}] = T[Y \cup {q}] /\ U[Y] = T[Y]
      BY <1>2, <2>0, <2>2, <3>1
    <3>3. T[Y \cup {q}] = Together(T[Y], V[q])
      BY <1>3, <3>1
    <3> QED BY <3>2, <3>3
  <2>3. CASE q # p /\ p \in Y
    <3> DEFINE Z == Y \ {p}
    <3>1. Z \in SUBSET (S \ {p}) /\ q \in (S \ {p}) \ Z /\ p \in Y \cup {q} /\ (Y \cup {q}) \ {p} = Z \cup {q}
      BY <2>3
    <3>2. U[Y \cup {q}] = Together(T[Z \cup {q}], V[p])
      BY <1>1, <2>0, <3>1
    <3>3. U[Y] = Together(T[Z], V[p])
      BY <1>1, <2>3
    <3> HIDE DEF Z
    <3>4. T[Z \cup {q}] = Together(T[Z], V[q]) /\ IsCounter(T[Z])
      BY <1>3, <3>1
    <3>5. IsCounter(V[p]) /\ IsCounter(V[q])
      OBVIOUS
    <3>6. Together(Together(T[Z], V[q]), V[p]) = Together(Together(T[Z], V[p]), V[q])
      BY <3>4, <3>5, TogetherInAnyOrder
    <3> QED BY <3>2, <3>3, <3>4, <3>6
  <2> QED BY <2>1, <2>2, <2>3
<1>7. IsTotal(U, V, S)
  BY <1>4, <1>5, <1>6 DEF IsTotal
<1> QED BY <1>7

LEMMA LeastNumber ==
  ASSUME NEW N \in SUBSET Nat, N # {}
  PROVE  \E n \in N : \A m \in N : n <= m
<1>1. PICK n \in N : \A m \in N : ~(<<m, n>> \in OpToRel(<, Nat))
  BY NatLessThanWellFounded, WFMin
<1>2. \A m \in N : ~(m < n)
  BY <1>1 DEF OpToRel
<1> QED BY <1>2

LEMMA TotalsExist ==
  ASSUME NEW S, IsFiniteSet(S), NEW V, \A p \in S : IsCounter(V[p])
  PROVE  IsTotal(Total(V, S), V, S)
<1> DEFINE Has(A) == \E T : IsTotal(T, V, A)
           bad == {n \in Nat : \E A \in SUBSET S : Cardinality(A) = n /\ ~Has(A)}
<1>1. Has({})
  <2> DEFINE T == [Y \in {{}} |-> <<>>]
  <2>1. T[{}] = <<>>
    OBVIOUS
  <2> HIDE DEF T
  <2>2. IsTotal(T, V, {})
    BY <2>1, NothingCounted DEF IsTotal
  <2> QED BY <2>2
<1>2. ASSUME NEW A \in SUBSET S, NEW p \in A, Has(A \ {p}) PROVE Has(A)
  <2>1. \A q \in A : IsCounter(V[q])
    OBVIOUS
  <2> QED BY <1>2, <2>1, TotalsOfMore
<1> HIDE DEF Has
<1>3. bad = {}
  <2> SUFFICES ASSUME bad # {} PROVE FALSE
    OBVIOUS
  <2>1. PICK m \in bad : \A j \in bad : m <= j
    BY LeastNumber
  <2>2. PICK A \in SUBSET S : Cardinality(A) = m /\ ~Has(A)
    OBVIOUS
  <2>3. PICK p \in A : TRUE
    BY <1>1, <2>2
  <2>4. IsFiniteSet(A) /\ A \ {p} \in SUBSET S
    BY FS_Subset
  <2>5. Cardinality(A \ {p}) = m - 1 /\ Cardinality(A \ {p}) \in Nat /\ m \in Nat
    BY <2>2, <2>4, FS_RemoveElement, FS_CardinalityType, FS_Subset
  <2>6. m - 1 \in bad
    BY <1>2, <2>2, <2>4, <2>5
  <2> QED BY <2>1, <2>5, <2>6
<1>4. Has(S)
  <2>1. Cardinality(S) \in Nat
    BY FS_CardinalityType
  <2> QED BY <1>3, <2>1
<1> QED BY <1>4 DEF Has, Total

-----------------------------------------------------------------------------
(***************************************************************************)
(* What the staff say of a Work, and what everybody says.                  *)
(***************************************************************************)
TallyFields ==
  {"fiction", "audience", "lower", "upper", "genres", "order", "staff", "direct", "generic", "specific", "seen"}

Pair(r) == <<r.subject, r.source>>
StaffSay(r, kind) == r.source = LibraryStaff /\ r.kind = kind
Names(r) == r.source = LibraryStaff /\ (r.genre # Unsaid \/ r.kind = "none")

\* What a row on that kind of thing alone makes of the counters.
AgesWith(c, age, r) == IF age = NoAge THEN c ELSE Counted(c, age, r.weight * r.quality)
SaidFiction(t, r) == t.fiction = Counted(<<>>, r.fiction, ScaledWeight(r))
SaidAudience(t, r) == t.audience = [a \in {r.audience} |-> 10 * ScaledWeight(r)]
AgeCount(age, r) == AgesWith(<<>>, age, r)
SaidAge(t, r) == t.lower = AgeCount(r.age.lower, r) /\ t.upper = AgeCount(r.age.upper, r)
GenresWith(t, r) ==
  LET c == IF Names(r) /\ "genre" \notin t.staff THEN <<>> ELSE t.genres
  IN IF r.genre = Unsaid THEN c ELSE Counted(c, r.genre, ScaledWeight(r))

\* What ClassifierAssumption says, by subject.
LEMMA ClassificationsTyped ==
  ASSUME NEW r \in Rows
  PROVE  /\ r.kind \in Kinds /\ r.audience \in Audiences \cup {Unsaid} /\ r.weight \in Nat /\ r.quality \in Nat
         /\ r.age \in [lower : Int, upper : Int]
         /\ r.kind \in {"audience", "fiction", "age", "none"} => r.genre = Unsaid
         /\ r.format => r.genre # Unsaid
         /\ r.source = LibraryStaff => r.weight > 0 /\ r.kind \in StaffKinds
BY ClassifierAssumption

LEMMA StaffSpeakOnce ==
  ASSUME NEW r \in Rows, NEW s \in Rows, r # s, r.source = LibraryStaff, s.source = LibraryStaff
  PROVE  r.subject # s.subject /\ (r.kind = s.kind => r.kind = "genre")
BY ClassifierAssumption

LEMMA SubjectsMean ==
  ASSUME NEW r \in Rows, NEW s \in Rows, Pair(r) = Pair(s)
  PROVE  /\ r.source = s.source /\ r.kind = s.kind /\ r.genre = s.genre /\ r.format = s.format
         /\ r.fiction = s.fiction /\ r.audience = s.audience /\ r.age = s.age
         /\ r.quality = s.quality
<1>1. r.subject = s.subject /\ r.source = s.source
  BY DEF Pair
<1> QED BY <1>1, ClassifierAssumption

LEMMA WeightsAreCounted ==
  ASSUME NEW r \in Rows
  PROVE  ScaledWeight(r) \in Nat /\ (r.source = LibraryStaff => ScaledWeight(r) > 0)
<1>1. r.weight \in Nat /\ (r.source = LibraryStaff => r.weight > 0)
  BY ClassificationsTyped
<1>2. CASE r.source = "oclc"
  BY <1>1, <1>2 DEF ScaledWeight
<1>3. CASE r.source = "overdrive"
  BY <1>1, <1>3 DEF ScaledWeight
<1>4. CASE r.source \notin {"oclc", "overdrive"}
  BY <1>1, <1>4 DEF ScaledWeight
<1> QED BY <1>2, <1>3, <1>4

LEMMA AddingGenres ==
  ASSUME NEW t, DOMAIN t = TallyFields, NEW r \in Rows
  PROVE  LET u == AddGenre(t, r)
         IN /\ DOMAIN u = TallyFields
            /\ u.fiction = t.fiction /\ u.audience = t.audience /\ u.lower = t.lower /\ u.upper = t.upper
            /\ u.seen = t.seen /\ u.direct = t.direct /\ u.generic = t.generic /\ u.specific = t.specific
            /\ u.staff = IF Names(r) THEN t.staff \cup {"genre"} ELSE t.staff
            /\ u.genres = GenresWith(t, r)
<1> DEFINE h == Heard(t, r, Kinds, "genre")
           w == ScaledWeight(r)
<1>0. r.kind \in Kinds
  BY ClassificationsTyped
<1>1. /\ DOMAIN h = TallyFields
      /\ h.fiction = t.fiction /\ h.audience = t.audience /\ h.lower = t.lower /\ h.upper = t.upper
      /\ h.seen = t.seen /\ h.direct = t.direct /\ h.generic = t.generic /\ h.specific = t.specific
      /\ h.staff = IF r.source = LibraryStaff THEN t.staff \cup {"genre"} ELSE t.staff
      /\ h.genres = IF r.source = LibraryStaff /\ "genre" \notin t.staff THEN <<>> ELSE t.genres
  BY <1>0 DEF Heard, TallyFields, ByStaff
<1> HIDE DEF h, w
<1>2. LET u == WeighGenre(h, r.genre, w)
      IN /\ DOMAIN u = TallyFields
         /\ u.fiction = h.fiction /\ u.audience = h.audience /\ u.lower = h.lower /\ u.upper = h.upper
         /\ u.seen = h.seen /\ u.direct = h.direct /\ u.generic = h.generic /\ u.specific = h.specific
         /\ u.staff = h.staff /\ u.genres = IF r.genre = Unsaid THEN h.genres ELSE Counted(h.genres, r.genre, w)
  BY <1>1 DEF WeighGenre, TallyFields
<1>3. CASE r.genre = Unsaid /\ r.kind # "none"
  <2>1. AddGenre(t, r) = t
    BY <1>3 DEF AddGenre
  <2>2. ~Names(r) /\ GenresWith(t, r) = t.genres
    BY <1>3 DEF Names, GenresWith
  <2> QED BY <2>1, <2>2
<1>4. CASE ~(r.genre = Unsaid /\ r.kind # "none")
  <2>1. AddGenre(t, r) = WeighGenre(h, r.genre, w)
    BY <1>4 DEF AddGenre, h, w
  <2>2. Names(r) <=> r.source = LibraryStaff
    BY <1>4 DEF Names
  <2>3. GenresWith(t, r) = IF r.genre = Unsaid THEN h.genres ELSE Counted(h.genres, r.genre, w)
    BY <1>1, <2>2 DEF GenresWith, w
  <2> HIDE DEF GenresWith
  <2> QED BY <1>1, <1>2, <2>1, <2>2, <2>3
<1> QED BY <1>3, <1>4

LEMMA AddingFiction ==
  ASSUME NEW t, DOMAIN t = TallyFields, NEW r
  PROVE  LET u == AddFiction(t, r)
         IN /\ DOMAIN u = TallyFields
            /\ u.audience = t.audience /\ u.lower = t.lower /\ u.upper = t.upper /\ u.genres = t.genres
            /\ u.seen = t.seen /\ u.direct = t.direct /\ u.generic = t.generic /\ u.specific = t.specific
            /\ u.staff = IF StaffSay(r, "fiction") THEN t.staff \cup {"fiction"} ELSE t.staff
            /\ "fiction" \in t.staff => u.fiction = t.fiction
            /\ "fiction" \notin t.staff => IF StaffSay(r, "fiction") THEN SaidFiction(u, r)
                                           ELSE u.fiction = Counted(t.fiction, r.fiction, ScaledWeight(r))
<1> DEFINE h == Heard(t, r, {"fiction"}, "fiction")
           w == ScaledWeight(r)
<1>1. CASE "fiction" \in t.staff
  <2>1. AddFiction(t, r) = t /\ t.staff \cup {"fiction"} = t.staff
    BY <1>1 DEF AddFiction, ByStaff
  <2> QED BY <1>1, <2>1
<1>2. CASE "fiction" \notin t.staff
  <2>1. /\ DOMAIN h = TallyFields
        /\ h.audience = t.audience /\ h.lower = t.lower /\ h.upper = t.upper /\ h.genres = t.genres
        /\ h.seen = t.seen /\ h.direct = t.direct /\ h.generic = t.generic /\ h.specific = t.specific
        /\ h.staff = IF StaffSay(r, "fiction") THEN t.staff \cup {"fiction"} ELSE t.staff
        /\ h.fiction = IF StaffSay(r, "fiction") THEN <<>> ELSE t.fiction
    BY <1>2 DEF Heard, TallyFields, StaffSay, ByStaff
  <2>2. AddFiction(t, r) = [h EXCEPT !.fiction = Counted(h.fiction, r.fiction, w)]
    BY <1>2 DEF AddFiction, ByStaff
  <2> HIDE DEF h, w
  <2>3. LET u == AddFiction(t, r)
        IN /\ DOMAIN u = TallyFields
           /\ u.audience = h.audience /\ u.lower = h.lower /\ u.upper = h.upper /\ u.genres = h.genres
           /\ u.seen = h.seen /\ u.direct = h.direct /\ u.generic = h.generic /\ u.specific = h.specific
           /\ u.staff = h.staff /\ u.fiction = Counted(h.fiction, r.fiction, w)
    BY <2>1, <2>2 DEF TallyFields
  <2> QED BY <1>2, <2>1, <2>3 DEF SaidFiction, w
<1> QED BY <1>1, <1>2

LEMMA AddingAudiences ==
  ASSUME NEW t, DOMAIN t = TallyFields, NEW r \in Rows
  PROVE  LET u == AddAudience(t, r)
         IN /\ DOMAIN u = TallyFields
            /\ u.fiction = t.fiction /\ u.lower = t.lower /\ u.upper = t.upper /\ u.genres = t.genres
            /\ u.seen = t.seen /\ u.direct = t.direct /\ u.generic = t.generic /\ u.specific = t.specific
            /\ u.staff = IF StaffSay(r, "audience") THEN t.staff \cup {"audience"} ELSE t.staff
            /\ "audience" \in t.staff => u.audience = t.audience
            /\ "audience" \notin t.staff => IF StaffSay(r, "audience") THEN SaidAudience(u, r)
                                            ELSE u.audience = Together(t.audience, Votes(r))
<1> DEFINE h == Heard(t, r, {"audience"}, "audience")
           votes == Votes(r)
           sum == [a \in DOMAIN h.audience \cup DOMAIN votes |-> Count(h.audience, a) + Count(votes, a)]
<1>1. CASE "audience" \in t.staff
  <2>1. AddAudience(t, r) = t /\ t.staff \cup {"audience"} = t.staff
    BY <1>1 DEF AddAudience, ByStaff
  <2> QED BY <1>1, <2>1
<1>2. CASE "audience" \notin t.staff
  <2>1. /\ DOMAIN h = TallyFields
        /\ h.fiction = t.fiction /\ h.lower = t.lower /\ h.upper = t.upper /\ h.genres = t.genres
        /\ h.seen = t.seen /\ h.direct = t.direct /\ h.generic = t.generic /\ h.specific = t.specific
        /\ h.staff = IF StaffSay(r, "audience") THEN t.staff \cup {"audience"} ELSE t.staff
        /\ h.audience = IF StaffSay(r, "audience") THEN <<>> ELSE t.audience
    BY <1>2 DEF Heard, TallyFields, StaffSay, ByStaff
  <2>2. AddAudience(t, r) = [h EXCEPT !.audience = sum]
    BY <1>2 DEF AddAudience, ByStaff
  <2>3. ASSUME StaffSay(r, "audience") PROVE sum = [a \in {r.audience} |-> 10 * ScaledWeight(r)]
    <3>1. votes = [a \in {r.audience} |-> 10 * ScaledWeight(r)]
      BY <2>3 DEF Votes, StaffSay
    <3>2. DOMAIN h.audience = {}
      BY <2>1, <2>3
    <3>3. ScaledWeight(r) \in Nat
      BY WeightsAreCounted
    <3> HIDE DEF h, votes
    <3> QED BY <3>1, <3>2, <3>3 DEF Count
  <2> HIDE DEF h, votes
  <2>4. ~StaffSay(r, "audience") => sum = Together(t.audience, votes)
    BY <2>1 DEF Together
  <2> HIDE DEF sum
  <2>5. LET u == AddAudience(t, r)
        IN /\ DOMAIN u = TallyFields
           /\ u.fiction = h.fiction /\ u.lower = h.lower /\ u.upper = h.upper /\ u.genres = h.genres
           /\ u.seen = h.seen /\ u.direct = h.direct /\ u.generic = h.generic /\ u.specific = h.specific
           /\ u.staff = h.staff /\ u.audience = sum
    BY <2>1, <2>2 DEF TallyFields
  <2> QED BY <1>2, <2>1, <2>3, <2>4, <2>5 DEF SaidAudience, votes
<1> QED BY <1>1, <1>2

LEMMA AddingAges ==
  ASSUME NEW t, DOMAIN t = TallyFields, NEW r
  PROVE  LET u == AddAge(t, r)
         IN /\ DOMAIN u = TallyFields
            /\ u.fiction = t.fiction /\ u.audience = t.audience /\ u.genres = t.genres
            /\ u.seen = t.seen /\ u.direct = t.direct /\ u.generic = t.generic /\ u.specific = t.specific
            /\ u.staff = IF StaffSay(r, "age") THEN t.staff \cup {"age"} ELSE t.staff
            /\ "age" \in t.staff => u.lower = t.lower /\ u.upper = t.upper
            /\ "age" \notin t.staff => IF StaffSay(r, "age") THEN SaidAge(u, r)
                                       ELSE u.lower = AgesWith(t.lower, r.age.lower, r) /\ u.upper = AgesWith(t.upper, r.age.upper, r)
<1> DEFINE h == Heard(t, r, {"age"}, "age")
<1>1. CASE "age" \in t.staff
  <2>1. AddAge(t, r) = t /\ t.staff \cup {"age"} = t.staff
    BY <1>1 DEF AddAge, ByStaff
  <2> QED BY <1>1, <2>1
<1>2. CASE "age" \notin t.staff
  <2>1. /\ DOMAIN h = TallyFields
        /\ h.fiction = t.fiction /\ h.audience = t.audience /\ h.genres = t.genres
        /\ h.seen = t.seen /\ h.direct = t.direct /\ h.generic = t.generic /\ h.specific = t.specific
        /\ h.staff = IF StaffSay(r, "age") THEN t.staff \cup {"age"} ELSE t.staff
        /\ h.lower = IF StaffSay(r, "age") THEN <<>> ELSE t.lower
        /\ h.upper = IF StaffSay(r, "age") THEN <<>> ELSE t.upper
    BY <1>2 DEF Heard, TallyFields, StaffSay, ByStaff
  <2> DEFINE low == AgesWith(h.lower, r.age.lower, r)
             up == AgesWith(h.upper, r.age.upper, r)
  <2>2. AddAge(t, r) = [h EXCEPT !.lower = low, !.upper = up]
    BY <1>2 DEF AddAge, AgesWith, ByStaff
  <2> HIDE DEF h, low, up
  <2>3. LET u == AddAge(t, r)
        IN /\ DOMAIN u = TallyFields
           /\ u.fiction = h.fiction /\ u.audience = h.audience /\ u.genres = h.genres
           /\ u.seen = h.seen /\ u.direct = h.direct /\ u.generic = h.generic /\ u.specific = h.specific
           /\ u.staff = h.staff /\ u.lower = low /\ u.upper = up
    BY <2>1, <2>2 DEF TallyFields
  <2> QED BY <1>2, <2>1, <2>3 DEF SaidAge, AgeCount, low, up
<1> QED BY <1>1, <1>2

LEMMA NotingJuvenile ==
  ASSUME NEW t, DOMAIN t = TallyFields, NEW r
  PROVE  LET u == NoteJuvenile(t, r)
         IN /\ DOMAIN u = TallyFields
            /\ u.fiction = t.fiction /\ u.audience = t.audience /\ u.lower = t.lower /\ u.upper = t.upper
            /\ u.genres = t.genres /\ u.seen = t.seen /\ u.direct = t.direct /\ u.staff = t.staff
            /\ u.specific <=> t.specific \/ (t.staff \cap {"audience", "age"} = {} /\ Juvenile(r) /\ ~Generic(r))
            /\ u.generic = IF t.staff \cap {"audience", "age"} = {} /\ Generic(r) THEN {r} ELSE t.generic
<1>1. Generic(r) => Juvenile(r)
  BY DEF Generic
<1>2. CASE t.staff \cap {"audience", "age"} # {} \/ ~Juvenile(r)
  BY <1>1, <1>2 DEF NoteJuvenile
<1>3. CASE t.staff \cap {"audience", "age"} = {} /\ Juvenile(r) /\ Generic(r)
  BY <1>3 DEF NoteJuvenile, TallyFields
<1>4. CASE t.staff \cap {"audience", "age"} = {} /\ Juvenile(r) /\ ~Generic(r)
  BY <1>4 DEF NoteJuvenile, TallyFields
<1> QED BY <1>2, <1>3, <1>4

\* What Added does: it notes the row, and then hears it or not.
Recorded(u, t, r) ==
  /\ DOMAIN u = TallyFields /\ u.seen = t.seen \cup {Pair(r)}
  /\ u.direct = IF r.source = LicenseSource THEN t.direct \cup {r.audience} ELSE t.direct
Skips(t, r) ==
  \/ r.source # LicenseSource /\ r.format
  \/ r.source # LibraryStaff /\ r.genre # Unsaid /\ "genre" \in t.staff
Unheard(u, t) ==
  /\ u.staff = t.staff /\ u.genres = t.genres /\ u.fiction = t.fiction /\ u.audience = t.audience
  /\ u.lower = t.lower /\ u.upper = t.upper /\ u.generic = t.generic /\ u.specific = t.specific
Speaks(u, t, r) ==
  /\ "genre" \in u.staff <=> "genre" \in t.staff \/ Names(r)
  /\ "fiction" \in u.staff <=> "fiction" \in t.staff \/ StaffSay(r, "fiction")
  /\ "audience" \in u.staff <=> "audience" \in t.staff \/ StaffSay(r, "audience")
  /\ "age" \in u.staff <=> "age" \in t.staff \/ StaffSay(r, "age")
FictionHeard(u, t, r) ==
  /\ "fiction" \in t.staff => u.fiction = t.fiction
  /\ "fiction" \notin t.staff => IF StaffSay(r, "fiction") THEN SaidFiction(u, r)
                                 ELSE u.fiction = Counted(t.fiction, r.fiction, ScaledWeight(r))
AudienceHeard(u, t, r) ==
  /\ "audience" \in t.staff => u.audience = t.audience
  /\ "audience" \notin t.staff => IF StaffSay(r, "audience") THEN SaidAudience(u, r)
                                  ELSE u.audience = Together(t.audience, Votes(r))
AgeHeard(u, t, r) ==
  /\ "age" \in t.staff => u.lower = t.lower /\ u.upper = t.upper
  /\ "age" \notin t.staff => IF StaffSay(r, "age") THEN SaidAge(u, r)
                             ELSE u.lower = AgesWith(t.lower, r.age.lower, r) /\ u.upper = AgesWith(t.upper, r.age.upper, r)
JuvenileNoted(u, t, r) ==
  /\ u.specific <=> t.specific \/ (u.staff \cap {"audience", "age"} = {} /\ Juvenile(r) /\ ~Generic(r))
  /\ u.generic = IF u.staff \cap {"audience", "age"} = {} /\ Generic(r) THEN {r} ELSE t.generic
IsHeard(u, t, r) ==
  /\ Speaks(u, t, r) /\ u.genres = GenresWith(t, r)
  /\ FictionHeard(u, t, r) /\ AudienceHeard(u, t, r) /\ AgeHeard(u, t, r) /\ JuvenileNoted(u, t, r)

LEMMA AddingRows ==
  ASSUME NEW t, DOMAIN t = TallyFields, NEW r \in Rows, Pair(r) \notin t.seen
  PROVE  LET u == Added(t, r)
         IN Recorded(u, t, r) /\ IF Skips(t, r) THEN Unheard(u, t) ELSE IsHeard(u, t, r)
<1> DEFINE noted == [t EXCEPT !.seen = @ \cup {<<r.subject, r.source>>},
                              !.direct = IF r.source = LicenseSource THEN @ \cup {r.audience} ELSE @]
           g == AddGenre(noted, r)
           f == AddFiction(g, r)
           a == AddAudience(f, r)
           n == AddAge(a, r)
           u == NoteJuvenile(n, r)
<1>1. Recorded(noted, t, r) /\ Unheard(noted, t)
  BY DEF TallyFields, Recorded, Unheard, Pair
<1>2. Added(t, r) = IF Skips(t, r) THEN noted ELSE u
  BY DEF Added, Skips, Pair, ByStaff
<1> HIDE DEF noted, g, f, a, n, u
<1>3. /\ DOMAIN g = TallyFields
      /\ g.fiction = noted.fiction /\ g.audience = noted.audience /\ g.lower = noted.lower /\ g.upper = noted.upper
      /\ g.seen = noted.seen /\ g.direct = noted.direct /\ g.generic = noted.generic /\ g.specific = noted.specific
      /\ g.staff = IF Names(r) THEN noted.staff \cup {"genre"} ELSE noted.staff
      /\ g.genres = GenresWith(noted, r)
  <2>1. DOMAIN noted = TallyFields
    BY <1>1 DEF Recorded
  <2> QED BY <2>1, AddingGenres DEF g
<1>4. /\ DOMAIN f = TallyFields
      /\ f.audience = g.audience /\ f.lower = g.lower /\ f.upper = g.upper /\ f.genres = g.genres
      /\ f.seen = g.seen /\ f.direct = g.direct /\ f.generic = g.generic /\ f.specific = g.specific
      /\ f.staff = IF StaffSay(r, "fiction") THEN g.staff \cup {"fiction"} ELSE g.staff
      /\ FictionHeard(f, g, r)
  BY <1>3, AddingFiction DEF f, FictionHeard
<1>5. /\ DOMAIN a = TallyFields
      /\ a.fiction = f.fiction /\ a.lower = f.lower /\ a.upper = f.upper /\ a.genres = f.genres
      /\ a.seen = f.seen /\ a.direct = f.direct /\ a.generic = f.generic /\ a.specific = f.specific
      /\ a.staff = IF StaffSay(r, "audience") THEN f.staff \cup {"audience"} ELSE f.staff
      /\ AudienceHeard(a, f, r)
  BY <1>4, AddingAudiences DEF a, AudienceHeard
<1>6. /\ DOMAIN n = TallyFields
      /\ n.fiction = a.fiction /\ n.audience = a.audience /\ n.genres = a.genres
      /\ n.seen = a.seen /\ n.direct = a.direct /\ n.generic = a.generic /\ n.specific = a.specific
      /\ n.staff = IF StaffSay(r, "age") THEN a.staff \cup {"age"} ELSE a.staff
      /\ AgeHeard(n, a, r)
  BY <1>5, AddingAges DEF n, AgeHeard
<1>7. /\ DOMAIN u = TallyFields
      /\ u.fiction = n.fiction /\ u.audience = n.audience /\ u.lower = n.lower /\ u.upper = n.upper
      /\ u.genres = n.genres /\ u.seen = n.seen /\ u.direct = n.direct /\ u.staff = n.staff
      /\ JuvenileNoted(u, n, r)
  <2> DEFINE v == NoteJuvenile(n, r)
  <2>1. /\ DOMAIN v = TallyFields
        /\ v.fiction = n.fiction /\ v.audience = n.audience /\ v.lower = n.lower /\ v.upper = n.upper
        /\ v.genres = n.genres /\ v.seen = n.seen /\ v.direct = n.direct /\ v.staff = n.staff
        /\ v.specific <=> n.specific \/ (n.staff \cap {"audience", "age"} = {} /\ Juvenile(r) /\ ~Generic(r))
        /\ v.generic = IF n.staff \cap {"audience", "age"} = {} /\ Generic(r) THEN {r} ELSE n.generic
    BY <1>6, NotingJuvenile
  <2> HIDE DEF v
  <2>2. JuvenileNoted(v, n, r)
    BY <2>1 DEF JuvenileNoted
  <2> QED BY <2>1, <2>2 DEF u, v
<1>8. Recorded(u, t, r)
  BY <1>1, <1>3, <1>4, <1>5, <1>6, <1>7 DEF Recorded
<1>9. Speaks(u, t, r)
  BY <1>1, <1>3, <1>4, <1>5, <1>6, <1>7 DEF Unheard, Speaks
<1>10. u.genres = GenresWith(t, r)
  BY <1>1, <1>3, <1>4, <1>5, <1>6, <1>7 DEF Unheard, GenresWith
<1>11. FictionHeard(u, t, r)
  <2>1. "fiction" \in g.staff <=> "fiction" \in t.staff
    BY <1>1, <1>3 DEF Unheard
  <2>2. g.fiction = t.fiction /\ u.fiction = f.fiction
    BY <1>1, <1>3, <1>5, <1>6, <1>7 DEF Unheard
  <2> QED BY <1>4, <2>1, <2>2 DEF FictionHeard, SaidFiction
<1>12. AudienceHeard(u, t, r)
  <2>1. "audience" \in f.staff <=> "audience" \in t.staff
    BY <1>1, <1>3, <1>4 DEF Unheard
  <2>2. f.audience = t.audience /\ u.audience = a.audience
    BY <1>1, <1>3, <1>4, <1>6, <1>7 DEF Unheard
  <2> QED BY <1>5, <2>1, <2>2 DEF AudienceHeard, SaidAudience
<1>13. AgeHeard(u, t, r)
  <2>1. "age" \in a.staff <=> "age" \in t.staff
    BY <1>1, <1>3, <1>4, <1>5 DEF Unheard
  <2>2. a.lower = t.lower /\ a.upper = t.upper /\ u.lower = n.lower /\ u.upper = n.upper
    BY <1>1, <1>3, <1>4, <1>5, <1>7 DEF Unheard
  <2> QED BY <1>6, <2>1, <2>2 DEF AgeHeard, SaidAge
<1>14. JuvenileNoted(u, t, r)
  <2>1. n.generic = t.generic /\ n.specific = t.specific
    BY <1>1, <1>3, <1>4, <1>5, <1>6 DEF Unheard
  <2> QED BY <1>7, <2>1 DEF JuvenileNoted
<1>15. IsHeard(u, t, r)
  BY <1>9, <1>10, <1>11, <1>12, <1>13, <1>14 DEF IsHeard
<1> QED BY <1>1, <1>2, <1>8, <1>15

\* What title and imprint say, if it is nothing of the kind, adds nothing.
LEMMA PreparingKeepsFiction ==
  ASSUME NEW t, DOMAIN t = TallyFields, NEW imprint, imprint.fiction = Unsaid
  PROVE  PrepareToClassify(t, imprint).fiction = [k \in DOMAIN t.fiction |-> t.fiction[k]]
<1>1. LET g == WeighGenre(t, imprint.genre, 1000)
      IN DOMAIN g = TallyFields /\ g.fiction = t.fiction
  BY DEF WeighGenre, TallyFields
<1>2. LET m == WeighMetadata(t, imprint)
      IN DOMAIN m = TallyFields /\ m.fiction = [k \in DOMAIN t.fiction |-> t.fiction[k]]
  BY <1>1 DEF WeighMetadata, TallyFields
<1> QED BY <1>2 DEF PrepareToClassify, TallyFields

LEMMA PreparingKeepsAudience ==
  ASSUME NEW t, DOMAIN t = TallyFields, NEW imprint, imprint.audience = Unsaid, "audience" \in t.staff
  PROVE  PrepareToClassify(t, imprint).audience = [a \in DOMAIN t.audience |-> Count(t.audience, a) + 0]
<1>1. LET g == WeighGenre(t, imprint.genre, 1000)
      IN DOMAIN g = TallyFields /\ g.audience = t.audience
  BY DEF WeighGenre, TallyFields
<1>2. Unsaid # "not adult"
  BY ClassifierAssumption
<1> DEFINE genres == WeighGenre(t, imprint.genre, 1000)
           against == imprint.audience = "not adult"
           keys == IF against THEN AdultAudiences ELSE {imprint.audience} \ {Unsaid}
           audiences == [a \in DOMAIN genres.audience \cup keys |->
              Count(genres.audience, a) + (IF a \notin keys THEN 0 ELSE IF against THEN -10000 ELSE 10000)]
<1>3. WeighMetadata(t, imprint) =
        [genres EXCEPT
           !.fiction = [k \in DOMAIN @ \cup ({imprint.fiction} \ {Unsaid}) |-> IF k = imprint.fiction /\ k # Unsaid THEN 1000 ELSE @[k]],
           !.audience = audiences]
  BY DEF WeighMetadata
<1>4. keys = {}
  BY <1>2
<1> HIDE DEF genres, against, keys
<1>5. audiences = [a \in DOMAIN t.audience |-> Count(t.audience, a) + 0]
  BY <1>1, <1>4 DEF genres
<1> HIDE DEF audiences
<1>6. LET m == WeighMetadata(t, imprint)
      IN DOMAIN m = TallyFields /\ m.audience = audiences /\ m.staff = genres.staff
  BY <1>1, <1>3 DEF TallyFields, genres
<1>7. genres.staff = t.staff
  BY DEF genres, WeighGenre, TallyFields
<1> QED BY <1>5, <1>6, <1>7 DEF PrepareToClassify, TallyFields, ByStaff

LEMMA PreparingKeepsAges ==
  ASSUME NEW t, DOMAIN t = TallyFields, NEW imprint, t.generic = {}
  PROVE  PrepareToClassify(t, imprint).lower = t.lower /\ PrepareToClassify(t, imprint).upper = t.upper
<1>1. LET g == WeighGenre(t, imprint.genre, 1000)
      IN DOMAIN g = TallyFields /\ g.lower = t.lower /\ g.upper = t.upper
  BY DEF WeighGenre, TallyFields
<1>2. LET m == WeighMetadata(t, imprint)
      IN DOMAIN m = TallyFields /\ m.lower = t.lower /\ m.upper = t.upper
  BY <1>1 DEF WeighMetadata, TallyFields
<1> QED BY <1>2 DEF PrepareToClassify, TallyFields

LEMMA FictionIsHeard ==
  ASSUME NEW t, DOMAIN t = TallyFields, NEW imprint, imprint.fiction = Unsaid,
         NEW r \in Rows, r.source = LibraryStaff, SaidFiction(t, r)
  PROVE  Fiction(PrepareToClassify(t, imprint)) = r.fiction
<1> DEFINE P == PrepareToClassify(t, imprint)
<1>1. ScaledWeight(r) \in Nat /\ ScaledWeight(r) > 0
  BY WeightsAreCounted
<1>2. t.fiction = [k \in {r.fiction} |-> ScaledWeight(r)]
  BY <1>1 DEF SaidFiction, Counted
<1>3. P.fiction = [k \in {r.fiction} |-> ScaledWeight(r)]
  BY <1>2, PreparingKeepsFiction
<1> HIDE DEF P
<1>4. /\ Count(P.fiction, "fiction") = IF r.fiction = "fiction" THEN ScaledWeight(r) ELSE 0
      /\ Count(P.fiction, "nonfiction") = IF r.fiction = "nonfiction" THEN ScaledWeight(r) ELSE 0
  BY <1>3 DEF Count
<1>5. r.fiction \in {"fiction", "nonfiction", Unsaid}
  BY ClassifierAssumption
<1>6. Fiction(P) = r.fiction
  <2>1. CASE r.fiction = "fiction"
    BY <1>1, <1>4, <2>1 DEF Fiction
  <2>2. CASE r.fiction = "nonfiction"
    BY <1>1, <1>4, <2>2 DEF Fiction
  <2>3. CASE r.fiction = Unsaid
    <3>1. Unsaid \notin {"fiction", "nonfiction"}
      BY ClassifierAssumption
    <3> QED BY <1>4, <2>3, <3>1 DEF Fiction
  <2> QED BY <1>5, <2>1, <2>2, <2>3
<1> QED BY <1>6 DEF P

\* With votes for one audience alone, that one is chosen.
LEMMA OneVoice ==
  ASSUME NEW w \in Nat, w > 0, NEW Research, NEW All, NEW Children, NEW Young, NEW Only, NEW Adult,
         NEW adult \in Nat, NEW only \in Nat, NEW children \in Nat, NEW young \in Nat, NEW all \in Nat, NEW research \in Nat,
         NEW audience \in {Adult, Only, Children, Young, All, Research},
         adult = (IF audience = Adult THEN w ELSE 0), only = (IF audience = Only THEN w ELSE 0),
         children = (IF audience = Children THEN w ELSE 0), young = (IF audience = Young THEN w ELSE 0),
         all = (IF audience = All THEN w ELSE 0), research = (IF audience = Research THEN w ELSE 0),
         Adult \notin {Only, Children, Young, All, Research}, Only \notin {Children, Young, All, Research},
         Children \notin {Young, All, Research}, Young \notin {All, Research}, All # Research
  PROVE  audience =
           IF research > (adult + only) + all /\ research > (children + young) + all /\ research > 2 * (adult + only)
           THEN Research
           ELSE IF all > adult + only /\ all > children + young THEN All
           ELSE IF children > 2 * (adult + only) /\ children > young THEN Children
           ELSE IF young > 2 * (adult + only) \/ children + young > 2 * (adult + only) THEN Young
           ELSE IF adult + only <= 0 THEN Unsaid
           ELSE IF 4 * only > adult + only THEN Only ELSE Adult
OBVIOUS

LEMMA AudienceIsHeard ==
  ASSUME NEW t, DOMAIN t = TallyFields, NEW imprint, imprint.audience = Unsaid, "audience" \in t.staff,
         NEW r \in Rows, r.source = LibraryStaff, SaidAudience(t, r), NEW genres, "Erotica" \notin genres
  PROVE  Audience(PrepareToClassify(t, imprint), genres) = r.audience
<1> DEFINE P == PrepareToClassify(t, imprint)
           w == 10 * ScaledWeight(r)
           Adult == "Adult"
           Only == "Adults Only"
           Children == "Children"
           Young == "Young Adult"
           All == "All Ages"
           Research == "Research"
           adult == Count(P.audience, Adult)
           only == Count(P.audience, Only)
           children == Count(P.audience, Children)
           young == Count(P.audience, Young)
           all == Count(P.audience, All)
           research == Count(P.audience, Research)
<1>1. w \in Nat /\ w > 0
  BY WeightsAreCounted
<1> HIDE DEF w
<1>2. t.audience = [a \in {r.audience} |-> w]
  BY DEF SaidAudience, w
<1>3. P.audience = [a \in {r.audience} |-> w]
  BY <1>1, <1>2, PreparingKeepsAudience DEF Count
<1>4. /\ Adult \notin {Only, Children, Young, All, Research} /\ Only \notin {Children, Young, All, Research}
      /\ Children \notin {Young, All, Research} /\ Young \notin {All, Research} /\ All # Research
  BY Zenon
<1>5. Audience(P, genres) =
        IF research > (adult + only) + all /\ research > (children + young) + all /\ research > 2 * (adult + only)
        THEN Research
        ELSE IF all > adult + only /\ all > children + young THEN All
        ELSE IF children > 2 * (adult + only) /\ children > young THEN Children
        ELSE IF young > 2 * (adult + only) \/ children + young > 2 * (adult + only) THEN Young
        ELSE IF adult + only <= 0 THEN Unsaid
        ELSE IF 4 * only > adult + only THEN Only ELSE Adult
  BY Zenon DEF Audience
<1>6. Audiences = {Adult, Only, Children, Young, All, Research}
  BY Zenon DEF Audiences, AdultAudiences, JuvenileAudiences
<1> HIDE DEF P, Adult, Only, Children, Young, All, Research
<1>7. r.audience \in {Adult, Only, Children, Young, All, Research} \cup {Unsaid} /\ Unsaid \notin {Adult, Only, Children, Young, All, Research}
  BY <1>6, ClassifierAssumption
<1>8. /\ adult = (IF r.audience = Adult THEN w ELSE 0) /\ only = (IF r.audience = Only THEN w ELSE 0)
      /\ children = (IF r.audience = Children THEN w ELSE 0) /\ young = (IF r.audience = Young THEN w ELSE 0)
      /\ all = (IF r.audience = All THEN w ELSE 0) /\ research = (IF r.audience = Research THEN w ELSE 0)
  BY <1>3 DEF Count
<1> HIDE DEF adult, only, children, young, all, research
<1>9. adult \in Nat /\ only \in Nat /\ children \in Nat /\ young \in Nat /\ all \in Nat /\ research \in Nat
  BY <1>1, <1>8
<1>10. CASE r.audience = Unsaid
  <2>1. adult = 0 /\ only = 0 /\ children = 0 /\ young = 0 /\ all = 0 /\ research = 0
    BY <1>7, <1>8, <1>10
  <2>2. Audience(P, genres) = Unsaid
    BY <1>5, <2>1
  <2> QED BY <1>10, <2>2 DEF P
<1>11. CASE r.audience \in {Adult, Only, Children, Young, All, Research}
  <2>1. Audience(P, genres) = r.audience
    BY <1>1, <1>4, <1>5, <1>8, <1>9, <1>11, OneVoice
  <2> QED BY <2>1 DEF P
<1> QED BY <1>7, <1>10, <1>11

LEMMA OnlyAge ==
  ASSUME NEW r \in Rows, NEW age \in Nat
  PROVE  AgeCount(age, r) # <<>> /\ TopTier(AgeCount(age, r)) = {age}
<1>1. r.weight * r.quality \in Nat
  <2>1. r.weight \in Nat /\ r.quality \in Nat
    BY ClassifierAssumption
  <2>2. \A m, n \in Nat : m * n \in Nat
    OBVIOUS
  <2> QED BY <2>1, <2>2
<1>2. AgeCount(age, r) = [k \in {age} |-> r.weight * r.quality]
  BY <1>1 DEF AgeCount, AgesWith, NoAge, Counted
<1>3. TopTier(AgeCount(age, r)) = {age}
  BY <1>1, <1>2 DEF TopTier
<1>4. DOMAIN AgeCount(age, r) # DOMAIN <<>>
  BY <1>2
<1> QED BY <1>3, <1>4

LEMMA LeastAndGreatest ==
  ASSUME NEW low \in Nat, NEW up \in Nat, low <= up
  PROVE  Min({low}) = low /\ Max({up}) = up /\ Max({low, up}) = up
<1>1. \A x \in {low, up} : (\A y \in {low, up} : x >= y) => x = up
  OBVIOUS
<1>2. up \in {low, up} /\ \A y \in {low, up} : up >= y
  OBVIOUS
<1>3. Max({low, up}) = up
  BY <1>1, <1>2 DEF Max
<1> QED BY <1>3 DEF Min, Max

LEMMA NoAgeIsNone == \A n \in Nat : n # NoAge
BY DEF NoAge

LEMMA AgeIsHeard ==
  ASSUME NEW t, DOMAIN t = TallyFields, NEW imprint, t.generic = {},
         NEW r \in Rows, StaffSay(r, "age"), SaidAge(t, r),
         NEW audience \in {"Children", "Young Adult"}
  PROVE  TargetAge(PrepareToClassify(t, imprint), audience) = r.age
<1> DEFINE P == PrepareToClassify(t, imprint)
           low == r.age.lower
           up == r.age.upper
<1>1. low \in Nat /\ up \in Nat \ {0} /\ low <= up
  BY ClassifierAssumption DEF StaffSay
<1>2. P.lower = AgeCount(low, r) /\ P.upper = AgeCount(up, r)
  BY PreparingKeepsAges DEF SaidAge
<1> HIDE DEF P
<1>3. P.lower # <<>> /\ P.upper # <<>> /\ TopTier(P.lower) = {low} /\ TopTier(P.upper) = {up}
  BY <1>1, <1>2, OnlyAge
<1>4. r.age = [lower |-> low, upper |-> up]
  BY ClassifierAssumption
<1> HIDE DEF low, up
<1>5. Min({low}) = low /\ Max({up}) = up /\ Max({low, up}) = up
  BY <1>1, LeastAndGreatest
<1>6. low # NoAge /\ up # NoAge /\ ~({low, up} \subseteq {NoAge, 0})
  <2>1. low # NoAge /\ up # NoAge /\ up # 0
    BY <1>1, NoAgeIsNone
  <2> QED BY <2>1
<1>7. TargetAge(P, audience) = [lower |-> low, upper |-> up]
  BY <1>3, <1>5, <1>6 DEF TargetAge
<1> QED BY <1>4, <1>7 DEF P

-----------------------------------------------------------------------------
(***************************************************************************)
(* What a tally holds, whatever the order of the rows it was made of.      *)
(***************************************************************************)
PairsOf(X) == {Pair(r) : r \in X}

\* Each subject has one weight of each source among the rows G.
WeighedOnce(G) == \A r, s \in G : Pair(r) = Pair(s) => r.weight = s.weight
RowOf(p, G) == CHOOSE r \in G : Pair(r) = p

\* What each subject of each source adds to the counters.
GenreVote(r) == IF r.genre = Unsaid THEN <<>> ELSE Single(r.genre, ScaledWeight(r))
FictionVote(r) == Single(r.fiction, ScaledWeight(r))
AgeVote(age, r) == IF age = NoAge THEN <<>> ELSE Single(age, r.weight * r.quality)
GenreVotes(G) == [p \in PairsOf(G) |-> GenreVote(RowOf(p, G))]
FictionVotes(G) == [p \in PairsOf(G) |-> FictionVote(RowOf(p, G))]
AudienceVotes(G) == [p \in PairsOf(G) |-> Votes(RowOf(p, G))]
LowerVotes(G) == [p \in PairsOf(G) |-> AgeVote(RowOf(p, G).age.lower, RowOf(p, G))]
UpperVotes(G) == [p \in PairsOf(G) |-> AgeVote(RowOf(p, G).age.upper, RowOf(p, G))]

AreVotes(V, G) == \A p \in PairsOf(G) : IsCounter(V[p])
TotalOf(V, X, G) == Total(V, PairsOf(G))[PairsOf(X)]

LEMMA AgeVoteIsCounter ==
  ASSUME NEW r \in Rows, NEW age
  PROVE  IsCounter(AgeVote(age, r)) /\ r.weight * r.quality \in Nat
<1>1. r.weight * r.quality \in Nat
  <2>1. r.weight \in Nat /\ r.quality \in Nat
    BY ClassificationsTyped
  <2>2. \A m, n \in Nat : m * n \in Nat
    OBVIOUS
  <2> QED BY <2>1, <2>2
<1> DEFINE w == r.weight * r.quality
<1>2. w \in Int
  BY <1>1
<1>3. AgeVote(age, r) = IF age = NoAge THEN <<>> ELSE Single(age, w)
  BY DEF AgeVote
<1> HIDE DEF w
<1>4. IsCounter(Single(age, w)) /\ IsCounter(<<>>)
  BY <1>2, CountedTogether, NothingCounted
<1> QED BY <1>1, <1>3, <1>4

LEMMA AudienceVoteIsCounter ==
  ASSUME NEW r \in Rows
  PROVE  IsCounter(Votes(r))
<1> DEFINE w == ScaledWeight(r)
           Young == "Young Adult"
           Children == "Children"
           Adult == "Adult"
           Only == "Adults Only"
           f == [a \in {Young, Children, Adult, Only} |->
                   CASE a = Young -> 6 * w [] a = Children -> 4 * w [] a \in {Adult, Only} -> -5 * w]
           g == [a \in {r.audience} |-> 10 * w]
<1>1. Votes(r) \in {f, g}
  BY Zenon DEF Votes, AdultAudiences
<1>2. Young # Children /\ Young \notin {Adult, Only} /\ Children \notin {Adult, Only}
  BY Zenon
<1>3. w \in Nat
  BY WeightsAreCounted
<1> HIDE DEF w, Young, Children, Adult, Only
<1>4. \A a \in {Young, Children, Adult, Only} : f[a] \in Int
  <2> TAKE a \in {Young, Children, Adult, Only}
  <2>1. 6 * w \in Int /\ 4 * w \in Int /\ -5 * w \in Int
    BY <1>3
  <2>2. CASE a = Young
    BY <1>2, <2>1, <2>2
  <2>3. CASE a = Children
    BY <1>2, <2>1, <2>3
  <2>4. CASE a \in {Adult, Only}
    BY <1>2, <2>1, <2>4
  <2> QED BY <2>2, <2>3, <2>4
<1>5. DOMAIN f = {Young, Children, Adult, Only} /\ f = [a \in {Young, Children, Adult, Only} |-> f[a]]
  OBVIOUS
<1>6. IsCounter(g)
  <2> DEFINE n == 10 * w
  <2>1. n \in Int
    BY <1>3
  <2> HIDE DEF n
  <2>2. IsCounter([a \in {r.audience} |-> n])
    BY <2>1, CountedTogether DEF Single
  <2> QED BY <2>2 DEF n
<1> HIDE DEF f, g
<1>7. IsCounter(f)
  BY <1>4, <1>5 DEF IsCounter
<1> QED BY <1>1, <1>6, <1>7

LEMMA VotesOfRows ==
  ASSUME NEW G \in SUBSET Rows, WeighedOnce(G), NEW r \in G
  PROVE  /\ GenreVotes(G)[Pair(r)] = GenreVote(r) /\ FictionVotes(G)[Pair(r)] = FictionVote(r)
         /\ AudienceVotes(G)[Pair(r)] = Votes(r)
         /\ LowerVotes(G)[Pair(r)] = AgeVote(r.age.lower, r) /\ UpperVotes(G)[Pair(r)] = AgeVote(r.age.upper, r)
<1> DEFINE s == RowOf(Pair(r), G)
<1>1. s \in G /\ s \in Rows /\ r \in Rows /\ Pair(s) = Pair(r) /\ Pair(r) \in PairsOf(G)
  BY DEF RowOf, PairsOf
<1> HIDE DEF s
<1>2. /\ s.source = r.source /\ s.kind = r.kind /\ s.genre = r.genre /\ s.fiction = r.fiction
      /\ s.audience = r.audience /\ s.age = r.age /\ s.weight = r.weight /\ s.quality = r.quality
  BY <1>1, SubjectsMean DEF WeighedOnce
<1>3. ScaledWeight(s) = ScaledWeight(r)
  BY <1>2 DEF ScaledWeight
<1>4. GenreVote(s) = GenreVote(r) /\ FictionVote(s) = FictionVote(r)
  BY <1>2, <1>3 DEF GenreVote, FictionVote
<1>5. AgeVote(s.age.lower, s) = AgeVote(r.age.lower, r) /\ AgeVote(s.age.upper, s) = AgeVote(r.age.upper, r)
  BY <1>2 DEF AgeVote
<1>6. Votes(s) = Votes(r)
  <2> DEFINE F(kind, audience, w) ==
        CASE kind = "lcc" /\ audience \in JuvenileAudiences ->
               [a \in {"Young Adult", "Children", "Adult", "Adults Only"} |->
                  CASE a = "Young Adult" -> 6 * w [] a = "Children" -> 4 * w [] a \in AdultAudiences -> -5 * w]
          [] OTHER -> [a \in {audience} |-> 10 * w]
  <2>1. Votes(s) = F(s.kind, s.audience, ScaledWeight(s)) /\ Votes(r) = F(r.kind, r.audience, ScaledWeight(r))
    BY Zenon DEF Votes
  <2> HIDE DEF F
  <2> QED BY <1>2, <1>3, <2>1
<1> HIDE DEF Pair
<1> QED BY <1>1, <1>4, <1>5, <1>6 DEF GenreVotes, FictionVotes, AudienceVotes, LowerVotes, UpperVotes, s

LEMMA VotesAreVotes ==
  ASSUME NEW G \in SUBSET Rows, WeighedOnce(G)
  PROVE  /\ AreVotes(GenreVotes(G), G) /\ AreVotes(FictionVotes(G), G) /\ AreVotes(AudienceVotes(G), G)
         /\ AreVotes(LowerVotes(G), G) /\ AreVotes(UpperVotes(G), G)
<1> SUFFICES ASSUME NEW p \in PairsOf(G)
             PROVE  /\ IsCounter(GenreVotes(G)[p]) /\ IsCounter(FictionVotes(G)[p]) /\ IsCounter(AudienceVotes(G)[p])
                    /\ IsCounter(LowerVotes(G)[p]) /\ IsCounter(UpperVotes(G)[p])
  BY DEF AreVotes
<1>1. PICK r \in G : p = Pair(r)
  BY DEF PairsOf
<1>2. ScaledWeight(r) \in Int
  BY WeightsAreCounted
<1>3. IsCounter(GenreVote(r)) /\ IsCounter(FictionVote(r))
  BY <1>2, CountedTogether, NothingCounted DEF GenreVote, FictionVote
<1>4. IsCounter(AgeVote(r.age.lower, r)) /\ IsCounter(AgeVote(r.age.upper, r))
  BY AgeVoteIsCounter
<1>5. IsCounter(Votes(r))
  BY AudienceVoteIsCounter
<1> HIDE DEF Pair
<1> QED BY <1>1, <1>3, <1>4, <1>5, VotesOfRows

LEMMA TotalsAreTotals ==
  ASSUME NEW G \in SUBSET Rows, NEW V, AreVotes(V, G)
  PROVE  IsTotal(Total(V, PairsOf(G)), V, PairsOf(G))
<1>1. IsFiniteSet(PairsOf(G))
  <2> DEFINE f == [r \in G |-> Pair(r)]
  <2>1. IsFiniteSet(G)
    BY ClassifierAssumption, FS_Subset
  <2>2. f \in Surjection(G, PairsOf(G))
    BY DEF PairsOf, Surjection
  <2> HIDE DEF f
  <2> QED BY <2>1, <2>2, FS_Surjection
<1> QED BY <1>1, TotalsExist DEF AreVotes

LEMMA TotalsOfRows ==
  ASSUME NEW G \in SUBSET Rows, NEW V, AreVotes(V, G), NEW X \in SUBSET G
  PROVE  IsCounter(TotalOf(V, X, G)) /\ TotalOf(V, {}, G) = <<>>
<1>1. PairsOf(X) \in SUBSET PairsOf(G) /\ PairsOf({}) = {}
  BY DEF PairsOf
<1> QED BY <1>1, TotalsAreTotals DEF IsTotal, TotalOf

LEMMA TotalsGrow ==
  ASSUME NEW G \in SUBSET Rows, NEW V, AreVotes(V, G), NEW X \in SUBSET G, NEW r \in G, Pair(r) \notin PairsOf(X)
  PROVE  TotalOf(V, X \cup {r}, G) = Together(TotalOf(V, X, G), V[Pair(r)])
<1> DEFINE S == PairsOf(G)
           T == Total(V, S)
           Y == PairsOf(X)
           p == Pair(r)
<1>1. Y \in SUBSET S /\ p \in S \ Y /\ PairsOf(X \cup {r}) = Y \cup {p}
  BY DEF PairsOf
<1>2. IsTotal(T, V, S)
  BY TotalsAreTotals
<1>3. TotalOf(V, X \cup {r}, G) = T[Y \cup {p}] /\ TotalOf(V, X, G) = T[Y]
  BY <1>1 DEF TotalOf
<1> HIDE DEF T, Y, p, S
<1>4. T[Y \cup {p}] = Together(T[Y], V[p])
  BY <1>1, <1>2 DEF IsTotal
<1> QED BY <1>3, <1>4 DEF p

LEMMA FirstTotal ==
  ASSUME NEW G \in SUBSET Rows, NEW V, AreVotes(V, G), NEW r \in G
  PROVE  TotalOf(V, {r}, G) = V[Pair(r)]
<1>1. Pair(r) \notin PairsOf({}) /\ {} \cup {r} = {r} /\ {} \in SUBSET G
  BY DEF PairsOf
<1>2. IsCounter(V[Pair(r)])
  BY DEF AreVotes, PairsOf
<1>3. TotalOf(V, {r}, G) = Together(TotalOf(V, {}, G), V[Pair(r)]) /\ TotalOf(V, {}, G) = <<>>
  BY <1>1, TotalsGrow, TotalsOfRows
<1> QED BY <1>2, <1>3, NothingIsAdded

-----------------------------------------------------------------------------
\* What counts of the rows X.
Ignored(r) == r.source # LicenseSource /\ r.format
Counting(X) == {r \in X : ~Ignored(r)}
Named(X) == {r \in Counting(X) : Names(r)}
GenreRows(X) == IF Named(X) # {} THEN Named(X) ELSE {r \in Counting(X) : r.genre # Unsaid}
Spoken(X, kind) == {r \in X : StaffSay(r, kind)}
Licensed(X) == {r.audience : r \in {s \in X : s.source = LicenseSource}}
Clean(X) == Named(X) = {} \/ \A r \in X : r.source = LibraryStaff \/ r.genre = Unsaid
Precise(X) == {r \in Counting(X) : Juvenile(r) /\ ~Generic(r)}
Vague(X) == {r \in Counting(X) : Generic(r)}

\* The tally t is what the rows X, of all rows G, come to.
SpokenTold(t, X) ==
  /\ DOMAIN t = TallyFields /\ t.seen = PairsOf(X) /\ t.direct = Licensed(X)
  /\ "genre" \in t.staff <=> Named(X) # {}
  /\ "fiction" \in t.staff <=> Spoken(X, "fiction") # {}
  /\ "audience" \in t.staff <=> Spoken(X, "audience") # {}
  /\ "age" \in t.staff <=> Spoken(X, "age") # {}
GenresTold(t, X, G) ==
  /\ DOMAIN t.genres \subseteq {r.genre : r \in {s \in GenreRows(X) : s.genre # Unsaid}}
  /\ WeighedOnce(G) => t.genres = TotalOf(GenreVotes(G), GenreRows(X), G)
FictionTold(t, X, G) ==
  /\ \A r \in Spoken(X, "fiction") : SaidFiction(t, r)
  /\ WeighedOnce(G) /\ Clean(X) /\ Spoken(X, "fiction") = {} => t.fiction = TotalOf(FictionVotes(G), Counting(X), G)
AudienceTold(t, X, G) ==
  /\ \A r \in Spoken(X, "audience") : SaidAudience(t, r)
  /\ WeighedOnce(G) /\ Clean(X) /\ Spoken(X, "audience") = {} => t.audience = TotalOf(AudienceVotes(G), Counting(X), G)
AgeTold(t, X, G) ==
  /\ \A r \in Spoken(X, "age") : SaidAge(t, r)
  /\ WeighedOnce(G) /\ Clean(X) /\ Spoken(X, "age") = {} =>
       t.lower = TotalOf(LowerVotes(G), Counting(X), G) /\ t.upper = TotalOf(UpperVotes(G), Counting(X), G)
JuvenileTold(t, X) ==
  /\ \A r \in t.generic : r \in Vague(X) /\ \A s \in t.generic : r = s
  /\ Clean(X) /\ Spoken(X, "audience") \cup Spoken(X, "age") = {} =>
       (t.specific <=> Precise(X) # {}) /\ (t.generic = {} => Vague(X) = {})
IsTallyOf(t, X, G) ==
  /\ SpokenTold(t, X) /\ GenresTold(t, X, G)
  /\ FictionTold(t, X, G) /\ AudienceTold(t, X, G) /\ AgeTold(t, X, G) /\ JuvenileTold(t, X)

\* Rows that change nothing: repetitions, and those that are skipped.
AddsNothing(X, Y) ==
  /\ Named(Y) = Named(X) /\ \A kind \in {"fiction", "audience", "age"} : Spoken(Y, kind) = Spoken(X, kind)
  /\ PairsOf(GenreRows(Y)) = PairsOf(GenreRows(X)) /\ GenreRows(X) \subseteq GenreRows(Y)
  /\ Clean(Y) => /\ Clean(X) /\ PairsOf(Counting(Y)) = PairsOf(Counting(X))
                 /\ Precise(Y) # {} => Precise(X) # {}
                 /\ Vague(Y) # {} => Vague(X) # {}
  /\ Precise(X) \subseteq Precise(Y) /\ Vague(X) \subseteq Vague(Y)

LEMMA SpeakersCount ==
  ASSUME NEW r \in Rows, NEW kind \in {"fiction", "audience", "age"}, StaffSay(r, kind)
  PROVE  r.genre = Unsaid /\ ~Ignored(r) /\ ~Names(r) /\ ~Juvenile(r)
<1>1. r.genre = Unsaid /\ (r.format => r.genre # Unsaid)
  BY ClassificationsTyped DEF StaffSay
<1> QED BY <1>1 DEF StaffSay, Ignored, Names, Juvenile

LEMMA RepetitionsAddNothing ==
  ASSUME NEW X \in SUBSET Rows, NEW r \in Rows \ X, NEW s \in X, Pair(s) = Pair(r)
  PROVE  AddsNothing(X, X \cup {r}) /\ Licensed(X \cup {r}) = Licensed(X) /\ PairsOf(X \cup {r}) = PairsOf(X)
<1> DEFINE Y == X \cup {r}
<1>1. /\ s \in Rows /\ r # s /\ r.source = s.source /\ r.kind = s.kind /\ r.genre = s.genre /\ r.format = s.format
      /\ r.audience = s.audience /\ r.age = s.age
  BY SubjectsMean
<1>2. r.source # LibraryStaff
  <2> SUFFICES ASSUME r.source = LibraryStaff PROVE FALSE
    OBVIOUS
  <2>1. r.subject # s.subject
    BY <1>1, StaffSpeakOnce
  <2> QED BY <2>1 DEF Pair
<1>3. \A Z \in SUBSET Rows : r \notin Z /\ s \in Z => PairsOf(Z \cup {r}) = PairsOf(Z)
  BY DEF PairsOf
<1>4. Counting(Y) = IF Ignored(r) THEN Counting(X) ELSE Counting(X) \cup {r}
  BY DEF Counting
<1>5. Ignored(r) <=> Ignored(s)
  BY <1>1 DEF Ignored
<1>6. Named(Y) = Named(X) /\ \A kind \in {"fiction", "audience", "age"} : Spoken(Y, kind) = Spoken(X, kind)
  BY <1>2, <1>4 DEF Named, Names, Spoken, StaffSay
<1>7. PairsOf(Counting(Y)) = PairsOf(Counting(X))
  BY <1>3, <1>4, <1>5 DEF Counting
<1>8. PairsOf(GenreRows(Y)) = PairsOf(GenreRows(X))
  <2> DEFINE Z == {q \in Counting(X) : q.genre # Unsaid}
  <2>1. {q \in Counting(Y) : q.genre # Unsaid} = IF Ignored(r) \/ r.genre = Unsaid THEN Z ELSE Z \cup {r}
    BY <1>4
  <2>2. ~Ignored(r) /\ r.genre # Unsaid => s \in Z /\ r \notin Z /\ Z \in SUBSET Rows
    BY <1>1, <1>5 DEF Counting
  <2>3. PairsOf({q \in Counting(Y) : q.genre # Unsaid}) = PairsOf(Z)
    BY <1>3, <2>1, <2>2
  <2> QED BY <1>6, <2>3 DEF GenreRows
<1>9. Clean(Y) => Clean(X)
  BY <1>6 DEF Clean
<1>10. (Juvenile(r) <=> Juvenile(s)) /\ (Generic(r) <=> Generic(s))
  BY <1>1 DEF Juvenile, Generic
<1>11. /\ Precise(Y) # {} => Precise(X) # {}
       /\ Vague(Y) # {} => Vague(X) # {}
       /\ Precise(X) \subseteq Precise(Y) /\ Vague(X) \subseteq Vague(Y)
  BY <1>4, <1>5, <1>10 DEF Precise, Vague, Counting
<1>12. Licensed(Y) = Licensed(X)
  BY <1>1 DEF Licensed
<1>13. PairsOf(Y) = PairsOf(X)
  BY <1>3
<1>14. GenreRows(X) \subseteq GenreRows(Y)
  BY <1>4, <1>6 DEF GenreRows
<1> QED BY <1>6, <1>7, <1>8, <1>9, <1>11, <1>12, <1>13, <1>14 DEF AddsNothing

LEMMA SkippedAddNothing ==
  ASSUME NEW X \in SUBSET Rows, NEW r \in Rows \ X,
         Ignored(r) \/ (r.source # LibraryStaff /\ r.genre # Unsaid /\ Named(X) # {})
  PROVE  AddsNothing(X, X \cup {r})
<1> DEFINE Y == X \cup {r}
<1>1. r.genre # Unsaid
  BY ClassificationsTyped DEF Ignored
<1>2. \A kind \in {"fiction", "audience", "age"} : ~StaffSay(r, kind)
  BY <1>1, SpeakersCount
<1>3. \A kind \in {"fiction", "audience", "age"} : Spoken(Y, kind) = Spoken(X, kind)
  BY <1>2 DEF Spoken
<1>4. Precise(X) \subseteq Precise(Y) /\ Vague(X) \subseteq Vague(Y)
  BY DEF Precise, Vague, Counting
<1>5. CASE Ignored(r)
  <2>1. Counting(Y) = Counting(X)
    BY <1>5 DEF Counting
  <2>2. Named(Y) = Named(X) /\ GenreRows(Y) = GenreRows(X) /\ Precise(Y) = Precise(X) /\ Vague(Y) = Vague(X)
    BY <2>1 DEF Named, GenreRows, Precise, Vague
  <2>3. Clean(Y) => Clean(X)
    BY <2>2 DEF Clean
  <2> QED BY <1>3, <2>1, <2>2, <2>3 DEF AddsNothing
<1>6. CASE ~Ignored(r)
  <2>1. r.source # LibraryStaff /\ Named(X) # {}
    BY <1>6
  <2>2. Named(Y) = Named(X)
    BY <2>1 DEF Named, Names, Counting
  <2>3. ~Clean(Y)
    BY <1>1, <2>1, <2>2 DEF Clean
  <2>4. GenreRows(Y) = GenreRows(X)
    BY <2>1, <2>2 DEF GenreRows
  <2> QED BY <1>3, <1>4, <2>2, <2>3, <2>4 DEF AddsNothing
<1> QED BY <1>5, <1>6

LEMMA NothingIsToldAnew ==
  ASSUME NEW t, NEW u, NEW X, NEW Y, NEW G, IsTallyOf(t, X, G), AddsNothing(X, Y), Unheard(u, t)
  PROVE  GenresTold(u, Y, G) /\ FictionTold(u, Y, G) /\ AudienceTold(u, Y, G) /\ AgeTold(u, Y, G) /\ JuvenileTold(u, Y)
<1>1. GenresTold(u, Y, G)
  <2>1. u.genres = t.genres /\ GenreRows(X) \subseteq GenreRows(Y) /\ PairsOf(GenreRows(Y)) = PairsOf(GenreRows(X))
    BY DEF AddsNothing, Unheard
  <2> QED BY <2>1 DEF IsTallyOf, GenresTold, TotalOf
<1>2. FictionTold(u, Y, G)
  BY DEF IsTallyOf, FictionTold, AddsNothing, Unheard, TotalOf, SaidFiction
<1>3. AudienceTold(u, Y, G)
  BY DEF IsTallyOf, AudienceTold, AddsNothing, Unheard, TotalOf, SaidAudience
<1>4. AgeTold(u, Y, G)
  BY DEF IsTallyOf, AgeTold, AddsNothing, Unheard, TotalOf, SaidAge
<1>5. JuvenileTold(u, Y)
  <2>1. \A r \in u.generic : r \in Vague(Y) /\ \A s \in u.generic : r = s
    BY DEF IsTallyOf, JuvenileTold, AddsNothing, Unheard
  <2>2. ASSUME Clean(Y), Spoken(Y, "audience") \cup Spoken(Y, "age") = {}
        PROVE  (u.specific <=> Precise(Y) # {}) /\ (u.generic = {} => Vague(Y) = {})
    <3>1. Clean(X) /\ Spoken(X, "audience") \cup Spoken(X, "age") = {}
      BY <2>2 DEF AddsNothing
    <3>2. (t.specific <=> Precise(X) # {}) /\ (t.generic = {} => Vague(X) = {})
      BY <3>1 DEF IsTallyOf, JuvenileTold
    <3>3. (Precise(X) # {} <=> Precise(Y) # {}) /\ (Vague(X) = {} => Vague(Y) = {})
      BY <2>2 DEF AddsNothing
    <3>4. u.specific = t.specific /\ u.generic = t.generic
      BY DEF Unheard
    <3> QED BY <3>2, <3>3, <3>4
  <2> QED BY <2>1, <2>2 DEF JuvenileTold
<1> QED BY <1>1, <1>2, <1>3, <1>4, <1>5

-----------------------------------------------------------------------------
(***************************************************************************)
(* A tally grows by one row.                                               *)
(***************************************************************************)
LEMMA VoicesGrow ==
  ASSUME NEW X, NEW r, NEW kind
  PROVE  Spoken(X \cup {r}, kind) = IF StaffSay(r, kind) THEN Spoken(X, kind) \cup {r} ELSE Spoken(X, kind)
BY DEF Spoken

\* What counts of X and a row that is heard.
CountsToo(X, r) ==
  LET Y == X \cup {r}
  IN /\ ~Ignored(r) /\ (r.genre = Unsaid \/ r.source = LibraryStaff \/ Named(X) = {})
     /\ Counting(Y) = Counting(X) \cup {r} /\ Counting(X) \in SUBSET Rows /\ Pair(r) \notin PairsOf(Counting(X))
     /\ Named(Y) = IF Names(r) THEN Named(X) \cup {r} ELSE Named(X)
     /\ \A kind \in {"fiction", "audience", "age"} : StaffSay(r, kind) => Spoken(X, kind) = {}
     /\ Clean(Y) => Clean(X)

LEMMA HeardRowsCount ==
  ASSUME NEW t, NEW X \in SUBSET Rows, SpokenTold(t, X), NEW r \in Rows \ X, Pair(r) \notin PairsOf(X), ~Skips(t, r)
  PROVE  CountsToo(X, r)
<1> DEFINE Y == X \cup {r}
<1>1. ~Ignored(r) /\ (r.genre = Unsaid \/ r.source = LibraryStaff \/ Named(X) = {})
  BY DEF Skips, Ignored, SpokenTold
<1>2. Counting(Y) = Counting(X) \cup {r} /\ Counting(X) \in SUBSET Rows /\ Pair(r) \notin PairsOf(Counting(X))
  BY <1>1 DEF Counting, PairsOf
<1>3. Named(Y) = IF Names(r) THEN Named(X) \cup {r} ELSE Named(X)
  BY <1>2 DEF Named
<1>5. ASSUME NEW kind \in {"fiction", "audience", "age"}, StaffSay(r, kind), NEW s \in Spoken(X, kind) PROVE FALSE
  <2>1. s \in Rows /\ s # r /\ s.source = LibraryStaff /\ r.source = LibraryStaff /\ s.kind = r.kind /\ r.kind # "genre"
    BY <1>5 DEF Spoken, StaffSay
  <2> QED BY <2>1, StaffSpeakOnce
<1>6. Clean(Y) => Clean(X)
  BY <1>3 DEF Clean
<1> QED BY <1>1, <1>2, <1>3, <1>5, <1>6 DEF CountsToo

LEMMA GenresGrow ==
  ASSUME NEW t, NEW u, NEW G \in SUBSET Rows, NEW X \in SUBSET G, IsTallyOf(t, X, G), NEW r \in G \ X, Pair(r) \notin PairsOf(X), ~Skips(t, r),
         IsHeard(u, t, r)
  PROVE  GenresTold(u, X \cup {r}, G)
<1> DEFINE Y == X \cup {r}
           w == ScaledWeight(r)
           D(Z) == {q.genre : q \in {s \in GenreRows(Z) : s.genre # Unsaid}}
           first == Names(r) /\ Named(X) = {}
           c == IF first THEN <<>> ELSE t.genres
           B == IF first THEN {} ELSE GenreRows(X)
           T == TotalOf(GenreVotes(G), B, G)
           new == Names(r) \/ r.genre # Unsaid
<1>1. /\ SpokenTold(t, X) /\ u.genres = GenresWith(t, r) /\ ("genre" \in t.staff <=> Named(X) # {})
      /\ DOMAIN t.genres \subseteq D(X) /\ (WeighedOnce(G) => t.genres = TotalOf(GenreVotes(G), GenreRows(X), G))
  BY DEF IsTallyOf, GenresTold, IsHeard, SpokenTold
<1>2. CountsToo(X, r)
  BY <1>1, HeardRowsCount
<1>3. /\ (r.genre = Unsaid \/ r.source = LibraryStaff \/ Named(X) = {})
      /\ Counting(Y) = Counting(X) \cup {r} /\ Pair(r) \notin PairsOf(Counting(X)) /\ Counting(X) \in SUBSET G
      /\ Named(Y) = IF Names(r) THEN Named(X) \cup {r} ELSE Named(X)
  BY <1>2 DEF CountsToo, Counting
<1>4. GenreRows(Y) = IF new THEN B \cup {r} ELSE B
  BY <1>3 DEF GenreRows, Names
<1>5. B \in SUBSET G /\ Pair(r) \notin PairsOf(B)
  BY <1>3 DEF GenreRows, Named, PairsOf
<1>6. u.genres = IF r.genre = Unsaid THEN c ELSE Counted(c, r.genre, w)
  BY <1>1 DEF GenresWith
<1>7. DOMAIN u.genres \subseteq D(Y)
  <2>1. DOMAIN c \subseteq {q.genre : q \in {s \in B : s.genre # Unsaid}}
    BY <1>1, NothingCounted
  <2>2. DOMAIN u.genres \subseteq DOMAIN c \cup ({r.genre} \ {Unsaid})
    BY <1>6 DEF Counted
  <2> HIDE DEF B, c
  <2> QED BY <1>4, <2>1, <2>2
<1>8. ASSUME WeighedOnce(G) PROVE u.genres = TotalOf(GenreVotes(G), GenreRows(Y), G)
  <2>1. IsCounter(T) /\ TotalOf(GenreVotes(G), B \cup {r}, G) = Together(T, GenreVote(r))
    BY <1>5, <1>8, VotesAreVotes, VotesOfRows, TotalsOfRows, TotalsGrow
  <2>2. c = T
    BY <1>1, <1>8, VotesAreVotes, TotalsOfRows
  <2>3. r \in Rows /\ w \in Int
    BY WeightsAreCounted
  <2>4. GenreVote(r) = IF r.genre = Unsaid THEN <<>> ELSE Single(r.genre, w)
    BY DEF GenreVote
  <2> HIDE DEF w, c, T, B, new
  <2>5. u.genres = Together(T, GenreVote(r))
    BY <1>6, <2>1, <2>2, <2>3, <2>4, CountedTogether, NothingIsAdded
  <2>6. ~new => GenreVote(r) = <<>>
    BY <2>4 DEF new
  <2>7. ~new => u.genres = T
    BY <2>1, <2>5, <2>6, NothingIsAdded
  <2> QED BY <1>4, <2>1, <2>5, <2>7 DEF T
<1> QED BY <1>7, <1>8 DEF GenresTold

LEMMA FictionGrows ==
  ASSUME NEW t, NEW u, NEW G \in SUBSET Rows, NEW X \in SUBSET G, IsTallyOf(t, X, G), NEW r \in G \ X, Pair(r) \notin PairsOf(X), ~Skips(t, r),
         IsHeard(u, t, r)
  PROVE  FictionTold(u, X \cup {r}, G)
<1> DEFINE Y == X \cup {r}
           T == TotalOf(FictionVotes(G), Counting(X), G)
           Fic == "fiction"
<1>1. /\ SpokenTold(t, X) /\ FictionHeard(u, t, r) /\ (Fic \in t.staff <=> Spoken(X, Fic) # {})
      /\ \A s \in Spoken(X, Fic) : SaidFiction(t, s)
      /\ WeighedOnce(G) /\ Clean(X) /\ Spoken(X, Fic) = {} => t.fiction = T
  BY DEF IsTallyOf, FictionTold, IsHeard, SpokenTold
<1>2. /\ Counting(Y) = Counting(X) \cup {r} /\ Pair(r) \notin PairsOf(Counting(X)) /\ Counting(X) \in SUBSET G
      /\ Spoken(Y, Fic) = IF StaffSay(r, Fic) THEN Spoken(X, Fic) \cup {r} ELSE Spoken(X, Fic)
      /\ StaffSay(r, Fic) => Spoken(X, Fic) = {}
      /\ Clean(Y) => Clean(X)
  <2>1. CountsToo(X, r)
    BY <1>1, HeardRowsCount
  <2>2. Spoken(Y, Fic) = IF StaffSay(r, Fic) THEN Spoken(X, Fic) \cup {r} ELSE Spoken(X, Fic)
    BY VoicesGrow
  <2> QED BY <2>1, <2>2 DEF CountsToo, Counting
<1>3. WeighedOnce(G) => TotalOf(FictionVotes(G), Counting(Y), G) = Together(T, FictionVote(r))
  <2>1. WeighedOnce(G) => TotalOf(FictionVotes(G), Counting(X) \cup {r}, G) = Together(T, FictionVote(r))
    BY <1>2, VotesAreVotes, VotesOfRows, TotalsGrow
  <2> QED BY <1>2, <2>1
<1>4. Counted(T, r.fiction, ScaledWeight(r)) = Together(T, FictionVote(r))
  BY WeightsAreCounted, CountedTogether DEF FictionVote
<1> HIDE DEF T
<1>5. CASE Spoken(X, Fic) # {}
  <2>1. Spoken(Y, Fic) = Spoken(X, Fic) /\ u.fiction = t.fiction
    BY <1>1, <1>2, <1>5 DEF FictionHeard
  <2> QED BY <1>1, <1>5, <2>1 DEF FictionTold, SaidFiction
<1>6. CASE Spoken(X, Fic) = {} /\ StaffSay(r, Fic)
  <2>1. Spoken(Y, Fic) = {r} /\ SaidFiction(u, r)
    BY <1>1, <1>2, <1>6 DEF FictionHeard
  <2> QED BY <2>1 DEF FictionTold
<1>7. CASE Spoken(X, Fic) = {} /\ ~StaffSay(r, Fic)
  <2>1. Spoken(Y, Fic) = {} /\ u.fiction = Counted(t.fiction, r.fiction, ScaledWeight(r))
    BY <1>1, <1>2, <1>7 DEF FictionHeard
  <2> QED BY <1>1, <1>2, <1>3, <1>4, <1>7, <2>1 DEF FictionTold
<1> QED BY <1>5, <1>6, <1>7

LEMMA AudienceGrows ==
  ASSUME NEW t, NEW u, NEW G \in SUBSET Rows, NEW X \in SUBSET G, IsTallyOf(t, X, G), NEW r \in G \ X, Pair(r) \notin PairsOf(X), ~Skips(t, r),
         IsHeard(u, t, r)
  PROVE  AudienceTold(u, X \cup {r}, G)
<1> DEFINE Y == X \cup {r}
           T == TotalOf(AudienceVotes(G), Counting(X), G)
           Aud == "audience"
<1>1. /\ SpokenTold(t, X) /\ AudienceHeard(u, t, r) /\ (Aud \in t.staff <=> Spoken(X, Aud) # {})
      /\ \A s \in Spoken(X, Aud) : SaidAudience(t, s)
      /\ WeighedOnce(G) /\ Clean(X) /\ Spoken(X, Aud) = {} => t.audience = T
  BY DEF IsTallyOf, AudienceTold, IsHeard, SpokenTold
<1>2. /\ Counting(Y) = Counting(X) \cup {r} /\ Pair(r) \notin PairsOf(Counting(X)) /\ Counting(X) \in SUBSET G
      /\ Spoken(Y, Aud) = IF StaffSay(r, Aud) THEN Spoken(X, Aud) \cup {r} ELSE Spoken(X, Aud)
      /\ StaffSay(r, Aud) => Spoken(X, Aud) = {}
      /\ Clean(Y) => Clean(X)
  <2>1. CountsToo(X, r)
    BY <1>1, HeardRowsCount
  <2>2. Spoken(Y, Aud) = IF StaffSay(r, Aud) THEN Spoken(X, Aud) \cup {r} ELSE Spoken(X, Aud)
    BY VoicesGrow
  <2> QED BY <2>1, <2>2 DEF CountsToo, Counting
<1>3. WeighedOnce(G) => TotalOf(AudienceVotes(G), Counting(Y), G) = Together(T, Votes(r))
  <2>1. WeighedOnce(G) => TotalOf(AudienceVotes(G), Counting(X) \cup {r}, G) = Together(T, Votes(r))
    BY <1>2, VotesAreVotes, VotesOfRows, TotalsGrow
  <2> QED BY <1>2, <2>1
<1> HIDE DEF T
<1>5. CASE Spoken(X, Aud) # {}
  <2>1. Spoken(Y, Aud) = Spoken(X, Aud) /\ u.audience = t.audience
    BY <1>1, <1>2, <1>5 DEF AudienceHeard
  <2> QED BY <1>1, <1>5, <2>1 DEF AudienceTold, SaidAudience
<1>6. CASE Spoken(X, Aud) = {} /\ StaffSay(r, Aud)
  <2>1. Spoken(Y, Aud) = {r} /\ SaidAudience(u, r)
    BY <1>1, <1>2, <1>6 DEF AudienceHeard
  <2> QED BY <2>1 DEF AudienceTold
<1>7. CASE Spoken(X, Aud) = {} /\ ~StaffSay(r, Aud)
  <2>1. Spoken(Y, Aud) = {} /\ u.audience = Together(t.audience, Votes(r))
    BY <1>1, <1>2, <1>7 DEF AudienceHeard
  <2> QED BY <1>1, <1>2, <1>3, <1>7, <2>1 DEF AudienceTold
<1> QED BY <1>5, <1>6, <1>7

LEMMA AgesGrow ==
  ASSUME NEW t, NEW u, NEW G \in SUBSET Rows, NEW X \in SUBSET G, IsTallyOf(t, X, G), NEW r \in G \ X, Pair(r) \notin PairsOf(X), ~Skips(t, r),
         IsHeard(u, t, r)
  PROVE  AgeTold(u, X \cup {r}, G)
<1> DEFINE Y == X \cup {r}
           L == TotalOf(LowerVotes(G), Counting(X), G)
           U == TotalOf(UpperVotes(G), Counting(X), G)
           Age == "age"
<1>1. /\ SpokenTold(t, X) /\ AgeHeard(u, t, r) /\ (Age \in t.staff <=> Spoken(X, Age) # {})
      /\ \A s \in Spoken(X, Age) : SaidAge(t, s)
      /\ WeighedOnce(G) /\ Clean(X) /\ Spoken(X, Age) = {} => t.lower = L /\ t.upper = U
  BY DEF IsTallyOf, AgeTold, IsHeard, SpokenTold
<1>2. /\ Counting(Y) = Counting(X) \cup {r} /\ Pair(r) \notin PairsOf(Counting(X)) /\ Counting(X) \in SUBSET G
      /\ Spoken(Y, Age) = IF StaffSay(r, Age) THEN Spoken(X, Age) \cup {r} ELSE Spoken(X, Age)
      /\ StaffSay(r, Age) => Spoken(X, Age) = {}
      /\ Clean(Y) => Clean(X)
  <2>1. CountsToo(X, r)
    BY <1>1, HeardRowsCount
  <2>2. Spoken(Y, Age) = IF StaffSay(r, Age) THEN Spoken(X, Age) \cup {r} ELSE Spoken(X, Age)
    BY VoicesGrow
  <2> QED BY <2>1, <2>2 DEF CountsToo, Counting
<1>3. WeighedOnce(G) =>
      /\ IsCounter(L) /\ IsCounter(U)
      /\ TotalOf(LowerVotes(G), Counting(Y), G) = Together(L, AgeVote(r.age.lower, r))
      /\ TotalOf(UpperVotes(G), Counting(Y), G) = Together(U, AgeVote(r.age.upper, r))
  <2>1. WeighedOnce(G) => TotalOf(LowerVotes(G), Counting(X) \cup {r}, G) = Together(L, AgeVote(r.age.lower, r))
    BY <1>2, VotesAreVotes, VotesOfRows, TotalsGrow
  <2>2. WeighedOnce(G) => TotalOf(UpperVotes(G), Counting(X) \cup {r}, G) = Together(U, AgeVote(r.age.upper, r))
    BY <1>2, VotesAreVotes, VotesOfRows, TotalsGrow
  <2> QED BY <1>2, <2>1, <2>2, VotesAreVotes, TotalsOfRows
<1> HIDE DEF L, U
<1>4. ASSUME NEW c, IsCounter(c), NEW age PROVE AgesWith(c, age, r) = Together(c, AgeVote(age, r))
  <2> DEFINE w == r.weight * r.quality
  <2>1. w \in Int
    BY AgeVoteIsCounter
  <2>2. AgesWith(c, age, r) = (IF age = NoAge THEN c ELSE Counted(c, age, w)) /\ AgeVote(age, r) = IF age = NoAge THEN <<>> ELSE Single(age, w)
    BY DEF AgesWith, AgeVote
  <2> HIDE DEF w
  <2>3. Counted(c, age, w) = Together(c, Single(age, w))
    BY <2>1, CountedTogether
  <2> QED BY <1>4, <2>2, <2>3, NothingIsAdded
<1>5. CASE Spoken(X, Age) # {}
  <2>1. Spoken(Y, Age) = Spoken(X, Age) /\ u.lower = t.lower /\ u.upper = t.upper
    BY <1>1, <1>2, <1>5 DEF AgeHeard
  <2> QED BY <1>1, <1>5, <2>1 DEF AgeTold, SaidAge
<1>6. CASE Spoken(X, Age) = {} /\ StaffSay(r, Age)
  <2>1. Spoken(Y, Age) = {r} /\ SaidAge(u, r)
    BY <1>1, <1>2, <1>6 DEF AgeHeard
  <2> QED BY <2>1 DEF AgeTold
<1>7. CASE Spoken(X, Age) = {} /\ ~StaffSay(r, Age)
  <2>1. Spoken(Y, Age) = {} /\ u.lower = AgesWith(t.lower, r.age.lower, r) /\ u.upper = AgesWith(t.upper, r.age.upper, r)
    BY <1>1, <1>2, <1>7 DEF AgeHeard
  <2>2. WeighedOnce(G) /\ Clean(X) => u.lower = Together(L, AgeVote(r.age.lower, r)) /\ u.upper = Together(U, AgeVote(r.age.upper, r))
    BY <1>1, <1>3, <1>4, <1>7, <2>1
  <2> QED BY <1>2, <1>3, <2>1, <2>2 DEF AgeTold
<1> QED BY <1>5, <1>6, <1>7

LEMMA JuvenilesGrow ==
  ASSUME NEW t, NEW u, NEW G \in SUBSET Rows, NEW X \in SUBSET G, IsTallyOf(t, X, G), NEW r \in G \ X, Pair(r) \notin PairsOf(X), ~Skips(t, r),
         IsHeard(u, t, r)
  PROVE  JuvenileTold(u, X \cup {r})
<1> DEFINE Y == X \cup {r}
           silent == u.staff \cap {"audience", "age"} = {}
<1>1. /\ SpokenTold(t, X) /\ Speaks(u, t, r) /\ JuvenileNoted(u, t, r)
      /\ \A q \in t.generic : q \in Vague(X) /\ \A s \in t.generic : q = s
      /\ Clean(X) /\ Spoken(X, "audience") \cup Spoken(X, "age") = {} =>
           (t.specific <=> Precise(X) # {}) /\ (t.generic = {} => Vague(X) = {})
  BY DEF IsTallyOf, JuvenileTold, IsHeard
<1>2. /\ Counting(Y) = Counting(X) \cup {r}
      /\ Spoken(Y, "audience") = IF StaffSay(r, "audience") THEN Spoken(X, "audience") \cup {r} ELSE Spoken(X, "audience")
      /\ Spoken(Y, "age") = IF StaffSay(r, "age") THEN Spoken(X, "age") \cup {r} ELSE Spoken(X, "age")
      /\ Clean(Y) => Clean(X)
  <2>0. CountsToo(X, r)
    BY <1>1, HeardRowsCount
  <2>1. Counting(Y) = Counting(X) \cup {r} /\ (Clean(Y) => Clean(X))
    BY <2>0 DEF CountsToo
  <2> QED BY <2>1, VoicesGrow
<1>3. /\ Vague(Y) = IF Generic(r) THEN Vague(X) \cup {r} ELSE Vague(X)
      /\ Precise(Y) = IF Juvenile(r) /\ ~Generic(r) THEN Precise(X) \cup {r} ELSE Precise(X)
  BY <1>2 DEF Vague, Precise
<1>4. /\ u.specific <=> t.specific \/ (silent /\ Juvenile(r) /\ ~Generic(r))
      /\ u.generic = IF silent /\ Generic(r) THEN {r} ELSE t.generic
  BY <1>1 DEF JuvenileNoted
<1>5. Spoken(Y, "audience") \cup Spoken(Y, "age") = {} => silent /\ Spoken(X, "audience") \cup Spoken(X, "age") = {}
  <2> SUFFICES ASSUME Spoken(Y, "audience") = {}, Spoken(Y, "age") = {}
               PROVE  silent /\ Spoken(X, "audience") = {} /\ Spoken(X, "age") = {}
    OBVIOUS
  <2>1. ~StaffSay(r, "audience") /\ Spoken(X, "audience") = {} /\ ~StaffSay(r, "age") /\ Spoken(X, "age") = {}
    BY <1>2
  <2>2. "audience" \notin u.staff /\ "age" \notin u.staff
    BY <1>1, <2>1 DEF Speaks, SpokenTold
  <2> QED BY <2>1, <2>2
<1> HIDE DEF silent
<1>6. \A q \in u.generic : q \in Vague(Y) /\ \A s \in u.generic : q = s
  BY <1>1, <1>3, <1>4
<1>7. ASSUME Clean(Y), Spoken(Y, "audience") \cup Spoken(Y, "age") = {}
      PROVE  (u.specific <=> Precise(Y) # {}) /\ (u.generic = {} => Vague(Y) = {})
  <2>1. silent /\ (t.specific <=> Precise(X) # {}) /\ (t.generic = {} => Vague(X) = {})
    BY <1>1, <1>2, <1>5, <1>7
  <2> QED BY <1>3, <1>4, <2>1
<1> QED BY <1>6, <1>7 DEF JuvenileTold

-----------------------------------------------------------------------------
LEMMA SpokenIsTold ==
  ASSUME NEW t, NEW X \in SUBSET Rows, SpokenTold(t, X), NEW r \in Rows \ X, Pair(r) \notin PairsOf(X)
  PROVE  SpokenTold(Added(t, r), X \cup {r})
<1> DEFINE u == Added(t, r)
           Y == X \cup {r}
<1>1. DOMAIN t = TallyFields /\ t.seen = PairsOf(X) /\ t.direct = Licensed(X)
  BY DEF SpokenTold
<1>2. Recorded(u, t, r) /\ IF Skips(t, r) THEN Unheard(u, t) ELSE IsHeard(u, t, r)
  BY <1>1, AddingRows
<1> HIDE DEF u
<1>3. DOMAIN u = TallyFields /\ u.seen = PairsOf(Y) /\ u.direct = Licensed(Y)
  BY <1>1, <1>2 DEF Recorded, PairsOf, Licensed
<1>4. CASE Skips(t, r)
  <2>1. Ignored(r) \/ (r.source # LibraryStaff /\ r.genre # Unsaid /\ Named(X) # {})
    BY <1>4 DEF Skips, Ignored, SpokenTold
  <2>2. AddsNothing(X, Y)
    BY <2>1, SkippedAddNothing
  <2>3. u.staff = t.staff
    BY <1>2, <1>4 DEF Unheard
  <2>4. /\ Named(Y) = Named(X) /\ Spoken(Y, "fiction") = Spoken(X, "fiction")
        /\ Spoken(Y, "audience") = Spoken(X, "audience") /\ Spoken(Y, "age") = Spoken(X, "age")
    BY <2>2 DEF AddsNothing
  <2>5. SpokenTold(u, Y)
    BY <1>3, <2>3, <2>4 DEF SpokenTold
  <2> QED BY <2>5 DEF u
<1>5. CASE ~Skips(t, r)
  <2>1. Speaks(u, t, r)
    BY <1>2, <1>5 DEF IsHeard
  <2>2. /\ Named(Y) = IF Names(r) THEN Named(X) \cup {r} ELSE Named(X)
        /\ Spoken(Y, "fiction") = IF StaffSay(r, "fiction") THEN Spoken(X, "fiction") \cup {r} ELSE Spoken(X, "fiction")
        /\ Spoken(Y, "audience") = IF StaffSay(r, "audience") THEN Spoken(X, "audience") \cup {r} ELSE Spoken(X, "audience")
        /\ Spoken(Y, "age") = IF StaffSay(r, "age") THEN Spoken(X, "age") \cup {r} ELSE Spoken(X, "age")
    <3>1. CountsToo(X, r)
      BY <1>5, HeardRowsCount
    <3>2. Named(Y) = IF Names(r) THEN Named(X) \cup {r} ELSE Named(X)
      BY <3>1 DEF CountsToo
    <3> QED BY <3>2, VoicesGrow
  <2>3. SpokenTold(u, Y)
    BY <1>3, <2>1, <2>2 DEF SpokenTold, Speaks
  <2> QED BY <2>3 DEF u
<1> QED BY <1>4, <1>5 DEF u

LEMMA TallyGrows ==
  ASSUME NEW t, NEW G \in SUBSET Rows, NEW X \in SUBSET G, IsTallyOf(t, X, G), NEW r \in G \ X
  PROVE  IsTallyOf(Added(t, r), X \cup {r}, G)
<1> DEFINE u == Added(t, r)
           Y == X \cup {r}
<1>1. SpokenTold(t, X) /\ DOMAIN t = TallyFields /\ t.seen = PairsOf(X)
  BY DEF IsTallyOf, SpokenTold
<1>2. CASE Pair(r) \in PairsOf(X)
  <2>1. u = t
    BY <1>1, <1>2 DEF Added, Pair
  <2>2. PICK s \in X : Pair(s) = Pair(r)
    BY <1>2 DEF PairsOf
  <2>3. AddsNothing(X, Y) /\ Licensed(Y) = Licensed(X) /\ PairsOf(Y) = PairsOf(X)
    BY <2>2, RepetitionsAddNothing
  <2>4. SpokenTold(t, Y)
    BY <1>1, <2>3 DEF SpokenTold, AddsNothing
  <2>5. GenresTold(t, Y, G) /\ FictionTold(t, Y, G) /\ AudienceTold(t, Y, G) /\ AgeTold(t, Y, G) /\ JuvenileTold(t, Y)
    BY <2>3, NothingIsToldAnew DEF Unheard
  <2> QED BY <2>1, <2>4, <2>5 DEF IsTallyOf
<1>3. CASE Pair(r) \notin PairsOf(X)
  <2>1. Recorded(u, t, r) /\ IF Skips(t, r) THEN Unheard(u, t) ELSE IsHeard(u, t, r)
    BY <1>1, <1>3, AddingRows
  <2>2. SpokenTold(u, Y)
    BY <1>1, <1>3, SpokenIsTold
  <2> HIDE DEF u
  <2>3. CASE Skips(t, r)
    <3>1. Ignored(r) \/ (r.source # LibraryStaff /\ r.genre # Unsaid /\ Named(X) # {})
      BY <1>1, <2>3 DEF Skips, Ignored, SpokenTold
    <3>2. AddsNothing(X, Y)
      BY <3>1, SkippedAddNothing
    <3>3. GenresTold(u, Y, G) /\ FictionTold(u, Y, G) /\ AudienceTold(u, Y, G) /\ AgeTold(u, Y, G) /\ JuvenileTold(u, Y)
      BY <2>1, <2>3, <3>2, NothingIsToldAnew
    <3> QED BY <2>2, <3>3 DEF IsTallyOf, u
  <2>4. CASE ~Skips(t, r)
    <3>1. GenresTold(u, Y, G) /\ FictionTold(u, Y, G) /\ AudienceTold(u, Y, G) /\ AgeTold(u, Y, G) /\ JuvenileTold(u, Y)
      BY <1>3, <2>1, <2>4, GenresGrow, FictionGrows, AudienceGrows, AgesGrow, JuvenilesGrow
    <3> QED BY <2>2, <3>1 DEF IsTallyOf, u
  <2> QED BY <2>3, <2>4
<1> QED BY <1>2, <1>3

LEMMA NothingIsTallied ==
  ASSUME NEW G \in SUBSET Rows
  PROVE  IsTallyOf(EmptyTally, {}, G)
<1>1. Counting({}) = {} /\ Named({}) = {} /\ PairsOf({}) = {} /\ Licensed({}) = {} /\ \A kind : Spoken({}, kind) = {}
  BY DEF Counting, Named, PairsOf, Licensed, Spoken
<1>2. GenreRows({}) = {} /\ Precise({}) = {} /\ Vague({}) = {}
  BY <1>1 DEF GenreRows, Precise, Vague
<1>3. WeighedOnce(G) =>
      /\ TotalOf(GenreVotes(G), {}, G) = <<>> /\ TotalOf(FictionVotes(G), {}, G) = <<>> /\ TotalOf(AudienceVotes(G), {}, G) = <<>>
      /\ TotalOf(LowerVotes(G), {}, G) = <<>> /\ TotalOf(UpperVotes(G), {}, G) = <<>>
  BY VotesAreVotes, TotalsOfRows
<1>4. /\ DOMAIN EmptyTally = TallyFields /\ EmptyTally.seen = {} /\ EmptyTally.direct = {} /\ EmptyTally.staff = {}
      /\ EmptyTally.genres = <<>> /\ EmptyTally.fiction = <<>> /\ EmptyTally.audience = <<>>
      /\ EmptyTally.lower = <<>> /\ EmptyTally.upper = <<>> /\ EmptyTally.generic = {} /\ EmptyTally.specific = FALSE
  BY DEF EmptyTally, TallyFields
<1>5. SpokenTold(EmptyTally, {})
  BY <1>1, <1>4 DEF SpokenTold
<1>6. GenresTold(EmptyTally, {}, G) /\ FictionTold(EmptyTally, {}, G) /\ AudienceTold(EmptyTally, {}, G)
  BY <1>1, <1>2, <1>3, <1>4, NothingCounted DEF GenresTold, FictionTold, AudienceTold
<1>7. AgeTold(EmptyTally, {}, G) /\ JuvenileTold(EmptyTally, {})
  BY <1>1, <1>2, <1>3, <1>4 DEF AgeTold, JuvenileTold
<1> QED BY <1>5, <1>6, <1>7 DEF IsTallyOf

-----------------------------------------------------------------------------
(***************************************************************************)
(* The tallies of the rows in the order of StaffFirst.                     *)
(***************************************************************************)
IsListOf(q, n, S) ==
  /\ n \in Nat /\ q \in Seq(S) /\ Len(q) = n
  /\ \A i, j \in 1..n : q[i] = q[j] => i = j
  /\ \A s \in S : \E i \in 1..n : q[i] = s

LEMMA SetsAreListed ==
  ASSUME NEW S, IsFiniteSet(S)
  PROVE  IsListOf(SetToSeq(S), Cardinality(S), S)
<1> DEFINE n == Cardinality(S)
           q == SetToSeq(S)
<1>1. n \in Nat /\ ExistsBijection(1..n, S)
  BY FS_CardinalityType
<1>2. PICK f \in Bijection(1..n, S) : TRUE
  BY <1>1 DEF ExistsBijection
<1>3. f \in [1..n -> S] /\ IsInjective(f)
  BY <1>2 DEF Bijection, Injection
<1>4. q \in [1..n -> S] /\ IsInjective(q)
  BY <1>3, Zenon DEF SetToSeq
<1> HIDE DEF q
<1>5. q \in Injection(1..n, S)
  BY <1>4 DEF Injection
<1>6. IsFiniteSet(1..n) /\ Cardinality(1..n) = n
  BY <1>1, FS_Interval
<1> HIDE DEF n
<1>7. q \in Surjection(1..n, S)
  BY <1>5, <1>6, FS_Injection DEF n
<1>8. \A s \in S : \E i \in 1..n : q[i] = s
  BY <1>7 DEF Surjection
<1>9. \A i, j \in 1..n : q[i] = q[j] => i = j
  BY <1>4 DEF IsInjective
<1>10. q \in Seq(S) /\ Len(q) = n
  BY <1>1, <1>4
<1> QED BY <1>1, <1>8, <1>9, <1>10 DEF IsListOf, q, n

StartsWith(q, n, S) == \A i, j \in 1..n : i < j /\ q[j] \in S => q[i] \in S

\* Two lists in a row.
LEMMA ListsAreJoined ==
  ASSUME NEW S, NEW p, NEW m, IsListOf(p, m, S), NEW T, NEW q, NEW n, IsListOf(q, n, T), S \cap T = {}
  PROVE  IsListOf(p \o q, m + n, S \cup T) /\ StartsWith(p \o q, m + n, S)
<1> DEFINE r == p \o q
<1>1. /\ m \in Nat /\ n \in Nat /\ p \in Seq(S) /\ q \in Seq(T) /\ Len(p) = m /\ Len(q) = n
      /\ \A i, j \in 1..m : p[i] = p[j] => i = j
      /\ \A i, j \in 1..n : q[i] = q[j] => i = j
      /\ \A s \in S : \E i \in 1..m : p[i] = s
      /\ \A s \in T : \E i \in 1..n : q[i] = s
  BY DEF IsListOf
<1>2. r \in Seq(S \cup T) /\ Len(r) = m + n
  BY <1>1
<1>3. \A i \in 1..(m + n) : r[i] = IF i <= m THEN p[i] ELSE q[i - m]
  BY <1>1
<1> HIDE DEF r
<1>4. \A i \in 1..m : i \in 1..(m + n) /\ r[i] = p[i] /\ p[i] \in S
  BY <1>1, <1>3
<1>5. \A i \in 1..n : i + m \in 1..(m + n) /\ r[i + m] = q[i] /\ q[i] \in T
  <2> TAKE i \in 1..n
  <2>1. i + m \in 1..(m + n) /\ ~(i + m <= m) /\ (i + m) - m = i
    BY <1>1
  <2> QED BY <1>1, <1>3, <2>1
<1>6. \A i \in 1..(m + n) : i \in 1..m \/ (i - m \in 1..n /\ r[i] = q[i - m] /\ ~(i <= m))
  BY <1>1, <1>3
<1>7. ASSUME NEW i \in 1..(m + n), NEW j \in 1..(m + n), r[i] = r[j] PROVE i = j
  <2>1. CASE i \in 1..m /\ j \in 1..m
    BY <1>1, <1>4, <1>7, <2>1
  <2>2. CASE i \in 1..m /\ j \notin 1..m
    <3>1. r[i] \in S /\ r[j] \in T
      BY <1>4, <1>5, <1>6, <2>2
    <3> QED BY <1>7, <3>1
  <2>3. CASE i \notin 1..m /\ j \in 1..m
    <3>1. r[j] \in S /\ r[i] \in T
      BY <1>4, <1>5, <1>6, <2>3
    <3> QED BY <1>7, <3>1
  <2>4. CASE i \notin 1..m /\ j \notin 1..m
    <3>1. i - m \in 1..n /\ j - m \in 1..n /\ q[i - m] = q[j - m]
      BY <1>6, <1>7, <2>4
    <3>2. i - m = j - m
      BY <1>1, <3>1
    <3> QED BY <1>1, <3>2
  <2> QED BY <2>1, <2>2, <2>3, <2>4
<1>8. \A s \in S \cup T : \E i \in 1..(m + n) : r[i] = s
  <2> TAKE s \in S \cup T
  <2>1. CASE s \in S
    BY <1>1, <1>4, <2>1
  <2>2. CASE s \in T
    <3>1. PICK i \in 1..n : q[i] = s
      BY <1>1, <2>2
    <3> QED BY <1>5, <3>1
  <2> QED BY <2>1, <2>2
<1>9. ASSUME NEW i \in 1..(m + n), NEW j \in 1..(m + n), i < j, r[j] \in S PROVE r[i] \in S
  <2>1. j \in 1..m
    BY <1>5, <1>6, <1>9
  <2>2. i \in 1..m
    BY <1>1, <1>9, <2>1
  <2> QED BY <1>4, <2>2
<1>10. m + n \in Nat
  BY <1>1
<1> QED BY <1>2, <1>7, <1>8, <1>9, <1>10 DEF IsListOf, StartsWith, r

-----------------------------------------------------------------------------
LEMMA TalliedSteps ==
  ASSUME NEW rows, Len(rows) \in Nat
  PROVE  \A n \in 0..Len(rows) :
           Tallied(rows)[n] = IF n = 0 THEN EmptyTally ELSE Added(Tallied(rows)[n - 1], rows[n])
<1> DEFINE N == Len(rows)
           Solves(f, m) == f = [n \in 0..m |-> IF n = 0 THEN EmptyTally ELSE Added(f[n - 1], rows[n])]
           Exists(m) == \E f : Solves(f, m)
           bad == {m \in Nat : ~Exists(m)}
<1>1. Exists(0)
  <2> DEFINE g == [n \in 0..0 |-> EmptyTally]
  <2>1. g = [n \in 0..0 |-> IF n = 0 THEN EmptyTally ELSE Added(g[n - 1], rows[n])]
    OBVIOUS
  <2> HIDE DEF g
  <2>2. Solves(g, 0)
    BY <2>1
  <2> QED BY <2>2
<1>2. ASSUME NEW m \in Nat, m # 0, Exists(m - 1) PROVE Exists(m)
  <2>1. PICK f : Solves(f, m - 1)
    BY <1>2
  <2>2. \A n \in 0..(m - 1) : f[n] = IF n = 0 THEN EmptyTally ELSE Added(f[n - 1], rows[n])
    BY <2>1
  <2> DEFINE g == [n \in 0..m |-> IF n = 0 THEN EmptyTally ELSE Added(f[n - 1], rows[n])]
  <2>3. \A n \in 0..m : n = 0 \/ n - 1 \in 0..(m - 1)
    BY <1>2
  <2>4. \A n \in 0..(m - 1) : g[n] = f[n]
    BY <2>2
  <2>5. g = [n \in 0..m |-> IF n = 0 THEN EmptyTally ELSE Added(f[n - 1], rows[n])]
    OBVIOUS
  <2> HIDE DEF g
  <2>6. \A n \in 0..m : n # 0 => g[n - 1] = f[n - 1]
    BY <2>3, <2>4
  <2>7. Solves(g, m)
    BY <2>5, <2>6
  <2> QED BY <2>7
<1> HIDE DEF Exists
<1>3. bad = {}
  <2> SUFFICES ASSUME bad # {} PROVE FALSE
    OBVIOUS
  <2>1. PICK m \in bad : \A j \in bad : m <= j
    BY LeastNumber
  <2>2. m # 0
    BY <1>1
  <2>3. m - 1 \in Nat /\ m - 1 \notin bad
    BY <2>1, <2>2
  <2> QED BY <1>2, <2>2, <2>3
<1>4. \E f : f = [n \in 0..N |-> IF n = 0 THEN EmptyTally ELSE Added(f[n - 1], rows[n])]
  BY <1>3 DEF Exists
<1> DEFINE T == Tallied(rows)
<1>5. T = CHOOSE f : f = [n \in 0..N |-> IF n = 0 THEN EmptyTally ELSE Added(f[n - 1], rows[n])]
  BY DEF Tallied
<1>6. T = [n \in 0..N |-> IF n = 0 THEN EmptyTally ELSE Added(T[n - 1], rows[n])]
  BY <1>4, <1>5, Zenon
<1> HIDE DEF T
<1>7. \A n \in 0..N : T[n] = IF n = 0 THEN EmptyTally ELSE Added(T[n - 1], rows[n])
  BY <1>6
<1> QED BY <1>7 DEF T

\* Once the staff have spoken of audience or age, nothing is noted as juvenile.
LEMMA NothingMoreIsJuvenile ==
  ASSUME NEW t, NEW G, NEW X \in SUBSET Rows, IsTallyOf(t, X, G), NEW r \in Rows \ X,
         Spoken(X, "audience") \cup Spoken(X, "age") # {}
  PROVE  Added(t, r).generic = t.generic
<1> DEFINE u == Added(t, r)
<1>1. SpokenTold(t, X) /\ DOMAIN t = TallyFields /\ t.seen = PairsOf(X)
  BY DEF IsTallyOf, SpokenTold
<1>2. CASE Pair(r) \in PairsOf(X)
  BY <1>1, <1>2 DEF Added, Pair
<1>3. CASE Pair(r) \notin PairsOf(X)
  <2>1. Recorded(u, t, r) /\ IF Skips(t, r) THEN Unheard(u, t) ELSE IsHeard(u, t, r)
    BY <1>1, <1>3, AddingRows
  <2> HIDE DEF u
  <2>2. CASE Skips(t, r)
    BY <2>1, <2>2 DEF Unheard, u
  <2>3. CASE ~Skips(t, r)
    <3>1. Speaks(u, t, r) /\ JuvenileNoted(u, t, r)
      BY <2>1, <2>3 DEF IsHeard
    <3>2. "audience" \in t.staff \/ "age" \in t.staff
      BY <1>1 DEF SpokenTold
    <3>3. "audience" \in u.staff \/ "age" \in u.staff
      BY <3>1, <3>2 DEF Speaks
    <3> QED BY <3>1, <3>3 DEF JuvenileNoted, u
  <2> QED BY <2>2, <2>3
<1> QED BY <1>2, <1>3

StaffComeFirst(rows, n) ==
  \A i, j \in 1..n : i < j /\ rows[j].source = LibraryStaff => rows[i].source = LibraryStaff

LEMMA StaffAreNotJuvenile ==
  ASSUME NEW X \in SUBSET Rows, \A r \in X : r.source = LibraryStaff
  PROVE  Vague(X) = {}
<1>1. \A r \in X : r.kind \in StaffKinds
  BY ClassificationsTyped
<1> QED BY <1>1 DEF Vague, Counting, Generic, Juvenile, StaffKinds

LEMMA TalliesOfLists ==
  ASSUME NEW X \in SUBSET Rows, NEW rows, NEW N, IsListOf(rows, N, X)
  PROVE  LET t == Tallied(rows)[N]
         IN /\ IsTallyOf(t, X, X)
            /\ StaffComeFirst(rows, N) /\ Spoken(X, "audience") \cup Spoken(X, "age") # {} => t.generic = {}
<1> DEFINE T == Tallied(rows)
           Part(n) == {rows[i] : i \in 1..n}
           spoken == StaffComeFirst(rows, N) /\ Spoken(X, "audience") \cup Spoken(X, "age") # {}
           Good(n) == IsTallyOf(T[n], Part(n), X) /\ (spoken => T[n].generic = {})
           bad == {n \in 0..N : ~Good(n)}
<1>1. /\ N \in Nat /\ Len(rows) = N /\ \A i \in 1..N : rows[i] \in X
      /\ \A i, j \in 1..N : rows[i] = rows[j] => i = j
      /\ \A s \in X : \E i \in 1..N : rows[i] = s
  BY DEF IsListOf
<1>2. \A n \in 0..N : T[n] = IF n = 0 THEN EmptyTally ELSE Added(T[n - 1], rows[n])
  BY <1>1, TalliedSteps
<1> HIDE DEF T, Good
<1>3. Good(0)
  <2>1. T[0] = EmptyTally /\ Part(0) = {}
    BY <1>1, <1>2
  <2>2. EmptyTally.generic = {}
    BY DEF EmptyTally
  <2> QED BY <2>1, <2>2, NothingIsTallied DEF Good
<1>4. ASSUME NEW n \in 1..N, Good(n - 1) PROVE Good(n)
  <2> DEFINE r == rows[n]
             t == T[n - 1]
             Y == Part(n - 1)
  <2>1. n \in 0..N /\ n # 0 /\ n - 1 \in 0..N /\ \A i \in 1..(n - 1) : i \in 1..N /\ i # n
    BY <1>1
  <2>2. T[n] = Added(t, r)
    BY <1>2, <2>1
  <2>3. Y \in SUBSET X /\ r \in X \ Y /\ Y \in SUBSET Rows /\ r \in Rows \ Y
    BY <1>1, <2>1
  <2>4. Part(n) = Y \cup {r}
    <3>1. \A i : i \in 1..n <=> i \in 1..(n - 1) \/ i = n
      BY <1>1
    <3> QED BY <3>1
  <2>5. IsTallyOf(t, Y, X) /\ (spoken => t.generic = {})
    BY <1>4 DEF Good
  <2> HIDE DEF t, Y, r
  <2>6. IsTallyOf(T[n], Part(n), X)
    BY <2>2, <2>3, <2>4, <2>5, TallyGrows
  <2>7. ASSUME spoken PROVE T[n].generic = {}
    <3>1. PICK q \in Spoken(X, "audience") \cup Spoken(X, "age") : TRUE
      BY <2>7
    <3>2. q \in X /\ q.source = LibraryStaff
      BY <3>1 DEF Spoken, StaffSay
    <3>3. PICK k \in 1..N : rows[k] = q
      BY <1>1, <3>2
    <3>4. CASE k \in 1..(n - 1)
      <4>1. q \in Y
        BY <3>3, <3>4 DEF Y
      <4>2. Spoken(Y, "audience") \cup Spoken(Y, "age") # {}
        BY <3>1, <4>1 DEF Spoken
      <4> QED BY <2>2, <2>3, <2>5, <2>7, <4>2, NothingMoreIsJuvenile
    <3>5. CASE k \notin 1..(n - 1)
      <4>1. \A i \in 1..n : i \in 1..N /\ (i < k \/ i = k)
        BY <1>1, <3>5
      <4>2. \A i \in 1..n : rows[i].source = LibraryStaff
        BY <2>7, <3>2, <3>3, <4>1 DEF StaffComeFirst
      <4>3. Part(n) \in SUBSET Rows
        BY <1>1, <4>1
      <4>4. Vague(Part(n)) = {}
        BY <4>2, <4>3, StaffAreNotJuvenile
      <4> QED BY <2>6, <4>4 DEF IsTallyOf, JuvenileTold
    <3> QED BY <3>4, <3>5
  <2> QED BY <2>6, <2>7 DEF Good
<1>5. bad = {}
  <2> SUFFICES ASSUME bad # {} PROVE FALSE
    OBVIOUS
  <2>1. bad \in SUBSET Nat
    BY <1>1
  <2>2. PICK m \in bad : \A j \in bad : m <= j
    BY <2>1, LeastNumber
  <2>3. m \in 0..N /\ m # 0 /\ ~Good(m)
    BY <1>3
  <2>4. m \in 1..N /\ m - 1 \in 0..N /\ m - 1 \notin bad
    BY <1>1, <2>1, <2>2, <2>3
  <2> QED BY <1>4, <2>3, <2>4
<1>6. Good(N)
  BY <1>1, <1>5
<1>7. Part(N) = X
  BY <1>1
<1> QED BY <1>6, <1>7 DEF Good, T

\* The tally of StaffFirst.
FirstTally ==
  LET byStaff == {r \in given.rows : r.source = LibraryStaff}
      rows == SetToSeq(byStaff) \o SetToSeq(given.rows \ byStaff)
  IN Tallied(rows)[Len(rows)]

LEMMA FirstIsATally ==
  ASSUME given.rows \subseteq Rows
  PROVE  /\ IsTallyOf(FirstTally, given.rows, given.rows) /\ StaffFirst = PrepareToClassify(FirstTally, given.imprint)
         /\ Spoken(given.rows, "audience") \cup Spoken(given.rows, "age") # {} => FirstTally.generic = {}
<1> DEFINE S == {r \in given.rows : r.source = LibraryStaff}
           O == given.rows \ S
           m == Cardinality(S)
           n == Cardinality(O)
           rows == SetToSeq(S) \o SetToSeq(O)
<1>1. IsFiniteSet(S) /\ IsFiniteSet(O)
  <2>1. S \in SUBSET Rows /\ O \in SUBSET Rows /\ IsFiniteSet(Rows)
    BY ClassifierAssumption
  <2> QED BY <2>1, FS_Subset
<1>2. S \cap O = {} /\ S \cup O = given.rows
  OBVIOUS
<1>3. FirstTally = Tallied(rows)[Len(rows)] /\ StaffFirst = PrepareToClassify(FirstTally, given.imprint)
  BY DEF FirstTally, StaffFirst
<1>4. \A r \in given.rows : r \in S <=> r.source = LibraryStaff
  OBVIOUS
<1> HIDE DEF S, O
<1>5. IsListOf(SetToSeq(S), m, S) /\ IsListOf(SetToSeq(O), n, O)
  BY <1>1, SetsAreListed
<1> HIDE DEF m, n
<1>6. IsListOf(rows, m + n, given.rows) /\ StartsWith(rows, m + n, S)
  <2>1. IsListOf(rows, m + n, S \cup O) /\ StartsWith(rows, m + n, S)
    BY <1>2, <1>5, ListsAreJoined
  <2> QED BY <1>2, <2>1
<1> HIDE DEF rows
<1>7. Len(rows) = m + n /\ \A i \in 1..(m + n) : rows[i] \in given.rows
  BY <1>6 DEF IsListOf
<1>8. StaffComeFirst(rows, m + n)
  <2> DEFINE l == m + n
  <2>1. StartsWith(rows, l, S) /\ \A i \in 1..l : rows[i] \in given.rows
    BY <1>6, <1>7
  <2> HIDE DEF l
  <2>2. StaffComeFirst(rows, l)
    BY <1>4, <2>1 DEF StaffComeFirst, StartsWith
  <2> QED BY <2>2 DEF l
<1>9. FirstTally = Tallied(rows)[m + n]
  BY <1>3, <1>7
<1> DEFINE k == m + n
           X == given.rows
           t == Tallied(rows)[k]
<1>10. X \in SUBSET Rows /\ IsListOf(rows, k, X) /\ StaffComeFirst(rows, k)
  BY <1>6, <1>8
<1> HIDE DEF k
<1>11. IsTallyOf(t, X, X) /\ (StaffComeFirst(rows, k) /\ Spoken(X, "audience") \cup Spoken(X, "age") # {} => t.generic = {})
  BY <1>10, TalliesOfLists
<1>12. FirstTally = t
  BY <1>9 DEF k
<1> QED BY <1>3, <1>10, <1>11, <1>12

-----------------------------------------------------------------------------
(***************************************************************************)
(* What a tally comes to depends on some of its fields only.               *)
(***************************************************************************)
PreparedGenres(c, imprint) == IF imprint.genre = Unsaid THEN c ELSE Counted(c, imprint.genre, 1000)
PreparedFiction(c, imprint) ==
  [k \in DOMAIN c \cup ({imprint.fiction} \ {Unsaid}) |-> IF k = imprint.fiction /\ k # Unsaid THEN 1000 ELSE c[k]]
PreparedAudience(c, imprint) ==
  LET against == imprint.audience = "not adult"
      keys == IF against THEN AdultAudiences ELSE {imprint.audience} \ {Unsaid}
  IN [a \in DOMAIN c \cup keys |-> Count(c, a) + (IF a \notin keys THEN 0 ELSE IF against THEN -10000 ELSE 10000)]
SaidForAdults(t) ==
  /\ t.direct # {} /\ ~ByStaff(t, "audience")
  /\ t.direct \cap {"Children", "Young Adult", "Adults Only"} = {}
PreparedAge(t, c, age) ==
  IF t.specific \/ t.generic = {} THEN c
  ELSE LET r == CHOOSE r \in t.generic : TRUE IN Counted(c, age, r.weight * r.quality)

LEMMA MetadataWeighed ==
  ASSUME NEW t, DOMAIN t = TallyFields, NEW imprint
  PROVE  LET m == WeighMetadata(t, imprint)
         IN /\ DOMAIN m = TallyFields /\ m.staff = t.staff /\ m.lower = t.lower /\ m.upper = t.upper
            /\ m.genres = PreparedGenres(t.genres, imprint)
            /\ m.fiction = PreparedFiction(t.fiction, imprint)
            /\ m.audience = PreparedAudience(t.audience, imprint)
<1> DEFINE g == WeighGenre(t, imprint.genre, 1000)
           f == PreparedFiction(g.fiction, imprint)
           a == PreparedAudience(g.audience, imprint)
<1>1. /\ DOMAIN g = TallyFields /\ g.fiction = t.fiction /\ g.audience = t.audience
      /\ g.staff = t.staff /\ g.lower = t.lower /\ g.upper = t.upper
      /\ g.genres = PreparedGenres(t.genres, imprint)
  BY DEF WeighGenre, TallyFields, PreparedGenres
<1>2. WeighMetadata(t, imprint) = [g EXCEPT !.fiction = f, !.audience = a]
  BY DEF WeighMetadata, PreparedFiction, PreparedAudience
<1>3. f = PreparedFiction(t.fiction, imprint) /\ a = PreparedAudience(t.audience, imprint)
  BY <1>1
<1> HIDE DEF g, f, a
<1> QED BY <1>1, <1>2, <1>3 DEF TallyFields

LEMMA Prepared ==
  ASSUME NEW t, DOMAIN t = TallyFields, NEW imprint
  PROVE  LET P == PrepareToClassify(t, imprint)
             c == PreparedAudience(t.audience, imprint)
         IN /\ P.genres = PreparedGenres(t.genres, imprint)
            /\ P.fiction = PreparedFiction(t.fiction, imprint)
            /\ P.audience = IF SaidForAdults(t) THEN Counted(c, "Adult", 50000) ELSE c
            /\ P.lower = PreparedAge(t, t.lower, 9) /\ P.upper = PreparedAge(t, t.upper, 12)
<1> DEFINE m == WeighMetadata(t, imprint)
           a == IF SaidForAdults(t) THEN Counted(m.audience, "Adult", 50000) ELSE m.audience
           l == PreparedAge(t, m.lower, 9)
           u == PreparedAge(t, m.upper, 12)
<1>1. /\ DOMAIN m = TallyFields /\ m.staff = t.staff /\ m.lower = t.lower /\ m.upper = t.upper
      /\ m.genres = PreparedGenres(t.genres, imprint)
      /\ m.fiction = PreparedFiction(t.fiction, imprint)
      /\ m.audience = PreparedAudience(t.audience, imprint)
  BY MetadataWeighed
<1>2. PrepareToClassify(t, imprint) = [m EXCEPT !.audience = a, !.lower = l, !.upper = u]
  BY DEF PrepareToClassify, SaidForAdults, PreparedAge
<1>3. /\ a = IF SaidForAdults(t) THEN Counted(PreparedAudience(t.audience, imprint), "Adult", 50000)
             ELSE PreparedAudience(t.audience, imprint)
      /\ l = PreparedAge(t, t.lower, 9) /\ u = PreparedAge(t, t.upper, 12)
  BY <1>1
<1> HIDE DEF m, a, l, u
<1>4. LET P == PrepareToClassify(t, imprint)
      IN P.genres = m.genres /\ P.fiction = m.fiction /\ P.audience = a /\ P.lower = l /\ P.upper = u
  BY <1>1, <1>2 DEF TallyFields
<1> QED BY <1>1, <1>3, <1>4

\* Two tallies of the same rows that no genre of the staff has put aside.
LEMMA GenresAgree ==
  ASSUME NEW X, WeighedOnce(X), NEW t, IsTallyOf(t, X, X), NEW s, IsTallyOf(s, X, X), NEW imprint
  PROVE  PrepareToClassify(t, imprint).genres = PrepareToClassify(s, imprint).genres
<1>1. DOMAIN t = TallyFields /\ DOMAIN s = TallyFields /\ t.genres = s.genres
  BY DEF IsTallyOf, SpokenTold, GenresTold
<1> QED BY <1>1, Prepared

LEMMA FictionAgrees ==
  ASSUME NEW X, WeighedOnce(X), NEW t, IsTallyOf(t, X, X), NEW s, IsTallyOf(s, X, X), Clean(X), NEW imprint
  PROVE  Fiction(PrepareToClassify(t, imprint)) = Fiction(PrepareToClassify(s, imprint))
<1>1. DOMAIN t = TallyFields /\ DOMAIN s = TallyFields /\ FictionTold(t, X, X) /\ FictionTold(s, X, X)
  BY DEF IsTallyOf, SpokenTold
<1>2. t.fiction = s.fiction
  <2>1. CASE Spoken(X, "fiction") = {}
    BY <1>1, <2>1 DEF FictionTold
  <2>2. CASE Spoken(X, "fiction") # {}
    BY <1>1, <2>2 DEF FictionTold, SaidFiction
  <2> QED BY <2>1, <2>2
<1>3. PrepareToClassify(t, imprint).fiction = PrepareToClassify(s, imprint).fiction
  BY <1>1, <1>2, Prepared
<1> QED BY <1>3 DEF Fiction

LEMMA AudiencesAgree ==
  ASSUME NEW X, WeighedOnce(X), NEW t, IsTallyOf(t, X, X), NEW s, IsTallyOf(s, X, X), Clean(X), NEW imprint, NEW genres
  PROVE  Audience(PrepareToClassify(t, imprint), genres) = Audience(PrepareToClassify(s, imprint), genres)
<1>1. DOMAIN t = TallyFields /\ DOMAIN s = TallyFields /\ AudienceTold(t, X, X) /\ AudienceTold(s, X, X)
  BY DEF IsTallyOf, SpokenTold
<1>2. t.audience = s.audience
  <2>1. CASE Spoken(X, "audience") = {}
    BY <1>1, <2>1 DEF AudienceTold
  <2>2. CASE Spoken(X, "audience") # {}
    BY <1>1, <2>2 DEF AudienceTold, SaidAudience
  <2> QED BY <2>1, <2>2
<1>3. t.direct = s.direct /\ (ByStaff(t, "audience") <=> ByStaff(s, "audience"))
  BY DEF IsTallyOf, SpokenTold, ByStaff
<1>4. SaidForAdults(t) <=> SaidForAdults(s)
  BY <1>3, Zenon DEF SaidForAdults
<1>5. PrepareToClassify(t, imprint).audience = PrepareToClassify(s, imprint).audience
  BY <1>1, <1>2, <1>4, Prepared
<1> DEFINE P == PrepareToClassify(t, imprint)
           Q == PrepareToClassify(s, imprint)
<1> HIDE DEF P, Q
<1>6. P.audience = Q.audience
  BY <1>5 DEF P, Q
<1>7. Audience(P, genres) = Audience(Q, genres)
  BY <1>6, Zenon DEF Audience
<1> QED BY <1>7 DEF P, Q

\* What others call juvenile is noted alike, or not at all.
NotedAlike(X, t, s) ==
  \/ t.generic = {} /\ s.generic = {}
  \/ /\ Spoken(X, "audience") \cup Spoken(X, "age") = {}
     /\ \A q, r \in Vague(X) : q.weight * q.quality = r.weight * r.quality

LEMMA AgesAgree ==
  ASSUME NEW X, WeighedOnce(X), NEW t, IsTallyOf(t, X, X), NEW s, IsTallyOf(s, X, X), Clean(X), NotedAlike(X, t, s), NEW imprint, NEW audience
  PROVE  TargetAge(PrepareToClassify(t, imprint), audience) = TargetAge(PrepareToClassify(s, imprint), audience)
<1>1. DOMAIN t = TallyFields /\ DOMAIN s = TallyFields /\ AgeTold(t, X, X) /\ AgeTold(s, X, X) /\ JuvenileTold(t, X) /\ JuvenileTold(s, X)
  BY DEF IsTallyOf, SpokenTold
<1>2. t.lower = s.lower /\ t.upper = s.upper
  <2>1. CASE Spoken(X, "age") = {}
    BY <1>1, <2>1 DEF AgeTold
  <2>2. CASE Spoken(X, "age") # {}
    BY <1>1, <2>2 DEF AgeTold, SaidAge
  <2> QED BY <2>1, <2>2
<1>3. \A c, age : PreparedAge(t, c, age) = PreparedAge(s, c, age)
  <2> TAKE c, age
  <2>1. CASE t.generic = {} /\ s.generic = {}
    BY <2>1 DEF PreparedAge
  <2>2. CASE /\ Spoken(X, "audience") \cup Spoken(X, "age") = {}
             /\ \A q, r \in Vague(X) : q.weight * q.quality = r.weight * r.quality
    <3> DEFINE q == CHOOSE q \in t.generic : TRUE
               r == CHOOSE r \in s.generic : TRUE
    <3>1. (t.specific <=> s.specific) /\ (t.generic = {} <=> s.generic = {}) /\ t.generic \subseteq Vague(X) /\ s.generic \subseteq Vague(X)
      <4>1. (t.specific <=> Precise(X) # {}) /\ (t.generic = {} => Vague(X) = {}) /\ t.generic \subseteq Vague(X)
        BY <1>1, <2>2 DEF JuvenileTold
      <4>2. (s.specific <=> Precise(X) # {}) /\ (s.generic = {} => Vague(X) = {}) /\ s.generic \subseteq Vague(X)
        BY <1>1, <2>2 DEF JuvenileTold
      <4> QED BY <4>1, <4>2
    <3>2. /\ PreparedAge(t, c, age) = IF t.specific \/ t.generic = {} THEN c ELSE Counted(c, age, q.weight * q.quality)
          /\ PreparedAge(s, c, age) = IF s.specific \/ s.generic = {} THEN c ELSE Counted(c, age, r.weight * r.quality)
      BY Zenon DEF PreparedAge
    <3>3. t.generic # {} /\ s.generic # {} => q \in Vague(X) /\ r \in Vague(X)
      BY <3>1
    <3> HIDE DEF q, r
    <3>4. t.generic # {} /\ s.generic # {} => q.weight * q.quality = r.weight * r.quality
      BY <2>2, <3>3
    <3> QED BY <3>1, <3>2, <3>4
  <2> QED BY <2>1, <2>2 DEF NotedAlike
<1> DEFINE P == PrepareToClassify(t, imprint)
           Q == PrepareToClassify(s, imprint)
<1>4. P.lower = Q.lower /\ P.upper = Q.upper
  BY <1>1, <1>2, <1>3, Prepared
<1> HIDE DEF P, Q
<1>5. TargetAge(P, audience) = TargetAge(Q, audience)
  BY <1>4, Zenon DEF TargetAge
<1> QED BY <1>5 DEF P, Q

-----------------------------------------------------------------------------
(***************************************************************************)
(* The verdict.                                                            *)
(***************************************************************************)
LEMMA GenresAreOfTheTally ==
  ASSUME NEW P, NEW fiction
  PROVE  Genres(P, fiction) \subseteq DOMAIN P.genres
<1> DEFINE w == [g \in Consistent(P, fiction) |-> P.genres[g]]
           c == Consolidated(w, P.order)
<1>1. DOMAIN w \subseteq DOMAIN P.genres
  BY DEF Consistent
<1> HIDE DEF w
<1>2. DOMAIN c \subseteq DOMAIN w
  BY DEF Consolidated
<1> HIDE DEF c
<1>3. Stripped(c, P.order) \subseteq DOMAIN c
  BY DEF Stripped
<1>4. Genres(P, fiction) = Stripped(c, P.order)
  BY DEF Genres, w, c
<1> QED BY <1>1, <1>2, <1>3, <1>4

ClassifierInv ==
  /\ given.rows \subseteq Rows /\ pending \subseteq given.rows
  /\ IsTallyOf(tally, given.rows \ pending, given.rows)
  /\ verdict # {} => pending = {} /\ verdict = {Classified(PrepareToClassify(tally, given.imprint))}

Verdict(v) ==
  LET P == PrepareToClassify(tally, given.imprint)
  IN /\ v.fiction = Fiction(P) /\ v.genres = Genres(P, v.fiction) /\ v.audience = Audience(P, v.genres)
     /\ v.age = TargetAge(P, v.audience)

LEMMA Verdicts ==
  ASSUME ClassifierInv, NEW v \in verdict
  PROVE  Verdict(v) /\ given.rows \subseteq Rows /\ IsTallyOf(tally, given.rows, given.rows)
<1>1. pending = {} /\ v = Classified(PrepareToClassify(tally, given.imprint))
  BY DEF ClassifierInv
<1>2. IsTallyOf(tally, given.rows, given.rows) /\ given.rows \subseteq Rows
  <2>1. given.rows \ pending = given.rows
    BY <1>1
  <2> QED BY <2>1 DEF ClassifierInv
<1>3. Verdict(v)
  BY <1>1 DEF Verdict, Classified
<1> QED BY <1>2, <1>3

LEMMA SaidIsSpoken ==
  ASSUME NEW kind
  PROVE  Said(kind) = Spoken(given.rows, kind)
BY DEF Said, Spoken, StaffSay

LEMMA InvImpliesStaffAreHeard ==
  ASSUME ClassifierInv
  PROVE  StaffAreHeard
<1> DEFINE X == given.rows
           P == PrepareToClassify(tally, given.imprint)
<1> SUFFICES ASSUME NEW v \in verdict
             PROVE  /\ given.imprint.fiction = Unsaid => \A r \in Said("fiction") : v.fiction = r.fiction
                    /\ given.imprint.audience = Unsaid /\ "Erotica" \notin v.genres
                       => \A r \in Said("audience") : v.audience = r.audience
                    /\ tally.generic = {} /\ v.audience \in {"Children", "Young Adult"}
                       => \A r \in Said("age") : v.age = r.age
  BY Zenon DEF StaffAreHeard
<1>1. Verdict(v) /\ X \subseteq Rows /\ IsTallyOf(tally, X, X)
  BY Verdicts
<1>2. v.fiction = Fiction(P) /\ v.audience = Audience(P, v.genres) /\ v.age = TargetAge(P, v.audience)
  BY <1>1 DEF Verdict
<1>3. /\ DOMAIN tally = TallyFields
      /\ \A kind : \A r \in Said(kind) : r \in Rows /\ StaffSay(r, kind)
      /\ Said("audience") # {} => "audience" \in tally.staff
      /\ \A r \in Said("fiction") : SaidFiction(tally, r)
      /\ \A r \in Said("audience") : SaidAudience(tally, r)
      /\ \A r \in Said("age") : SaidAge(tally, r)
  <2>1. \A kind : \A r \in Said(kind) : r \in Rows /\ StaffSay(r, kind)
    BY <1>1 DEF Said, StaffSay
  <2>2. SpokenTold(tally, X) /\ FictionTold(tally, X, X) /\ AudienceTold(tally, X, X) /\ AgeTold(tally, X, X)
    BY <1>1 DEF IsTallyOf
  <2>3. Said("fiction") = Spoken(X, "fiction") /\ Said("audience") = Spoken(X, "audience") /\ Said("age") = Spoken(X, "age")
    BY SaidIsSpoken
  <2> QED BY <2>1, <2>2, <2>3 DEF SpokenTold, FictionTold, AudienceTold, AgeTold
<1> HIDE DEF P
<1>4. given.imprint.fiction = Unsaid => \A r \in Said("fiction") : v.fiction = r.fiction
  BY <1>2, <1>3, FictionIsHeard DEF StaffSay, P
<1>5. given.imprint.audience = Unsaid /\ "Erotica" \notin v.genres => \A r \in Said("audience") : v.audience = r.audience
  <2> SUFFICES ASSUME given.imprint.audience = Unsaid, "Erotica" \notin v.genres, NEW r \in Said("audience")
               PROVE  v.audience = r.audience
    OBVIOUS
  <2>1. "audience" \in tally.staff
    BY <1>3
  <2>2. Audience(P, v.genres) = r.audience
    BY <1>3, <2>1, AudienceIsHeard DEF StaffSay, P
  <2> QED BY <1>2, <2>2
<1>6. tally.generic = {} /\ v.audience \in {"Children", "Young Adult"} => \A r \in Said("age") : v.age = r.age
  <2> DEFINE audience == v.audience
  <2>1. v.age = TargetAge(P, audience)
    BY <1>2
  <2> HIDE DEF audience
  <2>2. tally.generic = {} /\ audience \in {"Children", "Young Adult"} => \A r \in Said("age") : TargetAge(P, audience) = r.age
    BY <1>3, AgeIsHeard DEF P
  <2> QED BY <2>1, <2>2 DEF audience
<1> QED BY <1>4, <1>5, <1>6

LEMMA NothingNamed ==
  ASSUME NEW X \in SUBSET Rows,
         (\A r \in X : ~StaffSay(r, "genre") /\ ~StaffSay(r, "none")) \/ (\A r \in X : r.source = LibraryStaff \/ r.genre = Unsaid)
  PROVE  Clean(X)
<1> SUFFICES ASSUME \A r \in X : ~StaffSay(r, "genre") /\ ~StaffSay(r, "none"), NEW r \in Named(X) PROVE FALSE
  BY DEF Clean
<1>1. r \in X /\ r.source = LibraryStaff /\ (r.genre # Unsaid \/ r.kind = "none")
  BY DEF Named, Counting, Names
<1>2. r.kind \in StaffKinds /\ (r.kind \in {"audience", "fiction", "age", "none"} => r.genre = Unsaid)
  BY <1>1, ClassificationsTyped
<1> QED BY <1>1, <1>2 DEF StaffSay, StaffKinds

LEMMA StaffNameAll ==
  ASSUME NEW X \in SUBSET Rows, NEW G, NEW t, IsTallyOf(t, X, G), Spoken(X, "none") # {}
  PROVE  DOMAIN t.genres \subseteq {r.genre : r \in Spoken(X, "genre")}
<1>1. PICK n \in X : StaffSay(n, "none")
  BY DEF Spoken
<1>2. n \in Named(X)
  <2>1. n.genre = Unsaid /\ ~n.format
    BY <1>1, ClassificationsTyped DEF StaffSay
  <2> QED BY <1>1, <2>1 DEF Named, Counting, Ignored, Names, StaffSay
<1>3. DOMAIN t.genres \subseteq {r.genre : r \in {s \in Named(X) : s.genre # Unsaid}}
  BY <1>2 DEF IsTallyOf, GenresTold, GenreRows
<1>4. \A r \in Named(X) : r.genre # Unsaid => r \in Spoken(X, "genre")
  <2> SUFFICES ASSUME NEW r \in Named(X), r.genre # Unsaid PROVE r \in Spoken(X, "genre")
    OBVIOUS
  <2>1. r \in X /\ r.source = LibraryStaff
    BY DEF Named, Counting, Names
  <2>2. r.kind \in StaffKinds /\ (r.kind \in {"audience", "fiction", "age", "none"} => r.genre = Unsaid)
    BY <2>1, ClassificationsTyped
  <2> QED BY <2>1, <2>2 DEF Spoken, StaffSay, StaffKinds
<1> QED BY <1>3, <1>4

LEMMA InvImpliesTheLastWord ==
  ASSUME ClassifierInv
  PROVE  StaffHaveTheLastWord
<1> DEFINE X == given.rows
           i == given.imprint
           P == PrepareToClassify(tally, i)
           juvenileNoted ==
             /\ tally.generic # {}
             /\ \/ Said("audience") \cup Said("age") # {}
                \/ \E r, s \in X : Generic(r) /\ Generic(s) /\ r.weight * r.quality # s.weight * s.quality
           weighedTwice == \E r, s \in X : r.subject = s.subject /\ r.source = s.source /\ r.weight # s.weight
           genreIgnored == Said("genre") \cup Said("none") # {}
                           /\ \E r \in X : r.source # LibraryStaff /\ r.genre # Unsaid
<1>1. ASSUME NEW v \in verdict
      PROVE  /\ weighedTwice \/ P.genres = StaffFirst.genres
             /\ weighedTwice \/ genreIgnored \/ v.fiction = Fiction(StaffFirst)
             /\ weighedTwice \/ genreIgnored \/ v.audience = Audience(StaffFirst, v.genres)
             /\ weighedTwice \/ genreIgnored \/ juvenileNoted \/ v.age = TargetAge(StaffFirst, v.audience)
             /\ i.genre = Unsaid /\ Said("none") # {} => v.genres \subseteq {r.genre : r \in Said("genre")}
  <2>1. Verdict(v) /\ X \subseteq Rows /\ X \in SUBSET Rows /\ IsTallyOf(tally, X, X)
    BY <1>1, Verdicts
  <2>2. v.fiction = Fiction(P) /\ v.genres = Genres(P, v.fiction) /\ v.audience = Audience(P, v.genres) /\ v.age = TargetAge(P, v.audience)
    BY <2>1 DEF Verdict
  <2> DEFINE f == FirstTally
             Q == PrepareToClassify(f, i)
  <2>3. /\ IsTallyOf(f, X, X) /\ StaffFirst = Q
        /\ Spoken(X, "audience") \cup Spoken(X, "age") # {} => f.generic = {}
    BY <2>1, FirstIsATally
  <2> HIDE DEF f
  <2>4. ~weighedTwice => WeighedOnce(X) /\ P.genres = Q.genres
    <3> SUFFICES ASSUME ~weighedTwice PROVE WeighedOnce(X) /\ P.genres = Q.genres
      OBVIOUS
    <3>1. WeighedOnce(X)
      BY DEF WeighedOnce, Pair
    <3> QED BY <2>1, <2>3, <3>1, GenresAgree
  <2>5. ~genreIgnored => Clean(X)
    <3> SUFFICES ASSUME ~genreIgnored PROVE Clean(X)
      OBVIOUS
    <3>1. \/ \A r \in X : ~StaffSay(r, "genre") /\ ~StaffSay(r, "none")
          \/ \A r \in X : r.source = LibraryStaff \/ r.genre = Unsaid
      BY DEF Said, StaffSay
    <3> QED BY <2>1, <3>1, NothingNamed
  <2>6. WeighedOnce(X) /\ Clean(X) => Fiction(P) = Fiction(Q)
    BY <2>1, <2>3, FictionAgrees
  <2>7. WeighedOnce(X) /\ Clean(X) => Audience(P, v.genres) = Audience(Q, v.genres)
    BY <2>1, <2>3, AudiencesAgree
  <2>8. Clean(X) /\ ~juvenileNoted => NotedAlike(X, tally, f)
    <3> SUFFICES ASSUME Clean(X), ~juvenileNoted PROVE NotedAlike(X, tally, f)
      OBVIOUS
    <3>1. Said("audience") = Spoken(X, "audience") /\ Said("age") = Spoken(X, "age")
      BY SaidIsSpoken
    <3>2. JuvenileTold(tally, X) /\ JuvenileTold(f, X)
      BY <2>1, <2>3 DEF IsTallyOf
    <3>3. CASE tally.generic = {} /\ Spoken(X, "audience") \cup Spoken(X, "age") # {}
      BY <2>3, <3>3 DEF NotedAlike
    <3>4. CASE tally.generic = {} /\ Spoken(X, "audience") \cup Spoken(X, "age") = {}
      BY <3>2, <3>4 DEF NotedAlike, JuvenileTold
    <3>5. CASE tally.generic # {}
      <4>1. Spoken(X, "audience") \cup Spoken(X, "age") = {}
        BY <3>1, <3>5
      <4>2. \A r, s \in X : Generic(r) /\ Generic(s) => r.weight * r.quality = s.weight * s.quality
        BY <3>5
      <4>3. \A r \in Vague(X) : r \in X /\ Generic(r)
        BY DEF Vague, Counting
      <4>4. \A r, s \in Vague(X) : r.weight * r.quality = s.weight * s.quality
        BY <4>2, <4>3
      <4> QED BY <4>1, <4>4 DEF NotedAlike
    <3> QED BY <3>3, <3>4, <3>5
  <2>9. WeighedOnce(X) /\ Clean(X) /\ ~juvenileNoted => TargetAge(P, v.audience) = TargetAge(Q, v.audience)
    BY <2>1, <2>3, <2>8, AgesAgree
  <2>10. ASSUME i.genre = Unsaid, Said("none") # {} PROVE v.genres \subseteq {r.genre : r \in Said("genre")}
    <3>1. Said("none") = Spoken(X, "none") /\ Said("genre") = Spoken(X, "genre")
      BY SaidIsSpoken
    <3>2. DOMAIN tally = TallyFields
      BY <2>1 DEF IsTallyOf, SpokenTold
    <3>3. P.genres = tally.genres
      BY <2>10, <3>2, Prepared DEF PreparedGenres
    <3>4. v.genres \subseteq DOMAIN tally.genres
      BY <2>2, <3>3, GenresAreOfTheTally
    <3>5. DOMAIN tally.genres \subseteq {r.genre : r \in Spoken(X, "genre")}
      BY <2>1, <2>10, <3>1, StaffNameAll
    <3> QED BY <3>1, <3>4, <3>5
  <2> HIDE DEF P, Q, weighedTwice, genreIgnored, juvenileNoted
  <2> QED BY <2>2, <2>3, <2>4, <2>5, <2>6, <2>7, <2>9, <2>10
<1>2. StaffAreHeard
  BY InvImpliesStaffAreHeard
<1> QED BY <1>1, <1>2, Zenon DEF StaffHaveTheLastWord

-----------------------------------------------------------------------------
LEMMA AddKeepsClassifierInv ==
  ASSUME ClassifierInv, NEW r \in Rows, Add(r)
  PROVE  ClassifierInv'
<1> DEFINE G == given.rows
           X == G \ pending
<1>1. /\ r \in given.rows /\ r \in pending /\ pending' = pending \ {r} /\ tally' = Added(tally, r)
      /\ given' = given /\ verdict' = verdict /\ verdict = {}
  BY DEF ClassifierInv, Add
<1>2. X \in SUBSET G /\ G \in SUBSET Rows /\ r \in G \ X /\ given'.rows = G /\ given'.rows \ pending' = X \cup {r} /\ IsTallyOf(tally, X, G)
  BY <1>1 DEF ClassifierInv
<1> HIDE DEF X, G
<1>3. IsTallyOf(tally', given'.rows \ pending', given'.rows)
  BY <1>1, <1>2, TallyGrows
<1>4. given'.rows \subseteq Rows /\ pending' \subseteq given'.rows
  BY <1>1 DEF ClassifierInv
<1> QED BY <1>1, <1>3, <1>4 DEF ClassifierInv

LEMMA ClassifierInvariant == ClassifierSpec => []ClassifierInv
<1>1. ClassifierInit => ClassifierInv
  <2> SUFFICES ASSUME ClassifierInit PROVE ClassifierInv
    OBVIOUS
  <2>1. given.rows \subseteq Rows /\ pending = given.rows /\ verdict = {} /\ tally = EmptyTally
    BY DEF ClassifierInit, kSubset
  <2>2. given.rows \ pending = {}
    BY <2>1
  <2> QED BY <2>1, <2>2, NothingIsTallied DEF ClassifierInv
<1>2. ClassifierInv /\ [ClassifierNext]_classifierVars => ClassifierInv'
  <2> SUFFICES ASSUME ClassifierInv, [ClassifierNext]_classifierVars PROVE ClassifierInv'
    OBVIOUS
  <2>1. CASE UNCHANGED classifierVars
    BY <2>1 DEF ClassifierInv, classifierVars
  <2>2. CASE Classify
    <3>1. /\ pending = {} /\ given' = given /\ pending' = pending /\ tally' = tally
          /\ verdict' = {Classified(PrepareToClassify(tally, given.imprint))}
      BY <2>2 DEF Classify
    <3> QED BY <3>1 DEF ClassifierInv
  <2> QED BY <2>1, <2>2, AddKeepsClassifierInv DEF ClassifierNext
<1> QED BY <1>1, <1>2, PTL DEF ClassifierSpec

(***************************************************************************)
(* What the staff say is the verdict, in whatever order the rows come and  *)
(* whatever the others say.                                                *)
(***************************************************************************)
THEOREM StaffKeepTheirWord == ClassifierSpec => []StaffAreHeard
<1>1. ClassifierInv => StaffAreHeard
  BY InvImpliesStaffAreHeard
<1> QED BY <1>1, ClassifierInvariant, PTL

(***************************************************************************)
(* In whatever order the rows come, the verdict is the one of the staff's  *)
(* rows first, but for what depends on the order, and only that.           *)
(***************************************************************************)
THEOREM TheOrderDoesNotMatter == ClassifierSpec => []StaffHaveTheLastWord
<1>1. ClassifierInv => StaffHaveTheLastWord
  BY InvImpliesTheLastWord
<1> QED BY <1>1, ClassifierInvariant, PTL
=============================================================================
