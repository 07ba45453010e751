------------------------------- MODULE Reapers -------------------------------
(***************************************************************************)
(* monitor.py's CollectionReaper, with Collection.delete, and WorkReaper,  *)
(* with Work.delete: what happens to the license pools, the works and the  *)
(* search documents of a collection that is marked for deletion.  The      *)
(* database's part of each step is undone when the process dies before the *)
(* next commit; the search index's part is not.  Meanwhile the search      *)
(* index's coverage provider uploads documents it made earlier.            *)
(***************************************************************************)
EXTENDS FiniteSets, Integers

CONSTANTS
  Pools,       \* the license pools there are at first, each with its collection
  Titles,      \* the works they lead to
  MaxReaperDeaths  \* bound: times a reaper dies

Pool == [name: Nat, collection: Nat, work: Titles]
Shelves == {p.collection : p \in Pools}   \* the collections

ASSUME ReapersAssumption == Pools \subseteq Pool /\ IsFiniteSet(Pools) /\ MaxReaperDeaths \in Nat

VARIABLES
  collections, \* the collections table
  marked,      \* those marked_for_deletion
  pools,       \* the licensepools table
  works,       \* the works table
  documents,   \* the works with a document in the search index
  reaping,     \* the collection CollectionReaper is deleting, or 0
  doomedPools, \* what its transaction has deleted and not committed
  doomedWorks,
  uploading,   \* the works whose documents the coverage provider has made
  overtaken,   \* history: those of them that were deleted since
  reaperDeaths

tables == <<collections, marked, pools, works>>
reaper == <<reaping, doomedPools, doomedWorks, reaperDeaths>>
reapersVars == <<tables, documents, reaper, uploading, overtaken>>

ReapersInit ==
  /\ collections = Shelves /\ marked = {}
  /\ pools = Pools /\ works = {p.work : p \in Pools} /\ documents = works
  /\ reaping = 0 /\ doomedPools = {} /\ doomedWorks = {}
  /\ uploading = {} /\ overtaken = {}
  /\ reaperDeaths = 0

PoolsOf(w)   == {p \in pools \ doomedPools : p.work = w}
PoolsIn(c)   == {p \in pools \ doomedPools : p.collection = c}

MarkForDeletion(c) ==
  /\ c \in collections \ marked
  /\ marked' = marked \cup {c}
  /\ UNCHANGED <<collections, pools, works, documents, reaper, uploading, overtaken>>

\* CollectionReaper.run_once comes to a collection.
ReapCollection(c) ==
  /\ reaping = 0 /\ doomedWorks = {}
  /\ c \in collections \cap marked
  /\ reaping' = c
  /\ UNCHANGED <<tables, documents, doomedPools, doomedWorks, reaperDeaths, uploading, overtaken>>

\* A transaction that deletes works is committed: their documents may be on the way.
DeleteWorks(ws) ==
  /\ works' = works \ ws
  /\ overtaken' = overtaken \cup (ws \cap uploading)

\* Mutant of Orphaned: a work goes with the first of its pools.
OrphanedAtOnce(p) == TRUE

\* Is a pool's work left without license pools?
Orphaned(p) == PoolsOf(p.work) \subseteq {p}

\* Collection.delete takes the next pool.  Every hundredth time it commits, after
\* it has deleted the pool and before it looks at the work (here: at any time).
\* Without a commit the session may still remember the pools of the work that it
\* has deleted itself, this one among them: then the work stays for WorkReaper.
DeletePool(p) ==
  /\ reaping # 0
  /\ p \in PoolsIn(reaping)
  /\ \E commits, sees \in BOOLEAN :
       LET goes == Orphaned(p) /\ (commits \/ sees) IN
       /\ IF commits
          THEN /\ pools' = pools \ (doomedPools \cup {p}) /\ DeleteWorks(doomedWorks)
               /\ doomedPools' = {} /\ doomedWorks' = {w \in {p.work} : goes}
          ELSE /\ doomedPools' = doomedPools \cup {p}
               /\ doomedWorks' = doomedWorks \cup {w \in {p.work} : goes}
               /\ UNCHANGED <<pools, works, overtaken>>
       /\ documents' = documents \ {w \in {p.work} : goes}
  /\ UNCHANGED <<collections, marked, reaping, reaperDeaths, uploading>>

\* The collection itself goes last, with all that is left to commit.
DeleteCollection ==
  /\ reaping # 0
  /\ PoolsIn(reaping) = {}
  /\ pools' = pools \ doomedPools /\ DeleteWorks(doomedWorks)
  /\ collections' = collections \ {reaping}
  /\ reaping' = 0 /\ doomedPools' = {} /\ doomedWorks' = {}
  /\ UNCHANGED <<marked, documents, reaperDeaths, uploading>>

\* Mutant of ReapWork: it looks for works among those that can be found.
ReapWorkIfIndexed(w) ==
  /\ reaping = 0
  /\ w \in (works \ doomedWorks) \cap documents
  /\ \A p \in pools : p.work # w
  /\ documents' = documents \ {w}
  /\ doomedWorks' = doomedWorks \cup {w}
  /\ UNCHANGED <<tables, reaping, doomedPools, reaperDeaths, uploading, overtaken>>

\* Mutant of ReapWork: the work goes and its document stays.
ReapWorkAlone(w) ==
  /\ reaping = 0
  /\ w \in works \ doomedWorks
  /\ \A p \in pools : p.work # w
  /\ doomedWorks' = doomedWorks \cup {w}
  /\ UNCHANGED <<tables, documents, reaping, doomedPools, reaperDeaths, uploading, overtaken>>

\* WorkReaper.delete: a work without pools goes, from the index at once.
ReapWork(w) ==
  /\ reaping = 0
  /\ w \in works \ doomedWorks
  /\ \A p \in pools : p.work # w
  /\ documents' = documents \ {w}
  /\ doomedWorks' = doomedWorks \cup {w}
  /\ UNCHANGED <<tables, reaping, doomedPools, reaperDeaths, uploading, overtaken>>

\* The end of a batch of ReaperMonitor.run_once.
CommitBatch ==
  /\ reaping = 0 /\ doomedWorks # {}
  /\ DeleteWorks(doomedWorks)
  /\ doomedWorks' = {}
  /\ UNCHANGED <<collections, marked, pools, documents, reaping, doomedPools, reaperDeaths, uploading>>

\* The script dies, and the database forgets what was not committed.
ReaperDies ==
  /\ reaping # 0 \/ doomedWorks # {}
  /\ reaperDeaths < MaxReaperDeaths
  /\ reaperDeaths' = reaperDeaths + 1
  /\ reaping' = 0 /\ doomedPools' = {} /\ doomedWorks' = {}
  /\ UNCHANGED <<tables, documents, uploading, overtaken>>

\* SearchIndexCoverageProvider: a batch of works is read, and uploaded later.
MakeDocuments ==
  /\ uploading = {}
  /\ \E ws \in SUBSET works : ws # {} /\ uploading' = ws
  /\ UNCHANGED <<tables, documents, reaper, overtaken>>

UploadDocuments ==
  /\ uploading # {}
  /\ documents' = documents \cup uploading
  /\ uploading' = {}
  /\ overtaken' = overtaken \cup (uploading \cap doomedWorks)
  /\ UNCHANGED <<tables, reaper>>

CollectionReaper ==
  (\E c \in Shelves : ReapCollection(c)) \/ (\E p \in Pools : DeletePool(p)) \/ DeleteCollection
WorkReaper == (\E w \in Titles : ReapWork(w)) \/ CommitBatch

ReapersNext ==
  \/ \E c \in Shelves : MarkForDeletion(c)
  \/ CollectionReaper \/ WorkReaper \/ ReaperDies
  \/ MakeDocuments \/ UploadDocuments

\* The reapers are run again and again.
ReapersFairness == WF_reapersVars(CollectionReaper) /\ WF_reapersVars(WorkReaper)

ReapersSpec == ReapersInit /\ [][ReapersNext]_reapersVars /\ ReapersFairness

-----------------------------------------------------------------------------
\* Deletion "can be confined to the background and survive interruption": in the
\* end a marked collection is gone, and so is every work that was licensed through
\* marked collections only, wherever a reaper died, whichever works it had already
\* removed from the index, and although the session may not notice that it has
\* just deleted a work's last pool.
MarkedCollectionsGo(w) ==
  (\A p \in Pools : p.work = w => p.collection \in marked)
  ~> (w \notin works /\ \A p \in Pools : p.work = w => p.collection \notin collections)

\* The index follows what is deleted.  A search document outlives its work only
\* when the coverage provider had made the document before the work's deletion
\* was committed: whatever deletes a work has removed its document first.
\* (Nothing removes such a document.)  And a work that is licensed through a
\* collection that stays never loses its document to the deletion of another one.
DocumentsFollowWorks ==
  /\ documents \subseteq works \cup overtaken
  /\ \A p \in pools : p.collection \notin marked => p.work \in documents

\* Collection.delete and the reapers: both, over many commits and any deaths.
ReapersClearUp == []DocumentsFollowWorks /\ \A w \in Titles : MarkedCollectionsGo(w)
=============================================================================
