# Library Simplified server core: a verification project

This directory is a TLA+ development of `src/`, the Python code shared by the
Library Simplified circulation manager and metadata wrangler.  It holds models
of the parts of the code whose correctness depends on the order in which things
happen, TLC configurations that check them on small instances, and proofs that
extend the most important results to every instance.

    tlc -workers 2 -config MCDistribution.cfg MCDistribution   # a run
    tlapm LicensePool_proofs.tla                               # a proof

`PROJECT.json` maps every definition to the lines of the source it stands for,
every run to its properties, every property to a change of the model ("mutant")
that breaks it, and every hazard to the properties that watch over it.

1. [Inventory](#1-inventory)
2. [Modules and the code](#2-modules-and-the-code)
3. [What the runs check](#3-what-the-runs-check)
4. [Fairness](#4-fairness)
5. [What is proved](#5-what-is-proved)
6. [Disagreements and observations](#6-disagreements-and-observations)
7. [What is not modelled](#7-what-is-not-modelled)
8. [Plan](#8-plan)

## 1. Inventory

The code is a library, used by three kinds of process that share one PostgreSQL
database and one Elasticsearch index: web workers, which serve patrons; scripts,
which cron starts and which may be killed at any time; and the threads a script
starts.  Nearly all state is in the database.  SQLAlchemy sessions commit at a
few explicit places; between two commits a process may die, and between a query
and a commit another process may change what the query saw.

| Component | State | Operations | Interacts with | Modules |
|---|---|---|---|---|
| License pools (`model/licensing.py`) | four counters, `last_checked`, licenses, delivery mechanisms, `work` | `update_availability`, `update_availability_from_delta`, `calculate_work`, `best_available_license`, `loan_to` | distributors, works, analytics, search index | LicensePool, DistributorFeed, Licenses, DeliveryMechanisms, WorkGrouping |
| Works, editions (`model/work.py`, `model/edition.py`) | grouping of pools, presentation, registrations for recalculation | `calculate_presentation`, `merge_into`, `make_exclusive_...` | license pools, coverage records, search index | WorkGrouping, Presentation |
| Classification (`classifier/`) | the weighed subjects of a work | `WorkClassifier.add`, `classify` | works | WorkClassifier |
| Metadata layer (`metadata_layer.py`) | -- | `CirculationData.apply`, `Metadata.apply`, `mirror_link` | pools, editions, mirrors | DeliveryMechanisms, Presentation, Representations |
| Patrons, credentials (`model/patron.py`, `model/credential.py`) | loans, holds, tokens, root lanes | `loan_to`, `on_hold_to`, `temporary_token_create`, `lookup_by_...` | pools, remote services | Licenses, HoldQueue, Credentials |
| Configuration (`model/listeners.py`, `config.py`) | one time stamp, shared by all processes | `site_configuration_has_changed`, `site_configuration_last_update` | every process | SiteConfiguration |
| Coverage providers (`coverage.py`) | coverage records, a timestamp | `run`, `run_once`, `ensure_coverage`, `bulk_register` | items, monitors, scripts | CoverageProvider, ThreadedCoverage |
| Worker pools (`util/worker_pools.py`) | a queue, an error count | `put`, `join`, `do_job` | threaded scripts | WorkerPool |
| Monitors (`monitor.py`) | a `Timestamp`: start, finish, exception, counter | `run`, `catch_up_from`, `process_batch`, reapers | vendors, tables | TimelineMonitor, SweepMonitor, Reapers |
| Scripts (`scripts.py`) | command line; migration timestamps | `run` | everything | Migrations, ThreadedCoverage, SearchIndex |
| OPDS import, mirroring | feeds, representations, mirrors | `run_once`, `Representation.get`, `mirror_one` | vendors, coverage records | OPDSImport, Representations |
| OPDS and MARC export (`opds.py`, `marc.py`) | cached entries, files | `create_entry`, `page`, `groups`, `records` | works, search index, mirrors | OpdsEntries, MARCExport, GroupedFeed, PagedFeed, FacetLinks |
| Cached feeds (`model/cachedfeed.py`) | rows shared by all web workers | `fetch` | feeds | CachedFeeds |
| Lanes, facets (`lane.py`, `facets.py`, `entrypoint.py`) | a tree of lanes with restrictions | setters, `works`, `works_from_database`, `accessible_to`, `navigate` | search index, patrons | WorkLists, GroupedFeed, PagedFeed, FacetLinks |
| Search index (`external_search.py`) | documents, index versions, aliases | `query_works`, `bulk_update`, `setup_index` | works, lanes | SearchIndex, WorkLists |
| Custom lists (`model/customlist.py`, `external_list.py`) | entries, size | `add_entry`, `remove_entry`, `update`, `set_work` | works, search index, equivalents | CustomLists |
| Expression language (`python_expression_dsl/`) | the scope of an evaluation | `parse`, `visit` | circulation rules | Expressions |

The remaining components (identifier parsing, text utilities, classification
tables, feed rendering, settings, logging) keep no state or only store rows;
`PROJECT.json` lists all of them with what is left out of each.

What makes the components correct, and what is hard about it:

* **License pools.**  The counters must follow a distributor whose reports are
  late, repeated, undated and incomplete, although the arithmetic clips at zero
  and uses -1 for "unlimited".  Imports of several collections share delivery
  mechanisms and commit half-way.  Requests that race for a license are not
  serialised.
* **Works.**  `calculate_work` moves pools between works while it iterates over
  them, calls itself, and finds the pools by data that may be stale.  What the
  sources say reaches readers through flags that several processes set and clear.
* **Holds and credentials.**  A promise made to a patron has to stand whatever the
  others do; a row looked up by one request is written by it later.
* **Coverage providers and threads.**  A run pages through a query that its own
  work changes; counts are not locked, sessions break, `join` has to be a barrier.
* **Monitors, migrations, imports, exports.**  What a timestamp claims has been
  done must have been, although runs fail and die and the world changes meanwhile.
* **Mirroring.**  Conditional requests make what is kept depend on what was.
* **Search index.**  Two stores without a common transaction, servers and scripts
  of two versions, an alias that moves.
* **Lanes and search.**  The same restriction exists as a search filter, as a
  database query and as a check at borrowing time; the three have to agree.
* **Feeds.**  Groups must not repeat what there is enough of; pages are fetched
  while the catalogue changes; cached feeds are regenerated by racing requests.

## 2. Modules and the code

    LicensePool <-- DistributorFeed      WorkerPool <-- ThreadedCoverage      Freshness <-- CachedFeeds
      (pool and its distributor)           (a script uses the pool)             (the cache implements
                                                                                 the promise)

    MCDistribution  EXTENDS  DistributorFeed Licenses HoldQueue Credentials DeliveryMechanisms
    MCCoverage      EXTENDS  CoverageProvider ThreadedCoverage
    MCMonitors      EXTENDS  TimelineMonitor Migrations OPDSImport Representations MARCExport OpdsEntries
    MCSweeps        EXTENDS  SweepMonitor Reapers Presentation WorkClassifier
    MCSearchIndex   EXTENDS  SearchIndex CustomLists Expressions
    MCCatalogue     EXTENDS  WorkLists WorkGrouping GroupedFeed PagedFeed FacetLinks CachedFeeds SiteConfiguration

Components that share no state are checked side by side: a behaviour of an MC
module is the *story* of one of the modules it extends, chosen in its initial
state, and the variables of the others stay as they were.  So one run explores
the sum of the state spaces of its stories, not their product, and each story has
exactly the behaviours of its module.  `X_proofs` modules EXTEND the modules they
prove about.

**LicensePool** has the columns of one `licensepools` row (`pool`,
`last_checked`, `exists`), the part of its Work that matters (`hasWork`,
`reindex`: the registration that the listener on `last_update_time` makes) and
of the index (`indexed`).  Actions are the entry points that change them.
`Update` is `update_availability` with its two effects, the date and the
reindexing; it is shared by the snapshot and the event path, as in the code.
`collected` and `heard` are what one step sent to analytics and what it was told.

**DistributorFeed** adds a distributor that lends copies, keeps a queue and sets
copies aside -- the behaviour `_calculate_change_from_one_event` assumes of it --
and a monitor that fetches its events, any of them again, and takes snapshots that
may be applied late.  A snapshot may bear the date of the latest event, and an event may
be dated `last_checked`: the code ignores only what is dated before it, so such an event
is applied twice (`repeated` counts them, up to `MaxRepeats` between two snapshots).  A
license may be lost with a copy on loan, with one set aside or with one on the shelf
(`offShelf`).  Distributors are not part of the repository: those
definitions are external.  `trusted` is chosen at the start: either everything the
pool is told comes from that distributor, or the pool is on its own, and is told
whatever the actions of LicensePool allow.  The run checks both.

**Licenses** has one pool's licenses with their terms and every patron's loan.  A
request is two steps, `Choose` (`best_available_license`) and `LoanTo`, because
nothing locks the license between them.

**HoldQueue** follows one patron in the line for a title.  `_calculate_until`, `until`,
`on_hold_to` (which may find the row of an earlier hold) and `Hold.update` are the code;
so is `counted`, the column `patrons_in_hold_queue`, which stands in for a position
nobody knows and only changes when `update_availability` does (`Recount`).  The line
itself and the copies, which the distributor lends and sets aside in the worst order
its rules allow, are external.

**Credentials** has the rows a lookup finds, for a temporary token, a patron's
persistent identifier and a collection's bearer token.  `get_one_or_create` is a
lookup, an insert that the unique index may refuse, and a second lookup; a lookup
and what is written because of it are two steps.

**SiteConfiguration** has the one time stamp in the database, what each process
knows of it, and the threads of a process, whose transactions may wait for the
lock.  Times are ages, capped at `LongAgo`, so that behaviours have no end.

**DeliveryMechanisms** is `CirculationData.apply` for one title of a distributor
with several collections: `SetFormat` and `DeleteFormat` are one mechanism each,
with the commits inside `set` and `delete`; `Judge` is `set_open_access_status`.

**CoverageProvider** is `BaseCoverageProvider.run`: `pass` and `offset` are those
of `run_once_and_update_timestamp`, `pc` is where `run_once` is (about to query,
about to process, about to record), `status` the coverage records.  The database
may return items in ID order or in any order, because the query has no
`order_by`.  Around it, other processes change, register and cover items.

**WorkerPool** is a pool of threads on a queue; one `+= 1` is two steps.
**ThreadedCoverage** puts the jobs of
`RunThreadedCollectionCoverageProviderScript` into it.

**TimelineMonitor** and **SweepMonitor** have the fields of a `Timestamp`, the
loop of the monitor, and a vendor (external) or a table that changes meanwhile.

**Reapers** has a collection marked for deletion, its pools, works and their
documents; a reaper commits in several places and removes documents that no
rollback brings back.

**Migrations** has the files of a release, with their kinds, dates and counters,
and the two timestamps by which `DatabaseMigrationScript` tells which to run.  SQL runs
in the script's own session, and an error ends the run; Python runs in a subprocess
whose exit code nobody looks at, so a file that failed is stamped like one that ran
(`passedOver`).

**OPDSImport** has a server (external) whose feed is cut into pages, the newest
entry first, and `OPDSImportMonitor`: `StartRun`, `FollowOneLink` and `NextFeed` are
`_get_feeds`, `ImportOneFeed` is `import_one_feed` with the `import_from_feed` it
calls and the commit behind it.  An import has one of five outcomes, which
`ImportStatus` turns into the record `identifier_needs_import` reads on the next
run.  Dates matter only through one comparison, `entry >= record`, so `newer` is
the set of entries for which it holds.  Entries carry a date:
`extract_last_update_dates` drops those that do not.

**Representations** follows one link through `Representation.get` (conditional
requests, errors, exceptions, a row for each media type) and `mirror_link` (upload,
thumbnail, what is forgotten when).  What is on the web only matters as far as it is
the newest version or not.

**MARCExport** is `MARCExporter.records`: it reads pages of the search index, which
follows the database when it may, turns books into records, or takes the record that is
cached in the work unless it is told to make new ones, and uploads them as the parts of
a file.  Its caller, which is not part of the repository, chooses the start time freely.
A `CachedMARCFile` says from when to when a file has the changes; `exportedTo` is the end
to which such files lead, each of which starts no later than the one before it ends.

**OpdsEntries** is the column of a work that holds its OPDS entry, and those who
write it: pages and single entries (`create_entry`), lookups by identifier, and
`calculate_opds_entries`.  `LicenseTags` is a pure function, checked as one.

**Presentation** and **WorkClassifier** are `Metadata.apply` with what it flags,
`calculate_presentation` with its three policies, and the weighing of subjects.  A
subject is a record of what its vocabulary made of it.

**SearchIndex** has the index and the alias of each of two versions of the code, the
documents, the coverage records, and clients -- servers and scripts -- that are
started, set the index up, fill it, rebuild it, and die.  Elasticsearch is external.

**CustomLists** has the entries of one list, its size, the documents of its works, and
everybody who changes them.  The strength of equivalence falls with each level, as in
`recursive_equivalents.sql`.

**Expressions** is the grammar as recursive operators on sequences of tokens, the tree,
and the evaluator with its scope, which is what an object that is `None` is confused
with; `and` and `or` are those of the module `operator`, on bits, while the meaning that
Python gives the text (`Meaning`) stops at the first part that decides.  **FacetLinks** is a client that follows the links of
a feed, one after the other, maybe across a change of the library's settings.

**WorkLists** follows one book, its license pools, its search document and a
chain of lanes that are edited through the setters of `Lane`.  `SearchMatches` is
the `Filter`, `FromDatabase` is `works_from_database`, `Shown` is what `works`
returns after looking the hits up in the database, and `AgeAppropriateMatch` is
the check at borrowing time.

**WorkGrouping** runs `LicensePool.calculate_work` as a single transaction on a
record that stands for the session (`s.work`, `s.key`, ...): its steps and the
recursive calls are operators on that record.  `tie` is a choice that
`Counter.most_common` leaves open.

**GroupedFeed** is the loop of `_groups_for_lanes`, an action for each branch.
**PagedFeed** is a client that follows "next" links, by offset or by sort key, while
books move.  **CachedFeeds** is `CachedFeed.fetch` by several sessions, which remember
the row they loaded; ages stand for times.  **Freshness** is what a cache promises:
every answer was true at some time within a bound.

## 3. What the runs check

| Run | Instance | Properties |
|---|---|---|
| `distribution` | *feed*, untrusted: 5 shapes of reports (complete, unlimited, without `owned`), all 8 types of events with magnitudes 1 and 2, dated or not, 2 copies, 2 instants; trusted: 4 events of a distributor with up to 2 copies, 1 event applied twice between two snapshots | `AvailableWithinOwned`, `IndexIsCurrent`, `OnlyReservedCheckoutsGoUnrecorded`, `CountsAreThoseOfLastChecked` |
| | *licenses*: 2 licenses of 6 kinds, 3 patrons, 2 requests in flight, 2 days | `OverdrawnByAtMostTheRace` |
| | *holds*: 2 copies, loans of 2 and reservations of 1, a queue of up to 3 that the pool knows of or not, 6 minutes | `NobodyWaitsLongerThanTold` |
| | *credentials*: 2 requests, 3 values, tokens that last 1 hour of 2 | `CredentialsServe` |
| | *formats*: 2 collections (interchangeable), an open-access and another format | `OpenAccessIsRight` |
| `coverage` | *provider*: 3 items in batches of 2; ordered or not, a poisonous item or none; one act of the application, one death | `AttemptsBounded`, `FirstPassLeavesNothingUnattempted`, `RunsEndAndReachAll` |
| | *threads*: 2 workers, up to 4 items, a job for each item | `NothingRecordedAfterwards`, `ScriptEnds` |
| `monitors` | *timeline*: overlap 2, slices of 2, delays up to 2, 2 events, 8 instants, failures and deaths | `NothingIsMissed` |
| | *migrations*: 11 files of 5 dates, with and without counters, one that may fail, any number of interruptions | `OnlyFailedOrOvertakenFilesAreLost` |
| | *import*: 3 titles published up to 2, 1 and 1 times on pages of 2, one that fails in every way, one that is sometimes unreadable, one that is not offered; forced or not; any number of runs, failures and deaths | `NothingIsHidden`, `SuccessMeansImported`, `WorksFollowEditions` |
| | *mirror*: an image or an open-access link, two media types, errors, exceptions, broken images, deaths | `MirroredVersionIsFine` |
| | *marc*: 2 books, pages of 1, of which one has a cached record and has lost its pool, 2 changes, 3 instants, any start time, new records or cached ones | `ChangesAreExported` |
| | *entries*: 2 pools, 2 requests in flight, 2 changes | `EntriesFollowTheWork` |
| `sweeps` | *sweep*: IDs 1..4, batches of 2, an ID that may raise, one death | `SweepsAreComplete`, `EveryRowIsProcessed` |
| | *reapers*: 2 collections, 3 works with 5 pools, one death | `ReapersClearUp` |
| | *presentation*: 3 sources, 7 offers, 2 instants, 3 policies | `NothingIsForgotten` |
| | *classifier*: up to 4 of 16 rows of staff, distributor and others, in any order; two imprints | `StaffHaveTheLastWord` |
| `search_index` | *index*: 2 versions, a server and a script, 1 work, 1 fault (a death or a failure) | `RecordsAreHonest`, `SearchRecovers` |
| | *lists*: 3 editions of 2 works, 3 entries, 3 acts, claims of equivalence of strengths 80 and 60 or 80, so that two steps carry far enough or not | `ListsAreKept` |
| | *expressions*: all expressions of up to 5 tokens with one operator of each of four levels, 5 contexts with objects in objects, None and truth values | `MeansWhatPythonSays` |
| `catalogue` | *grouping*: 4 pools of 3 identifiers (one in two collections), 3 keys, 1 change | `GroupingSettles` |
| | *lists*: chains of up to 3 lanes, 13 scenes: ages and root lanes; genres; lists and languages; two pools of 10 kinds | `NothingIsMissing`, `FoundBooksMayBeBorrowed`, `AddedRestrictionsNarrow` |
| | *groups*: 3 sublanes, sizes 1 and 2, every answer with 3 works | `GroupsAreFullAndFresh` |
| | *pages*: 3 books, 2 sort keys, pages of 2 | `PagesShowEveryBookOnce` |
| | *facets*: 4 configurations, requests with up to two arguments, every chain of links | `LinksLeadWhereTheySay` |
| | *cache*: 2 requests, 2 rows, a default age of 1, a generation time of 1 | `FeedsAreFresh` |
| | *site*: 3 threads in 2 processes, a cooldown of 1, waits of up to 2 | `MissesOnlyCloseChanges` |

Six more runs are expected to find a violation; section 6 tells of them.

What the less obvious properties say:

* `OnlyReservedCheckoutsGoUnrecorded`: analytics hears of every change of
  availability but the checkout of a reserved copy.
* `RunsEndAndReachAll`: a run of the provider ends; what is registered is attempted in
  the end; and if the database happens to return items in order, nothing is skipped.
* `ReapersClearUp` and `ListsAreKept` each join a state property and one about steps
  or progress: documents follow works, and marked collections go; the size and the
  documents of a list follow its entries, and books stay on it.  `SearchRecovers` joins
  `RebuildsRepair` and `AliasComesBack`, `CredentialsServe` joins `IssuedTokensWork`,
  `IdentifiersAreStable` and `SpentTokensAreSpent`, `GroupingSettles` joins `GroupedOnceCalculated` and
  `WorksAreStable`.
* `GroupingSettles`: after any sequence of calls in which every pool has been
  calculated since its metadata last changed, open-access pools of one permanent work
  ID and language share a work that has no other, no merge is refused on the way, and
  calculating again moves nothing.  Pools of one identifier are all open-access or all
  commercial, as they are when the collections get them from one distributor; with a
  mixture, `merge_into` may raise a ValueError that nothing catches.
* `CountsAreThoseOfLastChecked`: licenses and queue are those the distributor had at
  `last_checked`, give or take one for each event that was applied twice, and no copies
  are offered beyond its shelf but for these and for licenses lost from the shelf.
* `NobodyWaitsLongerThanTold`: an estimate holds if the place it was made from is not
  before the patron's own; that it is not holds once the distributor has reported their
  position, or a line with them in it.  Before that the code may promise the book at
  once (section 6), and the property does not speak of those promises.
* `OnlyFailedOrOvertakenFilesAreLost`: what is undone when a run of all migrations ends
  is a Python file that failed and was stamped, a Python file an interrupted run left
  behind SQL files of its date or a later one, or an SQL file a run with `--python-only`
  overtook.
* `ChangesAreExported`: a change that is dated before `exportedTo` is in a file that was
  completely uploaded, unless the export that reaches back to its date could not see it
  when it began -- the index was behind, the book had no license pool, its cached record
  was out of date -- or it was dated back to a time already exported.
* `MeansWhatPythonSays` names where an expression differs: a chain of comparisons or a
  minus before a power, a name looked up in an object that was not forgotten, an object
  that is None, and `and` or `or` where Python would stop early or the parts are not truth
  values.
* `NothingIsMissing`: with a current index, what `works_from_database` finds is also
  found through the index, apart from the differences the property names.  Each scene
  of *lists* edits the fields that interact; the fields of different scenes are
  conjuncts that do not mention each other.
* `NothingIsHidden` is why the pages of an import are imported last first: a run
  that dies has then imported the end of the feed, and every page in front of what
  is missing still has something new.  With the first page first it fails at once.
  The property excepts runs under which the feed changed in one of two ways
  (`raced`), see section 6.
* `FeedsAreFresh`: a cached feed was true no longer ago than its maximum age and *two*
  times of generation.  The first is the time between what a feed shows and its
  storing.  The second is that of a request that stores its content with a new date in
  a row in which another one has put newer content of the same text meanwhile; with one
  generation time the property fails.

**Bounds.**  Every bound is a constant named `Max...`, `Last...` or the size of a set of
model values.  They are small because each hazard needs few actors: a race needs two
requests, an offset that skips needs one full batch and one item more (hence 3
items in batches of 2), an event that is missed needs one successful run and one
failed one, a sweep that goes wrong needs a row on each side of the counter, a
cached feed that lives too long needs two regenerations that overlap.  Distributor
events: 4 suffice for one that is late, one that is repeated, and a snapshot on each
side.  Three stages of MARC time are a change, an export of it and one after it; a
cached record gets stale in two changes because one book begins without its pool.  A second version of two titles at once, expressions of 6 tokens, and entries
with open-access pools were checked once on larger instances and added nothing.  Where
a bound might matter, the theorems of section 5 remove it.

Symmetry (`DistributionSymmetry`, `CacheSymmetry`) permutes model values that no
definition tells apart, in runs whose temporal properties do not mention them singly.

`CHECK_DEADLOCK FALSE` is set where the system may stop: a bounded history of
events, a script that has ended, a story whose last page has been turned.

## 4. Fairness

* `CoverageProvider`: `WF(Step)`, because the run loop is straight-line code that
  takes its next step unless the process dies (`Die` is a step of its own and
  happens at most `MaxDeaths` times).  `FairSpec` adds `WF(StartRun)`: cron starts
  the script again.  Only the second part of `RunsEndAndReachAll` needs that; it is
  stated for items none of which raises.
* `ThreadedCoverage`: weak fairness of each worker thread and of the main thread:
  the operating system schedules them, and a job that runs ends, if only by an
  exception.  A broken session is not assumed to recover.
* `SweepMonitor`: `WF(SweepGoesOn)`: cron again.  `EveryRowIsProcessed` assumes that in
  the end no item raises; without that, the item behind the bad one is never reached.
* `Reapers`: weak fairness of `CollectionReaper` and of `WorkReaper`, which cron starts.
* `SearchIndex`: weak fairness of `Proceed(c)`, a process that has been started goes
  on, and of `Start(c)` for scripts, which cron starts; servers need not ever start.
* MC modules state the same fairness for the story that needs it.  No other
  specification has fairness, and no other module a liveness property.

## 5. What is proved

All theorems are proved by TLAPS for every value of the constants that satisfies
the module's ASSUME: any number of items, workers, rows, copies, patrons, events.
Every invariant below was checked by TLC before it was proved.

**LicensePool_proofs** (LicensePool, DistributorFeed).
`TypeCorrect`; `NeverMoreThanOwned`, if reports that
mention one of `owned` and `available` mention both and are consistent (an
assumption of the theorem; the run shows it for such reports, and Overdrive's report
without both keeps it); `IndexStaysCurrent`; the action properties `NeverForgets` and
`TrafficKeepsUnlimited`.  The lemmas say what `Deduct`, the correction and
`Merge` return.  `ReceiptsAreRecorded` proves `OnlyReservedCheckoutsGoUnrecorded` from
what an event of each type changes (`ChangeIsOfItsType`), if events have a magnitude:
one hold_place of magnitude zero would empty the shelf, and analytics would hear of a
check_out alone.  `IndexStaysCurrent` needs two facts of the pool's history: before
there is a row there is no Work and no date (`NoPoolYet`), and last_checked is
not in the future (`NotFromTheFuture`).  `CountsFollowTheDistributor` proves
`CountsAreThoseOfLastChecked` for any history and any number of events applied twice.
Its invariant says that each truth follows from the one before by an event of its kind
(`HistoryOK`), that a snapshot in hand is one of these truths with one of its dates
(`SnapshotOK`), and that the pool is near to what the distributor was after some n events,
of which all but the last are out of date (`KnownSince`).  How near (`Near`) is where the
work is: the count of copies alone does not carry the induction, since a copy set aside
for the queue may be on the pool's shelf when nobody waits.

**Distribution_proofs** (Licenses, DeliveryMechanisms, Credentials,
SiteConfiguration, HoldQueue).
* `LicensesAreHardlyOverdrawn`: the borrowers of a license and those who have chosen it
  (`Claimants`) are together at most as many as it allows, and one less than the
  requests in flight.  The loans alone do not carry the induction.
* `OpenAccessStaysRight`: an import that is alone leaves what was sure as it was until
  it has looked at the pools, and has put all of them right after that (`AloneIsRight`);
  while others interfere nothing is sure.
* `CredentialsKeepServing`: the row of the token says what was issued, or the token is
  spent or its redemption was under way (`TokenIsGood`); a spent token is expired, and
  who redeems a token has found it, and a successor has been noted (`RedemptionsAreNoted`); what remote services were
  told is in the one row the unique index allows (`IdentifierIsKept`).
* `CooldownIsTheOnlyLoss`: no time stamp that is remembered anywhere is younger than the
  last change (`NothingIsYounger`); a change that is not close to another is recorded or
  waits for the lock, and by then every time stamp is out of its cooldown
  (`LonelyChangesAreRecorded`).
* `EstimatesAreKept`: `Returns` are the times, up to the promise, at which copies come
  back if everybody takes all the time there is; they are more than those ahead in the
  line (`PromiseIsKept`).  A place that the distributor has named stays at or behind the
  patron's own, since others only leave the line in front of them; nothing is assumed of
  how old the count of the pool is.

**Coverage_proofs** (CoverageProvider, WorkerPool, ThreadedCoverage).
* `TypeCorrect`; `FirstPassIsThorough`, from the
  invariant that the offset of the first pass is zero (`InPlace`); `PassIsBounded`,
  by counting: the attempts made, those in hand, and those still ahead of the offset
  never exceed what was due and what the application did meanwhile (`Budget`).
* `JoinIsABarrier` and `ErrorsAreNoticed`, from an invariant
  in three parts: types; job numbers (`Numbered`: a job is in the queue or in one
  hand, never in two places); accounts (`Accounted`: `unfinished` is the length of
  the queue plus the number of busy workers; the error count and the workers about
  to raise it are together no more than the failures, and not both zero once a job
  has failed).
* `NothingIsLate` proves `NothingRecordedAfterwards` from `JoinIsABarrier`, which holds of
  the script because each of its steps is made of one of the pool's (the lemma
  `ScriptUsesPool`).

**Monitors_proofs** (TimelineMonitor, Representations, MARCExport, OpdsEntries, Migrations).
* `TypeCorrect`, `CoverageOnlyGrows`, `CatchesUp`.  The
  invariant says that times are in order (`InOrder`), that no event becomes visible
  later than the overlap (`Prompt`, which is what the vendor has to promise), that
  the current run has handled what lies behind its slice (`CaughtUp`), and that what
  earlier runs covered is handled, also by what was committed before the current
  run (`Covered`).  Assumption of the theorem: no delay exceeds the overlap.
* `MirrorIsUpToDate` proves `MirroredVersionIsFine` under two hypotheses: servers name
  the type of what they send with a 304 (`NamesType`), and no upload fails.  Both are
  needed: with a 304 without a type the code looks at the row of another media type,
  and `uploads_fail` (section 6) shows the other.  The invariant: of a row for which a
  later import may be told that nothing has changed, the content is the newest version
  or forgotten, and if it says it is mirrored, that version is on the mirror
  (`CurrentIsNewest`).
* `ExportsMissNothing`, without an assumption on start times or on the index: what an
  export could see when it began, in its range, is in the file or behind the point the
  search has reached (`NothingIsPassedOver`), and is still there to be seen
  (`WhatIsShownIsThere`), because a book that changes meanwhile is dated after the end
  time, or among the exceptions.
* `EntriesAreFollowed`: what a process has in hand to write is no older than what a
  recalculation has promised since, or it is known to be late (`WritersKeepUp`); an entry
  made when there was one pool is of that pool's edition until pools change (`EntriesFit`).
* `LostFilesAreAccountedFor` proves `OnlyFailedOrOvertakenFilesAreLost`: a file that has not run
  is new to the next run of its kind, was lost in one of the known ways, or is still
  among the files of the run in progress and has at worst been overtaken
  (`MissingIsNew`, `MissingIsPending`); the known ways include the stamp on a Python file
  that failed (`passedOver`).  A timestamp of a file leaves all files that sort
  after it new (`LaterIsNew`), and a release is dated later than those before it
  (`ReleasesAreWhole`).

**Sweeps_proofs** (SweepMonitor, Reapers, Presentation, WorkClassifier).
* `TypeCorrect`, `CounterStaysHonest`, `SweepsComplete`: a batch is the least rows above
  the offset, so that rows up to its greatest ID are done when it is (`MaxOfIds`).  The
  invariant adds to the types that a running sweep's offset is the counter, that steady
  rows up to it are done (`Behind`), and what is known of the batch in hand (`InHand`).
* `DocumentsGoWithWorks` proves `DocumentsFollowWorks`, the state property in
  `ReapersClearUp`: only what belongs to marked collections is ever being deleted
  (`OnlyMarkedGo`), and a work whose deletion is not committed has left the index, unless
  its document was uploaded since (`DeletedLeaveTheIndex`).
* `WorksAreUpToDate` proves `NothingIsForgotten`.  Its invariant says what the absence of
  a flag vouches for: without "classify" the expensive recalculation would change nothing
  (`ClassifiedUnlessFlagged`), with no flag at all neither would the cheap one
  (`ChosenUnlessFlagged`).  An update that flags nothing may still withdraw a cover or a
  description.  A cover that goes is no better than the one its Edition keeps, since
  that was chosen when the source last spoke, or later (`CoversAreChosen`,
  `QuietCovers`); a description that goes takes the summary with it, or the summary
  remains the best (`QuietDescriptions`), because no two sources share a description.
  `Greatest` is what the proofs need to know of Max.
* `TheOrderDoesNotMatter` proves `StaffHaveTheLastWord`, and `StaffKeepTheirWord` its
  part `StaffAreHeard`.  The invariant says, without any order, what the tally is after
  the rows X: its counters hold what X comes to (`IsTallyOf` in `ClassifierInv`).  A counter
  on which the staff have spoken holds their word and nothing else (`SaidFiction`,
  `SaidAudience`, `SaidAge`); one on which they have not is the total of what the rows
  that count have voted; genres are a total of the staff's rows as soon as they have
  named one.  Totals do not depend on the order, because counters are added up in any
  (`TogetherInAnyOrder`, `TotalsExist`, `TotalsGrow`), `TallyGrows` says that one more
  row keeps this whatever came before, and the tally of the staff's rows first is one of
  the same rows (`FirstIsATally`).  Two tallies of the same rows then agree on all that
  the verdict reads (`GenresAgree`, `FictionAgrees`, `AudiencesAgree`, `AgesAgree`),
  except where the property says that they need not.  It rests on ClassifierAssumption:
  a subject means the same whoever states it, and of the staff's rows, each has a subject
  of its own and, genres aside, a thing of its own, a positive weight, ages in a range.

**OPDSImport_proofs.**  `TypeCorrect`; `SuccessIsEarned` and `WorksCatchUp`, both
from a lemma that says what the import of a page does to one title
(`ImportOfOne`), for any number of titles, any page size and any feed.
`NothingStaysHidden` proves `NothingIsHidden`.  Its invariant (`ImportInv`) says
that the feed names no title twice, that nothing was attempted before it was
published (`NotFromTheFuture`) and, while nothing raced, that
what was missed is a prefix of the feed (`MissedFirst`) and counts as new
(`MissedIsNew`), that the pages in hand are as the server has them
(`CopiesAreCurrent`), and that what was missed behind a page in hand is on a page
that will be imported no later or has not been fetched (`InHandFromTheEnd`).
Importing the last page first is what keeps the prefix one.

**SearchIndex_proofs** (SearchIndex, FacetLinks, CustomLists).
* `RecordsStayHonest` proves `RecordsAreHonest` for any number of works, versions and
  processes: what a process is about to record as indexed is in its index, unless it has
  been told of a failure (`UploadsArrived`).
* `RebuildsRepairTheIndex` proves `RebuildsRepair`, the action property in
  `SearchRecovers`, for a rebuild that begins with any index and any records.  The
  invariant speaks of the process that has been alone since it started (`AloneInv`): once
  the removal of the records is committed, what counts as covered was covered by this
  run and is as it is in the index, or changed on its way there (`Covered`), and what is
  in hand does not count as covered yet.
* `LinksLeadOn` proves `LinksLeadWhereTheySay` for every chain of links.  A faceting object
  that was made from a request is one that the configuration can make (`SoundFacets`: its
  values are available, its entry point and its age are those that loading them again
  gives), so what a link asks for (`Asks`) is what the next request is answered with
  (`LinksAreAnswered`), unless the configuration has changed.  FacetsAssumption says
  that configurations name facets and entry points there are; the defaults of a library
  need not be among those it has enabled.
* `ListsAreWrittenOut` proves `ListsAreWrittenDown`, one half of `ListsAreKept`.  An
  operation is applied to a list as a value, and several may follow each other in one
  step, so each has a lemma: from a good list (`GoodList`: the documents of Works that are
  neither registered nor known to be unflagged are right, and the size unless it is known
  to be wrong) it makes a good one, or one that is good but for the Work that its caller
  registers (`DocumentsAgree` names the exceptions).
* `ListsKeepTheirBooks` proves all of `ListsAreKept`.  An entry that is merged goes to the
  entry of an equivalent book, so a book stays on the list just if being equivalent is
  mutual: `EquivalentsFindEachOther`.  The recursive query only grows a chain of claims at
  its end.  A row of the query stands for a chain (`Chain`), every beginning of a chain is
  at least as strong as the chain because no claim is stronger than 100, and so a chain that
  the query finds from one end it finds from the other, turned around.  The induction over
  the levels of the query is done with the least level that fails, and that the levels
  exist as a function is a lemma of its own (`StepsExist`).  The invariant `KeptInv` adds
  the rows (`RowsTyped`): each operation is shown to carry every row on in a row that the
  book would recognise (`Continues`), or to dismiss it (`Dismissed` names who does).

**Catalogue_proofs** (WorkLists, GroupedFeed, PagedFeed, CachedFeeds).
* `RestrictionsNarrow`, for every chain of lanes and every state of the index: what a
  lane inherits for a field it does not set is what its parent has
  (`InheritsFromParent`).
* `SearchMissesNothing` proves `NothingIsMissing`: the license pool with which the query
  is satisfied satisfies all the nested queries of the Filter at once
  (`OnePoolMatches`), and what a lane inherits is the value of a lane within its reach
  (`InheritedFrom`), which the query has asked as well.
* `PatronsMayBorrow` proves `FoundBooksMayBeBorrowed`.  Its invariant says that age
  ranges stay ranges (`LanesTypeOK`), so that they have an oldest and a youngest age
  (`OldestAndYoungest`); the audience of the book is then its own witness
  (`ReadersOfThatAudience`).
* `GroupsAreFilled`: while the loop is at a sublane, the answers it has handled are
  those shown and those set aside, until the sublane is full (`InProgress`); the works
  set aside are all in earlier sublanes, so what `_done_with_lane` adds comes last.
* `PagesMissNothing`: a steady book has been shown if, and only if, its sort values, or
  its position, are not after the point where the next page begins (`ShownByKey`,
  `ShownByPosition`).  A page takes the least ones of the rest: in a finite set there is
  a first and a last one, and fewer before than there are.
* `CacheIsFresh`: `CachedFeedsSpec => FeedsAreFresh`, a refinement of Freshness: every
  step is an answer that was true within its bound, a change of the world, or time.
  The invariant says of each row how old its content may be (`IsFresh`), of each
  request that it began no longer ago than a generation takes (`IsRecent`), and of a row
  that is no longer what a request has loaded, that it was written since (`Overtaken`).

**Only model-checked.**  Liveness (`RunsEndAndReachAll`, `ScriptEnds`,
`EveryRowIsProcessed`, `MarkedCollectionsGo` in `ReapersClearUp`, `AliasComesBack` in
`SearchRecovers`), which is out of the prover's reach.  `GroupingSettles` and
`MeansWhatPythonSays`, whose operators are RECURSIVE because the code and the grammar
are.  The type invariants of the modules
that have theorems are parts of their inductive invariants and need no run.

## 6. Disagreements and observations

Each of these is a run that is expected to find a violation; `PROJECT.json` quotes the
text it contradicts.

1. `coverage_changes`.  `Work._reset_coverage` promises that "automated scripts know
   the work needs to be done again".  A reset that happens while the item is being
   processed is overwritten by the result of that processing.
2. `threaded_skips`.  The threaded coverage script gives each job an offset into the
   query as it was at the start; jobs that succeed shrink the query, so later jobs
   skip items, although each of them succeeds.
3. `commercial_alone`.  `calculate_work` promises that a commercial pool "will always
   have its own Work".  When a pool that turned commercial kicks the others out of
   its work, the first open-access one finds that work again through the next; in
   the end the commercial pool is appended to a work the others still share.
4. `uploads_fail`.  A new version is fetched and its upload fails, which the uploader
   swallows; the content is forgotten, and the next import is told that nothing has
   changed and leaves the old version on the mirror as "fine".
5. `search_unready`.  A work that stops being presentation-ready is registered so that
   it "will be removed from the search index", but the coverage provider that reads the
   registration only asks for presentation-ready works.
6. `credentials_twice`.  "Unique indexes to prevent the creation of redundant
   credentials" do not apply to a bearer token whose type is NULL.

Smaller observations, which no run states.

*Pools, licenses, holds.*
* `best_available_license` (`model/licensing.py:880`) lets the number of remaining
  loans override the expiry date if licenses have both limits, depending on the
  order of the rows; `Licenses` is run with at most one limit per license.
* `Hold._calculate_until` (`model/patron.py:560`) divides by the number of licenses,
  which is -1 for an unlimited title; with one license it is a cycle more pessimistic
  than need be.  `Hold.update` never clears `end`, although its docstring says so.
* A patron of unknown position is placed by `patrons_in_hold_queue`, as the pool last
  heard of it (`model/patron.py:623`).  If that was before they joined, the estimate may be
  too early, and with a stale zero the book is promised as if it were reserved.
* An event dated exactly `last_checked` is not ignored (`model/licensing.py:650`): if it is
  handed over again, or the snapshot of that moment has it already, it is applied twice.
* A new pool's `open_access` may be FALSE while mechanisms it shares are open access.
  `best_open_access_link` is cached for ever and uses the priority of the pool's source.

*Works and presentation.*
* An edition that lost its title stays the presentation edition of its old work.
  Commercial pools of one identifier take turns to throw each other out of their
  work, which leaves works without pools behind; WorkReaper removes them.
* A description link that is removed without a new one flags nothing, although the
  comment at `metadata_layer.py:1692` says so.  A field that every source has cleared
  stays in the composite edition.  A recalculation with the default policy sees no
  change in an edition of a single source, leaves the OPDS entry and marks the choice of
  the edition as done.  `NothingIsForgotten` names these three.
* `add_measurement` leaves two most recent measurements when an older one arrives late.
  `update_contributions` compares contributor IDs role by role.  A work all of whose
  pools are suppressed is marked as having chosen its edition.
  `calculate_presentation` without quality, with a policy that does not calculate it,
  raises a TypeError.
* The classifier ignores a row of another source after the staff's genre, with all else
  it says (`classifier/__init__.py:1069`), but counts it before, and the query has no
  order (`model/identifier.py:682`).  Overdrive's "juvenile" counts only if it comes
  before the staff's audience, and may then outweigh the staff's age range; of several
  such rows the last one sets the weight.  Of two weights that one source gives one
  subject, through two identifiers, the first row counts.  The cutoff
  of 15 % strips genres in the order of a dict.  `consolidate_genre_weights` says that
  it starts over after a change, and does not.  `weigh_metadata` adds genres although
  staff said there are none.

*Coverage, search index.*
* `coverage.py:333`: the comment in `run_once` relies on an order that the query does
  not have.  `InOrderNothingIsSkipped` says what order buys.
* `RebuildSearchIndexScript` makes its client and its provider before `do_run`, and
  `setup_index` does not put back the alias that goes with a deleted index
  (`external_search.py:333`, `scripts.py:3265-3285`): until another client is made,
  searches go through a name that leads nowhere.
* `bulk_update` reports each work without a document as a failure of the *last* work
  of the batch (`external_search.py:622`).  The coverage provider counts these
  failures and then, for the works it has no result for, counts them once more, so
  that the offset of the second pass moves past works that were not attempted.

*Imports and mirrors.*
* The record of an import is dated when it is made.  An entry that is updated between
  the moment its page is fetched and that moment looks older than its record
  (`opds_import.py:2014`), so the update waits for the next one.  An entry withdrawn
  while pages are fetched moves another one to a page that has been fetched already.
  These are the two races that `NothingIsHidden` excepts.
* A transient failure is retried "regardless of whether the feed has changed"
  (`opds_import.py:1990`) only if the run gets to its page.  Entries without a date never
  count as new (`opds_import.py:906`), although `identifier_needs_import` means to
  import them "to be safe".
* If `Metadata.apply` raises after it changed the Edition, the change is committed and
  the Work is not registered for recalculation (`halfway`).
* `update_availability` with the date of an older report sets `last_update_time` back
  (`model/licensing.py:609`): an export that starts after that date passes the book by.
* `calculate_marc_record` for a work without an active pool leaves the cached record as it
  was, and an export that is not forced uses it when the work has a pool again.
* A Python migration that fails is stamped and never run again (`scripts.py:2489`).
* `fetch_exception` is never cleared where `metadata_layer.py:795-797` decides by it.  A
  representation that changes its media type may collide with the row of the new one
  (`metadata_layer.py:840`).  A 304 without a Content-Type is looked up under another
  type, and the mirror may keep an old version.

*Lanes and feeds.*
* `Filter` treats a list datasource without lists as no restriction, although
  `_gather_customlist_ids` means "exclude everything"; genres that exclude each
  other exclude everything in the index and nothing in the database;
  `inherited_values` ignores that an ancestor does not inherit.  The database query
  knows neither the addition of the all-ages audience nor the exclusion of
  research books.  `NothingIsMissing` names these cases.
* An audience-less root lane lets its patrons borrow nothing (`model/patron.py:357`).
* Two license pools may satisfy different filters of one search: each filter on
  pools is a nested query of its own (`external_search.py:1525`).
* The group of a sublane that does not inherit may show one work more than
  `featured_lane_size`.  A page all of whose hits the database cannot deliver ends the
  chain of "next" links.  The older content wins where `CachedFeed` rows are stored by
  two requests.  Grouped feeds are cached for ever.
* Links in search results drop `language`, although the docstring (`lane.py:139-142`)
  says that all active settings are propagated; `Facets.navigate` drops the media, the
  keyword arguments of the constructor and `order_ascending`, `FeaturedFacets.navigate`
  the random seed.  "all" leads to "now" where holds are not allowed.
  `DatabaseBackedFacets.available_facets` need not contain its default, so that a request
  without arguments can be refused.  Search in a library with one entry point defaults to
  everything.  "relevance" has no title, so that no link leads back.  Sizes up to 0 and
  negative offsets are not refused.  The "up" link loses the entry point.
* The first writer of an empty OPDS entry may overwrite a recalculation that began later
  (`opds.py:1253`).  `create_entry` swallows exceptions, so `calculate_opds_entries`
  records success although nothing was made.  A lookup of another identifier fills the
  work's entry with that pool's edition.  `create_entry` for an Edition always fails.

*Custom lists.*
* `MembershipManager.update` looks at the current members before it adds: an equivalent
  book that replaces the edition of an entry is then removed as if it were not a new
  member (`external_list.py:291-296`).  A current member that is equivalent to a new one
  may in the same way be merged into an entry that is left over, and go with it.
* Merging entries, dropping them and importing them do not change `size`, which may go
  below zero.  `set_work`, merges, drops and moves do not register works for the index.
  `_db.commit` at the end of a merge is not called.  `add_entry` for a work with two
  entries raises MultipleResultsFound, and for entries that are not each other's
  equivalents ValueError; it overwrites the choice `update` has made.

*Expressions.*
* After an evaluation that raised, the visitor keeps its scope, so that a visitor that is
  used again misreads later expressions.  In `a.b - c`, `a.b == c.d`, `a.b[i]` and
  `obj.method(x)`, later names are looked up in the object.  Comparisons are not chained;
  `-2 ** 2` is 4; `and` and `or` are bitwise and never stop early; after an object
  that is None a name is looked up in the context (`evaluator.py:237`); commas between arguments may be left out;
  a name that begins with "not" is read as `not` and the rest.

## 7. What is not modelled

* Text: parsing and rendering of feeds (OPDS 1 and 2, MARC), names, titles, keywords,
  identifiers, languages, the vocabularies of subjects.  They are pure functions of
  strings, better tested than model-checked.
* Queries a user types (`external_search.py`, the classes of Query): they only score.
* Settings, logging, the fixtures of `testing.py`, the URLs of buckets, the scaling of
  images, requests to Overdrive and their retries, LCP's credential factory (which makes
  rows of the kind Credentials has), the shell of the application server.
* `HasFullTableCache`: what matters of it is when a process forgets it, and that is
  SiteConfiguration.
* In WorkLists: recently seen lists, excluded audiobook sources, license
  datasources, de-duplication, and the list that is made
  up for a patron without a root lane.
* In CoverageProvider: what the subclasses do to an item; cutoff times are a set of
  stale items.
* In OPDSImport: mapping of identifiers, and the failure of an
  offered title to have a title or an author (it then has no Work).
* In Presentation: contributors, measurements (treated as subjects are), quality,
  equivalent identifiers.  In CustomLists: annotations, the featured flag, and two
  sessions that add 1 to `size` at once.
* In DeliveryMechanisms: loans that a deletion unlocks.  In HoldQueue: two patrons'
  holds at once; the others are counted.
* In Migrations: files marked DO_NOT_EXECUTE, `--last-run-date`, and the end of the script
  by SystemExit when there is no timestamp.
* In WorkGrouping: that `merge_into` iterates over a list that shrinks meanwhile
  (`model/work.py:572`); the reassignment at `model/work.py:474` hides the difference.
* In SearchIndex: the work that is blamed for another's missing document.
* In MARCExport: what a library adds to each record when it is written
  (`annotate_work_record`), and the time between the look at a work and at its record.
* PostgreSQL and Elasticsearch: a commit is atomic, and a query sees what was
  committed.  Sessions are single transactions except where a module splits one.

## 8. Plan

All modules of the original plan are built, and all safety properties the runs check are
proved but for those that section 5 leaves to TLC (liveness aside): `GroupingSettles`
and `MeansWhatPythonSays`.  What is
left is breadth: the formats of feeds, queries that only score, and the components
that section 7 lists.
