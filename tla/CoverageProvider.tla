-------------------------- MODULE CoverageProvider --------------------------
(***************************************************************************)
(* The run loop of coverage.py's BaseCoverageProvider, with the coverage   *)
(* records it reads and writes.                                            *)
(*                                                                         *)
(* A run makes two passes over the items that need coverage: first those   *)
(* never attempted, then those that failed transiently as well.  A pass is *)
(* a loop of run_once calls; each asks the database anew for the items     *)
(* that need coverage, skips `offset` of them, takes a batch, processes it *)
(* and records the results.  The offset is the only memory of what failed  *)
(* earlier in the pass.                                                    *)
(*                                                                         *)
(* Meanwhile the application registers items whose data has changed and    *)
(* covers single items on demand, and the process may die.                 *)
(***************************************************************************)
EXTENDS Integers, FiniteSets, FiniteSetsExt

CONSTANTS
  Items,          \* database IDs of the Identifiers or Works
  BatchSize,      \* how many items one batch holds
  Settings,       \* the circumstances a provider may run under, see Setting
  MaxOutside,     \* bound: acts of the application during the run
  MaxDeaths       \* bound: times the process dies

\* ordered: does the database return the items in order of ID?  registered_only:
\* only cover items somebody registered.  poison: the items on which process_item
\* raises an exception.
Setting == [ordered: BOOLEAN, registered_only: BOOLEAN, poison: SUBSET Items]

ASSUME CoverageAssumption ==
  /\ Items \subseteq Nat /\ IsFiniteSet(Items)
  /\ BatchSize \in Nat \ {0}
  /\ Settings \subseteq Setting
  /\ MaxOutside \in Nat /\ MaxDeaths \in Nat

\* The statuses of a record; "none" is the absence of one.
Statuses  == {"none", "registered", "success", "transient", "persistent"}
Attempted == {"success", "transient", "persistent"}   \* PREVIOUSLY_ATTEMPTED
Covered   == {"success", "persistent"}                \* DEFAULT_COUNT_AS_COVERED
Results   == {"success", "transient", "persistent"}

\* Mutants of CountAsCovered: both passes retry failures, and registered items
\* are passed over.
RetryInBothPasses(p) == Covered
PassOverRegistered(p) == (IF p = 1 THEN Attempted ELSE Covered) \cup {"registered"}

CountAsCovered(p) == IF p = 1 THEN Attempted ELSE Covered

VARIABLES
  setting,    \* the circumstances of this provider
  status,     \* the coverage record of each item
  stale,      \* the items whose record is older than the cutoff time
  dirty,      \* the items changed since the data their coverage is based on was read
  pc,         \* what the provider is doing
  pass,       \* which of the two lists of statuses it counts as covered
  offset,     \* progress.offset
  finish,     \* is progress.finish set?
  exception,  \* is progress.exception set?
  batch,      \* the batch in hand
  results,    \* what process_batch returned for it
  due,        \* history: the items that needed coverage when the pass began
  tried,      \* history: the items attempted so far in the pass
  attempts,   \* history: how many attempts that were
  outside,    \* acts of the application so far
  deaths      \* deaths of the process so far

records  == <<status, stale, dirty>>
progress == <<pass, offset, finish, exception>>
history  == <<due, tried, attempts>>
world    == <<setting, outside, deaths>>
coverageVars == <<records, progress, history, world, pc, batch, results>>

-----------------------------------------------------------------------------
\* items_that_need_coverage: the query of missing_coverage_from, not_covered.
NeedCoverage(p) ==
  {i \in Items :
     /\ status[i] \notin CountAsCovered(p) \/ i \in stale
     /\ setting.registered_only => status[i] # "none"}

\* The sets `qu.limit(batch_size).offset(offset)` may return: in order of ID a
\* slice, in no particular order anything of that size.
Batches(need) ==
  LET size == Min({BatchSize, Cardinality(need) - offset})
      rank(i) == Cardinality({j \in need : j < i})
  IN  IF setting.ordered
      THEN {{i \in need : offset <= rank(i) /\ rank(i) < offset + size}}
      ELSE kSubset(size, need)

IsComplete == exception \/ finish

BeginPass(p) ==
  /\ pass' = p
  /\ offset' = 0
  /\ finish' = FALSE
  /\ due' = NeedCoverage(p)
  /\ tried' = {}
  /\ attempts' = 0

Init ==
  /\ setting \in Settings
  /\ status \in [Items -> Statuses]
  /\ stale \in SUBSET {i \in Items : status[i] # "none"}
  /\ dirty = {}
  /\ pc = "idle"
  /\ pass = 1 /\ offset = 0 /\ finish = FALSE /\ exception = FALSE
  /\ batch = {} /\ results = <<>>
  /\ due = {} /\ tried = {} /\ attempts = 0
  /\ outside = 0 /\ deaths = 0

StartRun ==
  /\ pc = "idle"
  /\ pc' = "looking"
  /\ exception' = FALSE
  /\ BeginPass(1)
  /\ UNCHANGED <<records, world, batch, results>>

\* run_once finds nothing more to do in this pass.
FindNothing ==
  /\ pc = "looking"
  /\ ~IsComplete
  /\ Cardinality(NeedCoverage(pass)) <= offset
  /\ finish' = TRUE
  /\ UNCHANGED <<records, history, world, pc, pass, offset, exception, batch, results>>

\* run_once finds a batch, which process_batch_and_handle_results turns into a list.
FindBatch ==
  /\ pc = "looking"
  /\ ~IsComplete
  /\ LET need == NeedCoverage(pass) IN
       /\ offset < Cardinality(need)
       /\ \E b \in Batches(need) : batch' = b
  /\ pc' = "working"
  /\ UNCHANGED <<records, progress, history, world, results>>

\* process_batch reads the items and covers each, more or less successfully; an
\* item it ignores counts as a transient failure.
ProcessBatch ==
  /\ pc = "working"
  /\ batch \cap setting.poison = {}
  /\ results' \in [batch -> Results]
  /\ dirty' = dirty \ {i \in batch : results'[i] = "success"}
  /\ pc' = "recording"
  /\ UNCHANGED <<status, stale, progress, history, world, batch>>

\* process_item raises; run_once_and_update_timestamp takes note and goes on.
Raise ==
  /\ pc = "working"
  /\ batch \cap setting.poison # {}
  /\ exception' = TRUE
  /\ finish' = TRUE
  /\ pc' = "looking"
  /\ batch' = {}
  /\ UNCHANGED <<records, history, world, pass, offset, results>>

Outcome(kind) == {i \in batch : results[i] = kind}

\* Mutants of OffsetIncrement: the offset stays, or moves past the whole batch.
OffsetPastBatch == Cardinality(batch)
OffsetStays == 0
\* How far run_once moves the offset, past the results that do not remove an
\* item from the query it is counting on.
OffsetIncrement ==
  Cardinality(UNION {Outcome(kind) : kind \in Results \ CountAsCovered(pass)})

\* The results become coverage records, which finalize_batch commits.
RecordResults ==
  /\ pc = "recording"
  /\ status' = [i \in Items |-> IF i \in batch THEN results[i] ELSE status[i]]
  /\ stale' = stale \ batch
  /\ offset' = offset + OffsetIncrement
  /\ tried' = tried \cup batch
  /\ attempts' = attempts + Cardinality(batch)
  /\ batch' = {}
  /\ results' = <<>>
  /\ pc' = "looking"
  /\ UNCHANGED <<dirty, pass, finish, exception, due, world>>

\* Mutant of NextPass: it begins the first pass again.
FirstPassAgain ==
  /\ pc = "looking"
  /\ IsComplete
  /\ pass = 1
  /\ BeginPass(1)
  /\ UNCHANGED <<records, exception, world, pc, batch, results>>

\* The loop of the first pass is over.
NextPass ==
  /\ pc = "looking"
  /\ IsComplete
  /\ pass = 1
  /\ BeginPass(2)
  /\ UNCHANGED <<records, exception, world, pc, batch, results>>

EndRun ==
  /\ pc = "looking"
  /\ IsComplete
  /\ pass = 2
  /\ pc' = "idle"
  /\ UNCHANGED <<records, progress, history, world, batch, results>>

Step == FindNothing \/ FindBatch \/ ProcessBatch \/ Raise \/ RecordResults
        \/ NextPass \/ EndRun

-----------------------------------------------------------------------------
(* The world around the provider.                                          *)

\* An item changes, and whoever changes it registers it for coverage
\* (Work._reset_coverage, bulk_register with force).
ChangeItem(i) ==
  /\ outside < MaxOutside
  /\ outside' = outside + 1
  /\ status' = [status EXCEPT ![i] = "registered"]
  /\ dirty' = dirty \cup {i}
  /\ stale' = stale \ {i}
  /\ UNCHANGED <<progress, history, setting, deaths, pc, batch, results>>

\* bulk_register without force: an item that has a record keeps it.
RegisterItem(i) ==
  /\ outside < MaxOutside
  /\ status[i] = "none"
  /\ outside' = outside + 1
  /\ status' = [status EXCEPT ![i] = "registered"]
  /\ UNCHANGED <<stale, dirty, progress, history, setting, deaths, pc, batch, results>>

\* should_update
ShouldUpdate(i) == status[i] \in {"none", "registered"} \/ i \in stale

\* ensure_coverage, in some other process.
EnsureCoverage(i) ==
  /\ outside < MaxOutside
  /\ ShouldUpdate(i)
  /\ i \notin setting.poison
  /\ outside' = outside + 1
  /\ \E r \in Results :
       /\ status' = [status EXCEPT ![i] = r]
       /\ dirty' = IF r = "success" THEN dirty \ {i} ELSE dirty
  /\ stale' = stale \ {i}
  /\ UNCHANGED <<progress, history, setting, deaths, pc, batch, results>>

\* The process is killed, or the database fails under it: finalize_timestampdata
\* cannot commit, and its exception ends the run.  What was not committed is lost.
Die ==
  /\ pc # "idle"
  /\ deaths < MaxDeaths
  /\ deaths' = deaths + 1
  /\ pc' = "idle"
  /\ batch' = {}
  /\ results' = <<>>
  /\ UNCHANGED <<records, progress, history, setting, outside>>

Next ==
  \/ StartRun
  \/ Step
  \/ \E i \in Items : ChangeItem(i) \/ RegisterItem(i) \/ EnsureCoverage(i)
  \/ Die

\* The run loop is straight-line code: it takes its next step.
Spec == Init /\ [][Next]_coverageVars /\ WF_coverageVars(Step)

\* The script is started by cron again and again.
FairSpec == Spec /\ WF_coverageVars(StartRun)

-----------------------------------------------------------------------------
TypeOK ==
  /\ setting \in Settings
  /\ status \in [Items -> Statuses]
  /\ stale \subseteq Items /\ dirty \subseteq Items
  /\ pc \in {"idle", "looking", "working", "recording"}
  /\ pass \in {1, 2} /\ offset \in Nat
  /\ finish \in BOOLEAN /\ exception \in BOOLEAN
  /\ batch \subseteq Items
  /\ IF pc = "recording" THEN results \in [batch -> Results] ELSE results = <<>>
  /\ due \subseteq Items /\ tried \subseteq Items /\ attempts \in Nat
  /\ outside \in 0..MaxOutside /\ deaths \in 0..MaxDeaths

\* The first pass does not end, unless by an exception, while an item remains
\* that was never attempted -- even one registered while the pass was running:
\* every result counts as covered in this pass, so its offset stays at zero.
FirstPassLeavesNothingUnattempted ==
  [][(pass = 1 /\ ~finish /\ finish' /\ ~exception') => NeedCoverage(1) = {}]_coverageVars

\* A pass makes no more attempts than there were items to cover when it began,
\* plus one for each act of the application: an item that fails transiently is
\* not tried for ever, even by a database that returns items in no order.
AttemptsBounded == attempts <= Cardinality(due) + outside

\* Whether the database happens to return the items in order, although the
\* query has no order_by, and nobody registers, changes or covers one during
\* the run.
Undisturbed == setting.ordered /\ outside = 0

\* "If any transient failures happened in this batch, increase the offset to
\* ignore them" (run_once): provided the run is undisturbed, when the second pass
\* ends, without an exception, everything that still lacks coverage has been
\* given its chance in that pass.
InOrderNothingIsSkipped ==
  [][(Undisturbed /\ pass = 2 /\ ~finish /\ finish' /\ ~exception')
     => NeedCoverage(2) \subseteq tried]_coverageVars

\* Every run ends: each batch removes its items from the query or adds them to
\* the offset, and an exception ends both passes.  If no item is poisonous,
\* whatever is registered is eventually attempted, although the process may die in
\* the middle of a run.  And an undisturbed run skips nothing.
RunsEndAndReachAll ==
  /\ pc # "idle" ~> pc = "idle"
  /\ \A i \in Items :
       (setting.poison = {} /\ status[i] = "registered") ~> status[i] \in Attempted
  /\ InOrderNothingIsSkipped

\* "This is useful for erasing the record of work that was done, so that
\* automated scripts know the work needs to be done again" (Work._reset_coverage):
\* an item that changed is not counted as successfully covered until it has
\* been processed again.
ChangesAreCovered == \A i \in dirty : status[i] # "success"
=============================================================================
