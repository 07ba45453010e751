---------------------------- MODULE SweepMonitor ----------------------------
(***************************************************************************)
(* monitor.py's SweepMonitor: it processes every row of a table, a batch   *)
(* at a time in order of ID, and keeps the ID it got to in the counter of  *)
(* its Timestamp.  Meanwhile rows come and go; items may raise, and the    *)
(* process may die.                                                        *)
(***************************************************************************)
EXTENDS Integers, FiniteSets, FiniteSetsExt

CONSTANTS
  MaxId,      \* bound: the highest ID
  BatchSize,  \* SweepMonitor.batch_size
  MayRaise,   \* the rows process_item may raise an exception on
  MaxDeaths   \* bound: times the process dies

Ids == 1..MaxId   \* the primary keys of the table

ASSUME SweepAssumption ==
  /\ MaxId \in Nat
  /\ BatchSize \in Nat \ {0}
  /\ MayRaise \subseteq Ids
  /\ MaxDeaths \in Nat

VARIABLES
  table,      \* the rows there are
  unborn,     \* the IDs no row has had yet
  poison,     \* the rows process_item raises an exception on, for now
  counter,    \* Timestamp.counter
  failed,     \* is Timestamp.exception set?
  stage,      \* "idle", "fetching" a batch or "processing" one
  offset,     \* run_once's offset
  items,      \* the batch
  todo,       \* what is left of it
  done,       \* history: the rows processed since the sweep began
  doneBefore, \* history: `done` when the batch was fetched
  steady,     \* history: the rows that have been there since it began
  deaths      \* deaths of the process so far

sweepVars ==
  <<table, unborn, poison, counter, failed, stage, offset, items, todo, done, doneBefore, steady, deaths>>

SweepInit ==
  /\ table \in SUBSET Ids
  /\ unborn = Ids \ table
  /\ poison \in SUBSET MayRaise
  /\ counter = 0 /\ failed = FALSE
  /\ stage = "idle" /\ offset = 0
  /\ items = {} /\ todo = {}
  /\ done = {} /\ doneBefore = {} /\ steady = table
  /\ deaths = 0

-----------------------------------------------------------------------------
(* The table.  A row with a lower ID may appear after one with a higher.   *)
Insert(i) ==
  /\ i \in unborn
  /\ unborn' = unborn \ {i}
  /\ table' = table \cup {i}
  /\ UNCHANGED <<poison, counter, failed, stage, offset, items, todo, done, doneBefore, steady, deaths>>

Delete(i) ==
  /\ i \in table
  /\ table' = table \ {i}
  /\ steady' = steady \ {i}
  /\ UNCHANGED <<unborn, poison, counter, failed, stage, offset, items, todo, done, doneBefore, deaths>>

\* Whatever made process_item raise is put right.
Mend(i) ==
  /\ i \in poison
  /\ poison' = poison \ {i}
  /\ UNCHANGED <<table, unborn, counter, failed, stage, offset, items, todo, done, doneBefore>>
  /\ UNCHANGED <<steady, deaths>>

-----------------------------------------------------------------------------
(* The monitor.                                                            *)
StartSweep ==
  /\ stage = "idle"
  /\ stage' = "fetching"
  /\ offset' = counter
  /\ UNCHANGED <<table, unborn, poison, counter, failed, items, todo, done, doneBefore, steady, deaths>>

\* fetch_batch: the rows past the offset, in order of ID, up to the limit.
Ahead == {i \in table : i > offset}
\* Mutant of IsBatch: the query is not ordered.
IsAnyBatch(b) ==
  b \subseteq Ahead /\ Cardinality(b) = Min({BatchSize, Cardinality(Ahead)})

IsBatch(b) ==
  /\ b \subseteq Ahead
  /\ Cardinality(b) = Min({BatchSize, Cardinality(Ahead)})
  /\ \A i \in b, j \in Ahead \ b : i < j

FetchBatch ==
  /\ stage = "fetching"
  /\ Ahead # {}
  /\ \E b \in SUBSET Ahead : IsBatch(b) /\ items' = b
  /\ todo' = items'
  /\ doneBefore' = done
  /\ stage' = "processing"
  /\ UNCHANGED <<table, unborn, poison, counter, failed, offset, done, steady, deaths>>

ProcessItem(i) ==
  /\ stage = "processing"
  /\ i \in todo /\ \A j \in todo : i <= j
  /\ i \notin poison
  /\ todo' = todo \ {i}
  /\ done' = done \cup {i}
  /\ UNCHANGED <<table, unborn, poison, counter, failed, stage, offset, items, doneBefore, steady, deaths>>

\* The batch is complete: remember the ID of its last item.  Timestamp.update
\* also clears the exception.
CompleteBatch ==
  /\ stage = "processing"
  /\ todo = {}
  /\ offset' = Max(items)
  /\ counter' = offset'
  /\ failed' = FALSE
  /\ items' = {} /\ doneBefore' = {}
  /\ stage' = "fetching"
  /\ UNCHANGED <<table, unborn, poison, todo, done, steady, deaths>>

\* Mutant of CompleteSweep: the counter is not reset.
CompleteWithoutReset ==
  /\ stage = "fetching"
  /\ Ahead = {}
  /\ stage' = "idle"
  /\ done' = {} /\ steady' = table
  /\ UNCHANGED <<table, unborn, poison, counter, failed, offset, items, todo, doneBefore, deaths>>

\* There are no more rows: the sweep is complete and the next one starts over.
CompleteSweep ==
  /\ stage = "fetching"
  /\ Ahead = {}
  /\ stage' = "idle"
  /\ counter' = 0 /\ offset' = 0
  /\ failed' = FALSE
  /\ done' = {} /\ steady' = table
  /\ UNCHANGED <<table, unborn, poison, items, todo, doneBefore, deaths>>

\* process_item raises: Monitor.run stores the exception, and commits what was
\* done of the batch, but not that it was done.
Raise ==
  /\ stage = "processing"
  /\ \E i \in todo \cap poison : \A j \in todo : i <= j
  /\ failed' = TRUE
  /\ stage' = "idle"
  /\ items' = {} /\ todo' = {} /\ doneBefore' = {}
  /\ UNCHANGED <<table, unborn, poison, counter, offset, done, steady, deaths>>

\* The process dies.  What it did of the batch in hand was not committed,
\* unless process_item commits for itself.
SweepDies ==
  /\ stage # "idle"
  /\ deaths < MaxDeaths
  /\ deaths' = deaths + 1
  /\ stage' = "idle"
  /\ IF stage = "processing" THEN done' \in {doneBefore, done} ELSE done' = done
  /\ items' = {} /\ todo' = {} /\ doneBefore' = {}
  /\ UNCHANGED <<table, unborn, poison, counter, failed, offset, steady>>

SweepGoesOn == StartSweep \/ FetchBatch \/ (\E i \in Ids : ProcessItem(i)) \/ CompleteBatch
       \/ CompleteSweep \/ Raise

SweepNext == SweepGoesOn \/ SweepDies \/ \E i \in Ids : Insert(i) \/ Delete(i) \/ Mend(i)

\* The monitor is run again and again, and a run goes on until it ends.
SweepSpec == SweepInit /\ [][SweepNext]_sweepVars /\ WF_sweepVars(SweepGoesOn)

-----------------------------------------------------------------------------
SweepTypeOK ==
  /\ table \subseteq Ids /\ unborn \subseteq Ids /\ poison \subseteq Ids /\ steady \subseteq table
  /\ counter \in Nat /\ offset \in Nat
  /\ failed \in BOOLEAN
  /\ stage \in {"idle", "fetching", "processing"}
  /\ todo \subseteq items /\ items \subseteq Ids
  /\ doneBefore \subseteq done /\ done \subseteq Ids
  /\ deaths \in 0..MaxDeaths

\* A sweep is complete only when every row that was there from its beginning
\* to its end has been processed, however many runs it took, whatever rows
\* came and went, and wherever the process died.
SweepsAreComplete ==
  [][(stage = "fetching" /\ stage' = "idle" /\ deaths' = deaths) => steady \subseteq done]_sweepVars

\* The counter never gets ahead of the work: what is behind it has been
\* processed in this sweep or was not there when it began.
CounterIsHonest == \A i \in steady : i <= counter => i \in done

\* Once no item makes process_item raise, every row that stays is processed,
\* although it may have appeared behind the counter, in a sweep that is resumed.
EveryRowIsProcessed ==
  \A i \in Ids : (i \in table /\ poison = {}) ~> (i \in done \/ i \notin table)
=============================================================================
