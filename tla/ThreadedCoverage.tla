-------------------------- MODULE ThreadedCoverage --------------------------
(***************************************************************************)
(* scripts.py's RunThreadedCollectionCoverageProviderScript, for one       *)
(* collection: the main thread counts the items that need coverage and     *)
(* gives the WorkerPool one job for each batch of them, which says how     *)
(* many items to skip.  A job (CollectionCoverageProviderJob.run) is one   *)
(* run_once of the coverage provider in the worker's own database session. *)
(***************************************************************************)
EXTENDS WorkerPool

CONSTANTS
  Backlog,       \* database IDs of the Identifiers
  JobSize    \* the provider's batch_size

ASSUME ThreadedAssumption ==
  /\ Backlog \subseteq Nat /\ IsFiniteSet(Backlog)
  /\ JobSize \in Nat \ {0}

VARIABLES
  covered,     \* the items with a record that counts as covered
  attempted,   \* history: the items some job attempted
  query_size,  \* what the main thread counted, or -1
  taken,       \* the batch each worker has read and not yet recorded
  hasRead,     \* has the worker's job read its batch?
  poisoned     \* workers whose database session awaits a rollback

threadVars == <<covered, attempted, query_size, taken, hasRead, poisoned>>

StillNeeded == Backlog \ covered

\* `qu.limit(batch_size).offset(offset)`, in order of ID.
Slice(offset) ==
  LET rank(i) == Cardinality({j \in StillNeeded : j < i})
  IN  {i \in StillNeeded : offset <= rank(i) /\ rank(i) < offset + JobSize}

\* The offset of the n-th job.
OffsetOf(n) == (n - 1) * JobSize

ThreadedInit ==
  /\ PoolInit
  /\ covered = {} /\ attempted = {}
  /\ query_size = -1
  /\ taken = [w \in Workers |-> {}]
  /\ hasRead = [w \in Workers |-> FALSE]
  /\ poisoned = {}

\* get_query_and_batch_sizes
CountItems ==
  /\ query_size = -1
  /\ query_size' = Cardinality(StillNeeded)
  /\ UNCHANGED <<poolVars, covered, attempted, taken, hasRead, poisoned>>

MoreToPut == OffsetOf(job_total + 1) < query_size

PutJob == query_size # -1 /\ MoreToPut /\ Put /\ UNCHANGED threadVars
JoinAll == query_size # -1 /\ ~MoreToPut /\ Join /\ UNCHANGED threadVars
AllJoined == Joined /\ UNCHANGED threadVars

\* The worker's part that is the pool's.
Idle(w) == (Get(w) \/ Load(w) \/ Store(w) \/ TaskDone(w)) /\ UNCHANGED threadVars

\* run_once asks for its batch ...
ReadBatch(w) ==
  /\ state[w] = "running" /\ w \notin poisoned
  /\ ~hasRead[w]
  /\ hasRead' = [hasRead EXCEPT ![w] = TRUE]
  /\ taken' = [taken EXCEPT ![w] = Slice(OffsetOf(job[w]))]
  /\ UNCHANGED <<poolVars, covered, attempted, query_size, poisoned>>

\* ... and process_batch_and_handle_results processes it and commits.  Backlog
\* that fail transiently still need coverage.
RecordBatch(w) ==
  /\ hasRead[w]
  /\ Succeed(w)
  /\ \E fails \in SUBSET taken[w] :
       covered' = (covered \ fails) \cup (taken[w] \ fails)
  /\ attempted' = attempted \cup taken[w]
  /\ taken' = [taken EXCEPT ![w] = {}]
  /\ hasRead' = [hasRead EXCEPT ![w] = FALSE]
  /\ UNCHANGED <<query_size, poisoned>>

\* Something raises.  CollectionCoverageProviderJob has a run of its own, which
\* does not call the rollback of DatabaseJob.run: if it was the database that
\* failed, the session raises on every use from now on.
JobRaises(w) ==
  /\ Fail(w)
  /\ poisoned' \in {poisoned, poisoned \cup {w}}
  /\ taken' = [taken EXCEPT ![w] = {}]
  /\ hasRead' = [hasRead EXCEPT ![w] = FALSE]
  /\ UNCHANGED <<covered, attempted, query_size>>

ThreadedNext ==
  \/ CountItems \/ PutJob \/ JoinAll \/ AllJoined
  \/ \E w \in Workers : Idle(w) \/ ReadBatch(w) \/ RecordBatch(w) \/ JobRaises(w)

\* One step of a worker thread.
WorkerStep(w) == Idle(w) \/ ReadBatch(w) \/ RecordBatch(w) \/ JobRaises(w)

MainStep == CountItems \/ PutJob \/ JoinAll \/ AllJoined

\* Threads are scheduled fairly: the main thread counts, puts and joins, and a
\* job that runs ends, one way or the other.
ThreadedSpec ==
  /\ ThreadedInit /\ [][ThreadedNext]_<<poolVars, threadVars>>
  /\ \A w \in Workers : WF_<<poolVars, threadVars>>(WorkerStep(w))
  /\ WF_<<poolVars, threadVars>>(MainStep)

-----------------------------------------------------------------------------
\* A script that has counted its items comes to an end, however many jobs fail and
\* whichever sessions break: every job it put is accounted for by one task_done.
ScriptEnds == query_size # -1 ~> main = "done"

\* The script leaves the pool's `with` block only after the last coverage
\* record was written: what it reports is what was done.
NothingRecordedAfterwards ==
  [][main = "done" => UNCHANGED <<covered, attempted>>]_<<poolVars, threadVars>>

\* "All relevant identifiers have been given coverage" (test_run of
\* TestRunThreadedCollectionCoverageProviderScript): when every job of a script
\* has succeeded, no item that needed coverage has been left out.
AllAreAttempted == main = "done" /\ failed = {} => attempted = Backlog
=============================================================================
