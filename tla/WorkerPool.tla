----------------------------- MODULE WorkerPool -----------------------------
(***************************************************************************)
(* util/worker_pools.py: a Pool of Worker threads that take jobs from a    *)
(* Queue.  The main thread puts jobs into the pool and, on leaving the     *)
(* pool's `with` block, joins the queue: it waits until task_done has been *)
(* called for every job put.                                               *)
(***************************************************************************)
EXTENDS Integers, Sequences, FiniteSets

CONSTANTS
  Workers,   \* the threads of the pool
  MaxJobs    \* bound: jobs put into it

ASSUME WorkersAssumption == IsFiniteSet(Workers) /\ MaxJobs \in Nat

VARIABLES
  main,        \* what the main thread is doing: "putting", "joining" or "done"
  queue,       \* the jobs nobody has taken, numbered in the order they were put
  unfinished,  \* the queue's count of jobs whose task_done is still to come
  job_total,   \* Pool.job_total
  error_count, \* Pool.error_count
  state,       \* what each worker is doing
  job,         \* the job each worker has in hand, or 0
  read,        \* the error_count a worker is about to add one to
  failed       \* history: the jobs that raised an exception

poolVars == <<main, queue, unfinished, job_total, error_count, state, job, read, failed>>

WorkerStates == {"getting", "running", "failing", "counting", "ending"}

PoolInit ==
  /\ main = "putting"
  /\ queue = <<>> /\ unfinished = 0 /\ job_total = 0 /\ error_count = 0
  /\ state = [w \in Workers |-> "getting"]
  /\ job = [w \in Workers |-> 0]
  /\ read = [w \in Workers |-> 0]
  /\ failed = {}

-----------------------------------------------------------------------------
(* The main thread.                                                        *)
Put ==
  /\ main = "putting"
  /\ job_total < MaxJobs
  /\ job_total' = job_total + 1
  /\ queue' = Append(queue, job_total + 1)
  /\ unfinished' = unfinished + 1
  /\ UNCHANGED <<main, error_count, state, job, read, failed>>

\* Pool.__exit__
Join ==
  /\ main = "putting"
  /\ main' = "joining"
  /\ UNCHANGED <<queue, unfinished, job_total, error_count, state, job, read, failed>>

\* Mutant of Joined: it waits only until every job has been taken.
JoinedWhenTaken ==
  /\ main = "joining"
  /\ queue = <<>>
  /\ main' = "done"
  /\ UNCHANGED <<queue, unfinished, job_total, error_count, state, job, read, failed>>

Joined ==
  /\ main = "joining"
  /\ unfinished = 0
  /\ main' = "done"
  /\ UNCHANGED <<queue, unfinished, job_total, error_count, state, job, read, failed>>

(* A worker: run, do_job.                                                  *)
Get(w) ==
  /\ state[w] = "getting"
  /\ queue # <<>>
  /\ job' = [job EXCEPT ![w] = Head(queue)]
  /\ queue' = Tail(queue)
  /\ state' = [state EXCEPT ![w] = "running"]
  /\ UNCHANGED <<main, unfinished, job_total, error_count, read, failed>>

Succeed(w) ==
  /\ state[w] = "running"
  /\ state' = [state EXCEPT ![w] = "ending"]
  /\ UNCHANGED <<main, queue, unfinished, job_total, error_count, job, read, failed>>

Fail(w) ==
  /\ state[w] = "running"
  /\ state' = [state EXCEPT ![w] = "failing"]
  /\ failed' = failed \cup {job[w]}
  /\ UNCHANGED <<main, queue, unfinished, job_total, error_count, job, read>>

\* inc_error is `self.error_count += 1`, without a lock: another worker may
\* come between its load and its store.
Load(w) ==
  /\ state[w] = "failing"
  /\ read' = [read EXCEPT ![w] = error_count]
  /\ state' = [state EXCEPT ![w] = "counting"]
  /\ UNCHANGED <<main, queue, unfinished, job_total, error_count, job, failed>>

Store(w) ==
  /\ state[w] = "counting"
  /\ error_count' = read[w] + 1
  /\ read' = [read EXCEPT ![w] = 0]
  /\ state' = [state EXCEPT ![w] = "ending"]
  /\ UNCHANGED <<main, queue, unfinished, job_total, job, failed>>

\* Mutant of TaskDone: it is not in the finally clause.
TaskDoneUnlessFailed(w) ==
  /\ state[w] = "ending"
  /\ unfinished' = IF job[w] \in failed THEN unfinished ELSE unfinished - 1
  /\ job' = [job EXCEPT ![w] = 0]
  /\ state' = [state EXCEPT ![w] = "getting"]
  /\ UNCHANGED <<main, queue, job_total, error_count, read, failed>>

\* The finally clause.
TaskDone(w) ==
  /\ state[w] = "ending"
  /\ unfinished' = unfinished - 1
  /\ job' = [job EXCEPT ![w] = 0]
  /\ state' = [state EXCEPT ![w] = "getting"]
  /\ UNCHANGED <<main, queue, job_total, error_count, read, failed>>

Work(w) == Get(w) \/ Succeed(w) \/ Fail(w) \/ Load(w) \/ Store(w) \/ TaskDone(w)

PoolNext == Put \/ Join \/ Joined \/ \E w \in Workers : Work(w)

\* What the threads of any pool may do, whatever their jobs are: whoever builds
\* jobs on a pool leaves its queue, its counts and its workers to it.
PoolBehaves == PoolInit /\ [][PoolNext]_poolVars

-----------------------------------------------------------------------------
PoolTypeOK ==
  /\ main \in {"putting", "joining", "done"}
  /\ job_total \in 0..MaxJobs
  /\ queue \in Seq(1..job_total)
  /\ unfinished \in Nat
  /\ error_count \in Nat
  /\ state \in [Workers -> WorkerStates]
  /\ job \in [Workers -> 0..job_total]
  /\ read \in [Workers -> Nat]
  /\ failed \subseteq 1..job_total

\* When join returns nobody is at work any more: no job waits, and no worker
\* still has to finish one or to count its error.
JoinWaits == main = "done" => queue = <<>> /\ \A w \in Workers : state[w] = "getting"

\* Unlocked as it is, the error count never exceeds the number of failed jobs;
\* it may miss some of them, but when join returns it has not missed them all,
\* so that a pool whose jobs failed never reports that none did.
SomeErrorsCounted ==
  /\ error_count <= Cardinality(failed)
  /\ main = "done" /\ failed # {} => error_count > 0
=============================================================================
