----------------------------- MODULE Migrations -----------------------------
(***************************************************************************)
(* scripts.py's DatabaseMigrationScript: which of the migration files of a *)
(* release are run, in what order, and how the two Timestamps (of all      *)
(* migrations, and of the Python ones) remember where it got to when a run *)
(* is interrupted.  A file's name holds its date and perhaps a counter.    *)
(***************************************************************************)
EXTENDS Integers

CONSTANTS
  Files,        \* the migration files there will ever be
  MayGoWrong    \* the Python files whose subprocess may fail

Kinds == {"sql", "py"}
ASSUME MigrationsAssumption ==
  /\ \A f \in Files : f.kind \in Kinds /\ f.date \in Nat /\ f.counter \in Nat /\ f.id \in Nat
  /\ MayGoWrong \subseteq {f \in Files : f.kind = "py"}

VARIABLES
  released,     \* the files this version of the code comes with
  overall,      \* the Timestamp "Database Migration": [date, counter]
  python,       \* the Timestamp "Database Migration - Python"
  pending,      \* what the run in progress has yet to run or to stamp
  running,      \* is there one?
  pythonOnly,   \* was it started with --python-only?
  unstamped,    \* the file that was run and not yet stamped, at most one
  ran,          \* history: the files that have been run
  passedOver,   \* history: the Python files that have failed and were stamped
  outOfTurn,    \* history: those that runs with --python-only have run
  interrupted   \* history: has a run ever been cut off?

history == <<ran, passedOver, outOfTurn, interrupted>>
migrationVars ==
  <<released, overall, python, pending, running, pythonOnly, unstamped, history>>

-----------------------------------------------------------------------------
(* sort_migrations: SQL before Python, then by date, then by counter.  (Two  *)
(* files with the same date and no counter keep the order of the directory.) *)
SortsBefore(f, g) ==
  \/ f.kind = "sql" /\ g.kind = "py"
  \/ f.kind = g.kind /\ f.date < g.date
  \/ f.kind = g.kind /\ f.date = g.date /\ f.counter < g.counter
  \/ f.kind = g.kind /\ f.date = g.date /\ f.counter = g.counter /\ f.id < g.id

IsFirst(f, files) == f \in files /\ \A g \in files \ {f} : SortsBefore(f, g)
IsLast(f, files)  == f \in files /\ \A g \in files \ {f} : SortsBefore(g, f)

\* _is_matching_migration.
IsMatch(f, stamp) == f.date = stamp.date /\ (stamp.counter = 0 \/ f.counter = stamp.counter)
IsAfter(f, stamp) ==
  \/ f.date > stamp.date
  \/ f.date = stamp.date /\ stamp.counter # 0 /\ f.counter > stamp.counter

\* get_new_migrations: what sorts after the first file that the timestamp is of,
\* or before.
NewMigrations(stamp, files) ==
  LET recent == {f \in files : f.date >= stamp.date}
  IN  {f \in recent : \/ IsAfter(f, stamp)
                      \/ \E g \in recent : (IsMatch(g, stamp) \/ IsAfter(g, stamp)) /\ SortsBefore(g, f)}

Stamp(f) == [date |-> f.date, counter |-> f.counter]

\* update_timestamps: the overall timestamp never moves back ...
Overall(stamp, f) ==
  IF stamp.date > f.date \/ (stamp.date = f.date /\ (f.counter = 0 \/ stamp.counter > f.counter))
  THEN stamp ELSE Stamp(f)
\* ... and the Python one is always that of the last Python file.
Python(stamp, f) == IF f.kind = "py" THEN Stamp(f) ELSE stamp

-----------------------------------------------------------------------------
OfKind(kind, files) == {f \in files : f.kind = kind}

\* DatabaseMigrationInitializationScript, on the database of a first release.
Never == [date |-> 0, counter |-> 0]
MigrationsInit ==
  /\ \E first \in Files : released = {f \in Files : f.date <= first.date}
  /\ \E s, p \in released :
       /\ IsLast(s, OfKind("sql", released)) /\ IsLast(p, OfKind("py", released))
       /\ overall = Overall(Overall(Never, s), p) /\ python = Stamp(p)
  /\ pending = {} /\ running = FALSE /\ pythonOnly = FALSE /\ unstamped = {}
  /\ ran = released
  /\ passedOver = {} /\ outOfTurn = {} /\ interrupted = FALSE

\* A release brings files dated later than those of the releases before it.
Release ==
  /\ ~running
  /\ \E date \in {f.date : f \in Files \ released} :
       released' = {f \in Files : f.date <= date}
  /\ UNCHANGED <<overall, python, pending, running, pythonOnly, unstamped, history>>

\* run: find the timestamp, and the files that are new since then.
StartMigrating ==
  /\ ~running
  /\ running' = TRUE
  /\ pythonOnly' \in BOOLEAN
  /\ pending' = IF pythonOnly' THEN NewMigrations(python, OfKind("py", released))
             ELSE NewMigrations(overall, released)
  /\ UNCHANGED <<released, overall, python, unstamped, ran, passedOver, outOfTurn, interrupted>>

\* _run_migration: an SQL file commits its own transaction; nobody looks at the
\* exit code of a Python file.
RunMigration ==
  /\ running /\ unstamped = {}
  /\ \E f \in pending :
       /\ IsFirst(f, pending)
       /\ unstamped' = {f}
       /\ outOfTurn' = IF pythonOnly THEN outOfTurn \cup {f} ELSE outOfTurn
       /\ ran' = ran \cup {f} \/ (f \in MayGoWrong /\ ran' = ran)
  /\ UNCHANGED <<released, overall, python, pending, running, pythonOnly, passedOver, interrupted>>

\* Mutant of StampMigration: the timestamp is that of the end of the run.
StampLast ==
  /\ running
  /\ \E f \in unstamped, last \in pending :
       /\ IsLast(last, pending)
       /\ pending' = pending \ {f} /\ unstamped' = {}
       /\ passedOver' = passedOver \cup ({f} \ ran)
       /\ overall' = Overall(overall, last) /\ python' = Python(python, last)
  /\ UNCHANGED <<released, running, pythonOnly, ran, outOfTurn, interrupted>>

\* update_timestamps, and the commit in run_migrations: a file that has failed is
\* stamped like one that ran.
StampMigration ==
  /\ running
  /\ \E f \in unstamped :
       /\ pending' = pending \ {f} /\ unstamped' = {}
       /\ passedOver' = passedOver \cup ({f} \ ran)
       /\ overall' = Overall(overall, f) /\ python' = Python(python, f)
  /\ UNCHANGED <<released, running, pythonOnly, ran, outOfTurn, interrupted>>

\* An SQL file raises an exception, or the process dies.
CutOff ==
  /\ running
  /\ running' = FALSE /\ interrupted' = TRUE
  /\ pending' = {} /\ unstamped' = {}
  /\ UNCHANGED <<released, overall, python, pythonOnly, ran, passedOver, outOfTurn>>

\* All new migrations have been run.
FinishMigrating ==
  /\ running /\ pending = {}
  /\ running' = FALSE
  /\ UNCHANGED <<released, overall, python, pending, pythonOnly, unstamped, history>>

MigrationsNext ==
  Release \/ StartMigrating \/ RunMigration \/ StampMigration \/ CutOff \/ FinishMigrating

MigrationsSpec == MigrationsInit /\ [][MigrationsNext]_migrationVars

-----------------------------------------------------------------------------
Missing == released \ ran

\* Three things cost a file its run, for good.  A Python file whose subprocess fails is
\* stamped (_run_migration looks at no exit code).  SQL files are run before Python
\* files, so an interruption can cost a Python file that an SQL file of the same or a
\* later date has overtaken.  And a run with --python-only moves the overall timestamp
\* too, which can cost the SQL files that are no newer than what it ran.  Nothing else
\* does: whatever is undone when a run of all migrations ends is one of these.  (A
\* Python file that fails and is cut off before its stamp is found again.)
OnlyFailedOrOvertakenFilesAreLost ==
  [][(running /\ ~running' /\ pending = {} /\ ~pythonOnly)
     => \A f \in Missing :
          \/ f \in passedOver
          \/ /\ interrupted
             /\ f.kind = "py"
             /\ \E g \in ran : g.kind = "sql" /\ g.date >= f.date
          \/ /\ f.kind = "sql"
             /\ \E g \in outOfTurn : g.date >= f.date]_migrationVars

=============================================================================
