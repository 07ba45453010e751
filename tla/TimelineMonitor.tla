-------------------------- MODULE TimelineMonitor --------------------------
(***************************************************************************)
(* monitor.py's TimelineMonitor: a Monitor that processes everything that  *)
(* happened at some vendor since its last run, in slices of time           *)
(* (slice_timespan), and remembers in its Timestamp how far it got.  An    *)
(* event may come to be visible at the vendor only some time after it      *)
(* happened; each run looks back OVERLAP beyond the end of the last one.   *)
(***************************************************************************)
EXTENDS Integers

CONSTANTS
  None,          \* Python's None
  Overlap,       \* TimelineMonitor.OVERLAP
  DefaultStart,  \* how long before its creation a new monitor starts looking
  Increment,     \* the length of a slice
  Delays,        \* how long the vendor's events may take to become visible
  MayFail,       \* may catch_up_from fail?
  MaxEvents,     \* bound: events that happen
  MaxTime        \* bound: the clock stops here

ASSUME TimelineAssumption ==
  /\ None \notin Int
  /\ Overlap \in Nat /\ DefaultStart \in Nat /\ Increment \in Nat \ {0}
  /\ Delays \subseteq Nat
  /\ MayFail \in BOOLEAN
  /\ MaxEvents \in Nat /\ MaxTime \in Nat

VARIABLES
  now,       \* utc_now()
  events,    \* what happened: [id, date, visible]
  handled,   \* the events that were processed and committed, or soon will be
  finish,    \* Timestamp.finish
  exception, \* is Timestamp.exception set?
  pc,        \* "idle" or "running" run_once
  start,     \* run_once's start ...
  cutoff,    \* ... and cutoff
  slice,     \* where the next slice of the run begins
  before,    \* history: `handled` when the run began
  origin     \* history: where the first run that counts began, or None

timelineVars ==
  <<now, events, handled, finish, exception, pc, start, cutoff, slice, before, origin>>

Event == [id: Nat, date: Int, visible: Int]

TimelineInit ==
  /\ now = DefaultStart + 1
  /\ events = {} /\ handled = {}
  /\ finish = None /\ exception = FALSE
  /\ pc = "idle" /\ start = 0 /\ cutoff = 0 /\ slice = 0
  /\ before = {} /\ origin = None

-----------------------------------------------------------------------------
(* The vendor, and time.                                                   *)
Happen ==
  /\ \A e \in events : e.id < MaxEvents
  /\ \E delay \in Delays, id \in 1..MaxEvents :
       /\ \A e \in events : e.id < id
       /\ \A j \in 1..(id - 1) : \E e \in events : e.id = j
       /\ events' = events \cup {[id |-> id, date |-> now, visible |-> now + delay]}
  /\ UNCHANGED <<now, handled, finish, exception, pc, start, cutoff, slice, before, origin>>

Tick ==
  /\ now < MaxTime
  /\ now' = now + 1
  /\ UNCHANGED <<events, handled, finish, exception, pc, start, cutoff, slice, before, origin>>

-----------------------------------------------------------------------------
(* The monitor.                                                            *)

\* Mutant of StartTime: no overlap.
StartWithoutOverlap == IF finish = None THEN now - DefaultStart ELSE finish

\* Where a run starts: behind the end of the last one that succeeded, or, as
\* long as none has, at a default computed when the Monitor object was made.
StartTime == IF finish = None THEN now - DefaultStart ELSE finish - Overlap

\* Monitor.run, TimelineMonitor.run_once up to catch_up_from.
StartRun ==
  /\ pc = "idle"
  /\ pc' = "running"
  /\ start' = StartTime /\ slice' = StartTime
  /\ cutoff' = now
  /\ before' = handled
  /\ origin' = IF finish = None THEN StartTime ELSE origin
  /\ UNCHANGED <<now, events, handled, finish, exception>>

SliceCutoff == IF slice + Increment > cutoff THEN cutoff ELSE slice + Increment

\* catch_up_from asks the vendor about one slice of slice_timespan.
CatchUp ==
  /\ pc = "running"
  /\ slice < cutoff
  /\ handled' = handled \cup
       {e \in events : slice <= e.date /\ e.date <= SliceCutoff /\ e.visible <= now}
  /\ slice' = slice + Increment
  /\ UNCHANGED <<now, events, finish, exception, pc, start, cutoff, before, origin>>

\* Every slice is done: the Timestamp now covers everything up to the cutoff.
Finish ==
  /\ pc = "running"
  /\ slice >= cutoff
  /\ pc' = "idle"
  /\ finish' = cutoff
  /\ exception' = FALSE
  /\ UNCHANGED <<now, events, handled, start, cutoff, slice, before, origin>>

\* catch_up_from raises, or sets progress.exception.  Monitor.run stores the
\* exception, leaves the rest of the Timestamp alone, and commits whatever part
\* of the work was done.
Fail ==
  /\ MayFail
  /\ pc = "running"
  /\ pc' = "idle"
  /\ exception' = TRUE
  /\ UNCHANGED <<now, events, handled, finish, start, cutoff, slice, before, origin>>

\* The process dies: what catch_up_from had not committed is lost.
Die ==
  /\ MayFail
  /\ pc = "running"
  /\ pc' = "idle"
  /\ handled' \in {before, handled}
  /\ UNCHANGED <<now, events, finish, exception, start, cutoff, slice, before, origin>>

TimelineNext == Happen \/ Tick \/ StartRun \/ CatchUp \/ Finish \/ Fail \/ Die

TimelineSpec == TimelineInit /\ [][TimelineNext]_timelineVars

-----------------------------------------------------------------------------
TimelineTypeOK ==
  /\ now \in Int
  /\ events \subseteq Event /\ handled \subseteq events /\ before \subseteq events
  /\ finish \in Int \cup {None} /\ exception \in BOOLEAN
  /\ pc \in {"idle", "running"}
  /\ start \in Int /\ cutoff \in Int /\ slice \in Int
  /\ origin \in Int \cup {None}

\* Once a run has succeeded, every event between the beginning of the first
\* successful run and OVERLAP before the end of the last one has been
\* processed, no matter how many runs failed or died in between -- provided
\* that no event takes longer than OVERLAP to become visible.
NothingIsMissed ==
  finish # None =>
    \A e \in events :
      (origin <= e.date /\ e.date < finish - Overlap) => e \in handled

\* What a Timestamp says has been covered is never taken back, by a failure
\* or otherwise: the next run starts no earlier than the last one did.
NeverStartsOver ==
  [][finish # None => finish' # None /\ finish' >= finish]_timelineVars
=============================================================================
