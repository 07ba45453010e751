---------------------------- MODULE LicensePool ----------------------------
(***************************************************************************)
(* The availability half of model/licensing.py's LicensePool: the four     *)
(* counters a distributor keeps us informed of, the time the information   *)
(* is good for (last_checked), and the two side effects of a change: the   *)
(* analytics events it implies, and the reindexing of the pool's Work,     *)
(* which the listener on Work.last_update_time requests.                   *)
(*                                                                         *)
(* The information arrives as snapshots (update_availability, directly or  *)
(* through CirculationData.apply) and as single events                     *)
(* (update_availability_from_delta).  Both may be late, repeated, undated  *)
(* or incomplete.                                                          *)
(***************************************************************************)
EXTENDS Integers

CONSTANTS
  None,       (* Python's None                                             *)
  NoDate,     (* CirculationEvent.NO_DATE                                  *)
  Snapshots,  (* the availability reports a distributor may send           *)
  EventDates, (* the dates it puts on its events                           *)
  Deltas,     (* the magnitudes of its events                              *)
  Toggles,    (* the values somebody assigns to unlimited_access           *)
  MaxCopies,  (* bound: no counter grows past this                         *)
  MaxTime     (* bound: the clock stops here                               *)

Unlimited == -1     \* LicensePool.UNLIMITED_ACCESS

Counter == Nat \cup {Unlimited}
Counts  == [owned: Counter, available: Counter, reserved: Nat, holds: Nat]
Reports == [owned: Counter \cup {None}, available: Counter \cup {None},
            reserved: Nat \cup {None}, holds: Nat \cup {None}]
Time    == Nat

EventTypes == {"hold_place", "hold_release", "check_in", "check_out",
               "license_add", "license_remove", "availability_notify",
               "title_remove"}

ASSUME ConstantsAssumption ==
  /\ None \notin Int /\ NoDate \notin Int /\ None # NoDate
  /\ None \notin EventTypes
  /\ Snapshots \subseteq Reports
  /\ EventDates \subseteq Time \cup {NoDate}
  /\ Deltas \subseteq Nat
  /\ Toggles \subseteq BOOLEAN
  /\ MaxCopies \in Nat /\ MaxTime \in Nat

VARIABLES
  exists,       \* is there a licensepools row?
  pool,         \* its four counters
  last_checked, \* its last_checked column
  hasWork,      \* does the pool have a Work?
  reindex,      \* is that Work registered for reindexing?
  indexed,      \* what the search index says of the pool
  silent,       \* history: has the pool been set, since then, by something that
                \* does not date its change?
  now,          \* utc_now()
  heard,        \* the distributor event this step processed, or None
  collected     \* the analytics events this step collected

vars ==
  <<exists, pool, last_checked, hasWork, reindex, indexed, silent, now, heard, collected>>

-----------------------------------------------------------------------------
(* The arithmetic.                                                         *)

\* Mutant of Deduct: it refuses to take the last copy.
DeductAllButLast(value, delta) == IF value > delta THEN value - delta ELSE value

Deduct(value, delta) == IF value > delta THEN value - delta ELSE 0

\* One event's effect on the counters, before the final correction.
RawChange(p, type, delta) ==
  CASE type = "hold_place" ->
         [p EXCEPT !.holds = @ + delta, !.available = 0]
    [] type = "hold_release" ->
         [p EXCEPT !.holds = Deduct(@, delta)]
    [] type = "check_in" /\ p.holds = 0 ->
         [p EXCEPT !.available = @ + delta]
    [] type = "check_in" /\ p.holds # 0 ->
         [p EXCEPT !.available = @ + Deduct(delta, p.holds)]
    [] type = "check_out" /\ p.available = 0 ->
         [p EXCEPT !.reserved = Deduct(@, delta)]
    [] type = "check_out" /\ p.available # 0 ->
         [p EXCEPT !.available = Deduct(@, delta)]
    [] type = "license_add" /\ p.holds = 0 ->
         [p EXCEPT !.owned = @ + delta, !.available = @ + delta]
    [] type = "license_add" /\ p.holds # 0 ->
         [p EXCEPT !.owned = @ + delta]
    [] type = "license_remove" ->
         [p EXCEPT !.owned = Deduct(@, delta)]
    [] type = "availability_notify" ->
         [p EXCEPT !.holds = Deduct(@, delta), !.reserved = @ + delta]
    [] OTHER -> p

\* Mutant of CapAvailable: no correction.
NoCap(p) == p
\* There cannot be more licenses available than owned.
CapAvailable(p) ==
  IF p.owned < p.available THEN [p EXCEPT !.available = p.owned] ELSE p

CalculateChange(p, type, delta) == CapAvailable(RawChange(p, type, delta))

\* A report overrides the counters it mentions.
Merge(p, report) ==
  LET latest(old, new) == IF new = None THEN old ELSE new
  IN  [owned     |-> latest(p.owned, report.owned),
       available |-> latest(p.available, report.available),
       reserved  |-> latest(p.reserved, report.reserved),
       holds     |-> latest(p.holds, report.holds)]

\* Mutant of ImpliedEvents: it does not look at the reserved copies.
ImpliedEventsButNotify(old, new) ==
  {e \in EventTypes :
     \/ e = "hold_place"     /\ new.holds > old.holds
     \/ e = "hold_release"   /\ new.holds < old.holds
     \/ e = "check_in"       /\ new.available > old.available
     \/ e = "check_out"      /\ new.available < old.available
     \/ e = "license_add"    /\ new.owned > old.owned
     \/ e = "license_remove" /\ new.owned < old.owned}

\* The analytics events update_availability infers from a change of counters.
ImpliedEvents(old, new) ==
  {e \in EventTypes :
     \/ e = "hold_place"          /\ new.holds > old.holds
     \/ e = "hold_release"        /\ new.holds < old.holds
     \/ e = "check_in"            /\ new.available > old.available
     \/ e = "check_out"           /\ new.available < old.available
     \/ e = "availability_notify" /\ new.reserved > old.reserved
     \/ e = "license_add"         /\ new.owned > old.owned
     \/ e = "license_remove"      /\ new.owned < old.owned}

\* What Work.to_search_documents says of the pool: nothing, when the Work is
\* not licensed through it; otherwise whether it can be borrowed right now.
SearchDocument(p, attached) ==
  IF ~attached \/ p.owned = 0 THEN "absent"
  ELSE IF p.owned = Unlimited \/ p.available > 0 THEN "available"
  ELSE "unavailable"

-----------------------------------------------------------------------------
InBounds(p) == \A f \in DOMAIN p : p[f] <= MaxCopies

Mentions(report) == \E f \in DOMAIN report : report[f] # None

\* Mutant of Update: it forgets to move the Work's last_update_time.
UpdateQuietly(from, report, asOf, checked) ==
  /\ pool' = Merge(from, report)
  /\ InBounds(pool')
  /\ last_checked' = IF asOf # NoDate /\ Mentions(report) THEN asOf ELSE checked
  /\ reindex' = reindex
  /\ silent' = (silent \/ asOf = NoDate)

\* LicensePool.update_availability on counters `from`, as of a time or NoDate.
Update(from, report, asOf, checked) ==
  LET dated == asOf # NoDate /\ Mentions(report) IN
  /\ pool' = Merge(from, report)
  /\ InBounds(pool')
  /\ last_checked' = IF dated THEN asOf ELSE checked
  /\ reindex' = (reindex \/ (dated /\ hasWork))
  /\ silent' = (silent \/ asOf = NoDate)

NoCounts == [owned |-> 0, available |-> 0, reserved |-> 0, holds |-> 0]

Init ==
  /\ exists = FALSE
  /\ pool = NoCounts
  /\ last_checked = None
  /\ hasWork = FALSE
  /\ reindex = FALSE
  /\ indexed = "absent"
  /\ silent = FALSE
  /\ now = 1
  /\ heard = None
  /\ collected = {}

\* LicensePool.for_foreign_id, called directly, makes a pool that was never checked.
ForForeignId ==
  /\ ~exists
  /\ exists' = TRUE
  /\ pool' = NoCounts
  /\ heard' = None
  /\ collected' = {}
  /\ UNCHANGED <<last_checked, hasWork, reindex, indexed, silent, now>>

\* A vendor API calls update_availability with what it has just been told;
\* as_of is then the present, or NO_DATE to leave last_checked alone.
UpdateAvailability(report, asOf) ==
  /\ exists
  /\ Update(pool, report, asOf, last_checked)
  /\ heard' = None
  /\ collected' = ImpliedEvents(pool, pool')
  /\ UNCHANGED <<exists, hasWork, indexed, now>>

\* _availability_needs_update: is the data at least as recent as the pool's?
NeedsUpdate(t) == last_checked = None \/ t >= last_checked

\* The tail of CirculationData.apply: a pool without a Work gets one, if
\* calculate_work can make it; joining a Work asks for its reindexing.
MakeWork(made) ==
  /\ made => ~hasWork
  /\ hasWork' = (hasWork \/ made)

\* CirculationData.apply for a book we have a pool for; the data was
\* gathered at t and may have been overtaken since.
ApplyCirculationData(report, t, made) ==
  /\ exists
  /\ MakeWork(made)
  /\ IF NeedsUpdate(t)
     THEN /\ pool' = Merge(pool, report)
          /\ InBounds(pool')
          /\ last_checked' = IF Mentions(report) THEN t ELSE last_checked
          /\ reindex' = (reindex \/ made \/ (Mentions(report) /\ hasWork))
          /\ collected' = ImpliedEvents(pool, pool')
     ELSE /\ reindex' = (reindex \/ made)
          /\ collected' = {}
          /\ UNCHANGED <<pool, last_checked>>
  /\ heard' = None
  /\ UNCHANGED <<exists, indexed, silent, now>>

\* CirculationData.apply for a book seen for the first time: the new pool is
\* as old as the data, so the data always applies to it.
FirstCirculationData(report, t, made) ==
  /\ ~exists
  /\ exists' = TRUE
  /\ MakeWork(made)
  /\ pool' = Merge(NoCounts, report)
  /\ InBounds(pool')
  /\ last_checked' = t
  /\ reindex' = (reindex \/ made)
  /\ heard' = None
  /\ collected' = {"title_add"} \cup ImpliedEvents(NoCounts, pool')
  /\ UNCHANGED <<indexed, silent, now>>

\* LicensePool.consolidate_works gives a Work to a pool that has none.
ConsolidateWorks ==
  /\ exists
  /\ ~hasWork
  /\ hasWork' = TRUE
  /\ reindex' = TRUE
  /\ heard' = None
  /\ collected' = {}
  /\ UNCHANGED <<exists, pool, last_checked, indexed, silent, now>>

\* Mutant of Ignored: only undated events are.
IgnoredIfUndated(date) == last_checked # None /\ date = NoDate

\* Is an event too old, or too vague, to be applied?
Ignored(date) ==
  /\ last_checked # None
  /\ date = NoDate \/ date < last_checked

\* LicensePool.update_availability_from_delta.
UpdateAvailabilityFromDelta(type, date, delta) ==
  /\ exists
  /\ heard' = type
  /\ IF Ignored(date)
     THEN UNCHANGED <<pool, last_checked, reindex, silent>>
     ELSE Update(pool, CalculateChange(pool, type, delta), date, last_checked)
  /\ collected' = IF pool' = pool THEN {type} ELSE ImpliedEvents(pool, pool')
  /\ UNCHANGED <<exists, hasWork, indexed, now>>

\* The setter of LicensePool.unlimited_access.
SetUnlimitedAccess(value) ==
  /\ exists
  /\ pool' = LET n == IF value THEN Unlimited ELSE 0
             IN  [pool EXCEPT !.owned = n, !.available = n]
  /\ silent' = TRUE
  /\ heard' = None
  /\ collected' = {}
  /\ UNCHANGED <<exists, last_checked, hasWork, reindex, indexed, now>>

\* The search index coverage provider catches up with the Work.
Reindex ==
  /\ reindex
  /\ reindex' = FALSE
  /\ indexed' = SearchDocument(pool, hasWork)
  /\ silent' = FALSE
  /\ heard' = None
  /\ collected' = {}
  /\ UNCHANGED <<exists, pool, last_checked, hasWork, now>>

Tick ==
  /\ now < MaxTime
  /\ now' = now + 1
  /\ heard' = None
  /\ collected' = {}
  /\ UNCHANGED <<exists, pool, last_checked, hasWork, reindex, indexed, silent>>

\* A distributor that leaves its events undated leaves its reports undated too.
Undated == EventDates \cap {NoDate}

\* Events are reported after they happened.
PastDates == {date \in EventDates : date = NoDate \/ date <= now}

Next ==
  \/ ForForeignId
  \/ \E report \in Snapshots, asOf \in {now} \cup Undated :
        UpdateAvailability(report, asOf)
  \/ \E report \in Snapshots, t \in 1..now, made \in BOOLEAN :
        \/ ApplyCirculationData(report, t, made)
        \/ FirstCirculationData(report, t, made)
  \/ \E type \in EventTypes, date \in PastDates, delta \in Deltas :
        UpdateAvailabilityFromDelta(type, date, delta)
  \/ \E value \in Toggles : SetUnlimitedAccess(value)
  \/ ConsolidateWorks
  \/ Reindex
  \/ Tick

Spec == Init /\ [][Next]_vars

-----------------------------------------------------------------------------
TypeOK ==
  /\ exists \in BOOLEAN
  /\ pool \in Counts
  /\ last_checked \in Time \cup {None}
  /\ hasWork \in BOOLEAN
  /\ reindex \in BOOLEAN /\ silent \in BOOLEAN
  /\ indexed \in {"absent", "available", "unavailable"}
  /\ now \in Time
  /\ heard \in EventTypes \cup {None}
  /\ collected \subseteq EventTypes \cup {"title_add"}

\* If every report that mentions one of `owned` and `available` mentions both
\* and does not contradict itself, then no mixture of late reports, repeated
\* events and switches to and from unlimited access makes the pool offer more
\* copies than it owns ("It's impossible to have more licenses available than
\* owned", _calculate_change_from_one_event).
AvailableWithinOwned == pool.available <= pool.owned

\* Whenever no reindexing is pending, the search index tells patrons the truth
\* about the pool -- every change of availability, by whichever path, has moved
\* Work.last_update_time, whose listener asks for the reindexing -- unless what
\* changed it was undated or an assignment to unlimited_access: those do not
\* touch the Work, although "whenever ... licenses_available moves to zero or
\* away from zero, the LicensePool signals that its Work needs reindexing"
\* (Work.to_search_documents).
IndexIsCurrent == silent \/ reindex \/ indexed = SearchDocument(pool, hasWork)

\* Loans, holds and returns leave an unlimited title unlimited, although the
\* arithmetic knows nothing of -1: only the correction of `available` to
\* `owned` restores what the deduction and the hold queue have done to it.
UnlimitedSurvivesTraffic ==
  [][(/\ heard' \notin {None, "license_add", "license_remove"}
      /\ pool.owned = Unlimited /\ pool.available = Unlimited)
     => (pool'.owned = Unlimited /\ pool'.available = Unlimited)]_vars

\* What the pool knows never becomes older: neither an event nor data gathered
\* by a slow importer takes last_checked back or erases it.
LastCheckedNeverRunsBack ==
  [][last_checked # None => (last_checked' # None /\ last_checked' >= last_checked)]_vars

\* "Even if the event was ignored or didn't actually change availability, we
\* want to record receipt of the event in the analytics": the only receipts the
\* analytics miss, on a pool whose copies are counted, are checkouts of reserved
\* copies, which change a counter no event is inferred from.
OnlyReservedCheckoutsGoUnrecorded ==
  [][(heard' # None /\ heard' \notin collected' /\ Unlimited \notin {pool.owned, pool.available})
     => (heard' = "check_out" /\ pool.available = 0 /\ pool'.reserved < pool.reserved)]_vars
=============================================================================
