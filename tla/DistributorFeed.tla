-------------------------- MODULE DistributorFeed --------------------------
(***************************************************************************)
(* LicensePool listening to a distributor.  The distributor (external) is  *)
(* modelled from what _calculate_change_from_one_event expects of it: it   *)
(* lends copies, keeps a queue, sets a returned copy aside for the patron  *)
(* it then notifies, buys and loses licenses, and reports each change as a *)
(* dated event.  It also answers requests for a snapshot.                  *)
(*                                                                         *)
(* Events reach the pool in order, but the monitor that fetches them may   *)
(* hand over one it has handed over before; a snapshot may be applied      *)
(* after events that happened since it was taken have been, and is then    *)
(* refused.  What is dated exactly last_checked is not refused, although   *)
(* the pool may reflect it already.                                        *)
(*                                                                         *)
(* Or else, if `trusted` is false, the pool hears anything at all, as in    *)
(* LicensePool.                                                            *)
(***************************************************************************)
EXTENDS LicensePool, Sequences

CONSTANTS
  MaxEvents,   \* bound: the distributor's history
  MaxRepeats   \* bound: the events applied twice between two snapshots

VARIABLES
  trusted,  \* does all information come from one distributor that behaves?
  truth,    \* what the distributor knows, after each of its events
  log,      \* the types of those events; the i-th is dated EventDate(i)
  heardUpTo,\* how many of them have been fetched
  snapshot, \* a report on its way to the pool, with its date, or None
  repeated, \* history: the events applied, since the last snapshot was, although
            \* the pool reflected them already
  offShelf  \* history: the licenses the pool has heard, since then, were lost with
            \* a copy that nobody had

feedVars == <<trusted, truth, log, heardUpTo, snapshot, repeated, offShelf>>

\* Events happen at odd instants; a snapshot is taken at the instant of the latest
\* one, which it reflects, or at the even one after it.
EventDate(i)   == 2 * i - 1
Present        == 2 * Len(log)
\* The state the distributor was in at a time.
TruthAt(t) == truth[((t + 1) \div 2) + 1]
Now == truth[Len(truth)]

Lending == [owned: Nat, available: Nat, reserved: Nat, holds: Nat,
            loans: Nat, setAside: Nat]

ASSUME FeedAssumption == MaxEvents \in Nat /\ MaxRepeats \in Nat /\ MaxCopies > 0

\* A copy comes back or is bought: it goes to the queue if there is one.
Shelve(d) == IF d.holds > d.setAside THEN [d EXCEPT !.setAside = @ + 1]
             ELSE [d EXCEPT !.available = @ + 1]

\* The events the distributor may report next, each with its consequence.
Consequences(d) ==
  {c \in {[type |-> "hold_place",
           after |-> [d EXCEPT !.holds = @ + 1]],
          [type |-> "hold_release",
           after |-> IF d.setAside = d.holds /\ d.setAside > 0
                     THEN [d EXCEPT !.holds = @ - 1, !.setAside = @ - 1, !.available = @ + 1]
                     ELSE [d EXCEPT !.holds = @ - 1]],
          [type |-> "check_in",
           after |-> Shelve([d EXCEPT !.loans = @ - 1])],
          [type |-> "check_out",
           after |-> [d EXCEPT !.available = @ - 1, !.loans = @ + 1]],
          [type |-> "check_out",
           after |-> [d EXCEPT !.reserved = @ - 1, !.loans = @ + 1]],
          [type |-> "license_add",
           after |-> Shelve([d EXCEPT !.owned = @ + 1])],
          [type |-> "license_remove",
           after |-> [d EXCEPT !.owned = @ - 1, !.loans = @ - 1]],
          [type |-> "license_remove",
           after |-> [d EXCEPT !.owned = @ - 1, !.reserved = @ - 1]],
          [type |-> "license_remove",
           after |-> IF d.available > 0 THEN [d EXCEPT !.owned = @ - 1, !.available = @ - 1]
                     ELSE [d EXCEPT !.owned = @ - 1, !.setAside = @ - 1]],
          [type |-> "availability_notify",
           after |-> [d EXCEPT !.holds = @ - 1, !.setAside = @ - 1, !.reserved = @ + 1]]} :
     /\ c.after \in Lending
     /\ \A f \in DOMAIN c.after : c.after[f] <= MaxCopies
     /\ c.type = "hold_place" => d.available = 0}

FeedInit ==
  /\ Init
  /\ trusted \in BOOLEAN
  /\ \E copies \in 0..MaxCopies :
       /\ ~trusted => copies = 0
       /\ truth = <<[owned |-> copies, available |-> copies, reserved |-> 0,
                     holds |-> 0, loans |-> 0, setAside |-> 0]>>
  /\ log = <<>>
  /\ heardUpTo = 0
  /\ snapshot = None
  /\ repeated = 0 /\ offShelf = 0

Happen ==
  /\ Len(log) < MaxEvents
  /\ \E c \in Consequences(Now) :
       /\ truth' = Append(truth, c.after)
       /\ log' = Append(log, c.type)
  /\ now' = EventDate(Len(log) + 1)
  /\ heard' = None /\ collected' = {}
  /\ UNCHANGED <<exists, pool, last_checked, hasWork, reindex, indexed, silent,
                 trusted, heardUpTo, snapshot, repeated, offShelf>>

\* The instants at which it may be asked what it knows.
Instants == {Present} \cup {EventDate(i) : i \in {Len(log)} \ {0}}

\* An importer asks the distributor about the title.
TakeSnapshot ==
  /\ snapshot = None
  /\ \E t \in Instants :
       /\ snapshot' = [report |-> [owned |-> Now.owned, available |-> Now.available,
                                   reserved |-> Now.reserved, holds |-> Now.holds],
                       at |-> t]
       /\ now' = t
  /\ heard' = None /\ collected' = {}
  /\ UNCHANGED <<exists, pool, last_checked, hasWork, reindex, indexed, silent,
                 trusted, truth, log, heardUpTo, repeated, offShelf>>

\* It turns the answer into CirculationData and applies it, perhaps late.
ApplySnapshot ==
  /\ snapshot # None
  /\ \/ ApplyCirculationData(snapshot.report, snapshot.at, FALSE)
     \/ FirstCirculationData(snapshot.report, snapshot.at, FALSE)
  /\ snapshot' = None
  /\ IF ~exists \/ NeedsUpdate(snapshot.at) THEN repeated' = 0 /\ offShelf' = 0
     ELSE UNCHANGED <<repeated, offShelf>>
  /\ UNCHANGED <<trusted, truth, log, heardUpTo>>

\* Did the i-th event cost a license whose copy nobody had?
OffShelf(i) ==
  /\ log[i] = "license_remove"
  /\ truth[i + 1].available + truth[i + 1].setAside < truth[i].available + truth[i].setAside

\* The pool is handed the i-th event.  One dated last_checked is applied, although
\* what is dated last_checked is what the pool was told last.
Hear(i) ==
  /\ UpdateAvailabilityFromDelta(log[i], EventDate(i), 1)
  /\ repeated' = IF EventDate(i) = last_checked THEN repeated + 1 ELSE repeated
  /\ repeated' <= MaxRepeats
  /\ offShelf' = IF EventDate(i) > last_checked /\ OffShelf(i) THEN offShelf + 1 ELSE offShelf

\* The monitor hands the next event to the pool.  (An event heard before the
\* first snapshot would count from zero: the monitors that fetch events make a
\* new pool current first.)
Fetch ==
  /\ heardUpTo < Len(log)
  /\ last_checked # None
  /\ heardUpTo' = heardUpTo + 1
  /\ Hear(heardUpTo + 1)
  /\ UNCHANGED <<trusted, truth, log, snapshot>>

\* Its time slices overlap: it hands over any event again.
FetchAgain ==
  /\ \E i \in 1..heardUpTo : Hear(i)
  /\ UNCHANGED <<trusted, truth, log, heardUpTo, snapshot>>

FeedNext ==
  \/ trusted /\ (Happen \/ TakeSnapshot \/ ApplySnapshot \/ Fetch \/ FetchAgain)
  \/ ~trusted /\ Next /\ UNCHANGED feedVars

FeedSpec == FeedInit /\ [][FeedNext]_<<vars, feedVars>>

-----------------------------------------------------------------------------
\* Whatever mixture of events and snapshots, late, overtaken or handed over again,
\* the pool learned them from, its licenses and its hold queue are what the
\* distributor's were at last_checked, give or take one for every event that was
\* applied twice since the last snapshot was applied; and only an event dated
\* exactly last_checked ever is ("Any event that happened [before]
\* LicensePool.last_checked is ignored": the comparison is strict).  The copies
\* it offers are at most those that were on the distributor's shelf then, and
\* one more for every such event and for every license lost with a copy that
\* nobody had ("We can't say whether or not the removed licenses should be
\* deducted"): the other approximations of the arithmetic all err on the side of
\* the waiting patron.
CountsAreThoseOfLastChecked ==
  (trusted /\ last_checked # None) =>
    LET d == TruthAt(last_checked) IN
    /\ pool.owned - d.owned \in -repeated .. repeated
    /\ pool.holds - d.holds \in -repeated .. repeated
    /\ pool.available <= d.available + repeated + offShelf
=============================================================================
