------------------------- MODULE SiteConfiguration -------------------------
(***************************************************************************)
(* How the processes of a site learn that its configuration has changed:   *)
(* model/listeners.py's site_configuration_has_changed moves a timestamp   *)
(* in the database, in the transaction of the change, and every process    *)
(* checks it (config.py's site_configuration_last_update) and loads the    *)
(* configuration anew when it has moved.                                   *)
(*                                                                         *)
(* So as not to move the timestamp for every one of many changes, nothing  *)
(* is done within a cooldown of the last change a process knows of, nor    *)
(* while another thread of the process is at it.                           *)
(*                                                                         *)
(* There is no clock: a time is modelled by how long ago it was, up to     *)
(* LongAgo.                                                                *)
(***************************************************************************)
EXTENDS Integers

CONSTANTS
  Threads,      \* threads that change the configuration, each in its own session
  ProcessOf(_), \* the process of a thread
  Cooldown,     \* the cooldown
  MaxWait,      \* bound: how long a statement waits for a lock
  Nobody        \* stands for no thread

ASSUME SiteConfigurationAssumption ==
  /\ Cooldown \in Nat /\ MaxWait \in Nat
  /\ Nobody \notin Threads

VARIABLES
  finish,     \* age of the timestamp in the database
  locked,     \* the thread whose transaction has moved it and is not over
  tx,         \* the transaction of each thread
  known,      \* age of each process's SITE_CONFIGURATION_LAST_UPDATE
  informed,   \* processes that loaded the configuration since the timestamp last moved
  current,    \* history: processes that loaded it since it last changed
  lastChange, \* history: age of the last change anybody made
  excused     \* history: processes that know of the timestamp but not of a change that
              \* was made close to another or while another was being recorded

siteVars == <<finish, locked, tx, known, informed, current, lastChange, excused>>

Processes == {ProcessOf(t) : t \in Threads}
LongAgo == Cooldown + MaxWait + 1
Later(age) == IF age < LongAgo THEN age + 1 ELSE age

\* moved: has it moved the timestamp, to which stamp?  close: was its change made
\* close to another?
NoChange == [pc |-> "none", moved |-> FALSE, stamp |-> 0, close |-> FALSE]

SiteInit ==
  /\ finish = LongAgo
  /\ locked = Nobody
  /\ tx = [t \in Threads |-> NoChange]
  /\ known = [p \in Processes |-> LongAgo]
  /\ informed = Processes /\ current = Processes
  /\ lastChange = LongAgo
  /\ excused = {}

-----------------------------------------------------------------------------
\* Is a thread of that process in _site_configuration_has_changed, waiting?
Recording(p) == \E t \in Threads : ProcessOf(t) = p /\ tx[t].pc = "waiting"

\* Mutant of PastCooldown: the cooldown is applied twice.
PastTwiceTheCooldown(age) == age > 2 * Cooldown
\* Is what the process remembers past the cooldown?
PastCooldown(age) == age > Cooldown

\* The condition of the UPDATE, for a change made at a time of that age.
Due(timestamp, age) == timestamp >= age + Cooldown

\* The transactions when thread t makes a change: its own becomes `own`, and a
\* change that waits to be recorded is now close to another.
Made(t, own) ==
  [u \in Threads |->
     IF u = t THEN own
     ELSE [tx[u] EXCEPT !.close = @ \/ tx[u].pc = "waiting"]]

\* A session sends a change to the database; nothing is recorded of it, since the
\* lock of the process is taken or the cooldown is not over.
ChangeQuietly(t) ==
  /\ tx[t].pc # "waiting"
  /\ Recording(ProcessOf(t)) \/ ~PastCooldown(known[ProcessOf(t)])
  /\ tx' = Made(t, [tx[t] EXCEPT !.pc = "open",
       !.close = @ \/ lastChange <= Cooldown \/ Recording(ProcessOf(t))])
  /\ lastChange' = 0
  /\ UNCHANGED <<finish, locked, known, informed, current, excused>>

\* It is recorded by an UPDATE, which waits if another transaction has moved the
\* row and changes nothing if the row it finds is too young.
ChangeAndRecord(t) ==
  LET p == ProcessOf(t)
      timestamp == IF locked = t THEN tx[t].stamp ELSE finish
      waits == locked \notin {t, Nobody}
  IN  /\ tx[t].pc # "waiting"
      /\ ~Recording(p) /\ PastCooldown(known[p])
      /\ tx' = Made(t,
           [pc    |-> IF Due(timestamp, 0) /\ waits THEN "waiting" ELSE "open",
            moved |-> tx[t].moved \/ (Due(timestamp, 0) /\ ~waits),
            stamp |-> IF Due(timestamp, 0) THEN 0 ELSE tx[t].stamp,
            close |-> tx[t].close \/ lastChange <= Cooldown])
      /\ locked' = IF Due(timestamp, 0) /\ ~waits THEN t ELSE locked
      /\ known' = IF Due(timestamp, 0) /\ waits THEN known ELSE [known EXCEPT ![p] = 0]
      /\ lastChange' = 0
      /\ UNCHANGED <<finish, informed, current, excused>>

\* The other transaction is over, and the UPDATE looks at the row again.
Unblock(t) ==
  LET due == Due(finish, tx[t].stamp) IN
  /\ tx[t].pc = "waiting"
  /\ locked = Nobody
  /\ tx' = [tx EXCEPT ![t].pc = "open", ![t].moved = due]
  /\ locked' = IF due THEN t ELSE Nobody
  /\ known' = [known EXCEPT ![ProcessOf(t)] = tx[t].stamp]
  /\ UNCHANGED <<finish, informed, current, lastChange, excused>>

CommitChange(t) ==
  /\ tx[t].pc = "open"
  /\ tx' = [tx EXCEPT ![t] = NoChange]
  /\ current' = {}
  /\ IF tx[t].moved
     THEN finish' = tx[t].stamp /\ locked' = Nobody /\ informed' = {} /\ excused' = {}
     ELSE /\ excused' = IF tx[t].close THEN excused \cup informed ELSE excused
          /\ UNCHANGED <<finish, locked, informed>>
  /\ UNCHANGED <<known, lastChange>>

\* What the process remembers of the change stays.
RollBackChange(t) ==
  /\ tx[t].pc = "open"
  /\ tx' = [tx EXCEPT ![t] = NoChange]
  /\ locked' = IF locked = t THEN Nobody ELSE locked
  /\ UNCHANGED <<finish, known, informed, current, lastChange, excused>>

\* site_configuration_last_update, and the application's part: "to periodically
\* check this value and reload the configuration if appropriate".
CheckSite(p) ==
  /\ known' = [known EXCEPT ![p] = finish]
  /\ informed' = informed \cup {p}
  /\ current' = IF p \in informed THEN current ELSE current \cup {p}
  /\ UNCHANGED <<finish, locked, tx, lastChange, excused>>

SiteTick ==
  /\ \A t \in Threads : tx[t].pc = "waiting" => tx[t].stamp < MaxWait
  /\ finish' = Later(finish)
  /\ tx' = [t \in Threads |-> 
       IF tx[t].moved \/ tx[t].pc = "waiting" THEN [tx[t] EXCEPT !.stamp = Later(@)] ELSE tx[t]]
  /\ known' = [p \in Processes |-> Later(known[p])]
  /\ lastChange' = Later(lastChange)
  /\ UNCHANGED <<locked, informed, current, excused>>

SiteNext ==
  \/ \E t \in Threads :
       ChangeQuietly(t) \/ ChangeAndRecord(t) \/ Unblock(t) \/ CommitChange(t) \/ RollBackChange(t)
  \/ \E p \in Processes : CheckSite(p)
  \/ SiteTick

SiteSpec == SiteInit /\ [][SiteNext]_siteVars

-----------------------------------------------------------------------------
\* "Nothing will happen if it's been fewer than this number of seconds since the
\* last site configuration change" (site_configuration_has_changed): that is the
\* only way a change escapes a process.  One that checked the timestamp and still
\* has a configuration from before a committed change has missed it because the
\* change was made within the cooldown of another -- be that rolled back -- or
\* while another thread was recording one.
MissesOnlyCloseChanges == informed \ current \subseteq excused
=============================================================================
