----------------------------- MODULE HoldQueue -----------------------------
(***************************************************************************)
(* What a patron on hold is told (Hold in model/patron.py,                 *)
(* LicensePool.on_hold_to): an estimate of when the book will be theirs,   *)
(* made from the position the distributor last reported, or, when it has   *)
(* reported none, from the length the line had when the pool last heard of *)
(* it.  The distributor (external) lends its copies in the worst way it    *)
(* may: every loan and every reservation can last to the end.  The module  *)
(* follows one patron; the others are counted.                             *)
(***************************************************************************)
EXTENDS Integers, FiniteSets

CONSTANTS
  Copies,           \* the copies a library may own
  LoanTime,         \* the default loan period
  ReservationTime,  \* the default reservation period
  MaxQueue,         \* bound: how many others wait
  LastMinute,       \* bound: the clock stops here
  Unknown           \* Python's None

ASSUME HoldQueueAssumption ==
  /\ Unknown \notin Int
  /\ IsFiniteSet(Copies)
  /\ LoanTime \in Nat \ {0} /\ ReservationTime \in Nat \ {0}
  /\ MaxQueue \in Nat /\ LastMinute \in Nat

VARIABLES
  copy,     \* the distributor's copies: what each is used for, and until when
  ahead,    \* how many wait before our patron, or Unknown when they do not wait
  behind,   \* how many wait after them, or in all
  counted,  \* LicensePool.patrons_in_hold_queue: the line when it was last reported
  hold,     \* the holds row: [position, end], or Unknown
  placeKnown, \* history: has the distributor said where this patron is, since they
            \* joined the line: their position, or the length of a line with them in?
  promise,  \* history: the earliest time they were told on the strength of a place
            \* that is not before theirs, or Unknown
  minute    \* utc_now()

holdVars == <<copy, ahead, behind, counted, hold, placeKnown, promise, minute>>

Owned == Cardinality(DOMAIN copy)       \* LicensePool.licenses_owned
Waiting == ahead # Unknown
\* The line as the distributor knows it.
Queue == behind + (IF Waiting THEN ahead + 1 ELSE 0)

-----------------------------------------------------------------------------
\* Mutant of Cycles: the last cycle is dropped whatever the remainder.
CyclesRoundedDown(position, total) ==
  IF position <= total THEN 1
  ELSE 1 + position \div total - (IF total > 1 THEN 1 ELSE 0)

Cycles(position, total) ==
  IF position <= total THEN 1
  ELSE 1 + position \div total - (IF total > 1 /\ position % total = 0 THEN 1 ELSE 0)

\* Unknown: the book will never be available.
CalculateUntil(position, total) ==
  CASE position = 0 -> minute + ReservationTime
    [] position # 0 /\ total = 0 -> Unknown
    [] OTHER -> minute + (ReservationTime + LoanTime) * Cycles(position, total)

\* Mutant of Place: a patron of unknown position is taken to be next.
PlaceAtTheFront == IF hold.position = Unknown THEN 1 ELSE hold.position

\* "We don't know where in line we are. Assume we're at the end."
Place == IF hold.position = Unknown THEN counted ELSE hold.position

EndsLater == hold.end # Unknown /\ hold.end > minute

Until == IF EndsLater THEN hold.end ELSE CalculateUntil(Place, Owned)

\* Hold.update leaves alone what it is not told.
UpdatedHold(row, end, position) ==
  [position |-> IF position = Unknown THEN row.position ELSE position,
   end |-> IF end = Unknown THEN row.end ELSE end]

-----------------------------------------------------------------------------
Lent(until) == [use |-> "lent", until |-> until]

HoldInit ==
  /\ \E owned \in SUBSET Copies :
       copy \in [owned -> {Lent(until) : until \in 1 .. LoanTime}]
  /\ ahead = Unknown
  /\ behind \in 0 .. MaxQueue
  /\ counted \in {0, behind}
  /\ hold = Unknown
  /\ placeKnown = FALSE
  /\ promise = Unknown
  /\ minute = 0

\* on_hold_to: the distributor may say where in line the patron is.  The row of an
\* earlier hold, if nobody has deleted it, is used again.
PlaceHold ==
  /\ ~Waiting
  /\ \A c \in DOMAIN copy : copy[c].use \notin {"free", "ours"}
  /\ ahead' = behind
  /\ behind' = 0
  /\ LET row == IF hold = Unknown THEN [position |-> Unknown, end |-> Unknown] ELSE hold IN
     \E position \in {Unknown, behind + 1} :
       /\ hold' = UpdatedHold(row, Unknown, position)
       /\ placeKnown' = (position # Unknown)
  /\ UNCHANGED <<copy, counted, promise, minute>>

\* update_availability: the distributor reports how long the line is.
Recount ==
  /\ counted' = Queue
  /\ placeKnown' = (placeKnown \/ (Waiting /\ hold.position = Unknown))
  /\ UNCHANGED <<copy, ahead, behind, hold, promise, minute>>

Join ==
  /\ \A c \in DOMAIN copy : copy[c].use # "free"
  /\ Queue < MaxQueue
  /\ behind' = behind + 1
  /\ UNCHANGED <<copy, ahead, counted, hold, placeKnown, promise, minute>>

\* A copy is free: it is set aside for the next in line.
PassOn(c) ==
  IF Waiting /\ ahead = 0
  THEN /\ copy' = [copy EXCEPT ![c] = [use |-> "ours", until |-> minute + ReservationTime]]
       /\ ahead' = Unknown
       /\ promise' = Unknown
       /\ placeKnown' = FALSE
       /\ UNCHANGED behind
  ELSE IF Queue = 0
  THEN /\ copy' = [copy EXCEPT ![c] = [use |-> "free", until |-> minute]]
       /\ UNCHANGED <<ahead, behind, placeKnown, promise>>
  ELSE /\ copy' = [copy EXCEPT ![c] = [use |-> "theirs", until |-> minute + ReservationTime]]
       /\ IF Waiting THEN ahead' = ahead - 1 /\ UNCHANGED behind
                     ELSE behind' = behind - 1 /\ UNCHANGED ahead
       /\ UNCHANGED <<placeKnown, promise>>

GiveBack(c) ==
  /\ copy[c].use = "lent"
  /\ PassOn(c)
  /\ UNCHANGED <<counted, hold, minute>>

\* The row of a hold that became a loan is deleted, if the loan was made here.
Borrow(c) ==
  /\ copy[c].use \in {"free", "ours", "theirs"}
  /\ copy' = [copy EXCEPT ![c] = Lent(minute + LoanTime)]
  /\ IF copy[c].use = "ours" THEN hold' \in {hold, Unknown} ELSE UNCHANGED hold
  /\ UNCHANGED <<ahead, behind, counted, placeKnown, promise, minute>>

\* A reservation that nobody used.
Lapse(c) ==
  /\ copy[c].use \in {"ours", "theirs"}
  /\ copy[c].until = minute
  /\ PassOn(c)
  /\ UNCHANGED <<counted, hold, minute>>

\* The distributor is asked about this patron's holds.
SyncHold ==
  /\ hold # Unknown
  /\ LET ours == {c \in DOMAIN copy : copy[c].use = "ours"} IN
     hold' = IF ours # {} THEN UpdatedHold(hold, copy[CHOOSE c \in ours : TRUE].until, 0)
             ELSE IF Waiting THEN UpdatedHold(hold, Unknown, ahead + 1)
             ELSE Unknown
  /\ placeKnown' = Waiting
  /\ hold' # hold \/ placeKnown' # placeKnown
  /\ UNCHANGED <<copy, ahead, behind, counted, promise, minute>>

\* Is what the patron is told made from a place that is not before theirs?
FromTheirPlace == ~EndsLater /\ Place >= ahead + 1

\* A feed of the patron's books says when the hold will be available.
TellPatron ==
  /\ hold # Unknown /\ Waiting
  /\ Until # Unknown
  /\ FromTheirPlace
  /\ promise # Unknown => Until < promise
  /\ promise' = Until
  /\ UNCHANGED <<copy, ahead, behind, counted, hold, placeKnown, minute>>

MinutePasses ==
  /\ minute < LastMinute
  /\ \A c \in DOMAIN copy : copy[c].use = "free" \/ copy[c].until > minute
  /\ minute' = minute + 1
  /\ UNCHANGED <<copy, ahead, behind, counted, hold, placeKnown, promise>>

HoldNext ==
  \/ PlaceHold \/ Recount \/ Join \/ SyncHold \/ TellPatron \/ MinutePasses
  \/ \E c \in DOMAIN copy : GiveBack(c) \/ Borrow(c) \/ Lapse(c)

HoldSpec == HoldInit /\ [][HoldNext]_holdVars

-----------------------------------------------------------------------------
\* Hold._calculate_until takes "the worst case": nobody waits longer than an
\* estimate they were given, at any position of the queue, for any number of
\* copies, however old the place it was made from, even when every loan and every
\* reservation before theirs lasts to the end -- if that place was not before
\* theirs.  It may be, until the distributor has said where they are: somebody of
\* unknown position is put at the end of the line as it was when the pool last heard
\* of it, which may be before they joined, and if nobody waited then they are told
\* the book is theirs already; and the row of an earlier hold keeps its position.
\* (It also keeps its end, which is what is told while it lasts: "Otherwise, end is
\* irrelevant and is set to None", Hold.update, which does not.)  Once the
\* distributor has said it, the place a patron is given is never before theirs again.
NobodyWaitsLongerThanTold ==
  Waiting =>
    /\ promise # Unknown => minute <= promise
    /\ placeKnown => Place >= ahead + 1
=============================================================================
