---------------------------- MODULE OpdsEntries ----------------------------
(* The OPDS entry of a work (opds.py): made from an edition, kept in a      *)
(* column of the work (one for each annotator, and they are alike), served  *)
(* in feeds, alone or to those who look an identifier up, and made anew by  *)
(* calculate_opds_entries, while editions and license pools change.  A      *)
(* request reads the work first and writes when it commits.                 *)
EXTENDS Integers, FiniteSets

CONSTANTS
  WorkPools,      \* the license pools of the work; each has its edition and identifier
  PoolStates,     \* what may become of them, a subset of the states below
  EntryClients,   \* processes that serve entries and make them
  MaxEntryChanges      \* bound: changes of editions and pools

ASSUME EntriesAssumption ==
  /\ IsFiniteSet(WorkPools) /\ "none" \notin WorkPools
  /\ MaxEntryChanges \in Nat

VARIABLES
  pools,      \* "open", "unlinked" (without a usable link), "licensed", "unowned", "superceded", "elsewhere"
  main,       \* the pool of the presentation edition of the work, or NoPool
  printable,  \* the editions that can be written as XML
  changes,    \* the number of changes so far
  moved,      \* when a pool was changed, or the presentation edition chosen
  field,      \* the cached entry of the work
  writing,    \* the entry a process is about to write
  answer,     \* what was just answered
  promised,   \* history: when the last recalculation that has ended began
  lapse       \* history: why the field may be older than that

entriesVars == <<pools, main, printable, changes, moved, field, writing, answer, promised, lapse>>

NoPool == "none"
NoEntry == [edition |-> NoPool, at |-> 0, lookup |-> FALSE, sole |-> TRUE]
NoAnswer == [pool |-> NoPool, content |-> NoEntry]
Unoccupied == [kind |-> "none"]
Unplaced == -1   \* a hold without a position
NoHold == -2

-----------------------------------------------------------------------------
\* active_license_pool: the loop stops at an open-access pool, and else the last
\* one counts.  The query has no order.
ActivePools ==
  LET open == {p \in WorkPools : pools[p] = "open"}
      licensed == {p \in WorkPools : pools[p] = "licensed"}
  IN IF open # {} THEN open ELSE IF licensed # {} THEN licensed ELSE {NoPool}

\* _create_entry for requests that ask for it
Outcome(kind, pool, edition, force, caching) ==
  LET found == ~force /\ caching /\ field # NoEntry
      made == [edition |-> edition, at |-> changes, lookup |-> kind = "lookup", sole |-> Cardinality(ActivePools) = 1]
      failed == ~found /\ edition \notin printable
  IN [kind |-> kind, status |-> IF failed THEN "nothing" ELSE "entry", pool |-> pool,
      content |-> IF found THEN field ELSE IF failed THEN NoEntry ELSE made,
      writes |-> caching /\ ~found /\ ~failed]

Message(kind, status) ==
  [kind |-> kind, status |-> status, pool |-> NoPool, content |-> NoEntry, writes |-> FALSE]

\* create_entry
CreateEntry(kind, evenIfNoPool, force, caching) ==
  {LET edition == IF pool = NoPool THEN main ELSE pool
   IN IF edition = NoPool THEN Message(kind, "nothing")
      ELSE IF pool = NoPool /\ ~evenIfNoPool THEN Message(kind, "403")
      ELSE Outcome(kind, pool, edition, force, caching) : pool \in ActivePools}

\* Mutant of SingleEntry: calculate_opds_entries relies on the cached entry.
SingleEntryCached(kind, force, caching) ==
  IF main = NoPool THEN {Message(kind, "nothing")}
  ELSE CreateEntry(kind, TRUE, FALSE, caching)

\* single_entry
SingleEntry(kind, force, caching) ==
  IF main = NoPool THEN {Message(kind, "nothing")}
  ELSE CreateEntry(kind, TRUE, force, caching)

\* process_identifier, and the create_entry of a lookup: the pool of the identifier
\* that was asked for, active or not.
LookUp(p) ==
  IF pools[p] = "elsewhere" \/ main = NoPool THEN Message("lookup", "202")
  ELSE Outcome("lookup", p, p, FALSE, TRUE)

-----------------------------------------------------------------------------
\* What a process answers is settled when it has read the work; it may have to write.
Consider(c, outcomes) ==
  /\ writing[c] = Unoccupied
  /\ \E o \in outcomes :
       /\ answer' = IF o.kind = "work" /\ o.status = "entry" THEN [pool |-> o.pool, content |-> o.content] ELSE NoAnswer
       /\ writing' = IF ~o.writes /\ o.kind # "recalculation" THEN writing
                     ELSE [writing EXCEPT ![c] = [kind |-> o.kind, content |-> o.content, writes |-> o.writes, late |-> FALSE,
                                                  failed |-> o.status # "entry", began |-> IF o.kind = "recalculation" THEN changes ELSE 0]]
  /\ UNCHANGED <<pools, main, printable, changes, moved, field, promised, lapse>>

ServePage(c) == Consider(c, CreateEntry("work", FALSE, FALSE, TRUE))

ServeAlone(c) == \E caching \in BOOLEAN : Consider(c, SingleEntry("work", FALSE, caching))

ServeLookup(c) == \E p \in WorkPools : Consider(c, {LookUp(p)})

\* calculate_opds_entries: the coverage provider, the monitor and calculate_presentation
RecalculateEntry(c) == Consider(c, SingleEntry("recalculation", TRUE, TRUE))

\* A process writes the entry it has made, and commits.
FinishEntry(c) ==
  LET r == writing[c]
      recalculated == r.kind = "recalculation"
  IN /\ r # Unoccupied
     /\ field' = IF r.writes THEN r.content ELSE field
     /\ promised' = IF recalculated /\ r.began > promised THEN r.began ELSE promised
     /\ lapse' = IF r.writes THEN IF r.late THEN "overtaken" ELSE "none"
                 ELSE IF recalculated /\ r.failed THEN "failed"
                 ELSE lapse
     /\ writing' = [d \in EntryClients |->
                      IF d = c THEN Unoccupied
                      ELSE IF recalculated /\ writing[d] # Unoccupied THEN [writing[d] EXCEPT !.late = TRUE]
                      ELSE writing[d]]
     /\ answer' = NoAnswer
     /\ UNCHANGED <<pools, main, printable, changes, moved>>

\* Metadata are applied to an edition.
ChangeEdition(e) ==
  /\ changes < MaxEntryChanges /\ changes' = changes + 1
  /\ printable' \in {printable \cup {e}, printable \ {e}}
  /\ answer' = NoAnswer
  /\ UNCHANGED <<pools, main, moved, field, writing, promised, lapse>>

\* A pool is bought, weeded, moved; the work chooses among the editions it has.
ChangePool(p) ==
  /\ changes < MaxEntryChanges /\ changes' = changes + 1
  /\ \E s \in PoolStates \ {pools[p]} : pools' = [pools EXCEPT ![p] = s]
  /\ LET own == {q \in WorkPools : pools'[q] \notin {"elsewhere", "superceded"}}
     IN main' \in IF own = {} THEN {NoPool} ELSE own
  /\ moved' = changes + 1
  /\ answer' = NoAnswer
  /\ UNCHANGED <<printable, field, writing, promised, lapse>>

EntriesInit ==
  /\ pools \in [WorkPools -> PoolStates]
  /\ main \in WorkPools /\ pools[main] \notin {"elsewhere", "superceded"}
  /\ printable = WorkPools
  /\ changes = 0 /\ moved = 0
  /\ field = NoEntry
  /\ writing = [c \in EntryClients |-> Unoccupied]
  /\ answer = NoAnswer /\ promised = 0 /\ lapse = "none"

EntriesNext ==
  \/ \E c \in EntryClients : ServePage(c) \/ ServeAlone(c) \/ ServeLookup(c) \/ RecalculateEntry(c) \/ FinishEntry(c)
  \/ \E p \in WorkPools : ChangeEdition(p) \/ ChangePool(p)

EntriesSpec == EntriesInit /\ [][EntriesNext]_entriesVars

-----------------------------------------------------------------------------
\* A cached entry tells of its edition what a recalculation that has ended could
\* know, and anything newer may only be missing because nobody has recalculated
\* since: unless somebody who had begun before wrote afterwards, or making the entry
\* failed, which create_entry hides from calculate_opds_entries and its record.
EntriesKeepUp ==
  field # NoEntry /\ lapse = "none" => field.at >= promised

\* What is said of the book in an answer is of the edition of the pool that the
\* answer offers; it is of another edition of the work only if pools have changed
\* since it was written down, if there were two to choose from, or if it was written
\* down for somebody who had looked up another identifier of the work.
AnswersFit ==
  answer.pool \notin {NoPool, answer.content.edition} =>
    answer.content.lookup \/ ~answer.content.sole \/ answer.content.at < moved

\* license_tags: the positions of holds and the number of those who wait are kept up
\* to date by different processes.
LicenseTags(pool, loan, hold) ==
  LET position == IF hold = Unplaced THEN pool.waiting ELSE hold
  IN [status |-> IF loan THEN "available"
                 ELSE IF hold # NoHold THEN IF hold = 0 THEN "ready" ELSE "reserved"
                 ELSE IF pool.unlimited \/ (pool.available > 0 /\ pool.owned > 0) THEN "available" ELSE "unavailable",
      counted |-> ~pool.unlimited,
      position |-> IF hold = NoHold THEN 0 ELSE position,
      total |-> IF hold = NoHold THEN pool.waiting
                ELSE IF position > pool.waiting THEN position
                ELSE IF position = 0 /\ pool.waiting = 0 THEN 1 ELSE pool.waiting]

\* A patron who waits for a book, or has it set aside, is one of those who are said
\* to wait, and has none of them behind the last place; whatever the counts are.
TagsAddUp ==
  \A waiting, owned, available \in 0..2, unlimited, loan \in BOOLEAN, hold \in NoHold..3 :
    LET tags == LicenseTags([waiting |-> waiting, owned |-> owned, available |-> available, unlimited |-> unlimited], loan, hold)
    IN /\ hold # NoHold => tags.total > 0 /\ tags.position <= tags.total
       /\ tags.status = "available" /\ ~loan /\ tags.counted => available > 0 /\ owned > 0

EntriesFollowTheWork == EntriesKeepUp /\ AnswersFit /\ TagsAddUp
=============================================================================
