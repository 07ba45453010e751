---------------------------- MODULE CustomLists ----------------------------
(* One custom list (model/customlist.py), the administrators and the        *)
(* scripts that change it (external_list.py), the listener that adds the    *)
(* new works of a collection (model/listeners.py), the equivalencies that   *)
(* tell which entries are the same book (model/files/                       *)
(* recursive_equivalents.sql), and what is written elsewhere about it: its  *)
(* size and the lists named in the search documents of the Works.               *)
(*                                                                          *)
(* An Edition stands for its primary identifier as well, and has at most    *)
(* one pool, which is deliverable.  Annotations and the featured flag are   *)
(* left out.  An exception rolls its transaction back: it is no step.       *)
EXTENDS Integers, FiniteSets, Sequences, FiniteSetsExt

CONSTANTS
  Editions, ListWorks,
  PoolWork,      \* Edition -> the Work its pool will join, or NoWork
  InCollection,  \* the Editions whose pools are in the list's own collection
  TitleOf,       \* Edition -> what guess_license_pools finds it by
  Claims,        \* the equivalencies that may be asserted: two ends and a strength in percent
  Levels,        \* PresentationCalculationPolicy.equivalent_identifier_levels
  Threshold,     \* .equivalent_identifier_threshold, in percent
  NoWork, MaxEntries, MaxListTime, MaxActs

ASSUME ListAssumption ==
  /\ PoolWork \in [Editions -> ListWorks \cup {NoWork}] /\ NoWork \notin ListWorks
  /\ InCollection \subseteq Editions
  /\ \A c \in Claims : c.ends \subseteq Editions /\ c.strength \in 1..100
  /\ Levels \in Nat /\ Threshold \in 0..100 /\ MaxActs \in Nat
  /\ MaxEntries \in Nat \ {0} /\ MaxListTime \in Nat \ {0}

VARIABLES
  claims,        \* the rows of `equivalents`
  joined,        \* the Editions whose pool has its Work
  presentation,  \* Work -> its presentation edition, or NoWork
  entries,       \* row -> [edition, work, first, recent]
  size,          \* CustomList.size
  registered,    \* Works whose search document must be made again
  documents,     \* Works whose search document names the list
  unflagged,     \* history: Works that an entry changed to or from without being registered
  uncounted,     \* history: entries came or went without .size
  acts

listsVars == <<claims, joined, presentation, entries, size, registered, documents, unflagged, uncounted, acts>>

-----------------------------------------------------------------------------
(* What is equivalent.                                                      *)

\* fn_recursive_equivalents, a level at a time: an assertion carries on if it
\* shares an end with the last one and the product, which is `strength` out of
\* `of`, stays above the threshold.  The cutoff is far from what is modelled.
Onward(r) ==
  {[ends |-> c.ends, strength |-> r.strength * c.strength, of |-> r.of * 100] :
     c \in {d \in claims : r.ends \cap d.ends # {} /\ r.strength * d.strength > Threshold * r.of}}

FindEquivs(e) ==
  LET find_equivs[n \in 0..Levels] ==
        IF n = 0 THEN {[ends |-> {e}, strength |-> 1, of |-> 1]} ELSE UNION {Onward(r) : r \in find_equivs[n - 1]}
  IN find_equivs

Equivalents(e) ==
  LET find_equivs == FindEquivs(e)
  IN UNION {r.ends : r \in UNION {find_equivs[n] : n \in 0..Levels}}

\* Edition.work: the Work it is the presentation edition of.
WorkOf(e) ==
  LET ws == {w \in ListWorks : presentation[w] = e} IN IF ws = {} THEN NoWork ELSE CHOOSE w \in ws : TRUE

\* CustomListEntry.set_work: a pool of that title and author, or of an equivalent
\* identifier.  Which of several comes first depends on what is not modelled.
SettledWorks(e) ==
  LET guessed == {p \in joined : TitleOf[p] = TitleOf[e]}
      likely  == IF guessed # {} THEN guessed ELSE joined \cap Equivalents(e)
  IN IF likely = {} THEN {NoWork} ELSE {PoolWork[p] : p \in likely}

-----------------------------------------------------------------------------
(* The list, as a value an operation is applied to.                         *)

theList == [entries |-> entries, size |-> size, registered |-> registered,
            unflagged |-> unflagged, uncounted |-> uncounted]

Becomes(L) ==
  /\ entries' = L.entries /\ size' = L.size /\ registered' = L.registered
  /\ unflagged' = L.unflagged /\ uncounted' = L.uncounted

OnList(rows, w) == \E i \in DOMAIN rows : rows[i].work = w
Flagged(L, ws) == [L EXCEPT !.registered = @ \cup (ws \ {NoWork})]
Unflagged(L, ws) == [L EXCEPT !.unflagged = @ \cup (ws \ {NoWork})]
Without(L, rows) == [L EXCEPT !.entries = [i \in DOMAIN @ \ rows |-> @[i]]]
WorksOf(L, rows) == {L.entries[i].work : i \in rows}

\* entries_for_work
EntriesFor(L, e, w) ==
  LET same == Equivalents(e)
  IN {i \in DOMAIN L.entries : L.entries[i].edition \in same \/ (w # NoWork /\ L.entries[i].work = w)}

Seen(entry, t) == [entry EXCEPT !.recent = Max({@, t})]

Free(L) == (1..MaxEntries) \ DOMAIN L.entries
Created(L, e, w, t) ==
  [L EXCEPT !.entries = [i \in DOMAIN @ \cup {Min(Free(L))} |->
                           IF i \in DOMAIN @ THEN @[i] ELSE [edition |-> e, work |-> w, first |-> t, recent |-> t]]]

\* CustomListEntry.update, whose choice of an Edition and a Work is overwritten by
\* the only caller, who puts the new ones.  The size is left alone.
Merges(L, i, rows) ==
  \/ rows = {i}
  \/ /\ {L.entries[j].edition : j \in rows} \subseteq Equivalents(L.entries[i].edition)
     /\ Cardinality({WorkOf(L.entries[j].edition) : j \in rows} \ {NoWork}) <= 1

\* Mutant of Merged: the entry that stays is not told of the others.
MergedAsIs(L, i, rows, e, w, t) ==
  [Without(Unflagged(L, WorksOf(L, rows)), rows \ {i}) EXCEPT
     !.entries[i] = Seen([@ EXCEPT !.edition = e, !.work = w], t), !.uncounted = @ \/ rows # {i}]

Merged(L, i, rows, e, w, t) ==
  LET entry == [edition |-> e, work |-> w,
                first  |-> Min({L.entries[j].first : j \in rows}),
                recent |-> Max({L.entries[j].recent : j \in rows})]
  IN [Without(Unflagged(L, WorksOf(L, rows)), rows \ {i}) EXCEPT
        !.entries[i] = Seen(entry, t), !.uncounted = @ \/ rows # {i}]

\* add_entry for an Edition: over an entry of an equivalent one, if there is any, and
\* the query for those has no order.
WithEdition(L, e, t) ==
  LET w == WorkOf(e)
      rows == EntriesFor(L, e, w)
      results ==
        IF rows # {} THEN {Merged(L, i, rows, e, w, t) : i \in {j \in rows : Merges(L, j, rows)}}
        ELSE IF Free(L) # {} THEN {[Created(L, e, w, t) EXCEPT !.size = @ + 1]} ELSE {}
  IN {Flagged(R, {w}) : R \in results}

\* add_entry for a Work, without registering it: only that very entry is looked for,
\* and two of them are an error.
WithWork(L, e, w, t) ==
  LET rows == {i \in DOMAIN L.entries : L.entries[i].edition = e /\ L.entries[i].work = w}
  IN IF rows # {}
     THEN {[L EXCEPT !.entries[i] = Seen(@, t)] : i \in {j \in rows : rows = {j}}}
     ELSE IF Free(L) # {} THEN {[Created(L, e, w, t) EXCEPT !.size = @ + 1]} ELSE {}

\* Mutant of Removed: one entry is counted, however many go.
RemovedOne(L, rows) ==
  [Without(Flagged(L, WorksOf(L, rows)), rows) EXCEPT !.size = @ - (IF rows = {} THEN 0 ELSE 1)]

\* remove_entry
Removed(L, rows) ==
  [Without(Flagged(L, WorksOf(L, rows)), rows) EXCEPT !.size = @ - Cardinality(rows)]

\* MembershipManager.update: `current_membership` is as it was before the first entry
\* was added, and the rest of it goes in the end, whatever has become of it.
Maintained(L, e, t) ==
  LET was == {i \in DOMAIN entries : entries[i].edition = e}
  IN IF was = {} THEN WithEdition(L, e, t)
     ELSE {[L EXCEPT !.entries = [i \in DOMAIN @ |-> IF i \in was THEN [@[i] EXCEPT !.recent = t] ELSE @[i]]]}

Leftover(M) == {i \in DOMAIN entries : \A k \in DOMAIN M : M[k] # entries[i].edition}
Dropped(L, rows) == [Without(Unflagged(L, WorksOf(L, rows)), rows) EXCEPT !.uncounted = @ \/ rows # {}]

\* The new members are one or two.
Managed(M, t) ==
  {Dropped(L, Leftover(M) \cap DOMAIN L.entries) :
     L \in UNION {IF Len(M) = 1 THEN {K} ELSE Maintained(K, M[2], t) : K \in Maintained(theList, M[1], t)}}

-----------------------------------------------------------------------------
(* Whoever changes the list.                                                *)

Acts == acts < MaxActs /\ acts' = acts + 1

AddEdition(e, t) == \E L \in WithEdition(theList, e, t) : Becomes(L)
AddWork(w, t) == presentation[w] # NoWork /\ \E L \in WithWork(theList, presentation[w], w, t) : Becomes(Flagged(L, {w}))
RemoveEdition(e) == Becomes(Removed(theList, EntriesFor(theList, e, WorkOf(e))))
RemoveWork(w) ==
  presentation[w] # NoWork /\ Becomes(Removed(theList, EntriesFor(theList, presentation[w], w)))
MembershipUpdate(M, t) == \E L \in Managed(M, t) : Becomes(L)

\* CustomListEntryWorkUpdateMonitor: set_work registers neither the old nor the new Work.
Settle(i, w) ==
  Becomes([Unflagged(theList, IF entries[i].work = w THEN {} ELSE {w, entries[i].work})
             EXCEPT !.entries[i].work = w])

\* TitleFromExternalList.to_custom_list_entry, which does not count what it makes.
ImportTitle(e, first, t) ==
  LET rows == {i \in DOMAIN entries : entries[i].edition = e}
  IN /\ Cardinality(rows) <= 1
     /\ rows = {} => Free(theList) # {}
     /\ \E w \in SettledWorks(e) :
          IF rows = {}
          THEN LET L == Created(theList, e, w, t)
               IN Becomes([Unflagged(L, {w}) EXCEPT
                             !.entries[Min(Free(theList))].first = first, !.uncounted = TRUE])
          ELSE LET i == CHOOSE j \in rows : TRUE
                   entry == [Seen(entries[i], t) EXCEPT !.first = Min({@, first}), !.work = w]
               IN Becomes([Unflagged(theList, IF entries[i].work = w THEN {} ELSE {w, entries[i].work})
                             EXCEPT !.entries[i] = entry])

ChangeList ==
  /\ Acts /\ UNCHANGED <<claims, joined, presentation, documents>>
  /\ \E t \in 1..MaxListTime :
       \/ \E e \in Editions : AddEdition(e, t) \/ RemoveEdition(e)
       \/ \E w \in ListWorks : AddWork(w, t) \/ RemoveWork(w)
       \/ \E e, f \in Editions : MembershipUpdate(IF e = f THEN <<e>> ELSE <<e, f>>, t)
       \/ \E e \in Editions, first \in 1..t : ImportTitle(e, first, t)
       \/ \E i \in DOMAIN entries : \E w \in SettledWorks(entries[i].edition) : Settle(i, w)

\* Mutant of PoolRegisters: nobody does.
NobodyRegisters(w) == {}

\* A pool gets its Work and registers it (licensepool_removed_from_work), and a
\* Work that has just got its first edition has it then.
\* add_work_to_customlists_for_collection counts on that.
PoolRegisters(w) == {w}
PoolJoins(e) ==
  /\ Acts /\ e \notin joined /\ PoolWork[e] # NoWork
  /\ joined' = joined \cup {e}
  /\ LET w == PoolWork[e]
         L == Flagged(theList, PoolRegisters(w))
     IN /\ presentation' = [presentation EXCEPT ![w] = IF @ = NoWork THEN e ELSE @]
        /\ IF e \in InCollection
           THEN \E t \in 1..MaxListTime : \E N \in WithWork(L, presentation'[w], w, t) : Becomes(N)
           ELSE Becomes(L)
  /\ UNCHANGED <<claims, documents>>

\* Work.set_presentation_edition, in a calculate_presentation that saw a change.
ChooseAnother(w, e) ==
  /\ Acts /\ presentation[w] # NoWork /\ e \in joined /\ PoolWork[e] = w /\ presentation[w] # e
  /\ presentation' = [presentation EXCEPT ![w] = e]
  /\ registered' = registered \cup {w}
  /\ UNCHANGED <<claims, joined, entries, size, documents, unflagged, uncounted>>

\* Identifier.equivalent_to
Equate(c) ==
  /\ c \in Claims \ claims
  /\ claims' = claims \cup {c}
  /\ UNCHANGED <<joined, presentation, entries, size, registered, documents, unflagged, uncounted, acts>>

\* SearchIndexCoverageProvider makes the document of a registered Work.
IndexListed(w) ==
  /\ w \in registered
  /\ registered' = registered \ {w}
  /\ documents' = IF OnList(entries, w) THEN documents \cup {w} ELSE documents \ {w}
  /\ unflagged' = unflagged \ {w}
  /\ UNCHANGED <<claims, joined, presentation, entries, size, uncounted, acts>>

\* UpdateCustomListSizeScript
UpdateSize ==
  /\ size' = Cardinality(DOMAIN entries) /\ uncounted' = FALSE
  /\ UNCHANGED <<claims, joined, presentation, entries, registered, documents, unflagged, acts>>

ListsInit ==
  /\ claims = {} /\ joined = {} /\ presentation = [w \in ListWorks |-> NoWork]
  /\ entries = <<>> /\ size = 0
  /\ registered = {} /\ documents = {} /\ unflagged = {} /\ uncounted = FALSE
  /\ acts = 0

ListsNext ==
  \/ ChangeList
  \/ \E e \in Editions : PoolJoins(e)
  \/ \E w \in ListWorks, e \in Editions : ChooseAnother(w, e)
  \/ \E c \in Claims : Equate(c)
  \/ \E w \in ListWorks : IndexListed(w)
  \/ UpdateSize

ListsSpec == ListsInit /\ [][ListsNext]_listsVars

-----------------------------------------------------------------------------
(* Properties.                                                              *)

\* What is written elsewhere about the list agrees with its entries.  A document
\* of a Work that is not registered names the list if, and only if, an entry has
\* that Work, but for Works an entry was moved to or from by set_work, by merging
\* or replacing an equivalent entry, or by a MembershipManager that dropped it.
\* The size is the number of entries, but for entries merged, imported or dropped
\* since UpdateCustomListSizeScript was last run.
ListsAreWrittenDown ==
  /\ \A w \in ListWorks \ (registered \cup unflagged) : w \in documents <=> OnList(entries, w)
  /\ ~uncounted => size = Cardinality(DOMAIN entries)

\* "Even after a book drops off the list, the fact that it once was on the list is
\* still relevant" (CustomListEntry).  Unless its entry is removed, left over by a
\* MembershipManager, or merged by it with one that is left over, a book stays on the
\* list and its first appearance is never put off, however its entries are merged.
Stays(i) ==
  \E j \in DOMAIN entries' :
    /\ entries'[j].first <= entries[i].first
    /\ \/ entries'[j].edition \in Equivalents(entries[i].edition)
       \/ entries[i].work # NoWork /\ entries'[j].work = entries[i].work
MergedWithLeftover(i, M) ==
  \E k \in DOMAIN M, j \in Leftover(M) :
    /\ \A l \in DOMAIN entries : entries[l].edition # M[k]
    /\ {i, j} \subseteq EntriesFor(theList, M[k], WorkOf(M[k]))
Dismissed(i) ==
  \/ \E e \in Editions : RemoveEdition(e) /\ i \in EntriesFor(theList, e, WorkOf(e))
  \/ \E w \in ListWorks : RemoveWork(w) /\ i \in EntriesFor(theList, presentation[w], w)
  \/ \E t \in 1..MaxListTime, e, f \in Editions :
       LET M == IF e = f THEN <<e>> ELSE <<e, f>>
       IN MembershipUpdate(M, t) /\ (i \in Leftover(M) \/ MergedWithLeftover(i, M))
BooksStayOnTheList ==
  [][\A i \in DOMAIN entries : Stays(i) \/ Dismissed(i)]_listsVars

\* A list knows its books, and keeps them through everything that happens to the
\* works and editions: the entries of a list follow its editions to other works.
ListsAreKept == []ListsAreWrittenDown /\ BooksStayOnTheList
=============================================================================
