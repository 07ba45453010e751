----------------------------- MODULE PagedFeed -----------------------------
(***************************************************************************)
(* A client that follows the "next" links of a feed to its end, while the  *)
(* search index and the database change (lane.py Pagination and works,     *)
(* external_search.py SortKeyPagination and query_works, opds.py           *)
(* _generate_page).  A page is a range of positions, or the works that     *)
(* come after the sort values of the last one.                             *)
(***************************************************************************)
EXTENDS Integers, FiniteSets

CONSTANTS
  Books,      \* the works, by work_id, the tiebreaker of every order
  SortKeys,   \* the values of the field the feed is sorted by
  PageSize    \* Pagination.size

NotIndexed == 0

ASSUME PagedFeedAssumption ==
  /\ Books \subseteq Nat /\ SortKeys \subseteq Nat \ {NotIndexed}
  /\ IsFiniteSet(Books) /\ IsFiniteSet(SortKeys)
  /\ PageSize \in Nat \ {0}

VARIABLES
  kind,      \* which of the two kinds of pagination
  key,       \* each book's sort key in the search index
  offered,   \* the books the database can deliver
  after,     \* the position, or the sort values, that the next page begins after
  finished,  \* has a page come without a "next" link?
  shown,     \* history: how often each steady book was on a page
  steady,    \* history: the books nothing has happened to
  moved,     \* history: has anything changed its place?
  hidden     \* history: did the last page have hits, none of them deliverable?

pagesVars == <<kind, key, offered, after, finished, shown, steady, moved, hidden>>

-----------------------------------------------------------------------------
\* Mutant of Follows: the order has no tiebreaker.
FollowsByKey(values, last) == values[1] > last[1]

\* search_after
Follows(values, last) ==
  values[1] > last[1] \/ (values[1] = last[1] /\ values[2] > last[2])

SortValues(b) == <<key[b], b>>
InIndex == {b \in Books : key[b] # NotIndexed}
\* sort_order
Precedes(b, c) == key[b] < key[c] \/ (key[b] = key[c] /\ b < c)
Before(b, S) == {c \in S : Precedes(c, b)}
Position(b) == Cardinality(Before(b, InIndex))

\* modify_search_query
Following == {b \in InIndex : Follows(SortValues(b), after)}
Hits ==
  IF kind = "offset" THEN {b \in InIndex : Position(b) \in after .. after + PageSize - 1}
  ELSE {b \in Following : Cardinality(Before(b, Following)) < PageSize}

PagesInit ==
  /\ kind \in {"offset", "key"}
  /\ key \in [Books -> SortKeys \cup {NotIndexed}]
  /\ offered = Books
  /\ after = IF kind = "offset" THEN 0 ELSE <<NotIndexed, 0>>
  /\ finished = FALSE /\ hidden = FALSE
  /\ shown = [b \in Books |-> 0]
  /\ steady = InIndex
  /\ moved = FALSE

LastOf(hits) == CHOOSE b \in hits : \A c \in hits : c = b \/ Precedes(c, b)
NextPage(hits) == IF kind = "offset" THEN after + PageSize ELSE SortValues(LastOf(hits))

\* works: the hits that are still delivered; page_loaded has been told of the
\* hits, but without works there is no "next" link.
GeneratePage ==
  /\ ~finished
  /\ LET hits == Hits
         works == hits \cap offered
     IN  /\ shown' = [b \in Books |-> IF b \in works \cap steady THEN shown[b] + 1 ELSE shown[b]]
         /\ finished' = (works = {})
         /\ hidden' = (hits # {} /\ works = {})
         /\ after' = IF works = {} THEN after ELSE NextPage(hits)
  /\ UNCHANGED <<kind, key, offered, steady, moved>>

\* A book is indexed anew: it arrives, leaves, or moves.
Reposition(b, k) ==
  /\ ~finished
  /\ key[b] # k
  /\ key' = [key EXCEPT ![b] = k]
  /\ steady' = steady \ {b} /\ shown' = [shown EXCEPT ![b] = 0]
  /\ moved' = TRUE
  /\ UNCHANGED <<kind, offered, after, finished, hidden>>

\* A book loses its copies, or gets some, and the index does not know yet.
Redeliver(b) ==
  /\ ~finished
  /\ offered' \in {offered \cup {b}, offered \ {b}}
  /\ offered' # offered
  /\ steady' = steady \ {b} /\ shown' = [shown EXCEPT ![b] = 0]
  /\ UNCHANGED <<kind, key, after, finished, moved, hidden>>

PagesNext ==
  \/ GeneratePage
  \/ \E b \in Books : Redeliver(b) \/ \E k \in SortKeys \cup {NotIndexed} : Reposition(b, k)

PagesSpec == PagesInit /\ [][PagesNext]_pagesVars

-----------------------------------------------------------------------------
\* Whoever follows the links to the end sees every book that was there all the
\* time exactly once, whatever happens to the others meanwhile: with a sort key
\* always, with offsets as long as no other book changes its place.  The feed
\* ends early at a page of hits that the database has no copies for.
PagesShowEveryBookOnce ==
  /\ kind = "key" \/ ~moved => \A b \in steady : shown[b] <= 1
  /\ (finished /\ ~hidden) /\ (kind = "key" \/ ~moved) => \A b \in steady : shown[b] = 1
=============================================================================
