----------------------------- MODULE WorkLists -----------------------------
(***************************************************************************)
(* The books a patron finds in a lane (lane.py, external_search.py).       *)
(*                                                                         *)
(* The same question is answered three times, in three languages: by the   *)
(* Filter that is sent to the search index, by the query that turns the    *)
(* hits into works and drops those that cannot be delivered, and by the    *)
(* query of works_from_database.  They inherit restrictions along the      *)
(* hierarchy of lanes in different ways, and the index may be behind the   *)
(* database.  The module follows one work, its license pools and a chain   *)
(* of lanes, each the parent of the next, while they are edited.           *)
(*                                                                         *)
(* `languages' stands for every single-valued restriction (languages,      *)
(* media, fiction).                                                        *)
(***************************************************************************)
EXTENDS Integers, FiniteSets

CONSTANTS
    Depth,                 \* the longest chain of lanes; lane 1 is its top
    LibraryCollections,    \* the collections of the library the lanes belong to
    ParentCollections,     \* the parents of those collections
    Genres, Subgenres,     \* the genres, and the subgenres of each
    ListsFrom,             \* the custom lists of each data source
    NoSource, NoRestriction,
    Scenes                 \* what may be edited, and to what: a sequence

Lanes == 1 .. Depth
AllCollections == LibraryCollections \cup ParentCollections
NoBound == -1              \* a bound of a target age that is missing
YoungAdultCutoff == 14
AdultCutoff == 18
AllAgesCutoff == 8

Adult == "Adult"
AdultsOnly == "Adults Only"
YoungAdult == "Young Adult"
Children == "Children"
AllAges == "All Ages"
Research == "Research"
Audiences == {Adult, AdultsOnly, YoungAdult, Children, AllAges, Research}
YoungChildren == {Children, AllAges}
Juvenile == YoungChildren \cup {YoungAdult}

Availabilities == {"all", "now", "open_access", "not_now"}

ASSUME SettingAssumption ==
    /\ Depth \in Nat \ {0}
    /\ LibraryCollections # {}
    /\ Subgenres \in [Genres -> SUBSET Genres]
    /\ \A s \in DOMAIN Scenes : Scenes[s].depth \in Lanes
    /\ \A s \in DOMAIN Scenes : \A e \in Scenes[s].edits :
          e.field = "age" /\ e.value # {} =>
            \E young, old \in e.value : young \in Nat /\ old \in Nat /\ e.value = young .. old

VARIABLES
    scene,       \* which of the Scenes this is
    lanes,       \* the rows of the lanes table
    roots,       \* the lanes that are the root lane of some type of patron
    work,        \* the work and its presentation edition
    stock,       \* its license pools
    indexed      \* its document in the search index

vars == <<scene, lanes, roots, work, stock, indexed>>

(* A range of ages is the set of its members, {} when it is not set.  A   *)
(* rule about a genre says whether it includes or excludes, and whether it *)
(* reaches the subgenres.                                                  *)
BlankLane == [languages |-> {}, audiences |-> {}, age |-> {}, genres |-> {},
              lists |-> {}, source |-> NoSource, inherit |-> TRUE]
Oldest(ages) == CHOOSE a \in ages : \A b \in ages : b <= a
Youngest(ages) == CHOOSE a \in ages : \A b \in ages : a <= b

(***************************************************************************)
(* The search document.                                                    *)
(***************************************************************************)
Owned(p) == p.open_access \/ p.unlimited \/ p.owned
Available(p) == p.unlimited \/ p.available

Subdocument(p) == [collection |-> p.collection, suppressed |-> p.suppressed,
                   open_access |-> p.open_access, available |-> Available(p),
                   licensed |-> p.unlimited \/ p.owned]

Document == [work |-> work,
             licensepools |-> {Subdocument(p) : p \in {q \in stock : Owned(q)}}]

(***************************************************************************)
(* The restrictions of a lane.                                             *)
(***************************************************************************)
Bucket(rules) == UNION {{r.genre} \cup (IF r.recursive THEN Subgenres[r.genre] ELSE {}) : r \in rules}

GenreIds(lane) ==
    LET included == Bucket({r \in lane.genres : r.inclusive})
        excluded == Bucket({r \in lane.genres : ~r.inclusive})
    IN  IF lane.genres = {} THEN NoRestriction
        ELSE (IF included = {} THEN Genres ELSE included) \ excluded

CustomListIds(lane) == IF lane.source # NoSource THEN ListsFrom[lane.source] ELSE lane.lists

(* The lanes whose restrictions the parent's inheritance lets through.    *)
Reach(l) == {m \in 1 .. l : \A k \in (m + 1) .. l : lanes[k].inherit}

InheritedValue(l, field) ==
    LET set == {m \in Reach(l) : lanes[m][field] # {}}
    IN  IF set = {} THEN {} ELSE lanes[Oldest(set)][field]

(* Mutant: the restrictions of the parents are forgotten.                 *)
HierarchyOfOne(l) == {l}

(* hierarchy is all of the parentage, whatever the ancestors inherit.     *)
Hierarchy(l) == IF lanes[l].inherit THEN 1 .. l ELSE {l}

(***************************************************************************)
(* Lane.search_target is the nearest root lane, itself included.  Without  *)
(* one the code makes up a list of the lane's languages and juvenile       *)
(* audiences; that list is not modelled, and only searches below a root    *)
(* lane are looked at.                                                     *)
(***************************************************************************)
RootsAbove(l) == {m \in roots : m <= l}
SearchTarget(l) == IF RootsAbove(l) = {} THEN l ELSE Oldest(RootsAbove(l))

(***************************************************************************)
(* The Filter.                                                             *)
(***************************************************************************)
FilterAudiences(audiences, age) ==
    LET fluent == \/ audiences \cap {YoungAdult, Adult} # {}
                  \/ /\ Children \in audiences
                     /\ age = {} \/ Oldest(age) >= AllAgesCutoff
    IN  IF audiences # {} /\ fluent THEN audiences \cup {AllAges} ELSE audiences

AudienceMatches(audience, audiences) ==
    IF audiences = {} THEN audience # Research ELSE audience \in audiences

(* Mutant: open-access books are left out of what is available now.      *)
OpenAccessIsNotAvailable(d, availability) ==
    CASE availability = "all" -> TRUE
      [] availability = "now" -> d.available
      [] availability = "open_access" -> d.open_access
      [] availability = "not_now" -> ~d.open_access /\ d.licensed /\ ~d.available

AgeMatches(target, age) ==
    age # {} => /\ target.lower = NoBound \/ target.lower <= Oldest(age)
                /\ target.upper = NoBound \/ target.upper >= Youngest(age)

AvailabilityMatches(d, availability) ==
    CASE availability = "all" -> TRUE
      [] availability = "now" -> d.open_access \/ d.available
      [] availability = "open_access" -> d.open_access
      [] availability = "not_now" -> ~d.open_access /\ d.licensed /\ ~d.available

(* Each filter on the license pools is a nested query of its own: one      *)
(* subdocument may satisfy one of them and another one the next.           *)
PoolsMatch(pools, allow_holds, availability) ==
    /\ \E d \in pools : d.collection \in LibraryCollections
    /\ \E d \in pools : AvailabilityMatches(d, availability)
    /\ ~allow_holds => \E d \in pools : d.available \/ d.open_access
    /\ \E d \in pools : ~d.suppressed
    /\ \E d \in pools : d.licensed \/ d.open_access

SearchMatches(l, allow_holds, availability) ==
    LET w == indexed.work
        languages == InheritedValue(l, "languages")
        age == InheritedValue(l, "age")
        audiences == FilterAudiences(InheritedValue(l, "audiences"), age)
    IN  /\ w.ready
        /\ PoolsMatch(indexed.licensepools, allow_holds, availability)
        /\ languages # {} => w.language \in languages
        /\ AudienceMatches(w.audience, audiences)
        /\ AgeMatches(w.target, age)
        /\ \A m \in Hierarchy(l) : /\ GenreIds(lanes[m]) # NoRestriction => w.genres \cap GenreIds(lanes[m]) # {}
                                   /\ CustomListIds(lanes[m]) # {} => w.lists \cap CustomListIds(lanes[m]) # {}

(***************************************************************************)
(* The database queries.                                                   *)
(***************************************************************************)
ReadyAndDeliverable(p, collections) ==
    /\ work.ready
    /\ p.deliverable
    /\ ~p.suppressed
    /\ ~p.superceded
    /\ Owned(p)
    /\ p.collection \in collections

FacetAllows(p, availability) ==
    LET available_now == p.open_access \/ Available(p)
    IN  CASE availability = "all" -> Owned(p)
          [] availability = "now" -> available_now
          [] availability = "open_access" -> p.open_access
          [] availability = "not_now" -> ~available_now /\ p.owned

(* The upper bound of a range that was read from the database is the       *)
(* first age beyond it, and age_range_filter_clauses uses it as it is.     *)
AgeRangeAllows(lane) ==
    LET adult == Oldest(lane.age) + 1 >= AdultCutoff \/ lane.audiences \cap {Adult, AdultsOnly} # {}
    IN  lane.age # {} =>
            IF work.target.lower = NoBound /\ work.target.upper = NoBound THEN adult
            ELSE AgeMatches(work.target, lane.age)

LaneAllows(lane) ==
    /\ lane.languages # {} => work.language \in lane.languages
    /\ lane.audiences # {} => work.audience \in lane.audiences
    /\ GenreIds(lane) \notin {NoRestriction, {}} => work.genres \cap GenreIds(lane) # {}
    /\ CustomListIds(lane) # {} => work.lists \cap CustomListIds(lane) # {}
    /\ AgeRangeAllows(lane)

(* works_from_database                                                     *)
FromDatabase(l, availability) ==
    /\ \A m \in Reach(l) : LaneAllows(lanes[m])
    /\ \E p \in stock : ReadyAndDeliverable(p, LibraryCollections) /\ FacetAllows(p, availability)

(* works: the hits, looked up in the database as a SpecificWorkList        *)
Shown(l, allow_holds, availability) ==
    /\ SearchMatches(l, allow_holds, availability)
    /\ \E p \in stock : ReadyAndDeliverable(p, AllCollections) /\ FacetAllows(p, availability)

(* Mutant: the reader has to be older than the youngest intended reader.  *)
MatchOlderReadersOnly(audience, lower, reader, reader_age) ==
    \/ reader \notin Juvenile
    \/ audience = AllAges
    \/ reader = YoungAdult /\ (reader_age = NoBound \/ reader_age >= AdultCutoff)
    \/ reader = YoungAdult /\ audience \in YoungChildren
    \/ /\ audience \in Juvenile
       /\ reader \in YoungChildren => audience # YoungAdult
       /\ lower = NoBound \/ reader_age = NoBound \/ reader_age > lower

(***************************************************************************)
(* Who may read what: the patrons whose root lane is r.                    *)
(***************************************************************************)
AgeAppropriateMatch(audience, lower, reader, reader_age) ==
    \/ reader \notin Juvenile
    \/ audience = AllAges
    \/ reader = YoungAdult /\ (reader_age = NoBound \/ reader_age >= AdultCutoff)
    \/ reader = YoungAdult /\ audience \in YoungChildren
    \/ /\ audience \in Juvenile
       /\ reader \in YoungChildren => audience # YoungAdult
       /\ lower = NoBound \/ reader_age = NoBound \/ reader_age >= lower

AgeAppropriate(audience, lower, r) ==
    \E reader \in lanes[r].audiences :
        AgeAppropriateMatch(audience, lower, reader,
                            IF lanes[r].age = {} THEN NoBound ELSE Oldest(lanes[r].age))

AccessibleTo(l, r) ==
    /\ r <= l
    /\ \A audience \in lanes[l].audiences :
           AgeAppropriate(audience, IF lanes[l].age = {} THEN NoBound ELSE Youngest(lanes[l].age), r)

(***************************************************************************)
(* Edits.                                                                  *)
(***************************************************************************)
Init ==
    /\ scene \in DOMAIN Scenes
    /\ lanes = [l \in Lanes |-> BlankLane]
    /\ roots = {}
    /\ work \in Scenes[scene].works
    /\ stock \in Scenes[scene].stock
    /\ indexed = Document

EditRestriction(l, edit) ==
    /\ edit.field \in {"languages", "genres", "lists", "inherit"}
    /\ lanes' = [lanes EXCEPT ![l][edit.field] = edit.value]
    /\ UNCHANGED <<scene, roots, work, stock, indexed>>

SetListDatasource(l, edit) ==
    /\ edit.field = "source"
    /\ lanes' = [lanes EXCEPT ![l].source = edit.value, ![l].lists = {}]
    /\ UNCHANGED <<scene, roots, work, stock, indexed>>

ContradictsAge(lane, audiences) == lane.audiences # {} /\ lane.age # {} /\ audiences # lane.audiences

SetAudiences(l, edit) ==
    /\ edit.field = "audiences"
    /\ ~ContradictsAge(lanes[l], edit.value)
    /\ lanes' = [lanes EXCEPT ![l].audiences = edit.value]
    /\ UNCHANGED <<scene, roots, work, stock, indexed>>

Capped(age) ==
    LET low == IF Youngest(age) >= AdultCutoff THEN AdultCutoff ELSE Youngest(age)
        high == IF Oldest(age) >= AdultCutoff THEN AdultCutoff ELSE Oldest(age)
    IN  low .. high

LockedAudiences(age) ==
    {a \in {Adult, Children, YoungAdult} :
        \/ a = Adult /\ Oldest(age) >= AdultCutoff
        \/ a = Children /\ Youngest(age) < YoungAdultCutoff
        \/ a = YoungAdult /\ Oldest(age) >= YoungAdultCutoff}

SetTargetAge(l, edit) ==
    /\ edit.field = "age"
    /\ lanes' = IF edit.value = {} THEN [lanes EXCEPT ![l].age = {}]
                ELSE [lanes EXCEPT ![l].age = Capped(edit.value),
                                   ![l].audiences = LockedAudiences(Capped(edit.value))]
    /\ UNCHANGED <<scene, roots, work, stock, indexed>>

EditLane(l, edit) ==
    \/ EditRestriction(l, edit)
    \/ SetListDatasource(l, edit)
    \/ SetAudiences(l, edit)
    \/ SetTargetAge(l, edit)

MakeRoot(l) ==
    /\ Scenes[scene].patrons
    /\ roots' \in {roots \cup {l}, roots \ {l}}
    /\ UNCHANGED <<scene, lanes, work, stock, indexed>>

EditWork ==
    /\ work' \in Scenes[scene].works
    /\ UNCHANGED <<scene, lanes, roots, stock, indexed>>

EditStock ==
    /\ stock' \in Scenes[scene].stock
    /\ UNCHANGED <<scene, lanes, roots, work, indexed>>

Reindex ==
    /\ indexed' = Document
    /\ UNCHANGED <<scene, lanes, roots, work, stock>>

Next ==
    \/ \E l \in 1 .. Scenes[scene].depth, edit \in Scenes[scene].edits : EditLane(l, edit)
    \/ \E l \in 1 .. Scenes[scene].depth : MakeRoot(l)
    \/ EditWork
    \/ EditStock
    \/ Reindex

Spec == Init /\ [][Next]_vars

(***************************************************************************)
(* Properties.                                                             *)
(***************************************************************************)

Fresh == indexed = Document

(* With an index that is up to date, whatever works_from_database finds in *)
(* a lane is also found through the index.  The exceptions are places      *)
(* where the two really differ: books for researchers in a lane without    *)
(* audiences, a lane whose genres exclude each other, a lane that inherits *)
(* from a parent that does not inherit itself.                             *)
NothingIsMissing ==
    \A l \in 1 .. Scenes[scene].depth, availability \in Availabilities :
        /\ Fresh
        /\ work.audience = Research => InheritedValue(l, "audiences") # {}
        /\ \A m \in Hierarchy(l) : GenreIds(lanes[m]) # {}
        /\ Hierarchy(l) \subseteq Reach(l)
        /\ FromDatabase(l, availability)
        => Shown(l, TRUE, availability)

(* A patron with a root lane that has audiences may borrow every book that *)
(* is found by searching from that lane or a lane below it: the overlap of *)
(* target ages in the Filter agrees with age_appropriate_match.  Nobody is *)
(* locked out of the lane that is theirs.                                  *)
FoundBooksMayBeBorrowed ==
    \A r \in roots :
        /\ AccessibleTo(r, r)
        /\ \A l \in r .. Scenes[scene].depth :
               /\ Fresh
               /\ lanes[r].audiences # {}
               /\ SearchTarget(l) = r
               /\ Shown(SearchTarget(l), TRUE, "all")
               => AgeAppropriate(work.audience, work.target.lower, r)

(* Through the index, a lane that inherits shows no more than its parent   *)
(* as long as it only adds restrictions of the kinds that add up (genres   *)
(* and custom lists), however stale the index is.                          *)
AddedRestrictionsNarrow ==
    \A l \in 2 .. Scenes[scene].depth, availability \in Availabilities, allow_holds \in BOOLEAN :
        /\ lanes[l].inherit
        /\ lanes[l].languages = {} /\ lanes[l].audiences = {} /\ lanes[l].age = {}
        /\ SearchMatches(l, allow_holds, availability)
        => SearchMatches(l - 1, allow_holds, availability)
=============================================================================
