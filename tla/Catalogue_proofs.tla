-------------------------- MODULE Catalogue_proofs --------------------------
(***************************************************************************)
(* Theorems about WorkLists, GroupedFeed, PagedFeed and CachedFeeds, for   *)
(* every chain of lanes and every catalogue, every size of a page or a     *)
(* group, and every number of requests for cached feeds.                   *)
(***************************************************************************)
EXTENDS WorkLists, GroupedFeed, PagedFeed, CachedFeeds,
        FiniteSetTheorems, WellFoundedInduction, TLAPS

(***************************************************************************)
(* The works of a lane.                                                    *)
(***************************************************************************)
(***************************************************************************)
(* Inheritance.                                                            *)
(***************************************************************************)
SetBy(l, field) == {m \in Reach(l) : lanes[m][field] # {}}

\* What a lane does not set is what its parent has, set or inherited.
LEMMA InheritsFromParent ==
  ASSUME NEW l \in Int, l >= 2, lanes[l].inherit, NEW field, lanes[l][field] = {}
  PROVE  InheritedValue(l, field) = InheritedValue(l - 1, field)
<1>1. SetBy(l, field) \subseteq SetBy(l - 1, field)
  BY DEF SetBy, Reach
<1>2. SetBy(l - 1, field) \subseteq SetBy(l, field)
  <2> SUFFICES ASSUME NEW m \in Reach(l - 1) PROVE m \in Reach(l)
    BY DEF SetBy
  <2>1. m \in 1 .. l
    BY DEF Reach
  <2>2. ASSUME NEW k \in (m + 1) .. l PROVE lanes[k].inherit
    <3>1. CASE k = l
      BY <3>1
    <3>2. CASE k # l
      BY <2>1, <2>2, <3>2 DEF Reach
    <3> QED BY <3>1, <3>2
  <2> QED BY <2>1, <2>2 DEF Reach
<1>3. SetBy(l, field) = SetBy(l - 1, field)
  BY <1>1, <1>2
<1> QED BY <1>3 DEF InheritedValue, SetBy

\* Added restrictions narrow what a search finds, in every state.
LEMMA Narrow == AddedRestrictionsNarrow
<1> SUFFICES ASSUME NEW l \in 2 .. Scenes[scene].depth, NEW availability \in Availabilities, NEW allow_holds \in BOOLEAN,
                    lanes[l].inherit,
                    lanes[l].languages = {}, lanes[l].audiences = {}, lanes[l].age = {},
                    SearchMatches(l, allow_holds, availability)
             PROVE  SearchMatches(l - 1, allow_holds, availability)
  BY DEF AddedRestrictionsNarrow
<1>1. InheritedValue(l, "languages") = InheritedValue(l - 1, "languages")
  BY InheritsFromParent
<1>2. InheritedValue(l, "audiences") = InheritedValue(l - 1, "audiences")
  BY InheritsFromParent
<1>3. InheritedValue(l, "age") = InheritedValue(l - 1, "age")
  BY InheritsFromParent
<1>4. Hierarchy(l - 1) \subseteq Hierarchy(l)
  BY DEF Hierarchy
<1> QED BY <1>1, <1>2, <1>3, <1>4 DEF SearchMatches

\* For every chain of lanes, set of genres and lists and however stale an index:
\* what only adds restrictions to its parent shows no more than its parent.
THEOREM RestrictionsNarrow == Spec => []AddedRestrictionsNarrow
BY Narrow, PTL

(***************************************************************************)
(* Ages.                                                                   *)
(***************************************************************************)
LEMMA LeastOf ==
  ASSUME NEW S \in SUBSET Nat, S # {}
  PROVE  \E m \in S : \A k \in S : m <= k
<1>1. PICK m \in S : \A k \in S : ~ (<<k, m>> \in OpToRel(<, Nat))
  BY NatLessThanWellFounded, WFMin, Zenon
<1>2. \A k \in S : ~ (k < m)
  BY <1>1 DEF OpToRel
<1> QED BY <1>2

\* A set of numbers up to n has a greatest and a least one.
LEMMA OldestAndYoungest ==
  ASSUME NEW n \in Nat, NEW ages \in SUBSET (0 .. n), ages # {}
  PROVE  /\ Oldest(ages) \in ages /\ \A a \in ages : a <= Oldest(ages)
         /\ Youngest(ages) \in ages /\ \A a \in ages : Youngest(ages) <= a
<1> DEFINE below == {n - a : a \in ages}
<1>0. \A a \in ages : a \in Nat /\ n - a \in Nat
  OBVIOUS
<1>1. below \in SUBSET Nat /\ below # {}
  BY <1>0
<1>2. PICK least \in below : \A k \in below : least <= k
  BY <1>1, LeastOf
<1>3. PICK old \in ages : least = n - old
  OBVIOUS
<1>4. ASSUME NEW a \in ages PROVE a <= old
  <2>1. n - a \in below
    OBVIOUS
  <2> HIDE DEF below
  <2>2. least <= n - a
    BY <1>2, <2>1
  <2>3. n \in Int /\ a \in Int /\ old \in Int
    BY <1>0
  <2> QED BY <1>3, <2>2, <2>3
<1>5. PICK young \in ages : \A a \in ages : young <= a
  <2>1. ages \in SUBSET Nat
    BY <1>0
  <2> QED BY <2>1, LeastOf
<1>6. Oldest(ages) \in ages /\ \A a \in ages : a <= Oldest(ages)
  <2>1. \E a \in ages : \A b \in ages : b <= a
    BY <1>4
  <2> HIDE DEF below
  <2> QED BY <2>1 DEF Oldest
<1>7. Youngest(ages) \in ages /\ \A a \in ages : Youngest(ages) <= a
  <2>1. \E a \in ages : \A b \in ages : a <= b
    BY <1>5
  <2> HIDE DEF below
  <2> QED BY <2>1 DEF Youngest
<1> QED BY <1>6, <1>7

\* The value a lane inherits is that of a lane within its reach.
LEMMA InheritedFrom ==
  ASSUME NEW l \in Nat, NEW field, InheritedValue(l, field) # {}
  PROVE  \E m \in Reach(l) : InheritedValue(l, field) = lanes[m][field]
<1>1. InheritedValue(l, field) = IF SetBy(l, field) = {} THEN {} ELSE lanes[Oldest(SetBy(l, field))][field]
  BY Zenon DEF InheritedValue, SetBy
<1>2. SetBy(l, field) \in SUBSET (0 .. l)
  BY DEF SetBy, Reach
<1>3. SetBy(l, field) # {}
  BY <1>1
<1>4. Oldest(SetBy(l, field)) \in SetBy(l, field)
  BY <1>2, <1>3, OldestAndYoungest
<1>5. Oldest(SetBy(l, field)) \in Reach(l)
  BY <1>4 DEF SetBy
<1> QED BY <1>1, <1>3, <1>5

\* What a lane sets is not inherited.
LEMMA OwnValue ==
  ASSUME NEW l \in Nat \ {0}, NEW field, lanes[l][field] # {}
  PROVE  InheritedValue(l, field) = lanes[l][field]
<1>1. l \in SetBy(l, field) /\ SetBy(l, field) \in SUBSET (0 .. l)
  BY DEF SetBy, Reach
<1>2. Oldest(SetBy(l, field)) = l
  <2>1. Oldest(SetBy(l, field)) \in SetBy(l, field) /\ l <= Oldest(SetBy(l, field))
    BY <1>1, OldestAndYoungest
  <2> QED BY <1>1, <2>1
<1> QED BY <1>1, <1>2 DEF InheritedValue, SetBy

(***************************************************************************)
(* What the database finds, the index finds.                               *)
(***************************************************************************)
\* One license pool that delivers answers all the questions about pools.
LEMMA OnePoolMatches ==
  ASSUME Fresh, NEW p \in stock, NEW availability \in Availabilities,
         ReadyAndDeliverable(p, LibraryCollections), FacetAllows(p, availability)
  PROVE  PoolsMatch(indexed.licensepools, TRUE, availability)
<1> DEFINE d == Subdocument(p)
<1>1. Owned(p) /\ ~p.suppressed /\ p.collection \in LibraryCollections
  BY DEF ReadyAndDeliverable
<1>2. d \in indexed.licensepools
  BY <1>1 DEF Fresh, Document
<1>3. /\ d.collection = p.collection /\ d.suppressed = p.suppressed /\ d.open_access = p.open_access
      /\ d.available = Available(p) /\ d.licensed = (p.unlimited \/ p.owned)
  BY DEF Subdocument
<1> HIDE DEF d
<1>4. d.licensed \/ d.open_access
  BY <1>1, <1>3 DEF Owned
<1>5. AvailabilityMatches(d, availability)
  <2>1. CASE availability = "all"
    BY <2>1 DEF AvailabilityMatches
  <2>2. CASE availability = "now"
    BY <1>3, <2>2 DEF AvailabilityMatches, FacetAllows
  <2>3. CASE availability = "open_access"
    BY <1>3, <2>3 DEF AvailabilityMatches, FacetAllows
  <2>4. CASE availability = "not_now"
    BY <1>3, <2>4 DEF AvailabilityMatches, FacetAllows
  <2> QED BY <2>1, <2>2, <2>3, <2>4 DEF Availabilities
<1> QED BY <1>1, <1>2, <1>3, <1>4, <1>5 DEF PoolsMatch

LEMMA FoundByBoth == scene \in DOMAIN Scenes => NothingIsMissing
<1> SUFFICES ASSUME scene \in DOMAIN Scenes,
                    NEW l \in 1 .. Scenes[scene].depth, NEW availability \in Availabilities, Fresh,
                    work.audience = Research => InheritedValue(l, "audiences") # {},
                    \A m \in Hierarchy(l) : GenreIds(lanes[m]) # {},
                    Hierarchy(l) \subseteq Reach(l),
                    FromDatabase(l, availability)
             PROVE  Shown(l, TRUE, availability)
  BY DEF NothingIsMissing
<1>1. l \in Nat
  BY SettingAssumption DEF Lanes
<1>2. PICK p \in stock : ReadyAndDeliverable(p, LibraryCollections) /\ FacetAllows(p, availability)
  BY DEF FromDatabase
<1>3. indexed.work = work
  BY DEF Fresh, Document
<1>4. \A m \in Reach(l) : LaneAllows(lanes[m])
  BY DEF FromDatabase
<1>5. InheritedValue(l, "languages") # {} => work.language \in InheritedValue(l, "languages")
  BY <1>1, <1>4, InheritedFrom DEF LaneAllows
<1>6. AudienceMatches(work.audience, FilterAudiences(InheritedValue(l, "audiences"), InheritedValue(l, "age")))
  <2>1. CASE InheritedValue(l, "audiences") = {}
    BY <2>1 DEF AudienceMatches, FilterAudiences
  <2>2. CASE InheritedValue(l, "audiences") # {}
    <3>1. work.audience \in InheritedValue(l, "audiences")
      BY <1>1, <1>4, <2>2, InheritedFrom DEF LaneAllows
    <3> QED BY <2>2, <3>1 DEF AudienceMatches, FilterAudiences
  <2> QED BY <2>1, <2>2
<1>7. AgeMatches(work.target, InheritedValue(l, "age"))
  <2>1. CASE InheritedValue(l, "age") = {}
    BY <2>1 DEF AgeMatches
  <2>2. CASE InheritedValue(l, "age") # {}
    <3>1. PICK m \in Reach(l) : InheritedValue(l, "age") = lanes[m].age
      BY <1>1, <2>2, InheritedFrom
    <3>2. AgeRangeAllows(lanes[m])
      BY <1>4 DEF LaneAllows
    <3> QED BY <2>2, <3>1, <3>2 DEF AgeRangeAllows, AgeMatches
  <2> QED BY <2>1, <2>2
<1>8. \A m \in Hierarchy(l) : /\ GenreIds(lanes[m]) # NoRestriction => work.genres \cap GenreIds(lanes[m]) # {}
                              /\ CustomListIds(lanes[m]) # {} => work.lists \cap CustomListIds(lanes[m]) # {}
  BY <1>4 DEF LaneAllows
<1>9. PoolsMatch(indexed.licensepools, TRUE, availability)
  BY <1>2, OnePoolMatches
<1>10. work.ready /\ ReadyAndDeliverable(p, AllCollections)
  BY <1>2 DEF ReadyAndDeliverable, AllCollections
<1>11. SearchMatches(l, TRUE, availability)
  BY <1>3, <1>5, <1>6, <1>7, <1>8, <1>9, <1>10 DEF SearchMatches
<1> QED BY <1>2, <1>10, <1>11 DEF Shown

(***************************************************************************)
(* What is found may be borrowed.                                          *)
(***************************************************************************)
\* Every lane has its fields, and an age range is one between two numbers.
LanesTypeOK ==
  /\ scene \in DOMAIN Scenes
  /\ roots \subseteq 1 .. Scenes[scene].depth
  /\ DOMAIN lanes = Lanes
  /\ \A l \in Lanes : DOMAIN lanes[l] = DOMAIN BlankLane
  /\ \A l \in Lanes : \E n \in Nat : lanes[l].age \subseteq 0 .. n

LEMMA CappedIsARange ==
  ASSUME NEW n \in Nat, NEW ages \in SUBSET (0 .. n), ages # {}
  PROVE  \E o \in Nat : Capped(ages) \subseteq 0 .. o
<1>1. Oldest(ages) \in Nat /\ Youngest(ages) \in Nat
  <2>1. Oldest(ages) \in ages /\ Youngest(ages) \in ages
    BY OldestAndYoungest
  <2>2. \A a \in ages : a \in Nat
    OBVIOUS
  <2> QED BY <2>1, <2>2
<1>2. Capped(ages) \subseteq 0 .. Oldest(ages) \cup 0 .. AdultCutoff
  BY <1>1 DEF Capped, AdultCutoff
<1>3. Capped(ages) \subseteq 0 .. (Oldest(ages) + AdultCutoff)
  BY <1>1, <1>2 DEF AdultCutoff
<1>4. Oldest(ages) + AdultCutoff \in Nat
  BY <1>1 DEF AdultCutoff
<1> QED BY <1>3, <1>4

LEMMA EditsKeepLanes ==
  ASSUME LanesTypeOK, NEW l \in 1 .. Scenes[scene].depth, NEW edit \in Scenes[scene].edits, EditLane(l, edit)
  PROVE  LanesTypeOK'
<1>1. l \in Lanes /\ 1 .. Scenes[scene].depth \subseteq Lanes
  BY SettingAssumption DEF LanesTypeOK, Lanes
<1>2. scene' = scene /\ roots' = roots
  BY DEF EditLane, EditRestriction, SetListDatasource, SetAudiences, SetTargetAge
<1>3. ASSUME NEW changed, lanes' = [lanes EXCEPT ![l] = changed],
             DOMAIN changed = DOMAIN BlankLane, \E n \in Nat : changed.age \subseteq 0 .. n
      PROVE  LanesTypeOK'
  <2>1. DOMAIN lanes' = Lanes /\ lanes'[l] = changed /\ \A m \in Lanes \ {l} : lanes'[m] = lanes[m]
    BY <1>1, <1>3 DEF LanesTypeOK
  <2>2. \A m \in Lanes : DOMAIN lanes'[m] = DOMAIN BlankLane /\ \E n \in Nat : lanes'[m].age \subseteq 0 .. n
    <3> TAKE m \in Lanes
    <3>1. CASE m = l
      BY <1>3, <2>1, <3>1
    <3>2. CASE m # l
      BY <2>1, <3>2 DEF LanesTypeOK
    <3> QED BY <3>1, <3>2
  <2> QED BY <1>2, <2>1, <2>2 DEF LanesTypeOK
<1> DEFINE lane == lanes[l]
<1>4. DOMAIN lane = {"languages", "audiences", "age", "genres", "lists", "source", "inherit"}
      /\ DOMAIN BlankLane = DOMAIN lane /\ \E n \in Nat : lane.age \subseteq 0 .. n
  BY <1>1 DEF LanesTypeOK, BlankLane
<1>5. CASE EditRestriction(l, edit)
  <2> DEFINE changed == [lane EXCEPT ![edit.field] = edit.value]
  <2>1. lanes' = [lanes EXCEPT ![l] = changed] /\ edit.field # "age"
    BY <1>5 DEF EditRestriction
  <2> HIDE DEF lane
  <2>2. DOMAIN changed = DOMAIN BlankLane /\ changed.age = lane.age
    BY <1>4, <2>1
  <2> HIDE DEF changed
  <2> QED BY <1>3, <1>4, <2>1, <2>2
<1>6. CASE SetListDatasource(l, edit)
  <2> DEFINE changed == [lane EXCEPT !.source = edit.value, !.lists = {}]
  <2>1. lanes' = [lanes EXCEPT ![l] = changed]
    BY <1>6 DEF SetListDatasource
  <2> HIDE DEF lane
  <2>2. DOMAIN changed = DOMAIN BlankLane /\ changed.age = lane.age
    BY <1>4
  <2> HIDE DEF changed
  <2> QED BY <1>3, <1>4, <2>1, <2>2
<1>7. CASE SetAudiences(l, edit)
  <2> DEFINE changed == [lane EXCEPT !.audiences = edit.value]
  <2>1. lanes' = [lanes EXCEPT ![l] = changed]
    BY <1>7 DEF SetAudiences
  <2> HIDE DEF lane
  <2>2. DOMAIN changed = DOMAIN BlankLane /\ changed.age = lane.age
    BY <1>4
  <2> HIDE DEF changed
  <2> QED BY <1>3, <1>4, <2>1, <2>2
<1>8. CASE SetTargetAge(l, edit)
  <2>1. CASE edit.value = {}
    <3> DEFINE changed == [lane EXCEPT !.age = {}]
    <3>1. lanes' = [lanes EXCEPT ![l] = changed]
      BY <1>8, <2>1 DEF SetTargetAge
    <3> HIDE DEF lane
    <3>2. DOMAIN changed = DOMAIN BlankLane /\ changed.age \subseteq 0 .. 0 /\ 0 \in Nat
      BY <1>4
    <3> HIDE DEF changed
    <3> QED BY <1>3, <3>1, <3>2
  <2>2. CASE edit.value # {}
    <3> DEFINE ages == Capped(edit.value)
               changed == [lane EXCEPT !.age = ages, !.audiences = LockedAudiences(ages)]
    <3>1. lanes' = [lanes EXCEPT ![l] = changed]
      BY <1>8, <2>2 DEF SetTargetAge
    <3>2. PICK n \in Nat : edit.value \subseteq 0 .. n
      <4>1. PICK young, old \in edit.value : young \in Nat /\ old \in Nat /\ edit.value = young .. old
        BY <1>8, <2>2, SettingAssumption DEF SetTargetAge, LanesTypeOK
      <4>2. edit.value \subseteq 0 .. old
        BY <4>1
      <4> QED BY <4>1, <4>2
    <3>3. \E o \in Nat : ages \subseteq 0 .. o
      BY <2>2, <3>2, CappedIsARange
    <3> HIDE DEF lane, ages
    <3>4. DOMAIN changed = DOMAIN BlankLane /\ changed.age = ages
      BY <1>4
    <3> HIDE DEF changed
    <3> QED BY <1>3, <3>1, <3>3, <3>4
  <2> QED BY <2>1, <2>2
<1> QED BY <1>5, <1>6, <1>7, <1>8 DEF EditLane

LEMMA LanesKeepTheirTypes == Spec => []LanesTypeOK
<1>1. Init => LanesTypeOK
  <2> SUFFICES ASSUME Init PROVE LanesTypeOK
    OBVIOUS
  <2>1. BlankLane.age \subseteq 0 .. 0 /\ 0 \in Nat
    BY DEF BlankLane
  <2> HIDE DEF BlankLane
  <2> QED BY <2>1 DEF Init, LanesTypeOK
<1>2. ASSUME LanesTypeOK, [Next]_vars PROVE LanesTypeOK'
  <2>1. ASSUME NEW l \in 1 .. Scenes[scene].depth, NEW edit \in Scenes[scene].edits, EditLane(l, edit) PROVE LanesTypeOK'
    BY <1>2, <2>1, EditsKeepLanes
  <2>2. ASSUME NEW l \in 1 .. Scenes[scene].depth, MakeRoot(l) PROVE LanesTypeOK'
    BY <1>2, <2>2 DEF MakeRoot, LanesTypeOK
  <2>3. CASE EditWork \/ EditStock \/ Reindex \/ UNCHANGED vars
    BY <1>2, <2>3 DEF EditWork, EditStock, Reindex, vars, LanesTypeOK
  <2> QED BY <1>2, <2>1, <2>2, <2>3 DEF Next
<1> QED BY <1>1, <1>2, PTL DEF Spec

\* A reader whose lane is for their own audience and age may read what it names.
LEMMA ReadersOfThatAudience ==
  ASSUME NEW audience, NEW lower, NEW reader_age,
         lower = NoBound \/ reader_age = NoBound \/ reader_age >= lower
  PROVE  AgeAppropriateMatch(audience, lower, audience, reader_age)
<1>1. CASE audience \notin Juvenile
  BY <1>1 DEF AgeAppropriateMatch
<1>2. CASE audience \in Juvenile
  <2>1. audience \in YoungChildren => audience # YoungAdult
    BY DEF YoungChildren, YoungAdult, Children, AllAges
  <2> QED BY <1>2, <2>1 DEF AgeAppropriateMatch
<1> QED BY <1>1, <1>2

LEMMA FoundMayBeBorrowed == LanesTypeOK => FoundBooksMayBeBorrowed
<1> SUFFICES ASSUME LanesTypeOK, NEW r \in roots
             PROVE  /\ AccessibleTo(r, r)
                    /\ \A l \in r .. Scenes[scene].depth :
                         /\ Fresh
                         /\ lanes[r].audiences # {}
                         /\ SearchTarget(l) = r
                         /\ Shown(SearchTarget(l), TRUE, "all")
                         => AgeAppropriate(work.audience, work.target.lower, r)
  BY DEF FoundBooksMayBeBorrowed
<1> DEFINE oldest == IF lanes[r].age = {} THEN NoBound ELSE Oldest(lanes[r].age)
<1>1. r \in Lanes /\ r \in Nat \ {0}
  BY SettingAssumption DEF LanesTypeOK, Lanes
<1>2. PICK n \in Nat : lanes[r].age \subseteq 0 .. n
  BY <1>1 DEF LanesTypeOK
<1>3. AccessibleTo(r, r)
  <2> DEFINE lower == IF lanes[r].age = {} THEN NoBound ELSE Youngest(lanes[r].age)
  <2>1. lower = NoBound \/ oldest >= lower
    <3>1. CASE lanes[r].age = {}
      BY <3>1
    <3>2. CASE lanes[r].age # {}
      <4>1. Youngest(lanes[r].age) \in lanes[r].age /\ Youngest(lanes[r].age) <= Oldest(lanes[r].age)
            /\ Oldest(lanes[r].age) \in lanes[r].age
        BY <1>2, <3>2, OldestAndYoungest
      <4>2. \A a \in lanes[r].age : a \in Nat
        BY <1>2
      <4> QED BY <3>2, <4>1, <4>2
    <3> QED BY <3>1, <3>2
  <2> HIDE DEF lower, oldest
  <2>2. \A audience \in lanes[r].audiences : AgeAppropriateMatch(audience, lower, audience, oldest)
    BY <2>1, ReadersOfThatAudience
  <2> QED BY <1>1, <2>2 DEF AccessibleTo, AgeAppropriate, lower, oldest
<1>4. ASSUME Fresh, lanes[r].audiences # {}, Shown(r, TRUE, "all")
      PROVE  AgeAppropriate(work.audience, work.target.lower, r)
  <2> DEFINE audiences == InheritedValue(r, "audiences")
             ages == InheritedValue(r, "age")
  <2>1. audiences = lanes[r].audiences
    BY <1>1, <1>4, OwnValue
  <2>2. /\ AudienceMatches(work.audience, FilterAudiences(audiences, ages))
        /\ AgeMatches(work.target, ages)
    BY <1>4 DEF Shown, SearchMatches, Fresh, Document
  <2>3. work.audience = AllAges \/ work.audience \in lanes[r].audiences
    BY <1>4, <2>1, <2>2 DEF AudienceMatches, FilterAudiences
  <2>4. CASE work.audience = AllAges
    <3>1. PICK reader \in lanes[r].audiences : TRUE
      BY <1>4
    <3>2. AgeAppropriateMatch(work.audience, work.target.lower, reader, oldest)
      BY <2>4 DEF AgeAppropriateMatch
    <3> QED BY <3>2 DEF AgeAppropriate
  <2>5. CASE work.audience \in lanes[r].audiences
    <3>1. work.target.lower = NoBound \/ oldest = NoBound \/ oldest >= work.target.lower
      <4>1. CASE lanes[r].age = {}
        BY <4>1
      <4>2. CASE lanes[r].age # {}
        <5>1. ages = lanes[r].age
          BY <1>1, <4>2, OwnValue
        <5>2. work.target.lower = NoBound \/ work.target.lower <= Oldest(lanes[r].age)
          BY <2>2, <4>2, <5>1 DEF AgeMatches
        <5> QED BY <4>2, <5>2
      <4> QED BY <4>1, <4>2
    <3> HIDE DEF oldest
    <3>2. AgeAppropriateMatch(work.audience, work.target.lower, work.audience, oldest)
      BY <3>1, ReadersOfThatAudience
    <3> QED BY <2>5, <3>2 DEF AgeAppropriate, oldest
  <2> QED BY <2>3, <2>4, <2>5
<1> QED BY <1>3, <1>4

\* For every chain of lanes and every work: with an index that is up to date, what the
\* queries of works_from_database find in a lane, the search of that lane finds as well,
\* but for the differences that NothingIsMissing names.
THEOREM SearchMissesNothing == Spec => []NothingIsMissing
<1>1. LanesTypeOK => NothingIsMissing
  BY FoundByBoth DEF LanesTypeOK
<1> QED BY <1>1, LanesKeepTheirTypes, PTL

\* For every chain of lanes and every work: a patron may borrow what a search from their
\* root lane finds, and is not locked out of that lane, whatever order audiences and
\* target ages are set in.
THEOREM PatronsMayBorrow == Spec => []FoundBooksMayBeBorrowed
BY FoundMayBeBorrowed, LanesKeepTheirTypes, PTL

-----------------------------------------------------------------------------
(***************************************************************************)
(* The groups of a lane.                                                   *)
(***************************************************************************)
GroupsTypeOK ==
  /\ target \in Nat \ {0}
  /\ answers \in [Sublanes -> Seq(Titles)]
  /\ upTo \in [lane : 1 .. Groups + 1, answer : Nat \ {0}]
  /\ by_lane \in [Sublanes -> Seq(Titles)]
  /\ might_need_to_reuse \in Seq(Titles)

\* What the finished feed promises of a sublane.
IsFull(size, list, own, before) ==
  /\ IsInjective(list)
  /\ ToSet(list) \subseteq ToSet(own)
  /\ Len(list) = IF Len(own) < size THEN Len(own) ELSE size
  /\ \A i \in DOMAIN list : list[i] \in before => ToSet(own) \ before \subseteq ToSet(SubSeq(list, 1, i - 1))

\* In the sublane the loop is at, each answer is shown if it is new and set aside if
\* not, until the sublane is full.
Handled(found, n) == {found[j] : j \in 1 .. n}
InProgress(size, list, aside, found, n, before) ==
  /\ n <= Len(found)
  /\ IsInjective(list) /\ IsInjective(aside)
  /\ ToSet(list) \cap before = {} /\ ToSet(aside) \subseteq before
  /\ Len(list) <= size /\ Len(list) <= n
  /\ ToSet(list) \cup ToSet(aside) \subseteq Handled(found, n)
  /\ Len(list) < size =>
       /\ Len(list) + Len(aside) = n
       /\ Handled(found, n) \subseteq ToSet(list) \cup ToSet(aside)

GroupsInv ==
  /\ GroupsTypeOK
  /\ \A l \in Sublanes : IsInjective(answers[l])
  /\ \A l \in Sublanes \ separate : l < upTo.lane => IsFull(target, by_lane[l], answers[l], ShownBefore(l))
  /\ \A l \in Sublanes : l > upTo.lane => by_lane[l] = <<>>
  /\ used_works = ShownBefore(upTo.lane) \cup used_works_this_lane
  /\ upTo.lane \in Sublanes =>
       /\ used_works_this_lane = ToSet(by_lane[upTo.lane])
       /\ InProgress(target, by_lane[upTo.lane], might_need_to_reuse, InHand, upTo.answer - 1, ShownBefore(upTo.lane))
  /\ upTo.lane \notin Sublanes => used_works_this_lane = {}

-----------------------------------------------------------------------------
LEMMA AppendFacts ==
  ASSUME NEW T, NEW s \in Seq(T), NEW x \in T
  PROVE  /\ Append(s, x) \in Seq(T) /\ Len(Append(s, x)) = Len(s) + 1
         /\ ToSet(Append(s, x)) = ToSet(s) \cup {x}
         /\ IsInjective(s) /\ x \notin ToSet(s) => IsInjective(Append(s, x))
<1> DEFINE t == Append(s, x)
<1>1. /\ t \in Seq(T) /\ Len(t) = Len(s) + 1 /\ DOMAIN s = 1 .. Len(s) /\ DOMAIN t = 1 .. Len(s) + 1
      /\ Len(s) \in Nat /\ t[Len(s) + 1] = x /\ \A i \in 1 .. Len(s) : t[i] = s[i]
  OBVIOUS
<1> HIDE DEF t
<1>2. ToSet(t) = ToSet(s) \cup {x}
  <2>1. \A i \in DOMAIN t : t[i] \in ToSet(s) \cup {x}
    BY <1>1 DEF ToSet
  <2>2. x \in ToSet(t) /\ \A i \in DOMAIN s : s[i] \in ToSet(t)
    BY <1>1 DEF ToSet
  <2> QED BY <2>1, <2>2 DEF ToSet
<1>3. IsInjective(s) /\ x \notin ToSet(s) => IsInjective(t)
  BY <1>1 DEF IsInjective, ToSet
<1> QED BY <1>1, <1>2, <1>3 DEF t

\* A beginning of a sequence put after another one that has nothing in common with it.
LEMMA ExtensionFacts ==
  ASSUME NEW T, NEW s \in Seq(T), NEW r \in Seq(T), NEW k \in 0 .. Len(r)
  PROVE  LET e == s \o SubSeq(r, 1, k) IN
         /\ e \in Seq(T) /\ Len(e) = Len(s) + k /\ DOMAIN e = 1 .. Len(s) + k
         /\ \A i \in 1 .. Len(s) : e[i] = s[i]
         /\ \A i \in 1 .. k : e[Len(s) + i] = r[i]
         /\ ToSet(e) \subseteq ToSet(s) \cup ToSet(r)
         /\ IsInjective(s) /\ IsInjective(r) /\ ToSet(s) \cap ToSet(r) = {} => IsInjective(e)
<1> DEFINE q == SubSeq(r, 1, k)
           e == s \o q
<1>1. Len(r) \in Nat /\ Len(s) \in Nat /\ k \in Nat /\ k <= Len(r)
  OBVIOUS
<1>2. q \in Seq(T) /\ Len(q) = k /\ \A i \in 1 .. k : q[i] = r[i]
  BY <1>1
<1> HIDE DEF q
<1>3. e \in Seq(T) /\ Len(e) = Len(s) + k /\ DOMAIN e = 1 .. Len(s) + k
      /\ (\A i \in 1 .. Len(s) : e[i] = s[i]) /\ \A i \in 1 .. k : e[Len(s) + i] = r[i]
  BY <1>1, <1>2
<1> HIDE DEF e
<1>4. ASSUME NEW i \in DOMAIN e
      PROVE  \/ i \in 1 .. Len(s) /\ i \in DOMAIN s /\ e[i] = s[i] /\ e[i] \in ToSet(s)
             \/ i - Len(s) \in 1 .. k /\ i - Len(s) \in DOMAIN r /\ e[i] = r[i - Len(s)] /\ e[i] \in ToSet(r)
  <2>1. CASE i \in 1 .. Len(s)
    <3>1. i \in DOMAIN s /\ e[i] = s[i]
      BY <1>3, <2>1
    <3> QED BY <2>1, <3>1 DEF ToSet
  <2>2. CASE i \notin 1 .. Len(s)
    <3>1. i - Len(s) \in 1 .. k /\ i = Len(s) + (i - Len(s))
      BY <1>1, <1>3, <2>2
    <3>2. e[i] = r[i - Len(s)]
      BY <1>3, <3>1
    <3>3. i - Len(s) \in DOMAIN r
      BY <1>1, <3>1
    <3> QED BY <3>1, <3>2, <3>3 DEF ToSet
  <2> QED BY <2>1, <2>2
<1>5. ToSet(e) \subseteq ToSet(s) \cup ToSet(r)
  BY <1>4 DEF ToSet
<1>6. ASSUME IsInjective(s), IsInjective(r), ToSet(s) \cap ToSet(r) = {} PROVE IsInjective(e)
  <2> SUFFICES ASSUME NEW i \in DOMAIN e, NEW j \in DOMAIN e, e[i] = e[j] PROVE i = j
    BY DEF IsInjective
  <2>0. i \in Int /\ j \in Int
    BY <1>1, <1>3
  <2>1. CASE i \in 1 .. Len(s) /\ i \in DOMAIN s /\ e[i] = s[i] /\ e[i] \in ToSet(s)
    <3>1. j \in DOMAIN s /\ e[j] = s[j]
      BY <1>4, <1>6, <2>1
    <3> QED BY <1>6, <2>1, <3>1 DEF IsInjective
  <2>2. CASE i - Len(s) \in DOMAIN r /\ e[i] = r[i - Len(s)] /\ e[i] \in ToSet(r)
    <3>1. j - Len(s) \in DOMAIN r /\ e[j] = r[j - Len(s)]
      BY <1>4, <1>6, <2>2
    <3>2. i - Len(s) = j - Len(s)
      BY <1>6, <2>2, <3>1 DEF IsInjective
    <3> QED BY <1>1, <2>0, <3>2
  <2> QED BY <1>4, <2>1, <2>2
<1> QED BY <1>3, <1>5, <1>6 DEF e, q

LEMMA HandledFacts ==
  ASSUME NEW found \in Seq(Titles), NEW n \in Nat, n < Len(found)
  PROVE  /\ found[n + 1] \in Titles
         /\ Handled(found, n + 1) = Handled(found, n) \cup {found[n + 1]}
         /\ IsInjective(found) => found[n + 1] \notin Handled(found, n)
         /\ Handled(found, Len(found)) = ToSet(found)
<1>1. 1 .. n + 1 = (1 .. n) \cup {n + 1} /\ 1 .. Len(found) = DOMAIN found /\ n + 1 \in DOMAIN found
      /\ (1 .. n) \subseteq DOMAIN found /\ n + 1 \notin 1 .. n
  OBVIOUS
<1>2. Handled(found, n + 1) = Handled(found, n) \cup {found[n + 1]}
  BY <1>1 DEF Handled
<1>3. IsInjective(found) => found[n + 1] \notin Handled(found, n)
  BY <1>1 DEF Handled, IsInjective
<1>4. Handled(found, Len(found)) = ToSet(found)
  BY <1>1 DEF Handled, ToSet
<1> QED BY <1>1, <1>2, <1>3, <1>4

LEMMA LoopKeepsProgress ==
  ASSUME NEW size \in Nat, NEW list \in Seq(Titles), NEW aside \in Seq(Titles), NEW found \in Seq(Titles),
         NEW n \in Nat, n < Len(found), NEW before, IsInjective(found),
         InProgress(size, list, aside, found, n, before)
  PROVE  /\ ~(Len(list) < size) => InProgress(size, list, aside, found, n + 1, before)
         /\ Len(list) < size /\ found[n + 1] \notin before =>
              InProgress(size, Append(list, found[n + 1]), aside, found, n + 1, before)
         /\ Len(list) < size /\ found[n + 1] \in before =>
              InProgress(size, list, Append(aside, found[n + 1]), found, n + 1, before)
<1> DEFINE x == found[n + 1]
<1>1. /\ x \in Titles /\ Handled(found, n + 1) = Handled(found, n) \cup {x} /\ x \notin Handled(found, n)
      /\ Len(found) \in Nat /\ Len(list) \in Nat /\ Len(aside) \in Nat
  BY HandledFacts
<1>2. x \notin ToSet(list) /\ x \notin ToSet(aside)
  BY <1>1 DEF InProgress
<1> HIDE DEF x
<1>3. ASSUME ~(Len(list) < size) PROVE InProgress(size, list, aside, found, n + 1, before)
  BY <1>1, <1>3 DEF InProgress
<1>4. ASSUME Len(list) < size, x \notin before PROVE InProgress(size, Append(list, x), aside, found, n + 1, before)
  <2> DEFINE t == Append(list, x)
  <2>1. t \in Seq(Titles) /\ Len(t) = Len(list) + 1 /\ ToSet(t) = ToSet(list) \cup {x} /\ IsInjective(t)
    BY <1>1, <1>2, AppendFacts DEF InProgress
  <2> HIDE DEF t
  <2>2. Len(t) <= size /\ Len(t) <= n + 1 /\ n + 1 <= Len(found) /\ Len(t) + Len(aside) = n + 1
    <3>1. Len(list) <= n /\ Len(list) + Len(aside) = n
      BY <1>4 DEF InProgress
    <3>2. Len(found) \in Nat /\ Len(list) \in Nat /\ Len(aside) \in Nat /\ Len(list) < size
      BY <1>1, <1>4
    <3>3. \A k, m, o \in Nat : k < size /\ k <= n /\ k + m = n /\ n < o =>
            k + 1 <= size /\ k + 1 <= n + 1 /\ n + 1 <= o /\ (k + 1) + m = n + 1
      OBVIOUS
    <3>4. Len(list) + 1 <= size /\ Len(list) + 1 <= n + 1 /\ n + 1 <= Len(found) /\ (Len(list) + 1) + Len(aside) = n + 1
      BY <3>1, <3>2, <3>3
    <3> QED BY <2>1, <3>4
  <2>3. ToSet(t) \cap before = {} /\ ToSet(t) \cup ToSet(aside) = Handled(found, n + 1)
    BY <1>1, <1>4, <2>1 DEF InProgress
  <2>4. InProgress(size, t, aside, found, n + 1, before)
    BY <2>1, <2>2, <2>3 DEF InProgress
  <2> QED BY <2>4 DEF t
<1>5. ASSUME Len(list) < size, x \in before PROVE InProgress(size, list, Append(aside, x), found, n + 1, before)
  <2> DEFINE t == Append(aside, x)
  <2>1. t \in Seq(Titles) /\ Len(t) = Len(aside) + 1 /\ ToSet(t) = ToSet(aside) \cup {x} /\ IsInjective(t)
    BY <1>1, <1>2, AppendFacts DEF InProgress
  <2> HIDE DEF t
  <2>2. Len(list) <= n + 1 /\ n + 1 <= Len(found) /\ Len(list) + Len(t) = n + 1
    <3>1. Len(list) <= n /\ Len(list) + Len(aside) = n
      BY <1>5 DEF InProgress
    <3>2. Len(found) \in Nat /\ Len(list) \in Nat /\ Len(aside) \in Nat /\ Len(t) = Len(aside) + 1
      BY <1>1, <2>1
    <3> HIDE DEF InProgress
    <3> QED BY <3>1, <3>2
  <2>3. ToSet(t) \subseteq before /\ ToSet(list) \cup ToSet(t) = Handled(found, n + 1)
    BY <1>1, <1>5, <2>1 DEF InProgress
  <2>4. InProgress(size, list, t, found, n + 1, before)
    BY <2>1, <2>2, <2>3 DEF InProgress
  <2> QED BY <2>4 DEF t
<1> QED BY <1>3, <1>4, <1>5 DEF x

\* A sublane whose answers have all been handled is full once it is extended.
LEMMA ExtendedIsFull ==
  ASSUME GroupsTypeOK, NEW list \in Seq(Titles), NEW found \in Seq(Titles), NEW before, IsInjective(found),
         InProgress(target, list, might_need_to_reuse, found, Len(found), before)
  PROVE  Extended(list) \in Seq(Titles) /\ IsFull(target, Extended(list), found, before)
         /\ ToSet(Extended(list)) \subseteq ToSet(list) \cup before /\ ToSet(list) \subseteq ToSet(Extended(list))
<1> DEFINE aside == might_need_to_reuse
           e == Extended(list)
<1>1. /\ aside \in Seq(Titles) /\ target \in Nat
      /\ Len(aside) \in Nat /\ Len(list) \in Nat /\ Len(found) \in Nat
  BY DEF GroupsTypeOK
<1>2. Handled(found, Len(found)) = ToSet(found)
  BY DEF Handled, ToSet
<1>3. CASE ~(Len(list) < target)
  <2>1. e = list /\ Len(list) = target /\ target <= Len(found)
    BY <1>1, <1>3 DEF Extended, InProgress
  <2>2. \A i \in DOMAIN list : list[i] \notin before
    BY DEF InProgress, ToSet
  <2>3. IsInjective(list) /\ ToSet(list) \subseteq ToSet(found)
    BY <1>2 DEF InProgress
  <2> HIDE DEF e
  <2> QED BY <1>1, <2>1, <2>2, <2>3 DEF IsFull, e
<1>4. CASE Len(list) < target
  <2>1. PICK k \in 0 .. Len(aside) : /\ k = IF target - Len(list) < Len(aside) THEN target - Len(list) ELSE Len(aside)
                                    /\ e = list \o SubSeq(aside, 1, k)
    <3> DEFINE m == target - Len(list)
               k == IF m < Len(aside) THEN m ELSE Len(aside)
    <3>1. m \in Nat /\ ~(m <= 0) /\ k \in 0 .. Len(aside)
      BY <1>1, <1>4
    <3>2. Min({m, Len(aside)}) = k
      <4>1. k \in {m, Len(aside)} /\ \A y \in {m, Len(aside)} : k <= y
        BY <1>1, <3>1
      <4>2. \A z \in {m, Len(aside)} : (\A y \in {m, Len(aside)} : z <= y) => z = k
        BY <1>1, <3>1
      <4> QED BY <4>1, <4>2 DEF Min
    <3>3. e = list \o SubSeq(aside, 1, k)
      BY <3>1, <3>2 DEF Extended
    <3> QED BY <3>1, <3>3
  <2> HIDE DEF e
  <2>2. ToSet(list) \cap ToSet(aside) = {} /\ IsInjective(list) /\ IsInjective(aside)
        /\ ToSet(aside) \subseteq before /\ Len(list) + Len(aside) = Len(found)
        /\ ToSet(list) \cup ToSet(aside) = ToSet(found)
    BY <1>2, <1>4 DEF InProgress
  <2>3. /\ e \in Seq(Titles) /\ Len(e) = Len(list) + k /\ DOMAIN e = 1 .. Len(list) + k
        /\ \A i \in 1 .. Len(list) : e[i] = list[i]
        /\ ToSet(e) \subseteq ToSet(list) \cup ToSet(aside)
        /\ IsInjective(e)
    <3> DEFINE x == list \o SubSeq(aside, 1, k)
    <3>1. /\ x \in Seq(Titles) /\ Len(x) = Len(list) + k /\ DOMAIN x = 1 .. Len(list) + k
          /\ \A i \in 1 .. Len(list) : x[i] = list[i]
          /\ ToSet(x) \subseteq ToSet(list) \cup ToSet(aside)
          /\ IsInjective(list) /\ IsInjective(aside) /\ ToSet(list) \cap ToSet(aside) = {} => IsInjective(x)
      BY <1>1, ExtensionFacts
    <3>2. e = x
      BY <2>1
    <3> HIDE DEF x
    <3> QED BY <2>2, <3>1, <3>2
  <2>4. Len(e) = IF Len(found) < target THEN Len(found) ELSE target
    <3>1. Len(e) = Len(list) + k /\ Len(found) = Len(list) + Len(aside)
      BY <2>2, <2>3
    <3>2. k = IF target - Len(list) < Len(aside) THEN target - Len(list) ELSE Len(aside)
      BY <2>1
    <3>3. \A f, s, a, t, x, y \in Nat :
            s < t /\ f = s + a /\ x = s + y /\ y = (IF t - s < a THEN t - s ELSE a) => x = IF f < t THEN f ELSE t
      OBVIOUS
    <3>4. k \in Nat /\ Len(e) \in Nat
      BY <1>1, <2>1, <3>1
    <3> HIDE DEF e, aside
    <3> QED BY <1>1, <1>4, <3>1, <3>2, <3>3, <3>4
  <2>5. ToSet(list) \subseteq ToSet(e)
    <3>1. DOMAIN list = 1 .. Len(list) /\ 1 .. Len(list) \subseteq DOMAIN e
      BY <1>1, <2>1, <2>3
    <3> QED BY <2>3, <3>1 DEF ToSet
  <2>6. ASSUME NEW i \in DOMAIN e, e[i] \in before PROVE ToSet(found) \ before \subseteq ToSet(SubSeq(e, 1, i - 1))
    <3>1. i \in 1 .. Len(e) /\ DOMAIN list = 1 .. Len(list)
      BY <1>1, <2>3
    <3>2. i \notin 1 .. Len(list)
      <4> SUFFICES ASSUME i \in 1 .. Len(list) PROVE FALSE
        OBVIOUS
      <4>1. e[i] = list[i] /\ i \in DOMAIN list
        BY <2>3, <3>1
      <4>2. e[i] \in ToSet(list)
        BY <4>1 DEF ToSet
      <4> QED BY <4>2, <2>6 DEF InProgress
    <3>3. i - 1 \in Nat /\ i - 1 <= Len(e) /\ Len(list) <= i - 1
      BY <1>1, <3>1, <3>2, <2>1, <2>3
    <3> DEFINE p == SubSeq(e, 1, i - 1)
    <3>4. DOMAIN p = 1 .. i - 1 /\ \A j \in 1 .. i - 1 : p[j] = e[j]
      BY <2>3, <3>3
    <3> HIDE DEF p
    <3>5. \A j \in 1 .. Len(list) : j \in DOMAIN p /\ p[j] = list[j]
      BY <1>1, <2>3, <3>3, <3>4
    <3>6. ToSet(list) \subseteq ToSet(p)
      BY <3>1, <3>5 DEF ToSet
    <3> QED BY <2>2, <3>6 DEF p
  <2> QED BY <2>2, <2>3, <2>4, <2>5, <2>6 DEF IsFull, e
<1> QED BY <1>3, <1>4

-----------------------------------------------------------------------------
LEMMA LanesAreNumbers == Groups \in Nat /\ \A l \in Sublanes : l \in Nat /\ l >= 1 /\ l <= Groups
BY GroupedFeedAssumption DEF Sublanes

\* What a sublane has shown before it only depends on the sublanes before it.
LEMMA EarlierLanesCount ==
  ASSUME NEW l \in Nat, separate' = separate,
         \A m \in 1 .. l - 1 : by_lane'[m] = by_lane[m]
  PROVE  ShownBefore(l)' = ShownBefore(l)
BY DEF ShownBefore

\* A step of the loop within a sublane.
LEMMA LoopKeepsGroupsInv ==
  ASSUME GroupsInv, PassOver \/ SetAside \/ Show
  PROVE  GroupsInv'
<1>0. PICK l : l = upTo.lane
  OBVIOUS
<1> DEFINE n == upTo.answer - 1
           x == InHand[upTo.answer]
           list == by_lane[l]
           aside == might_need_to_reuse
           before == ShownBefore(l)
<1>1. Unfinished /\ GroupsTypeOK
  BY DEF PassOver, SetAside, Show, GroupsInv
<1>2. /\ l \in Sublanes /\ l \in Nat /\ n \in Nat /\ upTo.answer = n + 1 /\ n < Len(InHand)
  <2>1. upTo.lane \in 1 .. Groups + 1 /\ upTo.answer \in Nat \ {0} /\ Groups \in Nat
    BY <1>1, LanesAreNumbers DEF GroupsTypeOK
  <2>2. InHand \in Seq(Titles) \/ InHand = <<>>
    BY <1>1, <2>1 DEF GroupsTypeOK, InHand, Queried, Sublanes, Unfinished
  <2> QED BY <1>0, <1>1, <2>1, <2>2 DEF Unfinished, Sublanes
<1>3. InHand = answers[l] /\ l \notin separate /\ InHand \in Seq(Titles) /\ IsInjective(InHand) /\ IsInjective(answers[l])
  <2>1. l \notin separate
    BY <1>0, <1>2 DEF InHand, Queried
  <2> QED BY <1>0, <1>1, <1>2, <2>1 DEF InHand, Queried, GroupsTypeOK, GroupsInv
<1>4. /\ list \in Seq(Titles) /\ aside \in Seq(Titles) /\ target \in Nat
      /\ InProgress(target, list, aside, InHand, n, before)
      /\ used_works_this_lane = ToSet(list) /\ used_works = before \cup ToSet(list)
  BY <1>0, <1>1, <1>2 DEF GroupsInv, GroupsTypeOK
<1>5. x \in Titles /\ x \notin ToSet(list) /\ x = InHand[n + 1]
  <2>1. x = InHand[n + 1]
    BY <1>2
  <2>2. ToSet(list) \subseteq Handled(InHand, n)
    BY <1>4 DEF InProgress
  <2> QED BY <1>2, <1>3, <2>1, <2>2, HandledFacts
<1>6. /\ ~(Len(list) < target) => InProgress(target, list, aside, InHand, n + 1, before)
      /\ Len(list) < target /\ x \notin before => InProgress(target, Append(list, x), aside, InHand, n + 1, before)
      /\ Len(list) < target /\ x \in before => InProgress(target, list, Append(aside, x), InHand, n + 1, before)
  BY <1>2, <1>3, <1>4, <1>5, LoopKeepsProgress
<1>7. /\ upTo' = [upTo EXCEPT !.answer = @ + 1] /\ UNCHANGED <<target, answers, separate, selfless>>
  BY DEF PassOver, SetAside, Show
<1>8. \/ by_lane' = by_lane /\ used_works' = used_works /\ used_works_this_lane' = used_works_this_lane
         /\ \/ ~(Len(list) < target) /\ aside' = aside
            \/ Len(list) < target /\ x \in before /\ aside' = Append(aside, x)
      \/ /\ Len(list) < target /\ x \notin before /\ aside' = aside
         /\ by_lane' = [by_lane EXCEPT ![l] = Append(list, x)]
         /\ used_works' = used_works \cup {x} /\ used_works_this_lane' = used_works_this_lane \cup {x}
  <2>1. CASE PassOver
    BY <2>1, <1>0, <1>4, <1>5 DEF PassOver
  <2>2. CASE SetAside
    BY <2>2, <1>0, <1>4 DEF SetAside
  <2>3. CASE Show
    BY <2>3, <1>0, <1>4 DEF Show
  <2> QED BY <2>1, <2>2, <2>3
<1>9. /\ upTo' \in [lane : 1 .. Groups + 1, answer : Nat \ {0}] /\ upTo'.lane = l /\ upTo'.answer - 1 = n + 1
  <2>1. upTo \in [lane : 1 .. Groups + 1, answer : Nat \ {0}]
    BY <1>1 DEF GroupsTypeOK
  <2>2. upTo' = [lane |-> l, answer |-> n + 2]
    BY <1>0, <1>2, <1>7, <2>1
  <2>3. l \in 1 .. Groups + 1
    BY <1>0, <2>1
  <2> QED BY <1>2, <2>2, <2>3
<1>10. /\ by_lane' \in [Sublanes -> Seq(Titles)] /\ aside' \in Seq(Titles)
       /\ \A m \in Sublanes : m # l => by_lane'[m] = by_lane[m]
       /\ InProgress(target, by_lane'[l], aside', InHand, n + 1, before)
       /\ used_works_this_lane' = ToSet(by_lane'[l]) /\ used_works' = before \cup ToSet(by_lane'[l])
  <2>1. Append(list, x) \in Seq(Titles) /\ Append(aside, x) \in Seq(Titles) /\ ToSet(Append(list, x)) = ToSet(list) \cup {x}
    BY <1>4, <1>5, AppendFacts
  <2>2. CASE by_lane' = by_lane
    <3>1. used_works' = used_works /\ used_works_this_lane' = used_works_this_lane
          /\ \/ ~(Len(list) < target) /\ aside' = aside
             \/ Len(list) < target /\ x \in before /\ aside' = Append(aside, x)
      <4>1. CASE /\ Len(list) < target /\ x \notin before
                 /\ by_lane' = [by_lane EXCEPT ![l] = Append(list, x)]
        <5>1. by_lane'[l] = Append(list, x)
          BY <1>1, <1>2, <4>1 DEF GroupsTypeOK
        <5>2. x \in ToSet(by_lane[l])
          BY <2>1, <2>2, <5>1
        <5> QED BY <1>5, <5>2
      <4> QED BY <1>8, <4>1
    <3> QED BY <1>1, <1>4, <1>6, <2>1, <2>2, <3>1 DEF GroupsTypeOK
  <2>3. CASE /\ Len(list) < target /\ x \notin before /\ aside' = aside
             /\ by_lane' = [by_lane EXCEPT ![l] = Append(list, x)]
             /\ used_works' = used_works \cup {x} /\ used_works_this_lane' = used_works_this_lane \cup {x}
    <3>1. by_lane'[l] = Append(list, x) /\ \A m \in Sublanes : m # l => by_lane'[m] = by_lane[m]
      BY <1>1, <1>2, <2>3 DEF GroupsTypeOK
    <3>2. by_lane' \in [Sublanes -> Seq(Titles)]
      BY <1>1, <2>1, <2>3 DEF GroupsTypeOK
    <3> QED BY <1>4, <1>6, <2>1, <2>3, <3>1, <3>2
  <2> QED BY <1>8, <2>2, <2>3
<1>11. \A m \in Nat : m <= l => ShownBefore(m)' = ShownBefore(m)
  <2> SUFFICES ASSUME NEW m \in Nat, m <= l PROVE ShownBefore(m)' = ShownBefore(m)
    OBVIOUS
  <2>1. \A k \in 1 .. m - 1 : k \in Sublanes /\ k # l
    BY <1>2, LanesAreNumbers DEF Sublanes
  <2> QED BY <1>7, <1>10, <2>1, EarlierLanesCount
<1>12. GroupsTypeOK'
  BY <1>1, <1>7, <1>9, <1>10 DEF GroupsTypeOK
<1>13. \A m \in Sublanes \ separate : m < l => IsFull(target, by_lane'[m], answers[m], ShownBefore(m)')
  <2> SUFFICES ASSUME NEW m \in Sublanes \ separate, m < l
               PROVE  IsFull(target, by_lane'[m], answers[m], ShownBefore(m)')
    OBVIOUS
  <2>1. m \in Nat /\ m # l /\ m <= l
    BY <1>2, LanesAreNumbers
  <2>2. by_lane'[m] = by_lane[m] /\ ShownBefore(m)' = ShownBefore(m)
    BY <1>10, <1>11, <2>1
  <2> QED BY <1>0, <2>2 DEF GroupsInv
<1>14. \A m \in Sublanes : m > l => by_lane'[m] = <<>>
  BY <1>0, <1>2, <1>10, LanesAreNumbers DEF GroupsInv
<1>15. ShownBefore(l)' = before
  BY <1>2, <1>11
<1>16. InHand' = InHand
  BY <1>0, <1>7, <1>9 DEF InHand, Queried
<1> HIDE DEF n, x, list, aside, before
<1>17. /\ upTo'.lane = l /\ upTo'.answer - 1 = n + 1 /\ target' = target /\ answers' = answers /\ separate' = separate
       /\ ShownBefore(upTo.lane)' = before
  BY <1>7, <1>9, <1>15
<1>18. \A m \in Sublanes : IsInjective(answers[m])
  BY DEF GroupsInv
<1>19. InProgress(target', by_lane'[upTo'.lane], might_need_to_reuse', InHand', upTo'.answer - 1, ShownBefore(upTo.lane)')
  BY <1>10, <1>16, <1>17 DEF aside
<1> QED BY <1>2, <1>10, <1>12, <1>13, <1>14, <1>17, <1>18, <1>19 DEF GroupsInv

LEMMA FreshStart ==
  ASSUME NEW size \in Nat, NEW found, Len(found) \in Nat, NEW before
  PROVE  InProgress(size, <<>>, <<>>, found, 0, before) /\ ToSet(<<>>) = {}
<1>1. ToSet(<<>>) = {} /\ IsInjective(<<>>) /\ Handled(found, 0) = {} /\ Len(<<>>) = 0
  BY DEF ToSet, IsInjective, Handled
<1> QED BY <1>1 DEF InProgress

\* The loop leaves a sublane.
LEMMA DoneKeepsGroupsInv ==
  ASSUME GroupsInv, DoneWithLane
  PROVE  GroupsInv'
<1>0. PICK l : l = upTo.lane
  OBVIOUS
<1> DEFINE list == by_lane[l]
           before == ShownBefore(l)
           last == IF l \in separate THEN Separately(l) ELSE Extended(list)
<1>1. /\ l <= Groups /\ upTo.answer > Len(InHand)
      /\ by_lane' = [by_lane EXCEPT ![l] = last]
      /\ used_works_this_lane' = {} /\ might_need_to_reuse' = <<>>
      /\ upTo' = [lane |-> l + 1, answer |-> 1]
      /\ UNCHANGED <<target, answers, separate, selfless, used_works>>
  BY <1>0 DEF DoneWithLane
<1>2. GroupsTypeOK /\ l \in 1 .. Groups + 1 /\ Groups \in Nat /\ upTo.answer \in Nat \ {0} /\ target \in Nat
  BY <1>0, LanesAreNumbers DEF GroupsInv, GroupsTypeOK
<1>3. l \in Sublanes /\ l \in Nat /\ l >= 1
  BY <1>1, <1>2 DEF Sublanes
<1>4. /\ list \in Seq(Titles) /\ answers[l] \in Seq(Titles) /\ IsInjective(answers[l])
      /\ used_works_this_lane = ToSet(list) /\ used_works = before \cup ToSet(list)
      /\ InProgress(target, list, might_need_to_reuse, InHand, upTo.answer - 1, before)
  BY <1>0, <1>2, <1>3 DEF GroupsInv, GroupsTypeOK
<1>5. InHand = IF l \in separate THEN <<>> ELSE answers[l]
  BY <1>0 DEF InHand, Queried
<1>6. upTo.answer - 1 = Len(InHand) /\ Len(InHand) \in Nat
  <2>1. Len(InHand) \in Nat
    BY <1>4, <1>5
  <2>2. upTo.answer - 1 <= Len(InHand)
    BY <1>4 DEF InProgress
  <2> QED BY <1>1, <1>2, <2>1, <2>2
<1>7. ASSUME l \notin separate
      PROVE  /\ last \in Seq(Titles) /\ IsFull(target, last, answers[l], before)
             /\ ToSet(last) \subseteq ToSet(list) \cup before /\ ToSet(list) \subseteq ToSet(last)
  <2>1. InProgress(target, list, might_need_to_reuse, answers[l], Len(answers[l]), before)
    BY <1>4, <1>5, <1>6, <1>7
  <2> HIDE DEF list, before
  <2> QED BY <1>2, <1>4, <1>7, <2>1, ExtendedIsFull
<1>8. ASSUME l \in separate
      PROVE  last \in Seq(Titles) /\ ToSet(list) = {}
  <2>1. last \in Seq(Titles)
    <3>1. <<>> \in Seq(Titles)
      OBVIOUS
    <3> QED BY <1>4, <1>8, <3>1 DEF Separately
  <2>2. ToSet(list) \subseteq Handled(InHand, 0)
    BY <1>4, <1>5, <1>6, <1>8 DEF InProgress
  <2> QED BY <2>1, <2>2 DEF Handled
<1> HIDE DEF last
<1>9. /\ by_lane' \in [Sublanes -> Seq(Titles)] /\ by_lane'[l] = last
      /\ \A m \in Sublanes : m # l => by_lane'[m] = by_lane[m]
  BY <1>1, <1>2, <1>3, <1>7, <1>8 DEF GroupsTypeOK
<1>10. \A m \in Nat : m <= l => ShownBefore(m)' = ShownBefore(m)
  <2> SUFFICES ASSUME NEW m \in Nat, m <= l PROVE ShownBefore(m)' = ShownBefore(m)
    OBVIOUS
  <2>1. \A k \in 1 .. m - 1 : k \in Sublanes /\ k # l
    BY <1>1, <1>2, <1>3 DEF Sublanes
  <2> QED BY <1>1, <1>9, <2>1, EarlierLanesCount
<1>11. ShownBefore(l + 1)' = before \cup (IF l \in separate THEN {} ELSE ToSet(last))
  <2>1. (1 .. (l + 1) - 1) = (1 .. l - 1) \cup {l}
    BY <1>3
  <2>2. ShownBefore(l + 1)' = ShownBefore(l)' \cup (IF l \in separate THEN {} ELSE ToSet(by_lane'[l]))
    BY <2>1, <1>1 DEF ShownBefore
  <2> QED BY <1>3, <1>9, <1>10, <2>2
<1>12. used_works' = ShownBefore(l + 1)'
  <2>1. CASE l \in separate
    BY <1>1, <1>4, <1>8, <1>11, <2>1
  <2>2. CASE l \notin separate
    BY <1>1, <1>4, <1>7, <1>11, <2>2
  <2> QED BY <2>1, <2>2
<1>13. GroupsTypeOK'
  <2>1. upTo' \in [lane : 1 .. Groups + 1, answer : Nat \ {0}]
    BY <1>1, <1>2, <1>3
  <2>2. might_need_to_reuse' \in Seq(Titles)
    BY <1>1
  <2> QED BY <1>1, <1>2, <1>9, <2>1, <2>2 DEF GroupsTypeOK
<1>14. ASSUME NEW m \in Sublanes \ separate, m < l + 1
       PROVE  IsFull(target, by_lane'[m], answers[m], ShownBefore(m)')
  <2>1. m \in Nat /\ m <= l
    BY <1>3, <1>14, LanesAreNumbers
  <2>2. ShownBefore(m)' = ShownBefore(m)
    BY <1>10, <2>1
  <2>3. CASE m = l
    BY <1>7, <1>9, <1>14, <2>2, <2>3
  <2>4. CASE m # l
    <3>1. m < l /\ by_lane'[m] = by_lane[m]
      BY <1>3, <1>9, <1>14, <2>1, <2>4
    <3> QED BY <1>0, <1>14, <2>2, <3>1 DEF GroupsInv
  <2> QED BY <2>3, <2>4
<1>15. \A m \in Sublanes : m >= l + 1 => by_lane'[m] = <<>>
  BY <1>0, <1>3, <1>9, LanesAreNumbers DEF GroupsInv
<1>16. Len(InHand)' \in Nat \/ l + 1 \notin Sublanes
  <2>1. CASE l + 1 \in Sublanes
    <3>1. InHand' = IF l + 1 \in separate THEN <<>> ELSE answers[l + 1]
      BY <1>1 DEF InHand, Queried
    <3>2. answers[l + 1] \in Seq(Titles)
      BY <1>2, <2>1 DEF GroupsTypeOK
    <3> QED BY <3>1, <3>2
  <2> QED BY <2>1
<1>17. /\ upTo'.lane = l + 1 /\ upTo'.answer - 1 = 0 /\ target' = target /\ answers' = answers /\ separate' = separate
       /\ ShownBefore(upTo.lane)' = ShownBefore(l + 1)'
  BY <1>1
<1>18. ASSUME upTo'.lane \in Sublanes
       PROVE  /\ used_works_this_lane' = ToSet(by_lane'[upTo'.lane])
              /\ InProgress(target', by_lane'[upTo'.lane], might_need_to_reuse', InHand', upTo'.answer - 1, ShownBefore(upTo.lane)')
  <2>1. l + 1 \in Sublanes /\ l + 1 >= l + 1 /\ Len(InHand') \in Nat
    BY <1>3, <1>16, <1>17, <1>18
  <2>2. by_lane'[l + 1] = <<>>
    BY <1>15, <2>1
  <2> QED BY <1>1, <1>2, <1>17, <2>1, <2>2, FreshStart
<1>19. \A m \in Sublanes : IsInjective(answers[m])
  BY DEF GroupsInv
<1>20. \A m \in Sublanes : m > l + 1 => by_lane'[m] = <<>>
  BY <1>3, <1>15, LanesAreNumbers
<1>21. used_works' = ShownBefore(upTo.lane)' \cup used_works_this_lane'
  BY <1>1, <1>12, <1>17
<1> QED BY <1>1, <1>13, <1>14, <1>17, <1>18, <1>19, <1>20, <1>21 DEF GroupsInv

(* For every set of works, every number of sublanes and every size: a finished grouped *)
(* feed shows in each sublane as many different works as there are, up to the size,    *)
(* and repeats a work of an earlier sublane only after all of its own new ones.        *)
THEOREM GroupsAreFilled == GroupsSpec => []GroupsAreFullAndFresh
<1>1. GroupsInit => GroupsInv
  <2> SUFFICES ASSUME GroupsInit PROVE GroupsInv
    OBVIOUS
  <2>1. target \in Nat \ {0} /\ Groups \in Nat
    BY GroupedFeedAssumption DEF GroupsInit
  <2>2. \A l \in Sublanes : answers[l] \in Seq(Titles) /\ IsInjective(answers[l])
    <3> SUFFICES ASSUME NEW l \in Sublanes PROVE answers[l] \in Seq(Titles) /\ IsInjective(answers[l])
      OBVIOUS
    <3>1. AskForSize(target) \in Int
      BY <2>1 DEF AskForSize
    <3>2. PICK n \in 0 .. AskForSize(target) : answers[l] \in {s \in [1 .. n -> Titles] : IsInjective(s)}
      BY DEF GroupsInit
    <3> QED BY <3>1, <3>2
  <2>3. /\ upTo = [lane |-> 1, answer |-> 1] /\ by_lane = [l \in Sublanes |-> <<>>]
        /\ used_works = {} /\ used_works_this_lane = {} /\ might_need_to_reuse = <<>>
    BY DEF GroupsInit
  <2>4. GroupsTypeOK
    <3>1. answers \in [Sublanes -> Seq(Titles)]
      BY <2>2 DEF GroupsInit
    <3>2. upTo \in [lane : 1 .. Groups + 1, answer : Nat \ {0}]
      BY <2>1, <2>3
    <3>3. by_lane \in [Sublanes -> Seq(Titles)] /\ might_need_to_reuse \in Seq(Titles)
      BY <2>3
    <3> QED BY <2>1, <3>1, <3>2, <3>3 DEF GroupsTypeOK
  <2>5. ShownBefore(1) = {}
    BY DEF ShownBefore
  <2>6. \A l \in Sublanes : ~(l < 1) /\ by_lane[l] = <<>>
    BY <2>3, LanesAreNumbers
  <2>7. 1 \in Sublanes => Len(InHand) \in Nat
    BY <2>2, <2>3 DEF InHand, Queried
  <2>8. /\ upTo.lane \in Sublanes =>
             /\ used_works_this_lane = ToSet(by_lane[upTo.lane])
             /\ InProgress(target, by_lane[upTo.lane], might_need_to_reuse, InHand, upTo.answer - 1, ShownBefore(upTo.lane))
    <3> SUFFICES ASSUME 1 \in Sublanes
                 PROVE  {} = ToSet(<<>>) /\ InProgress(target, <<>>, <<>>, InHand, 0, ShownBefore(1))
      BY <2>3, <2>6
    <3> QED BY <2>1, <2>7, FreshStart
  <2> QED BY <2>2, <2>3, <2>4, <2>5, <2>6, <2>8 DEF GroupsInv
<1>2. GroupsInv /\ [GroupsNext]_groupsVars => GroupsInv'
  <2> SUFFICES ASSUME GroupsInv, [GroupsNext]_groupsVars PROVE GroupsInv'
    OBVIOUS
  <2>1. CASE PassOver \/ SetAside \/ Show
    BY <2>1, LoopKeepsGroupsInv
  <2>2. CASE DoneWithLane
    BY <2>2, DoneKeepsGroupsInv
  <2>3. CASE UNCHANGED groupsVars
    <3>1. /\ target' = target /\ answers' = answers /\ separate' = separate /\ upTo' = upTo
          /\ by_lane' = by_lane /\ used_works' = used_works
          /\ used_works_this_lane' = used_works_this_lane /\ might_need_to_reuse' = might_need_to_reuse
      BY <2>3 DEF groupsVars
    <3>2. InHand' = InHand
      BY <3>1 DEF InHand, Queried
    <3>3. GroupsTypeOK'
      BY <3>1 DEF GroupsInv, GroupsTypeOK
    <3>4. \A l : ShownBefore(l)' = ShownBefore(l)
      BY <3>1 DEF ShownBefore
    <3>5. ShownBefore(upTo.lane)' = ShownBefore(upTo.lane)
      BY <3>1 DEF ShownBefore
    <3> QED BY <3>1, <3>2, <3>3, <3>4, <3>5 DEF GroupsInv
  <2> QED BY <2>1, <2>2, <2>3 DEF GroupsNext
<1>3. GroupsInv => GroupsAreFullAndFresh
  <2> SUFFICES ASSUME GroupsInv, upTo.lane > Groups, NEW l \in Sublanes \ separate
               PROVE  IsFull(target, by_lane[l], answers[l], ShownBefore(l))
    BY DEF GroupsAreFullAndFresh, IsFull
  <2>1. l < upTo.lane
    BY LanesAreNumbers DEF GroupsInv, GroupsTypeOK
  <2> QED BY <2>1 DEF GroupsInv
<1> QED BY <1>1, <1>2, <1>3, PTL DEF GroupsSpec

-----------------------------------------------------------------------------
(***************************************************************************)
(* The pages of a feed.                                                    *)
(***************************************************************************)
PagesTypeOK ==
  /\ kind \in {"offset", "key"}
  /\ key \in [Books -> SortKeys \cup {NotIndexed}]
  /\ IF kind = "offset" THEN after \in Nat ELSE after \in Nat \X Nat
  /\ finished \in BOOLEAN /\ moved \in BOOLEAN /\ hidden \in BOOLEAN
  /\ shown \in [Books -> Nat]
  /\ steady \subseteq InIndex \cap offered

\* The pages up to `after` have shown every steady book that belongs there, and no other.
ShownByKey == \A b \in steady : shown[b] = IF Follows(SortValues(b), after) THEN 0 ELSE 1
ShownByPosition == \A b \in steady : shown[b] = IF Position(b) < after THEN 1 ELSE 0

PagesInv ==
  /\ PagesTypeOK
  /\ kind = "key" => ShownByKey
  /\ kind = "offset" /\ moved = FALSE => ShownByPosition
  /\ finished /\ hidden = FALSE /\ (kind = "key" \/ moved = FALSE) => \A b \in steady : shown[b] = 1

\* Between the elements of a finite set that a strict order compares there is one
\* that none precedes.
LEMMA Foremost ==
  ASSUME NEW S, IsFiniteSet(S), S # {}, NEW R,
         \A x \in S : <<x, x>> \notin R,
         \A x, y, z \in S : <<x, y>> \in R /\ <<y, z>> \in R => <<x, z>> \in R
  PROVE  \E x \in S : \A y \in S : <<y, x>> \notin R
<1> DEFINE Less(x) == {y \in S : <<y, x>> \in R}
           T == {Cardinality(Less(x)) : x \in S}
<1>1. ASSUME NEW x \in S PROVE IsFiniteSet(Less(x)) /\ Cardinality(Less(x)) \in Nat
  <2>1. Less(x) \subseteq S
    OBVIOUS
  <2> QED BY <2>1, FS_Subset, FS_CardinalityType
<1>2. PICK t \in T : \A u \in T : ~ (<<u, t>> \in OpToRel(<, Nat))
  <2>1. T # {}
    <3>1. PICK x \in S : TRUE
      OBVIOUS
    <3>2. Cardinality(Less(x)) \in T
      OBVIOUS
    <3> QED BY <3>2
  <2>2. T \subseteq Nat
    <3> HIDE DEF Less
    <3> QED BY <1>1
  <2> QED BY <2>1, <2>2, NatLessThanWellFounded, WFMin, Zenon
<1>3. PICK x \in S : t = Cardinality(Less(x))
  OBVIOUS
<1>4. SUFFICES ASSUME NEW y \in S, <<y, x>> \in R PROVE FALSE
  OBVIOUS
<1>5. Less(y) \subseteq Less(x) /\ y \in Less(x) /\ y \notin Less(y)
  BY <1>4
<1>6. Cardinality(Less(y)) <= Cardinality(Less(x)) /\ (Cardinality(Less(y)) = Cardinality(Less(x)) => Less(y) = Less(x))
  BY <1>1, <1>5, FS_Subset
<1>7. Cardinality(Less(y)) \in Nat /\ Cardinality(Less(x)) \in Nat
  BY <1>1
<1>8. Cardinality(Less(y)) < Cardinality(Less(x))
  BY <1>5, <1>6, <1>7
<1>9. <<Cardinality(Less(y)), t>> \in OpToRel(<, Nat)
  BY <1>3, <1>7, <1>8 DEF OpToRel
<1>10. Cardinality(Less(y)) \in T
  BY <1>4
<1> HIDE DEF T, Less
<1> QED BY <1>2, <1>9, <1>10

LEMMA KeysAreNumbers ==
  ASSUME PagesTypeOK
  PROVE  /\ \A b \in Books : b \in Nat /\ key[b] \in Nat
         /\ \A b \in InIndex : b \in Nat /\ key[b] \in Nat /\ key[b] > 0
         /\ \A S \in SUBSET InIndex : IsFiniteSet(S) /\ Cardinality(S) \in Nat
<1>1. InIndex \subseteq Books /\ IsFiniteSet(Books)
  BY PagedFeedAssumption DEF InIndex
<1>2. \A S \in SUBSET InIndex : IsFiniteSet(S) /\ Cardinality(S) \in Nat
  BY <1>1, FS_Subset, FS_CardinalityType
<1> SUFFICES /\ \A b \in Books : b \in Nat /\ key[b] \in Nat
             /\ \A b \in InIndex : key[b] > 0
  BY <1>1, <1>2
<1>3. key \in [Books -> SortKeys \cup {0}] /\ Books \subseteq Nat /\ SortKeys \subseteq Nat
  BY PagedFeedAssumption DEF PagesTypeOK, NotIndexed
<1>4. ASSUME NEW b \in Books PROVE b \in Nat /\ key[b] \in Nat
  <2>1. b \in Nat /\ (key[b] \in SortKeys \/ key[b] = 0)
    BY <1>3
  <2>2. \A k \in SortKeys : k \in Nat
    BY <1>3
  <2> QED BY <2>1, <2>2
<1>5. \A b \in InIndex : b \in Books /\ key[b] # 0
  BY DEF InIndex, NotIndexed
<1> QED BY <1>4, <1>5

\* The sort key and the tiebreaker put the books in one order.
LEMMA OrderFacts ==
  ASSUME PagesTypeOK
  PROVE  /\ \A b \in InIndex : ~Precedes(b, b)
         /\ \A b, c \in InIndex : b = c \/ Precedes(b, c) \/ Precedes(c, b)
         /\ \A b, c, d \in InIndex : Precedes(b, c) /\ Precedes(c, d) => Precedes(b, d)
         /\ \A b, c \in InIndex : Follows(SortValues(c), SortValues(b)) <=> Precedes(b, c)
BY KeysAreNumbers DEF Precedes, Follows, SortValues

LEMMA FirstExists ==
  ASSUME PagesTypeOK, NEW S \in SUBSET InIndex, S # {}
  PROVE  \E b \in S : Before(b, S) = {}
<1> DEFINE R == {p \in S \X S : Precedes(p[1], p[2])}
<1>1. IsFiniteSet(S)
  BY KeysAreNumbers
<1>2. \A x, y \in S : <<x, y>> \in R <=> Precedes(x, y)
  OBVIOUS
<1> HIDE DEF R
<1>3. /\ \A x \in S : <<x, x>> \notin R
      /\ \A x, y, z \in S : <<x, y>> \in R /\ <<y, z>> \in R => <<x, z>> \in R
  BY <1>2, OrderFacts
<1>4. \E x \in S : \A y \in S : <<y, x>> \notin R
  BY <1>1, <1>3, Foremost
<1> QED BY <1>2, <1>4 DEF Before

LEMMA LastExists ==
  ASSUME PagesTypeOK, NEW S \in SUBSET InIndex, S # {}
  PROVE  LastOf(S) \in S /\ \A c \in S : c = LastOf(S) \/ Precedes(c, LastOf(S))
<1> DEFINE R == {p \in S \X S : Precedes(p[2], p[1])}
<1>1. IsFiniteSet(S)
  BY KeysAreNumbers
<1>2. \A x, y \in S : <<x, y>> \in R <=> Precedes(y, x)
  OBVIOUS
<1> HIDE DEF R
<1>3. /\ \A x \in S : <<x, x>> \notin R
      /\ \A x, y, z \in S : <<x, y>> \in R /\ <<y, z>> \in R => <<x, z>> \in R
  BY <1>2, OrderFacts
<1>4. PICK x \in S : \A y \in S : <<y, x>> \notin R
  BY <1>1, <1>3, Foremost
<1>5. \A y \in S : y = x \/ Precedes(y, x)
  BY <1>2, <1>4, OrderFacts
<1> QED BY <1>5 DEF LastOf

\* Who precedes a book of a set has fewer before it.
LEMMA FewerBefore ==
  ASSUME PagesTypeOK, NEW S \in SUBSET InIndex, NEW b \in S, NEW c \in S, Precedes(b, c)
  PROVE  Cardinality(Before(b, S)) < Cardinality(Before(c, S))
<1>1. Before(b, S) \subseteq Before(c, S) /\ b \in Before(c, S) /\ b \notin Before(b, S)
  BY OrderFacts DEF Before
<1>2. /\ IsFiniteSet(Before(c, S)) /\ Cardinality(Before(c, S)) \in Nat /\ Cardinality(Before(b, S)) \in Nat
  <2>1. Before(c, S) \in SUBSET InIndex /\ Before(b, S) \in SUBSET InIndex
    BY DEF Before
  <2> QED BY <2>1, KeysAreNumbers
<1> QED BY <1>1, <1>2, FS_Subset

\* With a sort key, a page that begins after the first of a run of books goes on where
\* the run ends.
LEMMA KeyPages ==
  ASSUME PagesTypeOK, kind = "key", Hits # {}, NEW b \in InIndex
  PROVE  /\ NextPage(Hits) \in Nat \X Nat
         /\ Follows(SortValues(b), NextPage(Hits)) <=> Follows(SortValues(b), after) /\ b \notin Hits
<1> DEFINE last == LastOf(Hits)
<1>1. Following \in SUBSET InIndex /\ Hits = {c \in Following : Cardinality(Before(c, Following)) < PageSize}
  BY DEF Following, Hits
<1>2. last \in Hits /\ \A c \in Hits : c = last \/ Precedes(c, last)
  BY <1>1, LastExists
<1> HIDE DEF last
<1>3. NextPage(Hits) = SortValues(last)
  BY DEF NextPage, last
<1>4. last \in InIndex /\ last \in Following
  BY <1>1, <1>2
<1>5. SortValues(last) \in Nat \X Nat
  BY <1>4, KeysAreNumbers DEF SortValues
<1>6. Follows(SortValues(b), SortValues(last)) <=> Precedes(last, b)
  BY <1>4, OrderFacts
<1>7. CASE b \in Hits
  <2>1. ~Precedes(last, b)
    BY <1>2, <1>4, <1>7, OrderFacts
  <2> QED BY <1>3, <1>5, <1>6, <1>7, <2>1
<1>8. CASE b \notin Hits /\ b \in Following
  <2>1. ~Precedes(b, last)
    <3> SUFFICES ASSUME Precedes(b, last) PROVE FALSE
      OBVIOUS
    <3>1. Cardinality(Before(b, Following)) < Cardinality(Before(last, Following))
      BY <1>1, <1>4, <1>8, FewerBefore
    <3>2. Cardinality(Before(b, Following)) \in Nat /\ Cardinality(Before(last, Following)) \in Nat
      <4>1. Before(b, Following) \in SUBSET InIndex /\ Before(last, Following) \in SUBSET InIndex
        BY <1>1 DEF Before
      <4> QED BY <4>1, KeysAreNumbers
    <3>3. Cardinality(Before(last, Following)) < PageSize
      BY <1>1, <1>2
    <3> QED BY <1>1, <1>8, <3>1, <3>2, <3>3, PagedFeedAssumption
  <2>2. Precedes(last, b)
    BY <1>2, <1>4, <1>8, <2>1, OrderFacts
  <2> QED BY <1>3, <1>5, <1>6, <1>8, <2>2 DEF Following
<1>9. CASE b \notin Following
  <2>1. ~Follows(SortValues(b), after) /\ Follows(SortValues(last), after)
    BY <1>4, <1>9 DEF Following
  <2>2. after[1] \in Nat /\ after[2] \in Nat /\ b \in Nat /\ key[b] \in Nat /\ last \in Nat /\ key[last] \in Nat
    BY <1>4, KeysAreNumbers DEF PagesTypeOK
  <2>3. ~Follows(SortValues(b), SortValues(last))
    BY <2>1, <2>2 DEF Follows, SortValues
  <2> QED BY <1>3, <1>5, <2>1, <2>3
<1> QED BY <1>7, <1>8, <1>9

LEMMA NoHitsByKey ==
  ASSUME PagesTypeOK, kind = "key", Hits = {}
  PROVE  \A b \in InIndex : ~Follows(SortValues(b), after)
<1> SUFFICES ASSUME Following # {} PROVE FALSE
  BY DEF Following
<1>1. Following \in SUBSET InIndex
  BY DEF Following
<1>2. PICK b \in Following : Before(b, Following) = {}
  BY <1>1, FirstExists
<1>3. Cardinality(Before(b, Following)) < PageSize
  BY <1>2, FS_EmptySet, PagedFeedAssumption
<1> QED BY <1>3 DEF Hits

\* No position is left out: when there is no book at the position of the next page,
\* there is none after it.
LEMMA NoHitsByPosition ==
  ASSUME PagesTypeOK, kind = "offset", Hits = {}
  PROVE  \A b \in InIndex : Position(b) < after
<1> DEFINE High == {b \in InIndex : ~(Position(b) < after)}
           Low == {b \in InIndex : Position(b) < after}
<1>1. \A b \in InIndex : Position(b) \in Nat
  <2>1. \A b \in InIndex : Before(b, InIndex) \in SUBSET InIndex
    BY DEF Before
  <2> QED BY <2>1, KeysAreNumbers DEF Position
<1>2. after \in Nat
  BY DEF PagesTypeOK
<1>3. SUFFICES ASSUME High # {} PROVE FALSE
  OBVIOUS
<1>4. High \in SUBSET InIndex /\ Low \in SUBSET InIndex
  OBVIOUS
<1>5. PICK b \in High : Before(b, High) = {}
  BY <1>3, <1>4, FirstExists
<1>6. Before(b, InIndex) \subseteq Low
  BY <1>5 DEF Before
<1>7. Cardinality(Low) <= after
  <2> DEFINE f == [c \in Low |-> Position(c)]
  <2>1. f \in [Low -> 0 .. after - 1]
    BY <1>1, <1>2
  <2>2. ASSUME NEW c \in Low, NEW d \in Low, f[c] = f[d] PROVE c = d
    <3>1. Position(c) = Position(d) /\ Position(c) \in Nat
      BY <1>1, <2>2
    <3>2. ~Precedes(c, d) /\ ~Precedes(d, c)
      BY <3>1, <1>4, FewerBefore DEF Position
    <3> QED BY <1>4, <3>2, OrderFacts
  <2>3. f \in Injection(Low, 0 .. after - 1)
    BY <2>1, <2>2 DEF Injection, IsInjective
  <2>4. IsFiniteSet(0 .. after - 1) /\ Cardinality(0 .. after - 1) = after
    BY <1>2, FS_Interval
  <2> QED BY <2>3, <2>4, FS_Injection
<1>8. Position(b) <= Cardinality(Low) /\ Cardinality(Low) \in Nat
  BY <1>4, <1>6, FS_Subset, KeysAreNumbers DEF Position
<1>9. Position(b) = after
  BY <1>1, <1>2, <1>5, <1>7, <1>8
<1>10. b \in Hits
  BY <1>2, <1>9, PagedFeedAssumption DEF Hits
<1> QED BY <1>10

LEMMA PagesKeepPagesInv ==
  ASSUME PagesInv, GeneratePage
  PROVE  PagesInv'
<1> DEFINE works == Hits \cap offered
<1>1. /\ shown' = [b \in Books |-> IF b \in works \cap steady THEN shown[b] + 1 ELSE shown[b]]
      /\ finished' = (works = {}) /\ hidden' = (Hits # {} /\ works = {})
      /\ after' = IF works = {} THEN after ELSE NextPage(Hits)
      /\ kind' = kind /\ key' = key /\ offered' = offered /\ steady' = steady /\ moved' = moved
  BY DEF GeneratePage
<1>2. PagesTypeOK /\ steady \subseteq InIndex \cap offered /\ steady \subseteq Books
  BY DEF PagesInv, PagesTypeOK, InIndex
<1>3. \A b \in steady : b \in works <=> b \in Hits
  BY <1>2
<1>4. \A b \in steady : shown'[b] = IF b \in Hits THEN shown[b] + 1 ELSE shown[b]
  BY <1>1, <1>2, <1>3
<1>5. works = {} => \A b \in steady : b \notin Hits
  BY <1>3
<1>6. works # {} => Hits # {}
  OBVIOUS
<1> HIDE DEF works
<1>7. PagesTypeOK'
  <2>1. shown' \in [Books -> Nat]
    BY <1>1, <1>2 DEF PagesTypeOK
  <2>2. finished' \in BOOLEAN /\ hidden' \in BOOLEAN
    BY <1>1
  <2>3. IF kind = "offset" THEN after' \in Nat ELSE after' \in Nat \X Nat
    <3>1. CASE works = {}
      BY <1>1, <1>2, <3>1 DEF PagesTypeOK
    <3>2. CASE works # {} /\ kind = "offset"
      BY <1>1, <1>2, <3>2, PagedFeedAssumption DEF PagesTypeOK, NextPage
    <3>3. CASE works # {} /\ kind # "offset"
      <4>1. kind = "key"
        BY <1>2, <3>3 DEF PagesTypeOK
      <4>2. NextPage(Hits) \in Nat \X Nat
        <5>1. PICK b \in InIndex : b \in Hits
          BY <1>6, <3>3, <4>1 DEF Hits, Following
        <5> QED BY <1>2, <4>1, <5>1, KeyPages
      <4> QED BY <1>1, <3>3, <4>2
    <3> QED BY <3>1, <3>2, <3>3
  <2>4. steady' \subseteq InIndex' \cap offered'
    BY <1>1, <1>2 DEF InIndex
  <2> QED BY <1>1, <1>2, <2>1, <2>2, <2>3, <2>4 DEF PagesTypeOK
<1>8. ASSUME kind = "key" PROVE ShownByKey'
  <2>1. ShownByKey
    BY <1>8 DEF PagesInv
  <2>2. ASSUME NEW b \in steady PROVE shown'[b] = IF Follows(SortValues(b), after') THEN 0 ELSE 1
    <3>1. shown[b] = IF Follows(SortValues(b), after) THEN 0 ELSE 1
      BY <2>1 DEF ShownByKey
    <3>2. CASE works = {}
      BY <1>1, <1>4, <1>5, <3>1, <3>2
    <3>3. CASE works # {}
      <4>1. after' = NextPage(Hits) /\ b \in InIndex
        BY <1>1, <1>2, <3>3
      <4>2. Follows(SortValues(b), NextPage(Hits)) <=> Follows(SortValues(b), after) /\ b \notin Hits
        BY <1>2, <1>6, <1>8, <3>3, <4>1, KeyPages
      <4>3. b \in Hits => Follows(SortValues(b), after)
        BY <1>8 DEF Hits, Following
      <4> QED BY <1>4, <3>1, <4>1, <4>2, <4>3
    <3> QED BY <3>2, <3>3
  <2> QED BY <1>1, <2>2 DEF ShownByKey, SortValues
<1>9. ASSUME kind = "offset", moved = FALSE PROVE ShownByPosition'
  <2>1. ShownByPosition
    BY <1>9 DEF PagesInv
  <2>2. ASSUME NEW b \in steady PROVE shown'[b] = IF Position(b) < after' THEN 1 ELSE 0
    <3>1. shown[b] = IF Position(b) < after THEN 1 ELSE 0
      BY <2>1 DEF ShownByPosition
    <3>2. CASE works = {}
      BY <1>1, <1>4, <1>5, <3>1, <3>2
    <3>3. CASE works # {}
      <4>1. Position(b) \in Nat /\ after \in Nat /\ PageSize \in Nat
        <5>1. Before(b, InIndex) \in SUBSET InIndex
          BY DEF Before
        <5> QED BY <1>2, <1>9, <5>1, KeysAreNumbers, PagedFeedAssumption DEF Position, PagesTypeOK
      <4>2. after' = after + PageSize
        BY <1>1, <1>9, <3>3 DEF NextPage
      <4>3. b \in Hits <=> after <= Position(b) /\ Position(b) < after + PageSize
        BY <1>2, <1>9, <4>1 DEF Hits
      <4> QED BY <1>4, <3>1, <4>1, <4>2, <4>3
    <3> QED BY <3>2, <3>3
  <2>3. \A b \in steady : Position(b)' = Position(b)
    BY <1>1 DEF Position, Before, InIndex, Precedes
  <2> QED BY <1>1, <2>2, <2>3 DEF ShownByPosition
<1>10. ASSUME finished', hidden' = FALSE, kind = "key" \/ moved = FALSE, NEW b \in steady
       PROVE  shown'[b] = 1
  <2>1. Hits = {} /\ works = {}
    BY <1>1, <1>10
  <2>2. shown'[b] = shown[b] /\ b \in InIndex
    BY <1>2, <1>4, <2>1
  <2>3. CASE kind = "key"
    <3>1. ~Follows(SortValues(b), after)
      BY <1>2, <2>1, <2>2, <2>3, NoHitsByKey
    <3>2. shown[b] = IF Follows(SortValues(b), after) THEN 0 ELSE 1
      BY <2>3 DEF PagesInv, ShownByKey
    <3> QED BY <2>2, <3>1, <3>2
  <2>4. CASE kind = "offset" /\ moved = FALSE
    <3>1. Position(b) < after
      BY <1>2, <2>1, <2>2, <2>4, NoHitsByPosition
    <3>2. shown[b] = IF Position(b) < after THEN 1 ELSE 0
      BY <2>4 DEF PagesInv, ShownByPosition
    <3> QED BY <2>2, <3>1, <3>2
  <2> QED BY <1>2, <1>10, <2>3, <2>4 DEF PagesTypeOK
<1> QED BY <1>1, <1>7, <1>8, <1>9, <1>10 DEF PagesInv

\* What happens to a book is not held against the pages.
LEMMA ChangesKeepPagesInv ==
  ASSUME PagesInv, NEW b \in Books, Redeliver(b) \/ \E k \in SortKeys \cup {NotIndexed} : Reposition(b, k)
  PROVE  PagesInv'
<1>1. /\ finished = FALSE /\ finished' = finished /\ kind' = kind /\ after' = after /\ hidden' = hidden
      /\ steady' = steady \ {b} /\ shown' = [shown EXCEPT ![b] = 0]
  <2>1. ~finished /\ finished \in BOOLEAN
    BY DEF Redeliver, Reposition, PagesInv, PagesTypeOK
  <2> QED BY <2>1 DEF Redeliver, Reposition
<1>2. PagesTypeOK /\ steady \subseteq InIndex \cap offered
  BY DEF PagesInv, PagesTypeOK
<1>3. \A c \in steady' : c \in Books /\ c # b /\ c \in steady /\ shown'[c] = shown[c]
  BY <1>1, <1>2 DEF PagesTypeOK, InIndex
<1>4. \/ key' = key /\ moved' = moved /\ offered' \in {offered \cup {b}, offered \ {b}}
      \/ moved' = TRUE /\ offered' = offered /\ \E k \in SortKeys \cup {NotIndexed} : key' = [key EXCEPT ![b] = k]
  BY DEF Redeliver, Reposition
<1>5. key' \in [Books -> SortKeys \cup {NotIndexed}] /\ \A c \in Books \ {b} : key'[c] = key[c]
  BY <1>2, <1>4 DEF PagesTypeOK
<1>6. PagesTypeOK'
  <2>1. shown' \in [Books -> Nat] /\ moved' \in BOOLEAN
    BY <1>1, <1>2, <1>4 DEF PagesTypeOK
  <2>2. steady' \subseteq InIndex' \cap offered'
    BY <1>2, <1>3, <1>4, <1>5 DEF InIndex
  <2> QED BY <1>1, <1>2, <1>5, <2>1, <2>2 DEF PagesTypeOK
<1>7. kind' = "key" => ShownByKey'
  BY <1>1, <1>3, <1>5 DEF PagesInv, ShownByKey, Follows, SortValues
<1>8. kind' = "offset" /\ moved' = FALSE => ShownByPosition'
  <2> SUFFICES ASSUME kind' = "offset", moved' = FALSE PROVE ShownByPosition'
    OBVIOUS
  <2>1. key' = key /\ kind = "offset" /\ moved = FALSE
    BY <1>1, <1>4
  <2>2. \A c \in steady : Position(c)' = Position(c)
    BY <2>1 DEF Position, Before, InIndex, Precedes
  <2> QED BY <1>1, <1>3, <2>1, <2>2 DEF PagesInv, ShownByPosition
<1> QED BY <1>1, <1>6, <1>7, <1>8 DEF PagesInv

(* However the index and the database change while a client follows the links, for     *)
(* every set of books and keys and every size of the pages: no steady book is shown    *)
(* twice, and none is missed by a feed that is followed to its end.                    *)
THEOREM PagesMissNothing == PagesSpec => []PagesShowEveryBookOnce
<1>1. PagesInit => PagesInv
  <2> SUFFICES ASSUME PagesInit PROVE PagesInv
    OBVIOUS
  <2>1. PagesTypeOK
    BY DEF PagesInit, PagesTypeOK, InIndex, NotIndexed
  <2>2. \A b \in steady : b \in InIndex /\ shown[b] = 0
    BY DEF PagesInit, InIndex
  <2>3. ASSUME kind = "key", NEW b \in steady PROVE Follows(SortValues(b), after)
    <3>1. after = <<0, 0>> /\ key[b] > 0
      BY <2>1, <2>2, <2>3, KeysAreNumbers DEF PagesInit, NotIndexed
    <3> QED BY <3>1 DEF Follows, SortValues
  <2>4. ASSUME kind = "offset", NEW b \in steady PROVE ~(Position(b) < after)
    <3>1. after = 0 /\ Position(b) \in Nat
      <4>1. Before(b, InIndex) \in SUBSET InIndex
        BY DEF Before
      <4> QED BY <2>1, <2>4, <4>1, KeysAreNumbers DEF PagesInit, Position
    <3> QED BY <3>1
  <2>5. finished = FALSE
    BY DEF PagesInit
  <2> QED BY <2>1, <2>2, <2>3, <2>4, <2>5 DEF PagesInv, ShownByKey, ShownByPosition
<1>2. PagesInv /\ [PagesNext]_pagesVars => PagesInv'
  <2> SUFFICES ASSUME PagesInv, [PagesNext]_pagesVars PROVE PagesInv'
    OBVIOUS
  <2>1. CASE GeneratePage
    BY <2>1, PagesKeepPagesInv
  <2>2. CASE \E b \in Books : Redeliver(b) \/ \E k \in SortKeys \cup {NotIndexed} : Reposition(b, k)
    BY <2>2, ChangesKeepPagesInv
  <2>3. CASE UNCHANGED pagesVars
    BY <2>3 DEF pagesVars, PagesInv, PagesTypeOK, ShownByKey, ShownByPosition, InIndex, Position, Before,
                Precedes, SortValues, Follows
  <2> QED BY <2>1, <2>2, <2>3 DEF PagesNext
<1>3. PagesInv => PagesShowEveryBookOnce
  <2> SUFFICES ASSUME PagesInv PROVE PagesShowEveryBookOnce
    OBVIOUS
  <2>1. kind \in {"offset", "key"} /\ moved \in BOOLEAN /\ hidden \in BOOLEAN
    BY DEF PagesInv, PagesTypeOK
  <2>2. kind = "key" \/ ~moved => \A b \in steady : shown[b] <= 1
    <3>1. CASE kind = "key"
      BY <3>1 DEF PagesInv, ShownByKey
    <3>2. CASE kind = "offset" /\ moved = FALSE
      BY <3>2 DEF PagesInv, ShownByPosition
    <3> QED BY <2>1, <3>1, <3>2
  <2>3. finished /\ ~hidden /\ (kind = "key" \/ ~moved) => \A b \in steady : shown[b] = 1
    BY <2>1 DEF PagesInv
  <2> QED BY <2>2, <2>3 DEF PagesShowEveryBookOnce
<1> QED BY <1>1, <1>2, <1>3, PTL DEF PagesSpec

-----------------------------------------------------------------------------
(***************************************************************************)
(* The cached feeds.                                                       *)
(***************************************************************************)
FeedRows == [content : Contents, age : 0 .. DefaultAge]
Generating ==
  [pc : {"generating"}, age : Ages, took : Nat, content : Contents, row : RowIds \cup {Absent},
   feed : FeedRows \cup {Absent}]
Storing ==
  [pc : {"storing"}, age : Ages, took : Nat, content : Contents, row : RowIds \cup {Absent},
   same : BOOLEAN, generated : 0 .. DefaultAge, wins : BOOLEAN]

CachedFeedsTypeOK ==
  /\ world \in Contents
  /\ unseen \in [Contents -> Nat]
  /\ cache \in [RowIds -> FeedRows \cup {Absent}]
  /\ fetching \in [Fetches -> {Idle} \cup Generating \cup Storing]

\* No request takes longer than it may, and what it gives was true when it began.
IsRecent(q) == q # Idle => q.took <= GenerationTime /\ unseen[q.content] <= q.took

\* A row that may still be given was true no longer than two generations before its date.
IsFresh(i) ==
  cache[i] # Absent /\ cache[i].age < DefaultAge =>
    unseen[cache[i].content] <= cache[i].age + 2 * GenerationTime

\* A row that is no longer what a request has loaded was written after that.
Overtaken(i, q) == unseen[cache[i].content] <= q.took + GenerationTime
IsLoaded(i, q) ==
  /\ q.pc = "generating" /\ q.row = i /\ q.feed # Absent /\ cache[i] # Absent =>
       cache[i].content = q.feed.content \/ Overtaken(i, q)
  /\ q.pc = "storing" /\ q.row = i /\ q.same /\ cache[i] # Absent =>
       cache[i].content = q.content \/ Overtaken(i, q)

\* A row that is not there yet has no content.
NewIsNew(q) == q.pc = "storing" /\ q.row = Absent => q.same = FALSE

CachedFeedsInv ==
  /\ CachedFeedsTypeOK
  /\ unseen[world] = 0
  /\ \A i \in RowIds : IsFresh(i)
  /\ \A r \in Fetches : IsRecent(fetching[r]) /\ NewIsNew(fetching[r])
  /\ \A r \in Fetches, i \in RowIds : IsLoaded(i, fetching[r])

LEMMA AgesAre == Ages \subseteq {0, IgnoreCache, DefaultAge}
BY DEF Ages, MaxCacheAge

LEMMA Kinds ==
  ASSUME CachedFeedsTypeOK, NEW r \in Fetches
  PROVE  /\ fetching[r].pc = "generating" => fetching[r] \in Generating
         /\ fetching[r].pc = "storing" => fetching[r] \in Storing
         /\ fetching[r] # Idle => fetching[r].pc \in {"generating", "storing"}
         /\ fetching[r] = Idle => fetching[r].pc = "idle"
BY DEF CachedFeedsTypeOK, Idle, Generating, Storing

LEMMA BoundsAreInBounds ==
  ASSUME NEW age \in Ages
  PROVE  /\ Bound(age) \in 0 .. Horizon - 1
         /\ 2 * GenerationTime <= Bound(age)
         /\ Numeric(age) # 0 => age = DefaultAge /\ Bound(age) = DefaultAge + 2 * GenerationTime
<1>1. Numeric(age) \in Nat /\ Numeric(DefaultAge) \in Nat /\ Numeric(age) <= Numeric(DefaultAge)
  BY AgesAre, CachedFeedsAssumption DEF Numeric
<1>2. Numeric(age) # 0 => age = DefaultAge /\ Numeric(age) = DefaultAge
  BY AgesAre, CachedFeedsAssumption DEF Numeric
<1> QED BY <1>1, <1>2, CachedFeedsAssumption DEF Bound, Horizon

\* A step of one request that leaves the rows as they are.
LEMMA RequestsKeepCachedFeedsInv ==
  ASSUME CachedFeedsInv, NEW r \in Fetches, NEW q \in {Idle} \cup Generating \cup Storing,
         fetching' = [fetching EXCEPT ![r] = q], world' = world, unseen' = unseen, cache' = cache,
         IsRecent(q), NewIsNew(q), \A i \in RowIds : IsLoaded(i, q)
  PROVE  CachedFeedsInv'
<1>1. fetching'[r] = q /\ \A s \in Fetches \ {r} : fetching'[s] = fetching[s]
  BY DEF CachedFeedsInv, CachedFeedsTypeOK
<1>2. CachedFeedsTypeOK'
  BY DEF CachedFeedsInv, CachedFeedsTypeOK
<1>3. (unseen[world] = 0)' /\ \A i \in RowIds : IsFresh(i)'
  BY DEF CachedFeedsInv, IsFresh
<1>4. \A s \in Fetches : IsRecent(fetching[s])'
  BY <1>1 DEF CachedFeedsInv, IsRecent
<1>5. \A s \in Fetches : NewIsNew(fetching[s])'
  BY <1>1 DEF CachedFeedsInv, NewIsNew
<1>6. \A s \in Fetches, i \in RowIds : IsLoaded(i, fetching[s])'
  BY <1>1 DEF CachedFeedsInv, IsLoaded, Overtaken
<1> QED BY <1>2, <1>3, <1>4, <1>5, <1>6 DEF CachedFeedsInv

LEMMA IdleIsFine ==
  IsRecent(Idle) /\ NewIsNew(Idle) /\ \A i \in RowIds : IsLoaded(i, Idle)
BY DEF IsRecent, NewIsNew, IsLoaded, Idle

LEMMA MissKeepsCachedFeedsInv ==
  ASSUME CachedFeedsInv, NEW age \in Ages, NEW r \in Fetches, Miss(r, age)
  PROVE  CachedFeedsInv'
<1>1. PICK i \in Found(age) :
        fetching' = [fetching EXCEPT ![r] =
            [pc |-> "generating", age |-> age, took |-> 0, content |-> world,
             row |-> i, feed |-> IF i = Absent THEN Absent ELSE cache[i]]]
  BY DEF Miss
<1> DEFINE q == [pc |-> "generating", age |-> age, took |-> 0, content |-> world,
                 row |-> i, feed |-> IF i = Absent THEN Absent ELSE cache[i]]
<1>2. i \in RowIds \cup {Absent}
  BY DEF Found, Existing
<1>3. q \in Generating
  BY <1>2 DEF Generating, CachedFeedsInv, CachedFeedsTypeOK
<1>4. IsRecent(q)
  BY CachedFeedsAssumption DEF IsRecent, CachedFeedsInv
<1>5. NewIsNew(q) /\ \A j \in RowIds : IsLoaded(j, q)
  BY DEF NewIsNew, IsLoaded
<1> HIDE DEF q
<1>6. fetching' = [fetching EXCEPT ![r] = q] /\ UNCHANGED <<world, unseen, cache>>
  BY <1>1 DEF Miss, q
<1> QED BY <1>3, <1>4, <1>5, <1>6, RequestsKeepCachedFeedsInv

LEMMA GeneratedKeepsCachedFeedsInv ==
  ASSUME CachedFeedsInv, NEW r \in Fetches, Generated(r)
  PROVE  CachedFeedsInv'
<1> DEFINE q == fetching[r]
<1>1. q \in Generating /\ IsRecent(q) /\ q # Idle /\ \A j \in RowIds : IsLoaded(j, q)
  BY Kinds DEF Generated, CachedFeedsInv, Idle
<1> DEFINE again == IF Existing = {} THEN {Absent} ELSE Existing
           feed(i) == IF i = Absent THEN Absent ELSE IF i = q.row THEN q.feed ELSE cache[i]
           next(i, wins) ==
             [pc |-> "storing", age |-> q.age, took |-> q.took, content |-> q.content,
              row |-> i, same |-> feed(i) # Absent /\ feed(i).content = q.content,
              generated |-> 0, wins |-> wins]
<1>2. PICK i \in again : \E wins \in IF feed(i) = Absent THEN {TRUE} ELSE Older(feed(i).age) :
             fetching' = [fetching EXCEPT ![r] = next(i, wins)]
  BY DEF Generated
<1>3. PICK wins \in BOOLEAN : fetching' = [fetching EXCEPT ![r] = next(i, wins)]
  BY <1>2 DEF Older
<1> DEFINE n == next(i, wins)
<1>4. i \in RowIds \cup {Absent}
  BY DEF Existing
<1>5. n \in Storing
  <2>1. n.same \in BOOLEAN
    BY Zenon
  <2>2. 0 \in 0 .. DefaultAge
    BY CachedFeedsAssumption
  <2> QED BY <1>1, <1>4, <2>1, <2>2 DEF Storing, Generating
<1>6. IsRecent(n)
  BY <1>1 DEF IsRecent, Generating
<1>7. NewIsNew(n)
  BY DEF NewIsNew
<1>8. ASSUME NEW j \in RowIds PROVE IsLoaded(j, n)
  <2> SUFFICES ASSUME i = j, feed(i) # Absent, feed(i).content = q.content, cache[j] # Absent
               PROVE  cache[j].content = q.content \/ Overtaken(j, n)
    BY DEF IsLoaded
  <2>1. CASE i = q.row
    <3>1. cache[j].content = q.feed.content \/ Overtaken(j, q)
      BY <1>1, <2>1 DEF IsLoaded, Generating, Generated
    <3> QED BY <3>1, <2>1 DEF Overtaken
  <2>2. CASE i # q.row
    BY <2>2
  <2> QED BY <2>1, <2>2
<1> HIDE DEF n, next
<1>9. fetching' = [fetching EXCEPT ![r] = n] /\ UNCHANGED <<world, unseen, cache>>
  BY <1>3 DEF Generated, n
<1> QED BY <1>5, <1>6, <1>7, <1>8, <1>9, RequestsKeepCachedFeedsInv

LEMMA StoreKeepsCachedFeedsInv ==
  ASSUME CachedFeedsInv, NEW r \in Fetches, StoreFeed(r)
  PROVE  CachedFeedsInv'
<1> DEFINE q == fetching[r]
<1>1. /\ q \in Storing /\ IsRecent(q) /\ q # Idle /\ NewIsNew(q) /\ q.pc = "storing"
      /\ \A j \in RowIds : IsLoaded(j, q)
  BY Kinds DEF StoreFeed, CachedFeedsInv, Idle
<1>2. fetching' = [fetching EXCEPT ![r] = Idle] /\ world' = world /\ unseen' = unseen
  BY DEF StoreFeed
<1>3. CASE cache' = cache
  BY <1>2, <1>3, IdleIsFine, RequestsKeepCachedFeedsInv
<1>4. ASSUME NEW i \in RowIds, cache' = [cache EXCEPT ![i] = Stored(q, @)],
             q.row = Absent \/ (q.row = i /\ cache[i] # Absent)
      PROVE  CachedFeedsInv'
  <2> DEFINE new == Stored(q, cache[i])
  <2>1. /\ q.took \in Nat /\ q.took <= GenerationTime /\ q.content \in Contents /\ unseen[q.content] <= q.took
        /\ q.generated \in 0 .. DefaultAge /\ q.same \in BOOLEAN
        /\ unseen \in [Contents -> Nat]
    BY <1>1 DEF IsRecent, Storing, CachedFeedsInv, CachedFeedsTypeOK
  <2>2. q.same => q.row = i /\ cache[i] # Absent /\ cache[i] \in FeedRows
    BY <1>1, <1>4 DEF NewIsNew, CachedFeedsInv, CachedFeedsTypeOK
  <2>3. new = [content |-> IF q.same THEN cache[i].content ELSE q.content, age |-> q.generated]
    BY DEF Stored
  <2>4. new \in FeedRows /\ new.age \in Nat
    BY <2>1, <2>2, <2>3 DEF FeedRows
  <2>5. unseen[new.content] <= 2 * GenerationTime
    <3>1. CASE q.same
      <4>1. cache[i].content = q.content \/ unseen[cache[i].content] <= q.took + GenerationTime
        BY <1>1, <2>2, <3>1 DEF IsLoaded, Overtaken
      <4>2. cache[i].content \in Contents /\ unseen[cache[i].content] \in Nat
        BY <2>1, <2>2, <3>1 DEF FeedRows
      <4>3. unseen[cache[i].content] <= q.took + GenerationTime
        BY <4>1, <4>2, <2>1, CachedFeedsAssumption
      <4>4. new.content = cache[i].content
        BY <2>3, <3>1
      <4> QED BY <4>2, <4>3, <4>4, <2>1, CachedFeedsAssumption
    <3>2. CASE ~q.same
      <4>1. new.content = q.content
        BY <2>3, <3>2
      <4>2. unseen[q.content] \in Nat
        BY <2>1
      <4> QED BY <4>1, <4>2, <2>1, CachedFeedsAssumption
    <3> QED BY <3>1, <3>2
  <2>6. \/ new.content = cache[i].content /\ q.same
        \/ new.content = q.content /\ unseen[new.content] <= GenerationTime
    <3>1. CASE q.same
      BY <2>3, <3>1
    <3>2. CASE ~q.same
      <4>1. new.content = q.content
        BY <2>3, <3>2
      <4>2. unseen[q.content] \in Nat
        BY <2>1
      <4> QED BY <4>1, <4>2, <2>1, CachedFeedsAssumption
    <3> QED BY <3>1, <3>2
  <2> HIDE DEF new
  <2>7. cache'[i] = new /\ \A j \in RowIds \ {i} : cache'[j] = cache[j]
    BY <1>4 DEF CachedFeedsInv, CachedFeedsTypeOK, new
  <2>8. fetching'[r] = Idle /\ \A s \in Fetches \ {r} : fetching'[s] = fetching[s]
    BY <1>2 DEF CachedFeedsInv, CachedFeedsTypeOK
  <2>9. CachedFeedsTypeOK'
    <3>1. cache' \in [RowIds -> FeedRows \cup {Absent}]
      BY <2>4, <1>4 DEF CachedFeedsInv, CachedFeedsTypeOK, new
    <3>2. fetching' \in [Fetches -> {Idle} \cup Generating \cup Storing]
      BY <1>2 DEF CachedFeedsInv, CachedFeedsTypeOK
    <3>3. Storing' = Storing /\ Generating' = Generating /\ FeedRows' = FeedRows
      BY DEF Storing, Generating, FeedRows, Ages
    <3> QED BY <1>2, <3>1, <3>2 DEF CachedFeedsInv, CachedFeedsTypeOK
  <2>10. \A j \in RowIds : IsFresh(j)'
    <3> SUFFICES ASSUME NEW j \in RowIds PROVE IsFresh(j)'
      OBVIOUS
    <3>1. CASE j = i
      <4>1. new.content \in Contents /\ unseen[new.content] \in Nat
        BY <2>1, <2>4 DEF FeedRows
      <4> QED BY <3>1, <4>1, <1>2, <2>4, <2>5, <2>7, CachedFeedsAssumption DEF IsFresh
    <3>2. CASE j # i
      BY <3>2, <1>2, <2>7 DEF IsFresh, CachedFeedsInv
    <3> QED BY <3>1, <3>2
  <2>11. \A s \in Fetches : IsRecent(fetching[s])' /\ NewIsNew(fetching[s])'
    BY <1>2, <2>8, IdleIsFine DEF IsRecent, NewIsNew, CachedFeedsInv
  <2>12. \A s \in Fetches, j \in RowIds : IsLoaded(j, fetching[s])'
    <3> SUFFICES ASSUME NEW s \in Fetches, NEW j \in RowIds PROVE IsLoaded(j, fetching[s])'
      OBVIOUS
    <3>1. CASE s = r
      BY <3>1, <2>8 DEF IsLoaded, Idle
    <3>2. CASE s # r /\ j # i
      BY <3>2, <1>2, <2>7, <2>8 DEF IsLoaded, Overtaken, CachedFeedsInv
    <3>3. CASE s # r /\ j = i
      <4> DEFINE p == fetching[s]
      <4>1. fetching'[s] = p /\ cache'[i] = new /\ unseen' = unseen
        BY <3>3, <1>2, <2>7, <2>8
      <4>2. IsLoaded(i, p)
        BY DEF CachedFeedsInv
      <4>3. p.pc \in {"generating", "storing"} => p.took \in Nat
        BY Kinds DEF CachedFeedsInv, Generating, Storing
      <4>4. CASE new.content = cache[i].content /\ q.same
        BY <4>1, <4>2, <4>4, <2>2, <3>3 DEF IsLoaded, Overtaken
      <4>5. CASE unseen[new.content] <= GenerationTime
        <5>1. unseen[new.content] \in Nat
          BY <2>1, <2>4 DEF FeedRows
        <5>2. p.pc \in {"generating", "storing"} => unseen[new.content] <= p.took + GenerationTime
          BY <5>1, <4>3, <4>5, CachedFeedsAssumption
        <5> QED BY <4>1, <5>2, <3>3 DEF IsLoaded, Overtaken
      <4> QED BY <2>6, <4>4, <4>5
    <3> QED BY <3>1, <3>2, <3>3
  <2>13. (unseen[world] = 0)'
    BY <1>2 DEF CachedFeedsInv
  <2> QED BY <2>9, <2>10, <2>11, <2>12, <2>13 DEF CachedFeedsInv
<1>5. ASSUME NEW i \in IF q.row = Absent THEN {NewRow} ELSE Existing \cap {q.row},
             cache' = [cache EXCEPT ![i] = Stored(q, @)]
      PROVE  CachedFeedsInv'
  <2>1. CASE i \in RowIds
    <3>1. q.row = Absent \/ (q.row = i /\ cache[i] # Absent)
      BY <1>5 DEF Existing
    <3> QED BY <1>4, <1>5, <2>1, <3>1
  <2>2. CASE i \notin RowIds
    <3>1. cache' = cache
      BY <1>5, <2>2 DEF CachedFeedsInv, CachedFeedsTypeOK
    <3> QED BY <1>3, <3>1
  <2> QED BY <2>1, <2>2
<1>6. cache' = cache
      \/ \E i \in IF q.row = Absent THEN {NewRow} ELSE Existing \cap {q.row} : cache' = [cache EXCEPT ![i] = Stored(q, @)]
  BY DEF StoreFeed
<1> QED BY <1>3, <1>5, <1>6

LEMMA RemovalsKeepCachedFeedsInv ==
  ASSUME CachedFeedsInv, NEW x \in RowIds, RemoveRow(x)
  PROVE  CachedFeedsInv'
<1>1. /\ cache' = [cache EXCEPT ![x] = Absent] /\ UNCHANGED <<world, unseen, fetching>>
      /\ \A i \in RowIds : cache'[i] # Absent => cache'[i] = cache[i]
  BY DEF RemoveRow, CachedFeedsInv, CachedFeedsTypeOK
<1>2. CachedFeedsTypeOK'
  BY <1>1 DEF CachedFeedsInv, CachedFeedsTypeOK
<1>3. \A i \in RowIds : IsFresh(i)'
  BY <1>1 DEF CachedFeedsInv, IsFresh
<1>4. \A r \in Fetches : IsRecent(fetching[r])' /\ NewIsNew(fetching[r])'
  BY <1>1 DEF CachedFeedsInv, IsRecent, NewIsNew
<1>5. \A r \in Fetches, i \in RowIds : IsLoaded(i, fetching[r])'
  BY <1>1 DEF CachedFeedsInv, IsLoaded, Overtaken
<1> QED BY <1>1, <1>2, <1>3, <1>4, <1>5 DEF CachedFeedsInv

\* Whatever is seen now, nothing has been unseen for longer than before.
LEMMA ChangesKeepCachedFeedsInv ==
  ASSUME CachedFeedsInv, FeedChanges
  PROVE  CachedFeedsInv'
<1>1. /\ world' \in Contents /\ unseen' = [unseen EXCEPT ![world'] = 0]
      /\ cache' = cache /\ fetching' = fetching
  BY DEF FeedChanges
<1>2. unseen' \in [Contents -> Nat] /\ unseen'[world'] = 0
      /\ \A c \in Contents : unseen'[c] <= unseen[c] /\ unseen[c] \in Nat /\ unseen'[c] \in Nat
  BY <1>1 DEF CachedFeedsInv, CachedFeedsTypeOK
<1>3. CachedFeedsTypeOK'
  BY <1>1, <1>2 DEF CachedFeedsInv, CachedFeedsTypeOK
<1>4. ASSUME NEW i \in RowIds PROVE IsFresh(i)'
  <2> SUFFICES ASSUME cache[i] # Absent, cache[i].age < DefaultAge
               PROVE  unseen'[cache[i].content] <= cache[i].age + 2 * GenerationTime
    BY <1>1 DEF IsFresh
  <2>1. cache[i].content \in Contents /\ cache[i].age \in Nat
    BY CachedFeedsAssumption DEF CachedFeedsInv, CachedFeedsTypeOK, FeedRows
  <2>2. unseen[cache[i].content] <= cache[i].age + 2 * GenerationTime
    BY DEF CachedFeedsInv, IsFresh
  <2> QED BY <2>1, <2>2, <1>2, CachedFeedsAssumption
<1>5. ASSUME NEW r \in Fetches PROVE IsRecent(fetching[r])' /\ NewIsNew(fetching[r])'
  <2>1. fetching[r] # Idle => fetching[r].content \in Contents /\ fetching[r].took \in Nat
    BY Kinds DEF CachedFeedsInv, Generating, Storing
  <2>2. IsRecent(fetching[r])'
    BY <1>1, <1>2, <2>1, CachedFeedsAssumption DEF CachedFeedsInv, IsRecent
  <2>3. NewIsNew(fetching[r])'
    BY <1>1 DEF CachedFeedsInv, NewIsNew
  <2> QED BY <2>2, <2>3
<1>6. ASSUME NEW r \in Fetches, NEW i \in RowIds PROVE IsLoaded(i, fetching[r])'
  <2> DEFINE q == fetching[r]
  <2>1. cache[i] # Absent => cache[i].content \in Contents
    BY DEF CachedFeedsInv, CachedFeedsTypeOK, FeedRows
  <2>2. q.pc \in {"generating", "storing"} => q.took \in Nat
    BY Kinds DEF CachedFeedsInv, Generating, Storing
  <2>3. cache[i] # Absent /\ q.pc \in {"generating", "storing"} /\ Overtaken(i, q) =>
          unseen'[cache[i].content] <= q.took + GenerationTime
    BY <2>1, <2>2, <1>2, CachedFeedsAssumption DEF Overtaken
  <2>4. IsLoaded(i, q)
    BY DEF CachedFeedsInv
  <2> QED BY <2>3, <2>4, <1>1 DEF IsLoaded, Overtaken
<1> QED BY <1>2, <1>3, <1>4, <1>5, <1>6 DEF CachedFeedsInv

LEMMA UpToFacts ==
  ASSUME NEW bound \in Nat, NEW n \in Nat
  PROVE  /\ UpTo(bound, n) \in Nat /\ UpTo(bound, n) <= n + 1
         /\ UpTo(bound, n) <= bound
         /\ UpTo(bound, n) < bound => UpTo(bound, n) = n + 1 /\ n < bound
BY DEF UpTo

\* What a request has taken, when time has passed.
Later(q) ==
  CASE q.pc = "idle"       -> Idle
    [] q.pc = "generating" -> [q EXCEPT !.took = @ + 1]
    [] q.pc = "storing"    -> [q EXCEPT !.took = @ + 1, !.generated = UpTo(DefaultAge, @)]

LEMMA LaterFacts ==
  ASSUME NEW q \in {Idle} \cup Generating \cup Storing
  PROVE  /\ Later(q) \in {Idle} \cup Generating \cup Storing
         /\ q = Idle => Later(q) = Idle
         /\ Later(q).pc = q.pc
         /\ q # Idle => /\ Later(q).took = q.took + 1 /\ Later(q).content = q.content
                        /\ Later(q).row = q.row
         /\ q.pc = "generating" => Later(q).feed = q.feed
         /\ q.pc = "storing" => Later(q).same = q.same
<1>1. CASE q = Idle
  BY <1>1 DEF Later, Idle
<1>2. CASE q \in Generating
  <2>1. Later(q) = [pc |-> "generating", age |-> q.age, took |-> q.took + 1, content |-> q.content,
                    row |-> q.row, feed |-> q.feed]
    BY <1>2 DEF Later, Generating
  <2>2. q.took + 1 \in Nat /\ q.pc = "generating"
    BY <1>2 DEF Generating
  <2> QED BY <1>2, <2>1, <2>2 DEF Generating, Idle
<1>3. CASE q \in Storing
  <2>1. Later(q) = [pc |-> "storing", age |-> q.age, took |-> q.took + 1, content |-> q.content,
                    row |-> q.row, same |-> q.same, generated |-> UpTo(DefaultAge, q.generated), wins |-> q.wins]
    BY <1>3 DEF Later, Storing
  <2>2. UpTo(DefaultAge, q.generated) \in 0 .. DefaultAge
    <3>1. DefaultAge \in Nat /\ q.generated \in Nat
      BY <1>3, CachedFeedsAssumption DEF Storing
    <3>2. UpTo(DefaultAge, q.generated) \in Nat /\ UpTo(DefaultAge, q.generated) <= DefaultAge
      BY <3>1, UpToFacts
    <3> QED BY <3>1, <3>2
  <2>3. q.took + 1 \in Nat /\ q.pc = "storing"
    BY <1>3 DEF Storing
  <2> QED BY <1>3, <2>1, <2>2, <2>3 DEF Storing, Idle
<1> QED BY <1>1, <1>2, <1>3

LEMMA TicksKeepCachedFeedsInv ==
  ASSUME CachedFeedsInv, FeedTick
  PROVE  CachedFeedsInv'
<1>1. /\ \A r \in Fetches : fetching[r] # Idle => fetching[r].took < GenerationTime
      /\ unseen' = [c \in Contents |-> IF c = world THEN 0 ELSE UpTo(Horizon, unseen[c])]
      /\ cache' = [i \in RowIds |->
           IF cache[i] = Absent THEN Absent ELSE [cache[i] EXCEPT !.age = UpTo(DefaultAge, @)]]
      /\ fetching' = [r \in Fetches |-> Later(fetching[r])]
      /\ world' = world
  BY DEF FeedTick, Later
<1>2. Horizon \in Nat
  BY CachedFeedsAssumption DEF Horizon, Bound, Numeric
<1>3. unseen' \in [Contents -> Nat] /\ unseen'[world] = 0
      /\ \A c \in Contents : unseen'[c] <= unseen[c] + 1 /\ unseen[c] \in Nat /\ unseen'[c] \in Nat
  <2>1. \A c \in Contents : unseen[c] \in Nat /\ UpTo(Horizon, unseen[c]) \in Nat /\ UpTo(Horizon, unseen[c]) <= unseen[c] + 1
    BY <1>2, UpToFacts DEF CachedFeedsInv, CachedFeedsTypeOK
  <2>2. world \in Contents
    BY DEF CachedFeedsInv, CachedFeedsTypeOK
  <2> QED BY <1>1, <2>1, <2>2
<1>4. ASSUME NEW i \in RowIds
      PROVE  /\ cache'[i] \in FeedRows \cup {Absent}
             /\ cache'[i] # Absent =>
                  /\ cache[i] # Absent /\ cache[i] \in FeedRows /\ cache'[i].content = cache[i].content
                  /\ cache'[i].age < DefaultAge => cache'[i].age = cache[i].age + 1 /\ cache[i].age < DefaultAge
  <2>1. CASE cache[i] = Absent
    BY <1>1, <2>1
  <2>2. CASE cache[i] # Absent
    <3>1. cache[i] \in FeedRows
      BY <2>2 DEF CachedFeedsInv, CachedFeedsTypeOK
    <3>2. cache'[i] = [content |-> cache[i].content, age |-> UpTo(DefaultAge, cache[i].age)]
      BY <1>1, <2>2, <3>1 DEF FeedRows
    <3>3. cache[i].age \in Nat
      BY <3>1, CachedFeedsAssumption DEF FeedRows
    <3>4. UpTo(DefaultAge, cache[i].age) \in 0 .. DefaultAge
      <4>1. DefaultAge \in Nat
        BY CachedFeedsAssumption
      <4>2. UpTo(DefaultAge, cache[i].age) \in Nat /\ UpTo(DefaultAge, cache[i].age) <= DefaultAge
        BY <3>3, <4>1, UpToFacts
      <4> QED BY <4>1, <4>2
    <3>5. UpTo(DefaultAge, cache[i].age) < DefaultAge =>
            UpTo(DefaultAge, cache[i].age) = cache[i].age + 1 /\ cache[i].age < DefaultAge
      BY <3>3, CachedFeedsAssumption, UpToFacts
    <3> QED BY <2>2, <3>1, <3>2, <3>4, <3>5 DEF FeedRows
  <2> QED BY <2>1, <2>2
<1>5. \A r \in Fetches : fetching[r] \in {Idle} \cup Generating \cup Storing /\ fetching'[r] = Later(fetching[r])
  BY <1>1 DEF CachedFeedsInv, CachedFeedsTypeOK
<1>6. CachedFeedsTypeOK'
  <2>1. cache' \in [RowIds -> FeedRows \cup {Absent}]
    <3>1. cache' = [i \in RowIds |-> cache'[i]]
      BY <1>1
    <3> QED BY <1>4, <3>1
  <2>2. fetching' \in [Fetches -> {Idle} \cup Generating \cup Storing]
    BY <1>1, <1>5, LaterFacts
  <2> QED BY <1>1, <1>3, <2>1, <2>2 DEF CachedFeedsInv, CachedFeedsTypeOK
<1>7. ASSUME NEW i \in RowIds PROVE IsFresh(i)'
  <2> SUFFICES ASSUME cache'[i] # Absent, cache'[i].age < DefaultAge
               PROVE  unseen'[cache'[i].content] <= cache'[i].age + 2 * GenerationTime
    BY DEF IsFresh
  <2>1. cache[i] # Absent /\ cache[i] \in FeedRows /\ cache'[i].content = cache[i].content
        /\ cache'[i].age = cache[i].age + 1 /\ cache[i].age < DefaultAge
    BY <1>4
  <2>2. unseen[cache[i].content] <= cache[i].age + 2 * GenerationTime
    BY <2>1 DEF CachedFeedsInv, IsFresh
  <2>3. cache[i].content \in Contents /\ cache[i].age \in Nat
    BY <2>1, CachedFeedsAssumption DEF FeedRows
  <2>4. unseen'[cache[i].content] <= unseen[cache[i].content] + 1 /\ unseen[cache[i].content] \in Nat
        /\ unseen'[cache[i].content] \in Nat
    BY <1>3, <2>3
  <2> QED BY <2>1, <2>2, <2>3, <2>4, CachedFeedsAssumption
<1>8. ASSUME NEW r \in Fetches PROVE IsRecent(fetching[r])'
  <2> SUFFICES ASSUME fetching'[r] # Idle
               PROVE  fetching'[r].took <= GenerationTime /\ unseen'[fetching'[r].content] <= fetching'[r].took
    BY DEF IsRecent, Idle
  <2>1. fetching[r] # Idle /\ fetching'[r].took = fetching[r].took + 1 /\ fetching'[r].content = fetching[r].content
    BY <1>5, LaterFacts
  <2>2. fetching[r].took < GenerationTime /\ unseen[fetching[r].content] <= fetching[r].took
    BY <1>1, <2>1 DEF CachedFeedsInv, IsRecent
  <2>3. fetching[r].content \in Contents /\ fetching[r].took \in Nat
    BY <2>1, Kinds DEF CachedFeedsInv, Generating, Storing
  <2>4. unseen'[fetching[r].content] <= unseen[fetching[r].content] + 1 /\ unseen[fetching[r].content] \in Nat
        /\ unseen'[fetching[r].content] \in Nat
    BY <1>3, <2>3
  <2> QED BY <2>1, <2>2, <2>3, <2>4, CachedFeedsAssumption
<1>9. ASSUME NEW r \in Fetches PROVE NewIsNew(fetching[r])'
  <2>1. NewIsNew(fetching[r])
    BY DEF CachedFeedsInv
  <2>2. fetching'[r].pc = "storing" => fetching[r].pc = "storing" /\ fetching[r] # Idle
    BY <1>5, LaterFacts DEF Idle
  <2>3. fetching'[r].pc = "storing" => fetching'[r].row = fetching[r].row /\ fetching'[r].same = fetching[r].same
    BY <1>5, <2>2, LaterFacts
  <2> QED BY <2>1, <2>2, <2>3 DEF NewIsNew
<1>10. ASSUME NEW r \in Fetches, NEW i \in RowIds PROVE IsLoaded(i, fetching[r])'
  <2> DEFINE q == fetching[r]
             n == fetching'[r]
  <2>1. n.pc = q.pc /\ (q.pc = "generating" => n.feed = q.feed) /\ (q.pc = "storing" => n.same = q.same)
    BY <1>5, LaterFacts
  <2>2. n.pc \in {"generating", "storing"} => n.took = q.took + 1 /\ n.content = q.content /\ n.row = q.row /\ q.took \in Nat
    BY <1>5, <2>1, LaterFacts, Kinds DEF CachedFeedsInv, Generating, Storing, Idle
  <2>3. cache'[i] # Absent => cache[i] # Absent /\ cache'[i].content = cache[i].content /\ cache[i].content \in Contents
    BY <1>4 DEF FeedRows
  <2>4. cache'[i] # Absent /\ n.pc \in {"generating", "storing"} /\ Overtaken(i, q) =>
          unseen'[cache'[i].content] <= n.took + GenerationTime
    BY <2>2, <2>3, <1>3, CachedFeedsAssumption DEF Overtaken
  <2>5. IsLoaded(i, q)
    BY DEF CachedFeedsInv
  <2>6. n.pc = "generating" /\ n.row = i /\ n.feed # Absent /\ cache'[i] # Absent =>
          cache'[i].content = n.feed.content \/ unseen'[cache'[i].content] <= n.took + GenerationTime
    BY <2>1, <2>2, <2>3, <2>4, <2>5 DEF IsLoaded
  <2>7. n.pc = "storing" /\ n.row = i /\ n.same /\ cache'[i] # Absent =>
          cache'[i].content = n.content \/ unseen'[cache'[i].content] <= n.took + GenerationTime
    BY <2>1, <2>2, <2>3, <2>4, <2>5 DEF IsLoaded
  <2> QED BY <2>6, <2>7 DEF IsLoaded, Overtaken
<1> QED BY <1>1, <1>3, <1>6, <1>7, <1>8, <1>9, <1>10 DEF CachedFeedsInv

LEMMA StepKeepsCachedFeedsInv ==
  ASSUME CachedFeedsInv, [CachedFeedsNext]_cachedFeedsVars
  PROVE  CachedFeedsInv'
<1>1. ASSUME NEW age \in Ages, Hit(age) PROVE CachedFeedsInv'
  <2>1. UNCHANGED <<world, unseen, cache, fetching>>
    BY <1>1 DEF Hit
  <2> QED BY <2>1 DEF CachedFeedsInv, CachedFeedsTypeOK, IsFresh, IsRecent, NewIsNew, IsLoaded, Overtaken
<1>2. ASSUME NEW age \in Ages, NEW r \in Fetches, Miss(r, age) PROVE CachedFeedsInv'
  BY <1>2, MissKeepsCachedFeedsInv
<1>3. ASSUME NEW r \in Fetches, AnswerUncached(r) PROVE CachedFeedsInv'
  <2>1. fetching' = [fetching EXCEPT ![r] = Idle] /\ UNCHANGED <<world, unseen, cache>>
    BY <1>3 DEF AnswerUncached
  <2> QED BY <2>1, IdleIsFine, RequestsKeepCachedFeedsInv
<1>4. ASSUME NEW r \in Fetches, Generated(r) PROVE CachedFeedsInv'
  BY <1>4, GeneratedKeepsCachedFeedsInv
<1>5. ASSUME NEW r \in Fetches, StoreFeed(r) PROVE CachedFeedsInv'
  BY <1>5, StoreKeepsCachedFeedsInv
<1>6. ASSUME NEW i \in RowIds, RemoveRow(i) PROVE CachedFeedsInv'
  BY <1>6, RemovalsKeepCachedFeedsInv
<1>7. CASE FeedChanges
  BY <1>7, ChangesKeepCachedFeedsInv
<1>8. CASE FeedTick
  BY <1>8, TicksKeepCachedFeedsInv
<1>9. CASE UNCHANGED cachedFeedsVars
  BY <1>9 DEF cachedFeedsVars, CachedFeedsInv, CachedFeedsTypeOK, IsFresh, IsRecent, NewIsNew, IsLoaded, Overtaken
<1>10. CASE CachedFeedsNext
  <2>1. CASE \E age \in Ages : Hit(age) \/ \E r \in Fetches : Miss(r, age)
    BY <2>1, <1>1, <1>2
  <2>2. CASE \E r \in Fetches : AnswerUncached(r) \/ Generated(r) \/ StoreFeed(r)
    BY <2>2, <1>3, <1>4, <1>5
  <2> QED BY <1>10, <2>1, <2>2, <1>6, <1>7, <1>8 DEF CachedFeedsNext
<1> QED BY <1>9, <1>10

\* Every step of the cache is one of those that Freshness allows.
LEMMA StepsAreFresh ==
  ASSUME CachedFeedsInv, [CachedFeedsNext]_cachedFeedsVars
  PROVE  [Promise!FreshnessNext]_(Promise!freshnessVars)
<1>1. ASSUME NEW content \in Contents, NEW age \in Ages, Respond(content, age), unseen[content] <= Bound(age),
             UNCHANGED <<world, unseen>>
      PROVE  Promise!FreshnessNext
  <2>1. answer' = [content |-> content, bound |-> Bound(age)]
    BY <1>1 DEF Respond
  <2>2. answer' \in Promise!Answers /\ unseen[answer'.content] <= answer'.bound
    BY <2>1, <1>1, BoundsAreInBounds DEF Promise!Answers
  <2> QED BY <1>1, <2>2 DEF Promise!FreshnessNext, Promise!Answer
<1>2. ASSUME answer' = Absent, UNCHANGED <<world, unseen>>
      PROVE  Promise!FreshnessNext
  BY <1>2 DEF Promise!FreshnessNext, Promise!Silence
<1>3. ASSUME NEW r \in Fetches, fetching[r] # Idle, NEW age \in Ages
      PROVE  fetching[r].content \in Contents /\ fetching[r].age \in Ages /\ unseen[fetching[r].content] <= Bound(age)
  <2>1. fetching[r].content \in Contents /\ fetching[r].age \in Ages /\ fetching[r].took \in Nat
    BY <1>3, Kinds DEF CachedFeedsInv, Generating, Storing
  <2>2. fetching[r].took <= GenerationTime /\ unseen[fetching[r].content] <= fetching[r].took
    BY <1>3 DEF CachedFeedsInv, IsRecent
  <2>3. unseen[fetching[r].content] \in Nat
    BY <2>1 DEF CachedFeedsInv, CachedFeedsTypeOK
  <2>4. Bound(age) \in Int /\ 2 * GenerationTime <= Bound(age)
    BY BoundsAreInBounds
  <2> QED BY <2>1, <2>2, <2>3, <2>4, CachedFeedsAssumption
<1>4. ASSUME NEW age \in Ages, Hit(age) PROVE Promise!FreshnessNext
  <2>1. PICK i \in Found(age) \ {Absent} : ~ShouldRefresh(cache[i], age) /\ Respond(cache[i].content, age)
    BY <1>4 DEF Hit
  <2>2. Numeric(age) # 0 /\ i \in RowIds
    BY <2>1 DEF Found, Existing
  <2>3. age = DefaultAge /\ Bound(age) = DefaultAge + 2 * GenerationTime
    BY <2>2, BoundsAreInBounds
  <2>4. cache[i] # Absent /\ ~(cache[i].age >= age)
    BY <2>1 DEF ShouldRefresh
  <2>5. cache[i] \in FeedRows
    BY <2>2, <2>4 DEF CachedFeedsInv, CachedFeedsTypeOK
  <2>6. cache[i].content \in Contents /\ cache[i].age \in Nat /\ cache[i].age < DefaultAge
    BY <2>3, <2>4, <2>5, CachedFeedsAssumption DEF FeedRows
  <2>7. unseen[cache[i].content] <= cache[i].age + 2 * GenerationTime /\ unseen[cache[i].content] \in Nat
    BY <2>2, <2>4, <2>6 DEF CachedFeedsInv, CachedFeedsTypeOK, IsFresh
  <2>8. unseen[cache[i].content] <= Bound(age)
    BY <2>3, <2>6, <2>7, CachedFeedsAssumption
  <2> QED BY <1>1, <1>4, <2>1, <2>6, <2>8 DEF Hit
<1>5. ASSUME NEW age \in Ages, NEW r \in Fetches, Miss(r, age) PROVE Promise!FreshnessNext
  BY <1>2, <1>5 DEF Miss
<1>6. ASSUME NEW r \in Fetches, AnswerUncached(r) PROVE Promise!FreshnessNext
  <2>1. fetching[r].pc = "generating" /\ fetching[r].age = IgnoreCache /\ Respond(fetching[r].content, IgnoreCache)
        /\ UNCHANGED <<world, unseen>>
    BY <1>6 DEF AnswerUncached
  <2>2. fetching[r] # Idle /\ IgnoreCache \in Ages
    BY <2>1, Kinds DEF CachedFeedsInv, Generating, Idle
  <2> QED BY <1>1, <1>3, <2>1, <2>2
<1>7. ASSUME NEW r \in Fetches, Generated(r) PROVE Promise!FreshnessNext
  BY <1>2, <1>7 DEF Generated
<1>8. ASSUME NEW r \in Fetches, StoreFeed(r) PROVE Promise!FreshnessNext
  <2>1. fetching[r].pc = "storing" /\ UNCHANGED <<world, unseen>>
        /\ (Respond(fetching[r].content, fetching[r].age) \/ answer' = Absent)
    BY <1>8 DEF StoreFeed
  <2>2. fetching[r] # Idle /\ fetching[r].age \in Ages
    BY <2>1, Kinds DEF CachedFeedsInv, Storing, Idle
  <2> QED BY <1>1, <1>2, <1>3, <2>1, <2>2
<1>9. ASSUME NEW i \in RowIds, RemoveRow(i) PROVE Promise!FreshnessNext
  BY <1>2, <1>9 DEF RemoveRow
<1>10. CASE FeedChanges
  BY <1>10 DEF FeedChanges, Promise!FreshnessNext, Promise!WorldChanges
<1>11. CASE FeedTick
  BY <1>11 DEF FeedTick, UpTo, Promise!FreshnessNext, Promise!TimePasses
<1>12. CASE UNCHANGED cachedFeedsVars
  BY <1>12 DEF cachedFeedsVars, Promise!freshnessVars
<1>13. CASE CachedFeedsNext
  <2>1. CASE \E age \in Ages : Hit(age) \/ \E r \in Fetches : Miss(r, age)
    BY <2>1, <1>4, <1>5
  <2>2. CASE \E r \in Fetches : AnswerUncached(r) \/ Generated(r) \/ StoreFeed(r)
    BY <2>2, <1>6, <1>7, <1>8
  <2> QED BY <1>13, <2>1, <2>2, <1>9, <1>10, <1>11 DEF CachedFeedsNext
<1> QED BY <1>12, <1>13

(* The cache implements what Freshness promises, for every number of requests and of   *)
(* rows, and every age and time of generation: nobody is given a feed that was last    *)
(* true longer ago than the age they asked for and the time of two generations.        *)
THEOREM CacheIsFresh == CachedFeedsSpec => FeedsAreFresh
<1>1. CachedFeedsInit => CachedFeedsInv
  <2> SUFFICES ASSUME CachedFeedsInit PROVE CachedFeedsInv
    OBVIOUS
  <2>1. Horizon \in Nat
    BY CachedFeedsAssumption DEF Horizon, Bound, Numeric
  <2>2. CachedFeedsTypeOK /\ unseen[world] = 0
    BY <2>1 DEF CachedFeedsInit, CachedFeedsTypeOK
  <2>3. \A r \in Fetches : fetching[r] = Idle
    BY DEF CachedFeedsInit
  <2>4. \A i \in RowIds : IsFresh(i)
    BY DEF CachedFeedsInit, IsFresh
  <2> QED BY <2>2, <2>3, <2>4, IdleIsFine DEF CachedFeedsInv
<1>2. CachedFeedsInit => Promise!FreshnessInit
  BY DEF CachedFeedsInit, Promise!FreshnessInit
<1> QED BY <1>1, <1>2, StepKeepsCachedFeedsInv, StepsAreFresh, PTL
  DEF CachedFeedsSpec, FeedsAreFresh, Promise!FreshnessSpec
=============================================================================
