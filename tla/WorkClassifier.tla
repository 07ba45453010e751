--------------------------- MODULE WorkClassifier ---------------------------
(***************************************************************************)
(* WorkClassifier (classifier/__init__.py): what a Work is, made of all    *)
(* classifications of its identifiers.  They are added one by one, in the  *)
(* order in which the database returns the rows of a query that asks for   *)
(* none; what the library's staff say puts aside what others have said     *)
(* before and after.                                                       *)
(*                                                                         *)
(* A subject comes with what its vocabulary has made of it (model/         *)
(* classification.py, Subject.assign_to_genre): a genre, a fiction status, *)
(* an audience, a target age.  Counters are kept in tenths, those of audiences *)
(* in hundredths.  Genres have two levels, as in the code's own list, so   *)
(* that the loop that consolidates them goes over it once.                 *)
(***************************************************************************)
EXTENDS Integers, Sequences, SequencesExt, FiniteSets, FiniteSetsExt

CONSTANTS
  Rows,       \* classifications: source, subject, weight and what the subject means
  LibraryStaff,      \* the data source of the library's staff
  LicenseSource,    \* the data source of the Work's licenses
  Genre,      \* of each genre: its fiction status, and its parent or Unsaid
  Imprints,   \* what title, publisher and imprint say: fiction, genre, audience
  Unsaid,     \* nothing is said
  MaxRows     \* bound: the number of classifications of a Work

AdultAudiences == {"Adult", "Adults Only"}
JuvenileAudiences == {"Children", "Young Adult", "All Ages"}
Audiences == AdultAudiences \cup JuvenileAudiences \cup {"Research"}

\* An age that is not known; a range of ages that is not.
NoAge == -1
NoAges == [lower |-> NoAge, upper |-> NoAge]

\* Staff speak of five things, once but of genres, by a subject of its own each, with
\* a weight and, of ages, with a range; what the vocabularies of audiences, fiction
\* statuses and ages have, and NONE, have no genre, and a format is a genre.  A subject
\* means what it means, and how well it tells the age depends on it and on its source.
StaffKinds == {"audience", "fiction", "age", "genre", "none"}
Kinds == StaffKinds \cup {"lcc", "overdrive", "other"}

ASSUME ClassifierAssumption ==
  /\ IsFiniteSet(Rows)
  /\ \A r \in Rows : r.kind \in Kinds /\ r.audience \in Audiences \cup {Unsaid}
  /\ \A r \in Rows : r.weight \in Nat /\ r.quality \in Nat /\ r.age \in [lower : Int, upper : Int]
  /\ \A r, s \in Rows : r # s /\ r.source = LibraryStaff /\ s.source = LibraryStaff =>
       r.subject # s.subject /\ (r.kind = s.kind => r.kind = "genre")
  /\ \A r \in Rows : r.source = LibraryStaff => r.weight > 0 /\ r.kind \in StaffKinds
  /\ \A r \in Rows : r.source = LibraryStaff /\ r.kind = "age" =>
       r.age.lower \in Nat /\ r.age.upper \in Nat \ {0} /\ r.age.lower <= r.age.upper
  /\ \A r \in Rows : r.kind \in {"audience", "fiction", "age", "none"} => r.genre = Unsaid
  /\ \A r \in Rows : r.format => r.genre # Unsaid
  /\ \A r \in Rows : r.fiction \in {"fiction", "nonfiction", Unsaid}
  /\ Unsaid \notin Audiences \cup {"fiction", "nonfiction", "not adult"}
  /\ \A r, s \in Rows : r.subject = s.subject =>
       /\ r.kind = s.kind /\ r.genre = s.genre /\ r.format = s.format
       /\ r.fiction = s.fiction /\ r.audience = s.audience /\ r.age = s.age
       /\ r.source = s.source => r.quality = s.quality

VARIABLES
  given,   \* the classifications and the imprint of the Work
  pending, \* the rows the query has still to return
  tally,   \* the WorkClassifier
  verdict  \* what it makes of them, if it has been asked

classifierVars == <<given, pending, tally, verdict>>

\* A Counter: a function with the keys it has seen.
Counted(counter, key, weight) ==
  [k \in DOMAIN counter \cup {key} |->
     (IF k \in DOMAIN counter THEN counter[k] ELSE 0) + (IF k = key THEN weight ELSE 0)]
Count(counter, key) == IF key \in DOMAIN counter THEN counter[key] ELSE 0

EmptyTally ==
  [fiction |-> <<>>, audience |-> <<>>, lower |-> <<>>, upper |-> <<>>, genres |-> <<>>, order |-> <<>>,
   staff |-> {}, direct |-> {}, generic |-> {}, specific |-> FALSE, seen |-> {}]

ClassifierInit ==
  /\ given \in [rows : UNION {kSubset(n, Rows) : n \in 1..MaxRows}, imprint : Imprints]
  /\ pending = given.rows
  /\ tally = EmptyTally
  /\ verdict = {}

-----------------------------------------------------------------------------
(* add.                                                                    *)

ByStaff(t, kind) == kind \in t.staff

\* The first word of the staff on a kind of thing puts the counter back to zero.
Heard(t, r, kinds, name) ==
  IF r.source = LibraryStaff /\ r.kind \in kinds /\ ~ByStaff(t, name)
  THEN [t EXCEPT !.staff = @ \cup {name},
                 !.fiction = IF name = "fiction" THEN <<>> ELSE @,
                 !.audience = IF name = "audience" THEN <<>> ELSE @,
                 !.lower = IF name = "age" THEN <<>> ELSE @, !.upper = IF name = "age" THEN <<>> ELSE @,
                 !.genres = IF name = "genre" THEN <<>> ELSE @, !.order = IF name = "genre" THEN <<>> ELSE @]
  ELSE t

\* scaled_weight, in tenths: Overdrive is trusted, OCLC Linked Data is not.
ScaledWeight(r) ==
  CASE r.source = "oclc" -> r.weight
    [] r.source = "overdrive" -> 500 * r.weight
    [] OTHER -> 10 * r.weight

WeighGenre(t, genre, weight) ==
  IF genre = Unsaid THEN t
  ELSE [t EXCEPT !.genres = Counted(@, genre, weight),
                 !.order = IF genre \in DOMAIN t.genres THEN @ ELSE Append(@, genre)]

\* Mutant of AddGenre: what others said before the staff stays.
AddGenreToOthers(t, r) ==
  IF r.genre = Unsaid /\ r.kind # "none" THEN t
  ELSE WeighGenre([t EXCEPT !.staff = IF r.source = LibraryStaff THEN @ \cup {"genre"} ELSE @], r.genre, ScaledWeight(r))

AddGenre(t, r) ==
  IF r.genre = Unsaid /\ r.kind # "none" THEN t
  ELSE WeighGenre(Heard(t, r, Kinds, "genre"), r.genre, ScaledWeight(r))

AddFiction(t, r) ==
  IF ByStaff(t, "fiction") THEN t
  ELSE [Heard(t, r, {"fiction"}, "fiction") EXCEPT !.fiction = Counted(@, r.fiction, ScaledWeight(r))]

\* "We're going to split the difference, with a slight preference for YA": the
\* Library of Congress calls both of them juvenile.
Votes(r) ==
  CASE r.kind = "lcc" /\ r.audience \in JuvenileAudiences ->
         [a \in {"Young Adult", "Children", "Adult", "Adults Only"} |->
            CASE a = "Young Adult" -> 6 * ScaledWeight(r) [] a = "Children" -> 4 * ScaledWeight(r)
              [] a \in AdultAudiences -> -5 * ScaledWeight(r)]
    [] OTHER -> [a \in {r.audience} |-> 10 * ScaledWeight(r)]

AddAudience(t, r) ==
  IF ByStaff(t, "audience") THEN t
  ELSE LET heard == Heard(t, r, {"audience"}, "audience")
           votes == Votes(r)
       IN [heard EXCEPT !.audience =
             [a \in DOMAIN heard.audience \cup DOMAIN votes |-> Count(heard.audience, a) + Count(votes, a)]]

\* weight_as_indicator_of_target_age has a quality in tenths.
AddAge(t, r) ==
  IF ByStaff(t, "age") THEN t
  ELSE LET heard == Heard(t, r, {"age"}, "age")
           Ages(counter, age) == IF age = NoAge THEN counter ELSE Counted(counter, age, r.weight * r.quality)
       IN [heard EXCEPT !.lower = Ages(@, r.age.lower), !.upper = Ages(@, r.age.upper)]

\* Overdrive calls everything for children juvenile, some of it more precisely.
Juvenile(r) == r.kind = "overdrive" /\ r.audience = "Children"
Generic(r) == Juvenile(r) /\ {r.age.lower, r.age.upper} \subseteq {NoAge, 0}
NoteJuvenile(t, r) ==
  IF t.staff \cap {"audience", "age"} # {} \/ ~Juvenile(r) THEN t
  ELSE IF Generic(r) THEN [t EXCEPT !.generic = {r}] ELSE [t EXCEPT !.specific = TRUE]

\* Each subject counts once for each source, a format only if the licensor says so,
\* and a genre, with all else its row says, only if the staff have named none.
Added(t, r) ==
  LET noted == [t EXCEPT !.seen = @ \cup {<<r.subject, r.source>>},
                         !.direct = IF r.source = LicenseSource THEN @ \cup {r.audience} ELSE @]
      ignored == \/ r.source # LicenseSource /\ r.format
                 \/ r.source # LibraryStaff /\ r.genre # Unsaid /\ ByStaff(t, "genre")
  IN IF <<r.subject, r.source>> \in t.seen THEN t
     ELSE IF ignored THEN noted
     ELSE NoteJuvenile(AddAge(AddAudience(AddFiction(AddGenre(noted, r), r), r), r), r)

Add(r) ==
  /\ r \in pending
  /\ pending' = pending \ {r}
  /\ tally' = Added(tally, r)
  /\ UNCHANGED <<given, verdict>>

-----------------------------------------------------------------------------
(* classify.                                                               *)

WeighMetadata(t, imprint) ==
  LET genres == WeighGenre(t, imprint.genre, 1000)
      against == imprint.audience = "not adult"
      keys == IF against THEN AdultAudiences ELSE {imprint.audience} \ {Unsaid}
  IN [genres EXCEPT
        !.fiction = [k \in DOMAIN @ \cup ({imprint.fiction} \ {Unsaid}) |-> IF k = imprint.fiction /\ k # Unsaid THEN 1000 ELSE @[k]],
        !.audience = [a \in DOMAIN @ \cup keys |-> Count(@, a) + (IF a \notin keys THEN 0 ELSE IF against THEN -10000 ELSE 10000)]]

\* A distributor would have said so if a book were not for adults; and Overdrive
\* says so of a book for children under nine.
PrepareToClassify(t, imprint) ==
  LET weighed == WeighMetadata(t, imprint)
      adult == /\ t.direct # {} /\ ~ByStaff(t, "audience")
               /\ t.direct \cap {"Children", "Young Adult", "Adults Only"} = {}
      Ages(counter, age) ==
        IF t.specific \/ t.generic = {} THEN counter
        ELSE LET r == CHOOSE r \in t.generic : TRUE IN Counted(counter, age, r.weight * r.quality)
  IN [weighed EXCEPT
        !.audience = IF adult THEN Counted(@, "Adult", 50000) ELSE @,
        !.lower = Ages(@, 9), !.upper = Ages(@, 12)]

Fiction(t) ==
  CASE Count(t.fiction, "fiction") > Count(t.fiction, "nonfiction") -> "fiction"
    [] Count(t.fiction, "fiction") <= Count(t.fiction, "nonfiction") ->
         IF Count(t.fiction, "nonfiction") > 0 THEN "nonfiction" ELSE Unsaid

\* consolidate_genre_weights: the heaviest subgenre swallows its parent, unless it
\* weighs next to nothing.
HeaviestChild(weights, order, parent) ==
  LET children == SelectSeq(order, LAMBDA g : g \in DOMAIN weights /\ Genre[g].parent = parent)
  IN FoldLeft(LAMBDA best, g : IF best = Unsaid \/ weights[g] > weights[best] THEN g ELSE best, Unsaid, children)

Consolidated(weights, order) ==
  LET Heir(g) == HeaviestChild(weights, order, g)
      swallowed == {g \in DOMAIN weights : Heir(g) # Unsaid /\ 100 * weights[Heir(g)] > 3 * weights[g]}
  IN [g \in DOMAIN weights \ swallowed |->
        weights[g] + MapThenSumSet(LAMBDA p : IF Heir(p) = g THEN weights[p] ELSE 0, swallowed)]

\* "Strip out the stragglers", one by one, of what is left of the total.
Stripped(weights, order) ==
  LET Straggles(g, total) == g \in DOMAIN weights /\ 100 * weights[g] < 15 * total
      left[n \in 0..Len(order)] ==
        IF n = 0 THEN MapThenSumSet(LAMBDA g : weights[g], DOMAIN weights)
        ELSE LET total == left[n - 1] IN IF Straggles(order[n], total) THEN total - weights[order[n]] ELSE total
  IN DOMAIN weights \ {order[n] : n \in {m \in 1..Len(order) : Straggles(order[m], left[m - 1])}}

Consistent(t, fiction) == {g \in DOMAIN t.genres : fiction = Unsaid \/ Genre[g].fiction = fiction}

Genres(t, fiction) ==
  Stripped(Consolidated([g \in Consistent(t, fiction) |-> t.genres[g]], t.order), t.order)

Audience(t, genres) ==
  LET W(a) == Count(t.audience, a)
      adult == W("Adult") + W("Adults Only")
      juvenile == W("Children") + W("Young Adult")
  IN CASE "Erotica" \in genres -> "Adults Only"
       [] OTHER ->
            IF W("Research") > adult + W("All Ages") /\ W("Research") > juvenile + W("All Ages") /\ W("Research") > 2 * adult
            THEN "Research"
            ELSE IF W("All Ages") > adult /\ W("All Ages") > juvenile THEN "All Ages"
            ELSE IF W("Children") > 2 * adult /\ W("Children") > W("Young Adult") THEN "Children"
            ELSE IF W("Young Adult") > 2 * adult \/ juvenile > 2 * adult THEN "Young Adult"
            ELSE IF adult <= 0 THEN Unsaid
            ELSE IF 4 * W("Adults Only") > adult THEN "Adults Only" ELSE "Adult"

\* default_target_age_for_audience.
DefaultAge(audience) ==
  CASE audience = "Young Adult" -> [lower |-> 14, upper |-> 17]
    [] audience \in AdultAudiences -> [lower |-> 18, upper |-> NoAge]
    [] OTHER -> NoAges

\* top_tier_values.
TopTier(counter) == {age \in DOMAIN counter : \A other \in DOMAIN counter : counter[other] <= counter[age]}

TargetAge(t, audience) ==
  LET lower == IF t.lower = <<>> THEN NoAge ELSE Min(TopTier(t.lower))
      upper == IF t.upper = <<>> THEN NoAge ELSE Max(TopTier(t.upper))
      from == IF lower = NoAge THEN upper ELSE lower
      to == IF upper = NoAge THEN lower ELSE upper
  IN IF audience \notin {"Children", "Young Adult"} \/ {lower, upper} \subseteq {NoAge, 0} THEN DefaultAge(audience)
     ELSE [lower |-> from, upper |-> Max({from, to})]

Classified(t) ==
  LET fiction == Fiction(t)
      genres == Genres(t, fiction)
      audience == Audience(t, genres)
  IN [fiction |-> fiction, genres |-> genres, audience |-> audience, age |-> TargetAge(t, audience)]

Classify ==
  /\ pending = {} /\ verdict = {}
  /\ verdict' = {Classified(PrepareToClassify(tally, given.imprint))}
  /\ UNCHANGED <<given, pending, tally>>

ClassifierNext == (\E r \in Rows : Add(r)) \/ Classify

ClassifierSpec == ClassifierInit /\ [][ClassifierNext]_classifierVars

-----------------------------------------------------------------------------
(* Properties.                                                             *)

\* The tallies after each of the rows, if they come in that order.
Tallied(rows) ==
  LET tallied[n \in 0..Len(rows)] == IF n = 0 THEN EmptyTally ELSE Added(tallied[n - 1], rows[n])
  IN tallied

StaffFirst ==
  LET byStaff == {r \in given.rows : r.source = LibraryStaff}
      rows == SetToSeq(byStaff) \o SetToSeq(given.rows \ byStaff)
  IN PrepareToClassify(Tallied(rows)[Len(rows)], given.imprint)

Said(kind) == {r \in given.rows : r.source = LibraryStaff /\ r.kind = kind}

\* What the staff say is the verdict, whatever others say and in whatever order the
\* rows come, unless title or imprint speak against it, a genre settles the audience,
\* or Overdrive's "juvenile" was noted.
StaffAreHeard ==
  \A v \in verdict :
    /\ given.imprint.fiction = Unsaid => \A r \in Said("fiction") : v.fiction = r.fiction
    /\ given.imprint.audience = Unsaid /\ "Erotica" \notin v.genres
       => \A r \in Said("audience") : v.audience = r.audience
    /\ tally.generic = {} /\ v.audience \in {"Children", "Young Adult"}
       => \A r \in Said("age") : v.age = r.age

(* In whatever order the rows come, the verdict is the one of the staff's  *)
(* rows first: it does not change from one recalculation to the next       *)
(* without new data.  But four things do depend on the order: which of two *)
(* weights that one source gives one subject counts; among genres near the *)
(* cutoff, which is stripped first; whether Overdrive's "juvenile" was     *)
(* noted before the staff spoke, which gives a children's book of no       *)
(* stated age one, and may outweigh the staff's, and which of several was  *)
(* noted last; and what else a row with a genre says, which counts if it   *)
(* comes before the genre of the staff, and is ignored with the genre if   *)
(* it comes after.                                                         *)
StaffHaveTheLastWord ==
  /\ StaffAreHeard
  /\ \A v \in verdict :
       LET first == StaffFirst
           juvenileNoted ==
             /\ tally.generic # {}
             /\ \/ Said("audience") \cup Said("age") # {}
                \/ \E r, s \in given.rows : Generic(r) /\ Generic(s) /\ r.weight * r.quality # s.weight * s.quality
           weighedTwice == \E r, s \in given.rows :
             r.subject = s.subject /\ r.source = s.source /\ r.weight # s.weight
           genreIgnored == Said("genre") \cup Said("none") # {}
                           /\ \E r \in given.rows : r.source # LibraryStaff /\ r.genre # Unsaid
       IN /\ weighedTwice \/ PrepareToClassify(tally, given.imprint).genres = first.genres
          /\ weighedTwice \/ genreIgnored \/ v.fiction = Fiction(first)
          /\ weighedTwice \/ genreIgnored \/ v.audience = Audience(first, v.genres)
          /\ weighedTwice \/ genreIgnored \/ juvenileNoted \/ v.age = TargetAge(first, v.audience)
          /\ given.imprint.genre = Unsaid /\ Said("none") # {} => v.genres \subseteq {r.genre : r \in Said("genre")}
=============================================================================
