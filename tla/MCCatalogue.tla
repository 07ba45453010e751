---------------------------- MODULE MCCatalogue ----------------------------
(* From license pools to the feeds that list them: how pools are grouped    *)
(* into works, which works a lane has, how a lane's groups and pages are    *)
(* put together, the links that change a feed's facets, how the feeds are   *)
(* cached, and when a server that serves them hears of a changed            *)
(* configuration.  A behaviour is the story of one of them, and the others  *)
(* stay as they were.                                                       *)
EXTENDS WorkLists, WorkGrouping, GroupedFeed, PagedFeed, FacetLinks, CachedFeeds,
        SiteConfiguration, TLC

MCIdentifierOf == <<"a", "a", "b", "c">>
Dracula == [pwid |-> "dracula", language |-> "eng"]
Rayuela == [pwid |-> "rayuela", language |-> "spa"]
Nameless == [pwid |-> NoPwid, language |-> "eng"]
MCKeys == {Dracula, Rayuela, Nameless}
MCBeginnings == {m \in [{"a", "b", "c"} -> MCKeys] : m["a"] = Dracula /\ m["b"] = Dracula /\ m["c"] # Nameless}

MCGenres == {"fantasy", "epic", "history"}
MCSubgenres == [g \in MCGenres |-> IF g = "fantasy" THEN {"epic"} ELSE {}]
MCListsFrom == [s \in {"staff", "nobody"} |-> IF s = "staff" THEN {"picks"} ELSE {}]

Book == [ready |-> TRUE, language |-> "eng", audience |-> Adult,
         target |-> [lower |-> NoBound, upper |-> NoBound], genres |-> {"epic"}, lists |-> {"picks"}]
For(audience, lower, upper) == [Book EXCEPT !.audience = audience, !.target = [lower |-> lower, upper |-> upper]]
AgeBooks == <<Book, For(Research, NoBound, NoBound), For(AllAges, 8, NoBound), For(AllAges, NoBound, NoBound),
             For(Children, 3, 5), For(Children, 12, 13), For(Children, NoBound, NoBound),
             For(YoungAdult, 14, 17), For(YoungAdult, 12, NoBound), For(YoungAdult, NoBound, NoBound)>>

Copy == [collection |-> "own", owned |-> TRUE, available |-> TRUE, open_access |-> FALSE, unlimited |-> FALSE,
         suppressed |-> FALSE, superceded |-> FALSE, deliverable |-> TRUE]
Copies == {Copy, [Copy EXCEPT !.collection = "other"], [Copy EXCEPT !.collection = "parent"],
           [Copy EXCEPT !.available = FALSE], [Copy EXCEPT !.owned = FALSE, !.available = FALSE],
           [Copy EXCEPT !.owned = FALSE, !.available = FALSE, !.open_access = TRUE],
           [Copy EXCEPT !.owned = FALSE, !.available = FALSE, !.unlimited = TRUE],
           [Copy EXCEPT !.suppressed = TRUE], [Copy EXCEPT !.superceded = TRUE], [Copy EXCEPT !.deliverable = FALSE]}
Stocks == {{}} \cup {{p, q} : p, q \in Copies}

Edit(field, values) == {[field |-> field, value |-> v] : v \in values}
Include(g) == [genre |-> g, inclusive |-> TRUE, recursive |-> TRUE]
Exclude(g) == [genre |-> g, inclusive |-> FALSE, recursive |-> TRUE]
AgeEdits == Edit("audiences", {{}, {Adult}, {Children}, {YoungAdult}, {Children, YoungAdult}})
            \cup Edit("age", {{}, 0 .. 3, 12 .. 12, 5 .. 12, 12 .. 20}) \cup Edit("inherit", BOOLEAN)
GenreEdits == Edit("genres", {{}, {Include("fantasy")}, {Include("history")}, {Exclude("fantasy")},
                              {Include("epic"), Exclude("fantasy")}}) \cup Edit("inherit", BOOLEAN)
ListEdits == Edit("lists", {{}, {"picks"}, {"bestsellers"}}) \cup Edit("source", {"staff", "nobody"})
             \cup Edit("languages", {{}, {"spa"}}) \cup Edit("inherit", BOOLEAN)

Scene(depth, edits, works, stocks, patrons) ==
    [depth |-> depth, edits |-> edits, works |-> works, stock |-> stocks, patrons |-> patrons]
MCScenes ==
    [i \in DOMAIN AgeBooks |-> Scene(2, AgeEdits, {AgeBooks[i]}, {{Copy}}, TRUE)]
    \o <<Scene(3, GenreEdits, {Book}, {{Copy}}, FALSE),
         Scene(2, ListEdits, {Book, [Book EXCEPT !.lists = {}], [Book EXCEPT !.language = "spa"]}, {{Copy}}, FALSE),
         Scene(1, {}, {Book, [Book EXCEPT !.ready = FALSE]}, Stocks, FALSE)>>

\* Two threads of a process, and one of another.
MCProcessOf(t) == IF t = "t3" THEN "p2" ELSE "p1"

\* Libraries with and without holds, with two entry points, one, none, and one that
\* has "everything"; the last two cannot sort by their default order from the database.
MCConfig(orders, order, available, collection, waiting, points) ==
  [enabled |-> [order |-> orders, available |-> available, collection |-> collection],
   default |-> [order |-> order, available |-> "all", collection |-> "full"], holds |-> waiting, entries |-> points]
MCPlainConfig == MCConfig(<<"added">>, "added", <<"now">>, <<"full">>, FALSE, <<>>)
MCConfigs ==
  {MCConfig(<<"author", "added">>, "author", <<"all", "now">>, <<"full", "featured">>, waiting,
            IF waiting THEN <<"Book", "Audio">> ELSE <<"Audio">>) : waiting \in BOOLEAN}
  \cup {MCPlainConfig, MCConfig(<<"title", "added">>, "author", <<"all">>, <<"featured">>, TRUE, <<"All", "Book">>)}

\* A client comes up with no arguments, with one, or with two.
MCArguments ==
  [order |-> "added", available |-> "now", collection |-> "featured", entrypoint |-> "Audio",
   max_age |-> 0, media |-> "Book", language |-> "all", min_score |-> 300]
MCRequests ==
  {[Unnamed EXCEPT ![g] = MCArguments[g], ![h] = MCArguments[h]] : g, h \in DOMAIN MCArguments}
  \cup {Unnamed, [Unnamed EXCEPT !.order = "title", !.language = "fre", !.entrypoint = "Book"]}

VARIABLE story

catalogueVars == <<story, groupingVars, vars, groupsVars, pagesVars, cachedFeedsVars, siteVars, facetsVars>>

\* The stories that are not told begin in one state.
StillGrouping == metadata = [i \in Identifiers |-> Dracula] /\ open_access = {}
StillLists == Scenes[scene].depth = 1 /\ work = Book /\ stock = {}
StillGroups == target = 1 /\ answers = [l \in Sublanes |-> <<>>] /\ separate = {}
StillPages == kind = "key" /\ key = [b \in Books |-> NotIndexed]

\* Titles are interchangeable: the first sublane's answers come in one order.
FirstAnswers == {SubSeq(SetToSeq(Titles), 1, n) : n \in 0 .. Cardinality(Titles)}

CatalogueInit ==
  /\ story \in {"grouping", "lists", "groups", "pages", "facets", "cache", "site"}
  /\ Init /\ (story # "lists" => StillLists)
  /\ (story # "grouping" => StillGrouping) /\ GroupingInit
  /\ (story # "groups" => StillGroups) /\ GroupsInit /\ answers[1] \in FirstAnswers
  /\ (story # "pages" => StillPages) /\ PagesInit
  /\ (story # "facets" => feed = [kind |-> "groups", top |-> FALSE] /\ config = MCPlainConfig)
  /\ FacetsInit /\ (story # "facets" => link.group = "start")
  /\ SiteInit
  /\ CachedFeedsInit /\ (story # "cache" => world = CHOOSE c \in Contents : TRUE)

CatalogueNext ==
  /\ UNCHANGED story
  /\ \/ story = "grouping" /\ GroupingNext /\ UNCHANGED <<vars, groupsVars, pagesVars, cachedFeedsVars, siteVars, facetsVars>>
     \/ story = "lists" /\ Next /\ UNCHANGED <<groupingVars, groupsVars, pagesVars, cachedFeedsVars, siteVars, facetsVars>>
     \/ story = "groups" /\ GroupsNext /\ UNCHANGED <<groupingVars, vars, pagesVars, cachedFeedsVars, siteVars, facetsVars>>
     \/ story = "pages" /\ PagesNext /\ UNCHANGED <<groupingVars, vars, groupsVars, cachedFeedsVars, siteVars, facetsVars>>
     \/ story = "cache" /\ CachedFeedsNext /\ UNCHANGED <<groupingVars, vars, groupsVars, pagesVars, siteVars, facetsVars>>
     \/ story = "site" /\ SiteNext /\ UNCHANGED <<groupingVars, vars, groupsVars, pagesVars, cachedFeedsVars, facetsVars>>
     \/ story = "facets" /\ FacetsNext /\ UNCHANGED <<groupingVars, vars, groupsVars, pagesVars, cachedFeedsVars, siteVars>>

CatalogueSpec == CatalogueInit /\ [][CatalogueNext]_catalogueVars

CacheSymmetry == Permutations(Fetches) \cup Permutations(RowIds) \cup Permutations(Contents)

\* Once calculate_work has been called for every pool, the pools are grouped as
\* promised, and calling it again leaves each of them in its work.
GroupingSettles == []GroupedOnceCalculated /\ WorksAreStable
=============================================================================
