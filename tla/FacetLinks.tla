----------------------------- MODULE FacetLinks -----------------------------
(* The facets of a feed (lane.py, facets.py, entrypoint.py) and the links   *)
(* that change them (opds.py): a faceting object is made from the arguments *)
(* of a URL and the configuration of the library, links are made from the   *)
(* object, and a client follows them, maybe when the configuration is       *)
(* another one.                                                             *)
EXTENDS Integers, Sequences, SequencesExt, FiniteSets

CONSTANTS
  Configs,        \* configurations: [enabled, default, holds, entries]
  Requests,       \* the arguments a client may come up with
  AcceptLanguage, \* the languages of the client's header
  ListMedia, ListLanguages,  \* what the WorkList is restricted to
  NoValue         \* Python's None

VARIABLES
  feed,      \* the faceting class, and whether its list is the top-level one
  config,    \* of the library
  facets,    \* what the last request made, or Refused
  link       \* history: the link the client followed, and the facets it was found with

facetsVars == <<feed, config, facets, link>>

FacetGroups == {"order", "available", "collection"}
Unnamed == [g \in FacetGroups \cup {"entrypoint", "max_age", "media", "language", "min_score"} |-> NoValue]
Refused == [Unnamed EXCEPT !.order = "problem detail"]

DatabaseOrders == {"title", "author", "last_update", "work_id"}  \* ORDER_FACET_TO_DATABASE_FIELD
DescendingByDefault == {"added", "last_update"}
DefaultSortOrder == "series"   \* of the subclasses of DefaultSortOrderFacets
DefaultMinScore == 500
Untitled == {"relevance"}      \* not in FACET_DISPLAY_TITLES
Everything == "All"
Media == {"Book", "Audio"}     \* the entry points that are media

\* What a configuration may name.
FacetNames ==
  [order |-> {"title", "author", "last_update", "added", "series", "work_id", "random"},
   available |-> {"all", "now", "always", "not_now"}, collection |-> {"full", "featured"}]
EntryPoints == Media \cup {Everything}

ASSUME FacetsAssumption ==
  /\ NoValue \notin Nat /\ NoValue \notin Untitled \cup EntryPoints \cup {Refused.order}
  /\ \A g \in FacetGroups : NoValue \notin FacetNames[g]
  /\ \A c \in Configs :
       /\ c.entries \in Seq(EntryPoints)
       /\ \A g \in FacetGroups : c.enabled[g] \in Seq(FacetNames[g]) /\ c.default[g] \in FacetNames[g]
  /\ \A args \in Requests : DOMAIN args = DOMAIN Unnamed

-----------------------------------------------------------------------------
\* default_facet: from the database, the first order that it can give.
FirstDatabaseOrder(orders) ==
  LET usable == {i \in DOMAIN orders : orders[i] \in DatabaseOrders}
  IN IF usable = {} THEN "work_id" ELSE orders[CHOOSE i \in usable : \A j \in usable : i <= j]

DefaultFacet(kind, c, g) ==
  CASE kind = "search" -> [order |-> "relevance", available |-> "all", collection |-> "full"][g]
    [] kind = "sorted" /\ g = "order" -> DefaultSortOrder
    [] kind = "database" /\ g = "order" /\ c.default[g] \notin DatabaseOrders -> FirstDatabaseOrder(c.enabled[g])
    [] OTHER -> c.default[g]

\* available_facets: DatabaseBackedFacets does not add the default.  A library
\* enables no facet twice; where the default is among them does not matter here.
AvailableFacets(kind, c, g) ==
  CASE kind = "database" /\ g = "order" -> ToSet(c.enabled[g]) \cap DatabaseOrders
    [] kind = "database" /\ g # "order" -> ToSet(c.enabled[g])
    [] kind # "database" -> ToSet(c.enabled[g]) \cup {DefaultFacet(kind, c, g)}

\* selectable_entrypoints
Selectable(kind, entries) ==
  IF kind = "search" /\ Len(entries) >= 2 /\ Everything \notin ToSet(entries) THEN <<Everything>> \o entries ELSE entries

\* load_entrypoint
LoadEntryPoint(kind, c, name) ==
  LET valid == Selectable(kind, c.entries)
  IN IF valid = <<>> THEN NoValue
     ELSE IF name \in ToSet(valid) THEN name
     ELSE IF kind = "search" THEN Everything ELSE Head(valid)

\* Books that are not available are hidden from those who may not wait for them.
AvailableUnderHolds(kind, c, available) ==
  IF available = "all" /\ ~c.holds /\ "now" \in AvailableFacets(kind, c, "available") THEN "now" ELSE available

Or(value, default) == IF value = NoValue THEN default ELSE value

\* The constructors of the faceting classes.
MakeFacets(kind, c, values) ==
  IF kind = "groups" THEN [Unnamed EXCEPT !.entrypoint = values.entrypoint, !.max_age = values.max_age]
  ELSE LET order == Or(values.order, DefaultFacet(kind, c, "order"))
           made == [values EXCEPT
                      !.order = order,
                      !.available = AvailableUnderHolds(kind, c, Or(values.available, DefaultFacet(kind, c, "available"))),
                      !.collection = Or(values.collection, DefaultFacet(kind, c, "collection"))]
       IN IF kind # "search" THEN [made EXCEPT !.media = NoValue, !.language = NoValue, !.min_score = NoValue]
          ELSE [made EXCEPT !.min_score = Or(values.min_score, IF order = "relevance" THEN NoValue ELSE DefaultMinScore)]

\* load_max_cache_age
LoadMaxCacheAge(age) == IF age = 0 THEN 0 ELSE NoValue

\* The languages of a search, of the argument or the header.
Languages(language) ==
  IF language = "all" THEN NoValue
  ELSE IF language # NoValue THEN {language}
  ELSE IF AcceptLanguage = {} THEN NoValue ELSE AcceptLanguage

\* from_request, of all classes
FromRequest(kind, c, args) ==
  LET chosen(g) == Or(args[g], DefaultFacet(kind, c, g))
  IN IF kind # "groups" /\ \E g \in FacetGroups : chosen(g) \notin AvailableFacets(kind, c, g) THEN Refused
     ELSE MakeFacets(kind, c, [args EXCEPT
            !.entrypoint = LoadEntryPoint(kind, c, args.entrypoint),
            !.max_age = LoadMaxCacheAge(args.max_age),
            !.language = Languages(args.language),
            !.order = chosen("order"), !.available = chosen("available"), !.collection = chosen("collection")])

\* items, of all classes: the arguments of a URL
Items(f) == [f EXCEPT !.language = NoValue]

\* Mutant of Navigate: the entry point is left out.
NavigateAway(kind, c, f, g, value) ==
  MakeFacets(kind, c, [f EXCEPT !.media = NoValue, !.language = NoValue, !.entrypoint = NoValue, ![g] = value])

\* navigate, of all classes
Navigate(kind, c, f, g, value) ==
  MakeFacets(kind, c, [f EXCEPT !.media = NoValue, !.language = NoValue, ![g] = value])

-----------------------------------------------------------------------------
\* facet_groups: the facets of a group with a choice
ChoiceIn(g) ==
  LET available == AvailableFacets(feed.kind, config, g)
  IN IF Cardinality(available) > 1 THEN available ELSE {}

\* facet_links: those with a title, of feeds that are neither found nor grouped
FacetLinks ==
  IF feed.kind \in {"search", "groups"} THEN {}
  ELSE UNION {{g} \X (ChoiceIn(g) \ Untitled) : g \in FacetGroups}

\* add_entrypoint_links: Lanes have none.
EntryPointLinks ==
  LET entries == IF feed.top THEN Selectable(feed.kind, config.entries) ELSE <<>>
  IN IF Len(entries) = 1 /\ facets.entrypoint \in {NoValue, entries[1]} THEN {}
     ELSE {<<"entrypoint", e>> : e \in ToSet(entries)}

\* "next", "first" and "previous"
PageLinks == IF feed.kind = "groups" THEN {} ELSE {<<"page", NoValue>>}

\* A client follows a link of the feed, and c is the configuration by then.
Follow(l, args, c) ==
  /\ facets # Refused
  /\ facets' = FromRequest(feed.kind, c, args)
  /\ link' = [group |-> l[1], value |-> l[2], from |-> facets, late |-> c # config]
  /\ config' = c
  /\ UNCHANGED feed

FollowPage(c) == \E l \in PageLinks : Follow(l, Items(facets), c)

FollowFacet(c) ==
  \E l \in FacetLinks \cup EntryPointLinks : Follow(l, Items(Navigate(feed.kind, config, facets, l[1], l[2])), c)

\* A client without a link to follow asks for a feed.
AskAgain ==
  /\ facets = Refused \/ FacetLinks \cup EntryPointLinks \cup PageLinks = {}
  /\ \E args \in Requests :
       /\ facets' = FromRequest(feed.kind, config, args)
       /\ link' = [group |-> IF args = Unnamed THEN "start" ELSE "own", value |-> NoValue, from |-> NoValue, late |-> FALSE]
  /\ UNCHANGED <<feed, config>>

FacetsInit ==
  /\ feed \in [kind : {"page", "sorted", "database", "search", "groups"}, top : BOOLEAN]
  /\ config \in Configs
  /\ \E args \in Requests :
       /\ facets = FromRequest(feed.kind, config, args)
       /\ link = [group |-> IF args = Unnamed THEN "start" ELSE "own", value |-> NoValue, from |-> NoValue, late |-> FALSE]

FacetsNext == AskAgain \/ \E c \in Configs : FollowPage(c) \/ FollowFacet(c)

FacetsSpec == FacetsInit /\ [][FacetsNext]_facetsVars

-----------------------------------------------------------------------------
\* What modify_search_filter makes of the facets: of all classes, and of searches.
Ordered(f) ==
  [order |-> IF f.order = "relevance" THEN NoValue ELSE f.order,
   ascending |-> f.order \notin DescendingByDefault,
   available |-> f.available, subcollection |-> f.collection, cached |-> f.max_age]

Scoped(f) ==
  [media |-> IF f.media # NoValue THEN {f.media} ELSE IF f.entrypoint \in Media THEN {f.entrypoint} ELSE ListMedia,
   languages |-> IF f.language = NoValue THEN ListLanguages ELSE ListLanguages \cup f.language,
   min_score |-> IF f.order \in {"relevance", NoValue} THEN NoValue ELSE f.min_score]

\* What the client chose before, and the link.  A media type gives way to an entry
\* point, and the language argument is in no link: it is chosen anew on every page.
Wanted ==
  LET f == IF link.group = "page" THEN link.from ELSE [link.from EXCEPT ![link.group] = link.value, !.media = NoValue]
  IN [f EXCEPT !.available = AvailableUnderHolds(feed.kind, config, f.available),
               !.language = IF feed.kind = "search" /\ AcceptLanguage # {} THEN AcceptLanguage ELSE NoValue]

\* lane.py: the links of a feed "propagate all active facet settings".  Whichever
\* links are followed, one after the other, a link gives the works it names among
\* those that were chosen before.  When the configuration has changed meanwhile,
\* the link is refused, or the choices still hold, but for an entry point that is
\* gone, and for "all", which may have become "now" where nobody may wait.  And
\* whoever chooses nothing gets a feed, except from the database when it cannot
\* give the order, or whatever else is the default, of the library.
LinksLeadWhereTheySay ==
  CASE link.group = "own" -> TRUE
    [] link.group = "start" ->
         facets = Refused => /\ feed.kind = "database"
                             /\ \/ \E g \in FacetGroups : config.default[g] \notin ToSet(config.enabled[g])
                                \/ ToSet(config.enabled.order) \cap DatabaseOrders = {}
    [] link.group \notin {"own", "start"} /\ link.late ->
         facets # Refused => /\ facets.order = Wanted.order /\ facets.collection = Wanted.collection
                             /\ facets.available = Wanted.available \/ (Wanted.available = "all" /\ facets.available = "now")
                             /\ facets.entrypoint = Wanted.entrypoint
                                  \/ Wanted.entrypoint \notin ToSet(Selectable(feed.kind, config.entries))
    [] OTHER -> facets # Refused /\ Ordered(facets) = Ordered(Wanted) /\ Scoped(facets) = Scoped(Wanted)
=============================================================================
