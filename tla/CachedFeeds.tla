---------------------------- MODULE CachedFeeds ----------------------------
(***************************************************************************)
(* model/cachedfeed.py: the cachedfeeds table, for one feed, as the        *)
(* requests of several processes fetch it, regenerate it and store it      *)
(* anew.                                                                   *)
(*                                                                         *)
(* Fetches run side by side, each in a database session of its own.  A    *)
(* session remembers the row it has loaded: when CachedFeed.fetch looks it *)
(* up again it gets the same object with the same attributes, so that      *)
(* requests that regenerate the same stale row overwrite each other in the *)
(* order of their commits.  And nothing keeps two requests that find no    *)
(* row from creating one each.                                             *)
(*                                                                         *)
(* There is no clock: a timestamp is modelled by the time since then, so   *)
(* that behaviours have no end.                                            *)
(***************************************************************************)
EXTENDS Integers, FiniteSets

CONSTANTS
  Fetches,    \* the requests that may be in progress at once
  RowIds,      \* the rows there may be
  Contents,    \* what a feed may look like
  Absent,        \* nothing: no row, no opinion, no answer
  DefaultAge,  \* WorkList.MAX_CACHE_AGE
  IgnoreCache, \* the age of a feed that is not to come from the cache
  GenerationTime  \* how long it takes to generate and store a feed, at most

ASSUME CachedFeedsAssumption ==
  /\ Cardinality(RowIds) >= Cardinality(Fetches)
  /\ DefaultAge \in Nat \ {0} /\ GenerationTime \in Nat \ {0}

VARIABLES
  world,     \* the content a feed generated now would have
  unseen,    \* history: how long ago each content was last the world's, up to the Horizon
  cache,      \* the table
  fetching,   \* the requests in progress
  answer     \* the response being given

cachedFeedsVars == <<world, unseen, cache, fetching, answer>>

\* max_cache_age: an override comes before what the facets say, and that before
\* what the lane says.
MaxCacheAge(override, facets, lane) ==
  IF override # Absent THEN override
  ELSE IF facets # Absent THEN facets
  ELSE IF lane # Absent THEN lane
  ELSE 0

\* A script asks for a refresh; the URL says max_age=0.
Ages == {MaxCacheAge(override, facets, DefaultAge) : override \in {Absent, 0}, facets \in {Absent, IgnoreCache}}

Existing == {i \in RowIds : cache[i] # Absent}

Idle == [pc |-> "idle"]

\* A new row is given an id that nobody knows; which one makes no difference.
NewRow ==
  CHOOSE i \in RowIds : cache[i] = Absent /\ \A r \in Fetches : fetching[r] # Idle => fetching[r].row # i

\* Mutant of ShouldRefresh: whatever was found will do.
RefreshIfMissing(feed, age) == feed = Absent \/ age = IgnoreCache
\* _should_refresh
ShouldRefresh(feed, age) ==
  \/ feed = Absent
  \/ age = IgnoreCache
  \/ feed # Absent /\ age # IgnoreCache /\ feed.age >= age

\* The age of an answer is as good as IgnoreCache's if nothing may be cached.
Numeric(age) == IF age = IgnoreCache THEN 0 ELSE age

\* How old the answer may be to somebody who asked for a feed of that age: that
\* age, and the time it takes to generate a feed, twice.
Bound(age) == Numeric(age) + 2 * GenerationTime

Horizon == Bound(DefaultAge) + 1

CachedFeedsInit ==
  /\ world \in Contents
  /\ unseen = [c \in Contents |-> IF c = world THEN 0 ELSE Horizon]
  /\ cache = [i \in RowIds |-> Absent]
  /\ fetching = [r \in Fetches |-> Idle]
  /\ answer = Absent

-----------------------------------------------------------------------------
Respond(content, age) == answer' = [content |-> content, bound |-> Bound(age)]

\* What the first lookup may find: any row, or nothing at all if it is not made.
Found(age) == IF Numeric(age) = 0 \/ Existing = {} THEN {Absent} ELSE Existing

\* fetch, when what it finds will do.
Hit(age) ==
  /\ \E i \in Found(age) \ {Absent} :
       /\ ~ShouldRefresh(cache[i], age)
       /\ Respond(cache[i].content, age)
  /\ UNCHANGED <<world, unseen, cache, fetching>>

\* fetch, when it does not: the refresher method looks at the world.
Miss(r, age) ==
  /\ fetching[r] = Idle
  /\ \E i \in Found(age) :
       LET feed == IF i = Absent THEN Absent ELSE cache[i] IN
       /\ ShouldRefresh(feed, age)
       /\ fetching' = [fetching EXCEPT ![r] =
            [pc |-> "generating", age |-> age, took |-> 0, content |-> world,
             row |-> i, feed |-> feed]]
  /\ answer' = Absent
  /\ UNCHANGED <<world, unseen, cache>>

\* The feed is generated and nobody wants it stored.
AnswerUncached(r) ==
  /\ fetching[r].pc = "generating"
  /\ fetching[r].age = IgnoreCache
  /\ Respond(fetching[r].content, IgnoreCache)
  /\ fetching' = [fetching EXCEPT ![r] = Idle]
  /\ UNCHANGED <<world, unseen, cache>>

\* Is a row of that age older than a feed generated now?  One of the same moment
\* may be or not.
Older(age) == IF age > 0 THEN {TRUE} ELSE BOOLEAN

\* The feed is generated and its row is looked up once more: it is the object
\* that was loaded already, another one, or a new one.
Generated(r) ==
  LET q == fetching[r]
      again == IF Existing = {} THEN {Absent} ELSE Existing
  IN  /\ q.pc = "generating"
      /\ q.age # IgnoreCache
      /\ \E i \in again :
           LET feed == IF i = Absent THEN Absent ELSE IF i = q.row THEN q.feed ELSE cache[i] IN
           \E wins \in IF feed = Absent THEN {TRUE} ELSE Older(feed.age) :
             fetching' = [fetching EXCEPT ![r] =
               [pc |-> "storing", age |-> q.age, took |-> q.took, content |-> q.content,
                row |-> i, same |-> feed # Absent /\ feed.content = q.content,
                generated |-> 0, wins |-> wins]]
      /\ answer' = Absent
      /\ UNCHANGED <<world, unseen, cache>>

\* What the commit leaves in the row: an UPDATE names only the columns whose
\* values differ from those that were loaded.
Stored(q, before) ==
  [content |-> IF q.same THEN before.content ELSE q.content, age |-> q.generated]

\* The request commits and responds -- or raises, if its row is no longer there.
StoreFeed(r) ==
  LET q == fetching[r] IN
  /\ q.pc = "storing"
  /\ fetching' = [fetching EXCEPT ![r] = Idle]
  /\ \/ ~q.wins /\ Respond(q.content, q.age) /\ UNCHANGED cache
     \/ /\ q.wins
        /\ \E i \in IF q.row = Absent THEN {NewRow} ELSE Existing \cap {q.row} :
             cache' = [cache EXCEPT ![i] = Stored(q, @)]
        /\ Respond(q.content, q.age)
     \/ q.wins /\ q.row # Absent /\ q.row \notin Existing /\ answer' = Absent /\ UNCHANGED cache
  /\ UNCHANGED <<world, unseen>>

-----------------------------------------------------------------------------
(* The world around the cache.                                             *)

\* CachedFeedReaper, LibraryInfoScript's delete_cached_feeds, and what deletes
\* the lane.
RemoveRow(i) ==
  /\ cache[i] # Absent
  /\ cache' = [cache EXCEPT ![i] = Absent]
  /\ answer' = Absent
  /\ UNCHANGED <<world, unseen, fetching>>

FeedChanges ==
  /\ world' \in Contents \ {world}
  /\ unseen' = [unseen EXCEPT ![world'] = 0]
  /\ answer' = Absent
  /\ UNCHANGED <<cache, fetching>>

UpTo(bound, n) == IF n < bound THEN n + 1 ELSE bound

\* Time passes, but no request takes longer than GenerationTime.  A row older
\* than DefaultAge is as stale as one of that age.
FeedTick ==
  /\ \A r \in Fetches : fetching[r] # Idle => fetching[r].took < GenerationTime
  /\ unseen' = [c \in Contents |-> IF c = world THEN 0 ELSE UpTo(Horizon, unseen[c])]
  /\ cache' = [i \in RowIds |->
       IF cache[i] = Absent THEN Absent ELSE [cache[i] EXCEPT !.age = UpTo(DefaultAge, @)]]
  /\ fetching' = [r \in Fetches |->
       CASE fetching[r].pc = "idle"       -> Idle
         [] fetching[r].pc = "generating" -> [fetching[r] EXCEPT !.took = @ + 1]
         [] fetching[r].pc = "storing"    -> [fetching[r] EXCEPT !.took = @ + 1, !.generated = UpTo(DefaultAge, @)]]
  /\ answer' = Absent
  /\ UNCHANGED world

CachedFeedsNext ==
  \/ \E age \in Ages : Hit(age) \/ \E r \in Fetches : Miss(r, age)
  \/ \E r \in Fetches : AnswerUncached(r) \/ Generated(r) \/ StoreFeed(r)
  \/ \E i \in RowIds : RemoveRow(i)
  \/ FeedChanges
  \/ FeedTick

CachedFeedsSpec == CachedFeedsInit /\ [][CachedFeedsNext]_cachedFeedsVars

-----------------------------------------------------------------------------
Promise == INSTANCE Freshness WITH NoAnswer <- Absent

\* "If a cached feed is older than this, it will be considered stale and
\* regenerated" (fetch): however the requests of several processes race to
\* regenerate, create and overwrite the rows of a feed, and whatever is removed
\* meanwhile, nobody is given a feed that was last true longer ago than the bound.
FeedsAreFresh == Promise!FreshnessSpec
=============================================================================
