----------------------------- MODULE OPDSImport -----------------------------
(***************************************************************************)
(* opds_import.py: OPDSImportMonitor and OPDSImporter.  The server's feed   *)
(* (external) is a sequence of pages, most recently updated entry first.   *)
(* A run follows its links until a page has nothing new, and only then     *)
(* imports what it has fetched, last page first; each page is committed    *)
(* with the coverage records that tell the next run what is new.           *)
(*                                                                         *)
(* The dates of entries and of coverage records are compared only with     *)
(* each other, so `newer` holds the outcome: the entries whose date is not *)
(* before that of their record.                                            *)
(***************************************************************************)
EXTENDS Integers, SequencesExt

CONSTANTS
  Entries,    \* the titles the server may publish
  Offered,    \* those that come with a way to get the book, and all a Work needs
  PageSize,   \* entries on a page of the feed
  Perils,     \* what may become of the import of each
  Forced,     \* the values of force_reimport
  MaxVersion  \* bound: how often each is published

\* What may become of an entry: it is imported; it cannot be extracted, or the
\* server sends a message in its place; applying its Metadata raises, before or
\* after the Edition was changed; making its Work raises.
Outcomes == {"imported", "unreadable", "not applied", "half applied", "no work"}

ASSUME ImportAssumption ==
  /\ PageSize \in Nat \ {0}
  /\ Offered \subseteq Entries
  /\ Perils \in [Entries -> SUBSET Outcomes]
  /\ Forced \subseteq BOOLEAN
  /\ MaxVersion \in [Entries -> Nat]

VARIABLES
  feed,        \* the server's entries, most recently updated first
  version,     \* the server's version of each title
  progress,    \* what the monitor is doing: idle, fetching or importing
  force,       \* force_reimport, in this run
  link,        \* the page whose link is next to be followed, 1 when none is
  feeds,       \* the pages of this run that wait to be imported, as fetched
  edition,     \* the version each Edition is of, 0 if there is none
  ready,       \* the titles that have a presentation-ready Work
  shown,       \* the version each Work presents
  registered,  \* the Works registered for recalculation of their presentation
  status,      \* the status of each import CoverageRecord, or "none"
  newer,       \* the titles whose date is not before that of their record
  attempted,   \* history: the version last imported, or failed to be
  raced,       \* history: has the feed changed under a run in a way that loses something?
  halfway      \* history: Editions changed by an import that then raised

server  == <<feed, version>>
monitor == <<progress, force, link, feeds>>
catalog == <<edition, ready, shown, registered, status, newer, attempted, halfway>>
importVars == <<server, monitor, catalog, raced>>

Version == Nat
Copy == [entry: Entries, version: Version]

-----------------------------------------------------------------------------
(* The server.                                                             *)

Published == {feed[i] : i \in DOMAIN feed}

\* The positions on a page, and what a client that fetches it gets to see.
OnPage(l) == {i \in DOMAIN feed : (l - 1) * PageSize < i /\ i <= l * PageSize}
Page(l) == {[entry |-> feed[i], version |-> version[feed[i]]] : i \in OnPage(l)}
HasNext(l) == Len(feed) > l * PageSize

Position(e) == CHOOSE i \in DOMAIN feed : feed[i] = e
Without(e) == IF e \in Published THEN RemoveAt(feed, Position(e)) ELSE feed

\* The titles of which the monitor holds a copy that it has yet to import.
InHand == {copy.entry : copy \in UNION {feeds[i] : i \in DOMAIN feeds}}

\* A title is published or updated, and moves to the front.  If the monitor has
\* fetched it and not imported it, the record of that import will be dated
\* after the update it missed.
Publish(e) ==
  /\ version[e] < MaxVersion[e]
  /\ version' = [version EXCEPT ![e] = @ + 1]
  /\ feed' = <<e>> \o Without(e)
  /\ newer' = newer \cup {e}
  /\ raced' = (raced \/ e \in InHand)
  /\ UNCHANGED <<monitor, edition, ready, shown, registered, status, attempted, halfway>>

\* A title is withdrawn: what follows moves up, one title of it from the page
\* the monitor would fetch next to the one it has just read.
Withdraw(e) ==
  /\ e \in Published
  /\ feed' = Without(e)
  /\ raced' = (raced \/ (progress = "fetching" /\ \E i \in 1..((link - 1) * PageSize) :
                                              i \in DOMAIN feed /\ feed[i] = e))
  /\ UNCHANGED <<version, monitor, catalog>>

-----------------------------------------------------------------------------
ImportInit ==
  /\ feed = <<>>
  /\ version = [e \in Entries |-> 0]
  /\ progress = "idle"
  /\ force = FALSE
  /\ link = 1
  /\ feeds = <<>>
  /\ edition = [e \in Entries |-> 0]
  /\ ready = {}
  /\ shown = [e \in Entries |-> 0]
  /\ registered = {}
  /\ status = [e \in Entries |-> "none"]
  /\ newer = {}
  /\ attempted = [e \in Entries |-> 0]
  /\ raced = FALSE
  /\ halfway = {}

\* Mutant of IdentifierNeedsImport: what was imported once is not imported again.
NeedsImportIfUnknown(e) == status[e] \in {"none", "transient failure"}

\* OPDSImportMonitor.identifier_needs_import.
IdentifierNeedsImport(e) ==
  \/ status[e] = "none"
  \/ status[e] = "transient failure"
  \/ e \in newer

\* OPDSImportMonitor.feed_contains_new_data.
FeedContainsNewData(page) ==
  force \/ \E copy \in page : IdentifierNeedsImport(copy.entry)

StartImport ==
  /\ progress = "idle"
  /\ progress' = "fetching"
  /\ force' \in Forced
  /\ UNCHANGED <<server, link, feeds, catalog, raced>>

\* OPDSImportMonitor.follow_one_link, as _get_feeds calls it.
FollowOneLink ==
  /\ progress = "fetching"
  /\ IF FeedContainsNewData(Page(link))
     THEN /\ feeds' = Append(feeds, Page(link))
          /\ IF HasNext(link)
             THEN link' = link + 1 /\ UNCHANGED progress
             ELSE link' = 1 /\ progress' = "importing"
     ELSE link' = 1 /\ progress' = "importing" /\ UNCHANGED feeds
  /\ UNCHANGED <<server, force, catalog, raced>>

\* Mutant of ImportStatus: a failure to make the Work is not a failure.
ImportStatusOfEdition(outcome) ==
  CASE outcome \in {"imported", "no work"} -> "success"
    [] outcome = "unreadable"              -> "transient failure"
    [] OTHER                               -> "persistent failure"

\* The coverage record import_one_feed leaves: the failures come after the
\* successes, and an Edition without a Work is among both.
ImportStatus(outcome) ==
  CASE outcome = "imported"   -> "success"
    [] outcome = "unreadable" -> "transient failure"
    [] OTHER                  -> "persistent failure"

\* Mutant of NextFeed: it starts at the front.
FirstFeed == 1

\* Start importing at the end.
NextFeed == Len(feeds)
Remaining == RemoveAt(feeds, NextFeed)

\* Mutant of Flagged: the Works of new Editions only.
FlaggedIfNew(result, page) ==
  {copy.entry : copy \in {c \in page : result[c.entry] \in {"imported", "no work"}
                                       /\ edition[c.entry] = 0}} \cap ready

\* Metadata.apply asks for the recalculation of a Work whose Edition it changed,
\* as its last act.
Flagged(result, page) ==
  {copy.entry : copy \in {c \in page : result[c.entry] \in {"imported", "no work"}
                                       /\ edition[c.entry] # c.version}} \cap ready

\* OPDSImportMonitor.import_one_feed and the commit after it.
ImportOneFeed ==
  /\ progress = "importing"
  /\ feeds # <<>>
  /\ LET page == feeds[NextFeed]
         titles == {copy.entry : copy \in page}
         copyOf(e) == (CHOOSE copy \in page : copy.entry = e).version
     IN  \E result \in [titles -> Outcomes] :
           /\ \A e \in titles :
                /\ result[e] \in Perils[e]
                /\ result[e] = "no work" => e \in Offered \ ready
           /\ LET changed == {e \in titles : result[e] \in {"imported", "no work", "half applied"}}
                  worked  == {e \in titles \cap Offered : result[e] = "imported"} \ ready
              IN  /\ edition' = [e \in Entries |-> IF e \in changed THEN copyOf(e) ELSE edition[e]]
                  /\ ready' = ready \cup worked
                  /\ shown' = [e \in Entries |-> IF e \in worked THEN copyOf(e) ELSE shown[e]]
                  /\ registered' = registered \cup Flagged(result, page)
                  /\ status' = [e \in Entries |-> IF e \in titles THEN ImportStatus(result[e])
                                                  ELSE status[e]]
                  /\ newer' = newer \ titles
                  /\ attempted' = [e \in Entries |-> IF e \in titles THEN copyOf(e)
                                                     ELSE attempted[e]]
                  /\ halfway' = (halfway \cup {e \in titles : result[e] = "half applied"})
                                  \ Flagged(result, page)
  /\ feeds' = Remaining
  /\ UNCHANGED <<server, progress, force, link, raced>>

EndImport ==
  /\ progress = "importing"
  /\ feeds = <<>>
  /\ progress' = "idle"
  /\ force' = FALSE
  /\ UNCHANGED <<server, link, feeds, catalog, raced>>

\* Monitor.run catches what the monitor raises: the server does not answer, or
\* with something that is not a feed, before anything of that page is imported.
\* Or the process dies, and what it did since the last commit is lost.
ImportFails ==
  /\ progress # "idle"
  /\ progress' = "idle"
  /\ force' = FALSE
  /\ link' = 1
  /\ feeds' = <<>>
  /\ UNCHANGED <<server, catalog, raced>>

\* A coverage provider for Works recalculates the presentation.
Recalculate(e) ==
  /\ e \in registered
  /\ registered' = registered \ {e}
  /\ shown' = [shown EXCEPT ![e] = edition[e]]
  /\ halfway' = halfway \ {e}
  /\ UNCHANGED <<server, monitor, edition, ready, status, newer, attempted, raced>>

ImportNext ==
  \/ \E e \in Entries : Publish(e) \/ Withdraw(e) \/ Recalculate(e)
  \/ StartImport \/ FollowOneLink \/ ImportOneFeed \/ EndImport \/ ImportFails

ImportSpec == ImportInit /\ [][ImportNext]_importVars

-----------------------------------------------------------------------------
ImportTypeOK ==
  /\ feed \in Seq(Entries)
  /\ version \in [Entries -> Version]
  /\ progress \in {"idle", "fetching", "importing"}
  /\ force \in BOOLEAN
  /\ link \in Nat \ {0}
  /\ feeds \in Seq(SUBSET Copy)
  /\ edition \in [Entries -> Version] /\ shown \in [Entries -> Version]
  /\ attempted \in [Entries -> Version]
  /\ ready \subseteq Offered /\ registered \subseteq Entries
  /\ newer \subseteq Entries /\ halfway \subseteq Entries
  /\ status \in [Entries -> {"none", "success", "transient failure", "persistent failure"}]
  /\ raced \in BOOLEAN

\* Stopping at the first page without new data hides nothing: between runs, and
\* however many of them raised or died between two pages, each published version
\* that was not yet attempted is on a page the next run will get to, because
\* every page before it has something new ("Start importing at the end.  If
\* something fails, it will be easier to pick up where we left off").  Only a
\* title that changed while a run held its old copy, or a page boundary that
\* moved under a run, is an exception.
NothingIsHidden ==
  (progress = "idle" /\ ~raced) =>
    \A n \in DOMAIN feed :
      \/ attempted[feed[n]] = version[feed[n]]
      \/ \A l \in 1..n :
           (\E i \in OnPage(l) : i <= n) =>
             \E i \in OnPage(l) : IdentifierNeedsImport(feed[i])

\* A coverage record says "success" only if the Edition is the one that was
\* imported last and, if the title is offered, has a presentation-ready Work:
\* the record of the Edition does not cover up the failure of its Work.
SuccessMeansImported ==
  \A e \in Entries :
    status[e] = "success" => /\ edition[e] = attempted[e]
                             /\ e \in Offered => e \in ready

\* The presentation of a Work is that of its Edition or is going to be
\* recalculated, unless an import raised between changing the Edition and
\* asking for the recalculation.
WorksFollowEditions ==
  \A e \in ready : shown[e] = edition[e] \/ e \in registered \/ e \in halfway
=============================================================================
