----------------------------- MODULE MARCExport -----------------------------
(***************************************************************************)
(* marc.py's MARCExporter.records: the books of a lane that changed since  *)
(* a start time are taken from the search index, page by page, and         *)
(* uploaded in parts as one MARC file (s3.py's multipart upload); if that  *)
(* worked, a CachedMARCFile says from when to when it has the changes.     *)
(*                                                                         *)
(* Meanwhile books change, gain and lose their license pools, the search   *)
(* index follows when it may, an upload fails and the process dies.        *)
(***************************************************************************)
EXTENDS Integers, FiniteSets, FiniteSetsExt

CONSTANTS
  Books,       \* the works of the lane, numbered
  QueryBatch,  \* query_batch_size
  NoTime,      \* stands for no time
  LastTick,    \* bound: the time at which the model ends
  MaxEdits     \* bound: changes of books and of their records

ASSUME MARCAssumption ==
  /\ Books \subseteq Nat
  /\ QueryBatch \in Nat \ {0}
  /\ NoTime \in Int /\ NoTime < 0

VARIABLES
  clock,       \* the time
  state,       \* each book's present state, numbered, and its last_update_time
  marc_record, \* the state each book's cached record was made of
  unpooled,    \* the books that have no active license pool
  behind,      \* the books of which the search index does not show the present state
  document,    \* the last_update_time of each book in the search index
  edits,       \* the changes so far
  exporting,   \* is an export running?
  forced,      \* force_refresh
  startTime,   \* start_time
  endTime,     \* end_time
  reached,     \* the sort key of the last book retrieved
  file,        \* the books and states of them in the file so far
  broken,      \* mirror_exception: did the upload fail?
  exportedTo,  \* the end_time to which the CachedMARCFiles lead, one from the other
  delivered,   \* history: the books and states of them in complete files
  inSight,     \* history: the books that the export in progress could see from the start
  hidden       \* history: those that their export could not

exportVars == <<exporting, forced, startTime, endTime, reached, file, broken>>
marcVars == <<clock, state, marc_record, unpooled, behind, document, edits, exportVars, exportedTo, delivered, inSight, hidden>>

NoKey == <<NoTime, 0>>
NoRecord == -1

MARCInit ==
  /\ clock = 0
  /\ state = [b \in Books |-> [number |-> 0, date |-> 0]]
  /\ marc_record \in [Books -> {NoRecord, 0}] /\ unpooled \in SUBSET Books
  /\ behind = {} /\ document = [b \in Books |-> 0] /\ edits = 0
  /\ exporting = FALSE /\ forced = FALSE
  /\ startTime = NoTime /\ endTime = NoTime /\ reached = NoKey
  /\ file = {} /\ broken = FALSE
  /\ exportedTo = NoTime
  /\ delivered = {} /\ inSight = {} /\ hidden = {}

-----------------------------------------------------------------------------
\* The caller says since when, or everything; it asks for new records or not.
StartExport ==
  /\ ~exporting
  /\ exporting' = TRUE
  /\ forced' \in BOOLEAN
  /\ startTime' \in {NoTime} \cup 0..clock
  /\ endTime' = clock
  /\ reached' = NoKey /\ file' = {} /\ broken' = FALSE
  /\ inSight' = {b \in Books \ (behind \cup unpooled) : forced' \/ marc_record[b] \in {NoRecord, state[b].number}}
  /\ UNCHANGED <<clock, state, marc_record, unpooled, behind, document, edits, exportedTo, delivered, hidden>>

\* MARCExporterFacets: the books updated since the start time, in ascending order.
SortKey(b) == <<document[b], b>>
Precedes(k, l) == k[1] < l[1] \/ (k[1] = l[1] /\ k[2] < l[2])
Ahead == {b \in Books : document[b] >= startTime /\ Precedes(reached, SortKey(b))}

\* A page of SortKeyPagination: the first of the books that come after the last
\* one of the page before.
IsPage(page) ==
  /\ page \subseteq Ahead
  /\ Cardinality(page) = Min({QueryBatch, Cardinality(Ahead)})
  /\ \A b \in page, c \in Ahead \ page : Precedes(SortKey(b), SortKey(c))

\* create_record: the cached record if there is one and it is not to be made anew, or
\* one of the book as the database has it, which is then the cached one.
IsCached(b) == marc_record[b] # NoRecord /\ ~forced
Record(b) == IF IsCached(b) THEN marc_record[b] ELSE state[b].number

\* A book without an active license pool gets no record.
ExportPage ==
  /\ exporting /\ ~broken
  /\ Ahead # {}
  /\ \E page \in SUBSET Ahead :
       /\ IsPage(page)
       /\ \E last \in page :
            /\ \A b \in page \ {last} : Precedes(SortKey(b), SortKey(last))
            /\ reached' = SortKey(last)
       /\ file' = file \cup {<<b, Record(b)>> : b \in page \ unpooled}
       /\ marc_record' = [b \in Books |-> IF b \in page \ unpooled THEN Record(b) ELSE marc_record[b]]
  /\ UNCHANGED <<clock, state, unpooled, behind, document, edits, exporting, forced, startTime, endTime, broken,
                 exportedTo, delivered, inSight, hidden>>

\* Something raises while the file is put together or uploaded: multipart_upload
\* aborts the upload and takes note.
BreakUpload ==
  /\ exporting /\ ~broken
  /\ broken' = TRUE
  /\ UNCHANGED <<clock, state, marc_record, unpooled, behind, document, edits, exporting, forced, startTime, endTime,
                 reached, file, exportedTo, delivered, inSight, hidden>>

\* The export is over, and what it has uploaded is.
Over(uploaded) ==
  /\ exporting' = FALSE /\ forced' = FALSE
  /\ startTime' = NoTime /\ endTime' = NoTime /\ reached' = NoKey /\ file' = {} /\ broken' = FALSE
  /\ delivered' = delivered \cup uploaded
  /\ inSight' = {}
  /\ UNCHANGED <<clock, state, marc_record, unpooled, behind, document, edits>>

Unrecorded == UNCHANGED <<exportedTo, hidden>>

\* A CachedMARCFile with this end time continues those before it if it starts no
\* later than they end.  What it may not have is what it could not see.
Recorded(end) ==
  IF startTime = NoTime \/ startTime <= exportedTo
  THEN /\ exportedTo' = end
       /\ hidden' = {b \in hidden : state[b].date < startTime}
                      \cup {b \in Books \ inSight : startTime <= state[b].date /\ state[b].date < endTime}
  ELSE Unrecorded

\* Mutants of FinishExport: it takes note of the export although the upload failed, or
\* of the time at which it ended.
FinishAnyway ==
  \/ exporting /\ broken /\ Over({}) /\ Recorded(endTime)
  \/ exporting /\ ~broken /\ Ahead = {} /\ Over(file) /\ Recorded(endTime)
FinishAsOfNow ==
  \/ exporting /\ broken /\ Over({}) /\ Unrecorded
  \/ exporting /\ ~broken /\ Ahead = {} /\ Over(file) /\ Recorded(clock)

\* After an empty page the upload is completed and recorded; after a failure it is
\* not.
FinishExport ==
  \/ exporting /\ broken /\ Over({}) /\ Unrecorded
  \/ exporting /\ ~broken /\ Ahead = {} /\ Over(file) /\ Recorded(endTime)

\* The process dies: before the upload is complete, or after it and before the
\* CachedMARCFile is committed.
ExporterDies ==
  /\ exporting
  /\ Over({}) \/ (~broken /\ Ahead = {} /\ Over(file))
  /\ Unrecorded

-----------------------------------------------------------------------------
(* The world around the exporter.                                          *)

\* A book has a new last_update_time.
Dated(b, number, date) ==
  /\ edits < MaxEdits /\ edits' = edits + 1
  /\ state' = [state EXCEPT ![b] = [number |-> number, date |-> date]]
  /\ behind' = behind \cup {b}
  /\ inSight' = inSight \ {b}
  /\ hidden' = IF date < exportedTo THEN hidden \cup {b} ELSE hidden \ {b}
  /\ UNCHANGED <<clock, document, exportVars, exportedTo, delivered>>

\* calculate_presentation finds a change: it dates it and makes a new record, if
\* there is a license pool to make it of.
ChangePresentation(b) ==
  /\ Dated(b, state[b].number + 1, clock)
  /\ marc_record' = IF b \in unpooled THEN marc_record ELSE [marc_record EXCEPT ![b] = state[b].number + 1]
  /\ UNCHANGED unpooled

\* update_availability, with which a book may gain or lose its pool: the date is the
\* one the distributor gives.
UpdateAvailability(b) ==
  /\ \E as_of \in 0..clock : Dated(b, state[b].number, as_of)
  /\ unpooled' \in {unpooled \cup {b}, unpooled \ {b}}
  /\ UNCHANGED marc_record

\* calculate_marc_record, for a coverage provider or a script.
RefreshRecord(b) ==
  /\ edits < MaxEdits /\ edits' = edits + 1
  /\ b \notin unpooled
  /\ marc_record' = [marc_record EXCEPT ![b] = state[b].number]
  /\ UNCHANGED <<clock, state, unpooled, behind, document, exportVars, exportedTo, delivered, inSight, hidden>>

Reindex(b) ==
  /\ b \in behind
  /\ document' = [document EXCEPT ![b] = state[b].date]
  /\ behind' = behind \ {b}
  /\ UNCHANGED <<clock, state, marc_record, unpooled, edits, exportVars, exportedTo, delivered, inSight, hidden>>

MARCTick ==
  /\ clock < LastTick
  /\ clock' = clock + 1
  /\ UNCHANGED <<state, marc_record, unpooled, behind, document, edits, exportVars, exportedTo, delivered, inSight, hidden>>

MARCNext ==
  \/ StartExport \/ ExportPage \/ BreakUpload \/ FinishExport \/ ExporterDies
  \/ \E b \in Books : ChangePresentation(b) \/ UpdateAvailability(b) \/ RefreshRecord(b) \/ Reindex(b)
  \/ MARCTick

MARCSpec == MARCInit /\ [][MARCNext]_marcVars

-----------------------------------------------------------------------------
\* "If any records are changed during the processing we may not catch them, and
\* they should be handled again on the next run" (records): a state that a book got
\* before the time to which the recorded exports lead is in a file that was
\* completely uploaded, although books change and move about in the index while it
\* is read, uploads fail and the process dies.  The exceptions are the books that
\* the export which reaches back to their date could not see as they are when it
\* began: the index was behind, the book had no license pool, its cached record was
\* out of date; and a change that is dated back behind the exports.
ChangesAreExported ==
  \A b \in Books : state[b].date < exportedTo => b \in hidden \/ <<b, state[b].number>> \in delivered
=============================================================================
