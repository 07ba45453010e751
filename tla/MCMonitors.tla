----------------------------- MODULE MCMonitors -----------------------------
(* What runs in the background and remembers how far it has got: a timeline *)
(* monitor, the migration script, an OPDS import and what it mirrors, the   *)
(* export of MARC files, the OPDS entry of a work.  A behaviour is the      *)
(* story of one of them, and the others stay as they were.                  *)
EXTENDS TimelineMonitor, Migrations, OPDSImport, Representations, MARCExport, OpdsEntries,
        TLC

CONSTANTS a, b, c

\* The first title may fail in every way, the second is now and then unreadable,
\* the third is not offered for loan.
MCPerils == (a :> Outcomes) @@ (b :> {"imported", "unreadable"}) @@ (c :> {"imported"})
MCMaxVersion == (a :> 2) @@ (b :> 1) @@ (c :> 1)

F(k, d, n, i) == [kind |-> k, date |-> d, counter |-> n, id |-> i]

\* Files with and without counters, dates that both kinds share, an SQL file that
\* comes after Python files, and a Python file that may fail.
MCFiles ==
  {F("sql", 1, 0, 1), F("py", 1, 0, 1), F("py", 2, 0, 1),
   F("sql", 3, 0, 1), F("sql", 3, 0, 2), F("sql", 3, 1, 1), F("py", 3, 2, 1),
   F("py", 4, 0, 1), F("py", 4, 1, 1), F("sql", 4, 2, 1), F("sql", 5, 0, 1)}
MCMayGoWrong == {F("py", 3, 2, 1)}

MCNoTime == -1

VARIABLE story

monitorsVars == <<story, timelineVars, migrationVars, importVars, webVars, marcVars, entriesVars>>

MonitorsInit ==
  /\ story \in {"timeline", "migrations", "import", "mirror", "marc", "entries"}
  /\ TimelineInit /\ MigrationsInit /\ ImportInit /\ RepresentationsInit /\ MARCInit
  /\ EntriesInit /\ (story # "entries" => pools = [p \in WorkPools |-> "licensed"] /\ main = CHOOSE p \in WorkPools : TRUE)
  /\ story # "migrations" => released = {f \in Files : f.date = 1}
  /\ story # "mirror" => rel = "image"
  \* At first one of the books has a record and has lost its license pool.
  /\ unpooled = {1} /\ marc_record = [w \in Books |-> IF w = 1 THEN 0 ELSE NoRecord]

MonitorsNext ==
  /\ UNCHANGED story
  /\ \/ story = "timeline" /\ TimelineNext /\ UNCHANGED <<migrationVars, importVars, webVars, marcVars, entriesVars>>
     \/ story = "migrations" /\ MigrationsNext /\ UNCHANGED <<timelineVars, importVars, webVars, marcVars, entriesVars>>
     \/ story = "import" /\ ImportNext /\ UNCHANGED <<timelineVars, migrationVars, webVars, marcVars, entriesVars>>
     \/ story = "mirror" /\ RepresentationsNext /\ UNCHANGED <<timelineVars, migrationVars, importVars, marcVars, entriesVars>>
     \/ story = "marc" /\ MARCNext /\ UNCHANGED <<timelineVars, migrationVars, importVars, webVars, entriesVars>>
     \/ story = "entries" /\ EntriesNext /\ UNCHANGED <<timelineVars, migrationVars, importVars, webVars, marcVars>>

MonitorsSpec == MonitorsInit /\ [][MonitorsNext]_monitorsVars
=============================================================================
