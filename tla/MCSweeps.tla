------------------------------ MODULE MCSweeps ------------------------------
(* What is done over and over for the rows of a table: sweeps, reapers, the *)
(* recalculation of a Work and its classification.  A behaviour is the story*)
(* of one of them, and the others stay as they were.                        *)
EXTENDS SweepMonitor, Reapers, Presentation, WorkClassifier, TLC

P(n, c, w) == [name |-> n, collection |-> c, work |-> w]

\* A work with two pools in a collection, one with a pool in each of two, and one
\* that is in the second collection alone.
MCPools == {P(1, 1, "w1"), P(2, 1, "w1"), P(3, 1, "w2"), P(4, 2, "w2"), P(5, 2, "w3")}

\* The covers and the descriptions of the sources differ, what has one comes without
\* the other, fields are left out and cleared, and every source may take back all it
\* has said.
MCSources == <<"wrangler", "license", "staff">>
O(n, c, d, s) == [series |-> n, cover |-> c, description |-> d, subjects |-> s]
MCOffers ==
  [s \in {"wrangler", "license", "staff"} |->
     CASE s = "wrangler" -> {O(4, 3, 13, {"h"}), O(None, None, None, {"h"})}
       [] s = "license" -> {O(1, 1, None, {"g"}), O(2, None, 11, {"g"}), O(Cleared, None, None, {"g"})}
       [] s = "staff" -> {O(3, 2, None, {}), O(Cleared, None, 12, {})}]

\* Two of the genres are so near the cutoff that one of them must go, and Overdrive
\* outweighs the staff.
R(source, subject, kind, genre, fiction, audience, lower, upper, weight, quality) ==
  [source |-> source, subject |-> subject, kind |-> kind, genre |-> genre, fiction |-> fiction, audience |-> audience,
   age |-> [lower |-> lower, upper |-> upper], weight |-> weight, quality |-> quality,
   format |-> genre = "Comics", identifier |-> 1]
Cozy == R("oclc", "Cozy mysteries", "other", "Cozy Mystery", "fiction", Unsaid, NoAge, NoAge, 30, 0)
MCRows ==
  {R("staff", "Children", "audience", Unsaid, Unsaid, "Children", NoAge, NoAge, 1, 10),
   R("staff", "10-13", "age", Unsaid, Unsaid, "Children", 10, 13, 1, 10),
   R("staff", "Fiction", "fiction", Unsaid, "fiction", Unsaid, NoAge, NoAge, 1, 0),
   R("staff", "NONE", "none", Unsaid, Unsaid, Unsaid, NoAge, NoAge, 1, 0),
   R("staff", "Mystery", "genre", "Mystery", "fiction", Unsaid, NoAge, NoAge, 1, 0),
   R("staff", "Historical", "genre", "History", "nonfiction", Unsaid, NoAge, NoAge, 1, 0),
   R("overdrive", "Juvenile Fiction", "overdrive", Unsaid, "fiction", "Children", NoAge, NoAge, 2, 9),
   R("overdrive", "Juvenile Nonfiction", "overdrive", Unsaid, "nonfiction", "Children", NoAge, NoAge, 1, 9),
   R("overdrive", "Picture Books", "overdrive", Unsaid, "fiction", "Children", 0, 5, 2, 9),
   R("overdrive", "History", "overdrive", "History", "nonfiction", "Adult", 18, NoAge, 2, 9),
   R("oclc", "PZ", "lcc", Unsaid, "fiction", "Children", NoAge, NoAge, 70, 0),
   Cozy, [Cozy EXCEPT !.identifier = 2], [Cozy EXCEPT !.identifier = 3, !.weight = 9],
   R("oclc", "Space", "other", "Science Fiction", "fiction", Unsaid, NoAge, NoAge, 160, 0),
   R("oclc", "Comics", "other", "Comics", "fiction", Unsaid, NoAge, NoAge, 400, 0),
   R("oclc", "Erotic stories", "other", "Erotica", "fiction", "Adults Only", 18, NoAge, 30, 6)}
MCGenre ==
  [g \in {"Mystery", "Cozy Mystery", "Science Fiction", "History", "Comics", "Erotica"} |->
     [fiction |-> IF g = "History" THEN "nonfiction" ELSE "fiction",
      parent |-> IF g = "Cozy Mystery" THEN "Mystery" ELSE Unsaid]]
MCImprints ==
  {[fiction |-> Unsaid, genre |-> Unsaid, audience |-> Unsaid],
   [fiction |-> "nonfiction", genre |-> "History", audience |-> "not adult"]}

VARIABLE story

sweepsVars == <<story, sweepVars, reapersVars, presentationVars, classifierVars>>

SweepsInit ==
  /\ story \in {"sweep", "reapers", "presentation", "classifier"}
  /\ SweepInit /\ (story # "sweep" => table = {} /\ poison = {})
  /\ ReapersInit
  /\ PresentationInit /\ (story # "presentation" => edition[Own].series = 1)
  /\ ClassifierInit /\ (story # "classifier" => given.rows = {Cozy} /\ given.imprint.genre = Unsaid)

SweepsNext ==
  /\ UNCHANGED story
  /\ \/ story = "sweep" /\ SweepNext /\ UNCHANGED <<reapersVars, presentationVars, classifierVars>>
     \/ story = "reapers" /\ ReapersNext /\ UNCHANGED <<sweepVars, presentationVars, classifierVars>>
     \/ story = "presentation" /\ PresentationNext /\ UNCHANGED <<sweepVars, reapersVars, classifierVars>>
     \/ story = "classifier" /\ ClassifierNext /\ UNCHANGED <<sweepVars, reapersVars, presentationVars>>

\* The fairness of SweepSpec and of ReapersSpec, each in its own story.
SweepsSpec ==
  /\ SweepsInit /\ [][SweepsNext]_sweepsVars
  /\ WF_sweepVars(story = "sweep" /\ SweepGoesOn)
  /\ WF_reapersVars(story = "reapers" /\ CollectionReaper)
  /\ WF_reapersVars(story = "reapers" /\ WorkReaper)
=============================================================================
