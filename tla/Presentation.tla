---------------------------- MODULE Presentation ----------------------------
(***************************************************************************)
(* How what the data sources say of a book reaches its readers.            *)
(* Metadata.apply (metadata_layer.py) changes the Edition, subjects and    *)
(* links of one source, and flags the Work: a WorkCoverageRecord is put    *)
(* back to "registered" for the expensive recalculation or for the cheap   *)
(* one.  Work.calculate_presentation (model/work.py) makes a composite of  *)
(* the Editions, and recalculates as much of the rest as its policy says.  *)
(*                                                                         *)
(* A Work of one identifier and one license pool, which has a title, so    *)
(* that it is presentation-ready throughout.  A basic field (called        *)
(* series), the cover, the description and the subjects stand for the      *)
(* data.  Left out: contributors, measurements, which are treated as       *)
(* subjects are, the quality made of them, and equivalent identifiers.     *)
(* A recalculation is one transaction here; CoverageProvider has what may  *)
(* happen between its steps.                                               *)
(***************************************************************************)
EXTENDS Integers, Sequences, FiniteSets, FiniteSetsExt

CONSTANTS
  Sources,   \* the data sources, as Edition.sort_by_priority has them: the last wins
  Own,       \* the data source of the license pool
  Staff,     \* the data source of the library's staff
  Offers,    \* what each source may say: series, cover, description, subjects
  Unchecked, \* sources that do not say when they were updated, or are forced
  None,      \* no value
  Cleared,   \* NO_VALUE: the source says that there is no value
  MaxTime    \* bound: the last time at which a source may have updated its data

SourceSet == {Sources[i] : i \in DOMAIN Sources}

\* Covers and descriptions are numbered by their quality.  No two sources have the
\* same description: the URI of its resource names the source.
ASSUME PresentationAssumption ==
  /\ Sources \in Seq(SourceSet) /\ \A i, j \in DOMAIN Sources : Sources[i] = Sources[j] => i = j
  /\ Own \in SourceSet /\ Staff \in SourceSet \ {Own} /\ Unchecked \subseteq SourceSet /\ MaxTime \in Nat
  /\ None # Cleared
  /\ \A s \in SourceSet : \A o \in Offers[s] : o.cover \in Int \cup {None} /\ o.description \in Int \cup {None}
  /\ \A s, u \in SourceSet : \A o \in Offers[s], p \in Offers[u] :
       o.description = p.description => s = u \/ o.description = None

VARIABLES
  edition,  \* of each source: its fields, the cover chosen for it, when it was updated
  said,     \* of each source: its links and subjects
  composite,\* the Edition of the source "presentation edition"
  work,     \* the Work: which Edition presents it, its summary and genres
  flagged,  \* the operations registered for the Work
  entry     \* the Work's OPDS entry

presentationVars == <<edition, said, composite, work, flagged, entry>>

NoEdition == [series |-> None, cover |-> None, updated |-> -1]
Nothing == [cover |-> None, description |-> None, subjects |-> {}]

\* identifier.primarily_identifies, but for the composite.
Editions == {s \in SourceSet : edition[s] # NoEdition}

\* A field that the metadata does not have stays.
Applied(offered, old) ==
  IF offered = None THEN old ELSE IF offered = Cleared THEN None ELSE offered

-----------------------------------------------------------------------------
(* What there is to choose from.                                           *)

\* Identifier.best_cover_for: the covers of an instance differ in quality, and
\* are numbered by it.
BestCover(all) ==
  LET covers == {all[s].cover : s \in SourceSet} \ {None}
  IN IF covers = {} THEN None ELSE Max(covers)

Descriptions(all, sources) == {all[s].description : s \in sources} \ {None}

\* _choose_summary: the staff's description, else the distributor's, else any.
BestSummary(all) ==
  LET tier == CASE all[Staff].description # None -> {Staff}
                [] all[Staff].description = None /\ all[Own].description # None -> {Own}
                [] OTHER -> SourceSet
  IN IF Descriptions(all, tier) = {} THEN None ELSE Max(Descriptions(all, tier))

\* Whatever the classifier makes of them, genres follow from the subjects.
GenresOf(all) == UNION {all[s].subjects : s \in SourceSet}

\* Metadata.update: the value of the best source that has one.
Combined ==
  LET having == {i \in DOMAIN Sources : edition[Sources[i]].series # None}
  IN IF having = {} THEN None ELSE edition[Sources[Max(having)]].series

\* What readers see of an Edition and a Work.
Shown(presented, w) ==
  [series |-> presented.series, cover |-> presented.cover, summary |-> w.summary, genres |-> w.genres]

LinksOf(offer) == [cover |-> offer.cover, description |-> offer.description, subjects |-> offer.subjects]

Presented == IF work.edition = "own" THEN edition[Own] ELSE composite

PresentationInit ==
  \E offer \in Offers[Own] :
    LET first == [s \in SourceSet |-> IF s = Own THEN LinksOf(offer) ELSE Nothing] IN
      /\ said = first
      /\ edition = [s \in SourceSet |->
           IF s = Own THEN [series |-> Applied(offer.series, None), cover |-> BestCover(first), updated |-> 0] ELSE NoEdition]
      /\ composite = NoEdition
      /\ work = [edition |-> "own", summary |-> BestSummary(first), genres |-> GenresOf(first)]
      /\ flagged = {}
      /\ entry = Shown(edition[Own], work)

-----------------------------------------------------------------------------
(* Metadata.apply.                                                         *)

\* "The metadata has not changed since last time. Do nothing."
NotUpdated(s, updated) == s \notin Unchecked /\ edition[s] # NoEdition /\ edition[s].updated >= updated

\* Links are deleted and made again, subjects deleted or made where they differ.
Replaced(s, offer) == [said EXCEPT ![s] = LinksOf(offer)]

Flag(full, cheap) ==
  CASE full -> {"classify"}
    [] ~full /\ cheap -> {"choose-edition"}
    [] ~full /\ ~cheap -> {}

\* Mutant of ApplyMetadata: a change of the cover's link is noted, one of what
\* that means for the cover is not.
ApplyUnseen(s, offer, updated) ==
  LET old == edition[s]
      now == Replaced(s, offer)
      new == [series |-> Applied(offer.series, old.series), cover |-> BestCover(now), updated |-> updated]
      full == said[s].subjects # offer.subjects \/ offer.description # None
      cheap == offer.series \notin {None, old.series} \/ offer.cover # None
  IN /\ ~NotUpdated(s, updated)
     /\ edition' = [edition EXCEPT ![s] = new]
     /\ said' = now
     /\ flagged' = flagged \cup Flag(full, cheap)
     /\ UNCHANGED <<composite, work, entry>>

\* With a policy that replaces links and subjects.  The Edition is made if need be.
ApplyMetadata(s, offer, updated) ==
  LET old == edition[s]
      now == Replaced(s, offer)
      new == [series |-> Applied(offer.series, old.series), cover |-> BestCover(now), updated |-> updated]
      full == said[s].subjects # offer.subjects \/ offer.description # None
      cheap == offer.series \notin {None, old.series} \/ offer.cover # None \/ new.cover # old.cover
  IN /\ ~NotUpdated(s, updated)
     /\ edition' = [edition EXCEPT ![s] = new]
     /\ said' = now
     /\ flagged' = flagged \cup Flag(full, cheap)
     /\ UNCHANGED <<composite, work, entry>>

-----------------------------------------------------------------------------
(* Work.calculate_presentation.                                            *)

\* PresentationCalculationPolicy: what may be left alone.  Each chooses the edition
\* and the cover.
Default == [classify |-> TRUE, regenerate |-> FALSE]
Cheap == [classify |-> FALSE, regenerate |-> TRUE]       \* WorkPresentationEditionCoverageProvider
Everything == [classify |-> TRUE, regenerate |-> TRUE]   \* recalculate_everything

\* Edition.calculate_presentation: the cover is chosen anew.
Covered(e) == [e EXCEPT !.cover = BestCover(said)]

\* LicensePool.set_presentation_edition: the only Edition there is presents the
\* pool itself, more are made into a composite, by applying their metadata to it.
Calculated ==
  IF Cardinality(Editions) = 1
  THEN [name |-> "own", value |-> Covered(edition[Own])]
  ELSE [name |-> "composite",
        value |-> Covered([composite EXCEPT !.series = Applied(Combined, composite.series)])]

\* calculate_presentation_edition has the new values in hand, and compares them
\* with the old ones; the OPDS entry is made again only if something has changed.
Recalculate(policy) ==
  LET calculated == Calculated
      new == [edition |-> calculated.name,
              summary |-> IF policy.classify THEN BestSummary(said) ELSE work.summary,
              genres |-> IF policy.classify THEN GenresOf(said) ELSE work.genres]
      old == IF calculated.name = "own" THEN edition[Own] ELSE composite
      changed == new # work \/ calculated.value # old
  IN /\ work' = new
     /\ edition' = IF calculated.name = "own" THEN [edition EXCEPT ![Own] = calculated.value] ELSE edition
     /\ composite' = IF calculated.name = "own" THEN composite ELSE calculated.value
     /\ entry' = IF changed \/ policy.regenerate THEN Shown(calculated.value, new) ELSE entry
     /\ flagged' = flagged \ ({"choose-edition"} \cup (IF policy.classify THEN {"classify"} ELSE {}))
     /\ UNCHANGED said

\* WorkPresentationEditionCoverageProvider and WorkClassificationCoverageProvider
\* come to a Work that is registered.
ChooseEdition == "choose-edition" \in flagged /\ Recalculate(Cheap)
ClassifyWork == "classify" \in flagged /\ Recalculate(Everything)

\* LicensePool.calculate_work, Work.merge_into and others, at any time.
CalculateWork == Recalculate(Default)

PresentationNext ==
  \/ \E s \in SourceSet : \E updated \in (IF s \in Unchecked THEN {0} ELSE 1..MaxTime), offer \in Offers[s] :
       ApplyMetadata(s, offer, updated)
  \/ ChooseEdition \/ ClassifyWork \/ CalculateWork

PresentationSpec == PresentationInit /\ [][PresentationNext]_presentationVars

-----------------------------------------------------------------------------
(* A Work for which nothing is registered shows what its sources say:      *)
(* whatever order updates, the two providers and other recalculations came *)
(* in, no change is forgotten.  Three things are known to be: a description*)
(* that is withdrawn flags nothing; a field that every source has cleared  *)
(* stays in a composite; and a default recalculation sees no change in an  *)
(* Edition that presents the Work itself, leaves the OPDS entry and removes*)
(* the flag.                                                               *)
NothingIsForgotten ==
  flagged = {} =>
    /\ work.genres = GenresOf(said) /\ Presented.cover = BestCover(said)
    /\ \/ work.summary = BestSummary(said)
       \/ work.summary \notin Descriptions(said, SourceSet)
    /\ Presented.series = Combined \/ Combined = None
    /\ entry.summary = work.summary /\ entry.genres = work.genres
    /\ work.edition = "composite" => entry = Shown(composite, work)
=============================================================================
