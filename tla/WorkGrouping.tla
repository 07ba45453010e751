---------------------------- MODULE WorkGrouping ----------------------------
(***************************************************************************)
(* How license pools are grouped into works (LicensePool.calculate_work,   *)
(* model/licensing.py, and the methods of Work it calls, model/work.py).   *)
(*                                                                         *)
(* The methods call one another, and while one of them walks through the   *)
(* pools of a work the others move pools about.  Each runs in one database *)
(* session and is one step here, built from operators on the state of that *)
(* session.  An identifier has one presentation edition, which is made of  *)
(* what its other editions say when set_presentation_edition is called.    *)
(* The pools of one identifier are all open-access or all commercial here: *)
(* the code asks both that the pools of an identifier share a work and     *)
(* that a commercial pool has one of its own.                              *)
(***************************************************************************)
EXTENDS Naturals, FiniteSets, SequencesExt

CONSTANTS
    Pools,          \* numbers: in the order they are iterated, the better ones first
    Identifiers,
    IdentifierOf,   \* of each pool
    Keys,           \* values of [pwid, language] of an edition
    Beginnings,     \* what may be said of the identifiers at first
    Works,          \* enough to make new ones from
    NoWork, NoPwid, Nothing,
    MaxChanges      \* bound on the changes of metadata and open-access status

ASSUME PoolsAssumption == Pools \subseteq Nat /\ IsFiniteSet(Pools) /\ IdentifierOf \in [Pools -> Identifiers]
ASSUME MetadataAssumption == Beginnings \subseteq [Identifiers -> Keys]
ASSUME NamesAssumption == NoWork \notin Works /\ Nothing \notin Identifiers

VARIABLES
    metadata,       \* what the editions of an identifier say of it
    open_access,    \* the pools that are open-access
    work_of,           \* LicensePool.work
    presented,      \* the pools whose presentation_edition is set
    edition,        \* the key of the presentation edition of each identifier
    edition_work,   \* Edition.work of the presentation edition; Work.presentation_edition is its inverse
    calculated,     \* history: pools calculated since the last change
    refused,        \* history: merge_into raised its ValueError
    changes

groupingVars == <<metadata, open_access, work_of, presented, edition, edition_work, calculated, refused, changes>>

(***************************************************************************)
(* The state s of a session.  `used` are the works that can still be       *)
(* reached, from the database or from a local variable of a caller.        *)
(***************************************************************************)
SiblingsOf(p) == {q \in Pools : IdentifierOf[q] = IdentifierOf[p]}
PoolsOf(s, w) == {p \in Pools : s.work[p] = w}
InOrder(S) == SetToSortSeq(S, <)
KeyOf(s, p) == s.edition[IdentifierOf[p]]

Assign(s, S, w) == [s EXCEPT !.work = [p \in Pools |-> IF p \in S THEN w ELSE @[p]]]
Forget(s, i) == [s EXCEPT !.edition_work[i] = NoWork]
ForgetWork(s, w) == [s EXCEPT !.edition_work = [i \in Identifiers |-> IF @[i] = w THEN NoWork ELSE @[i]]]
MakeWork(s) == CHOOSE w \in Works \ s.used : TRUE
Use(s, w) == [s EXCEPT !.used = @ \cup {w}]

\* Work.presentation_edition.
EditionOf(s, w) ==
    IF \E i \in Identifiers : s.edition_work[i] = w
    THEN CHOOSE i \in Identifiers : s.edition_work[i] = w
    ELSE Nothing

\* Work.set_presentation_edition: the pools that the edition is presentation
\* edition for are told that they have a work.
SetPresentationEdition(s, w, i) ==
    Assign([s EXCEPT !.edition_work = [j \in Identifiers |-> IF j = i THEN w ELSE IF @[j] = w THEN NoWork ELSE @[j]]],
           {p \in s.presented : IdentifierOf[p] = i}, w)

\* LicensePool.set_presentation_edition.
ClaimWork(s, p) ==
    IF s.work[p] # NoWork /\ EditionOf(s, s.work[p]) = Nothing
    THEN SetPresentationEdition(s, s.work[p], IdentifierOf[p])
    ELSE s
PresentPool(s, p) ==
    ClaimWork([s EXCEPT !.presented = @ \cup {p}, !.edition[IdentifierOf[p]] = s.metadata[IdentifierOf[p]]], p)

\* Work.mark_licensepools_as_superceded: the pools that are left.
NotSuperceded(s, w) ==
    LET free == PoolsOf(s, w) \cap s.open_access
    IN  (PoolsOf(s, w) \ s.open_access) \cup {p \in free : \A q \in free : p <= q}

\* Work.calculate_presentation, of which only calculate_presentation_edition
\* concerns the grouping.
ChooseEdition(s, w, i) == IF EditionOf(s, w) = i THEN s ELSE SetPresentationEdition(s, w, i)
Successor(candidates, old) ==
    IF \E p \in candidates : IdentifierOf[p] = old THEN old ELSE IdentifierOf[InOrder(candidates)[1]]
CalculatePresentation(s, w) ==
    IF NotSuperceded(s, w) = {} THEN s
    ELSE ChooseEdition(FoldLeft(PresentPool, s, InOrder(NotSuperceded(s, w))), w,
                       Successor(NotSuperceded(s, w), EditionOf(s, w)))

(***************************************************************************)
(* Work._potential_open_access_works_for_permanent_work_id.                *)
(***************************************************************************)
OpenAccessPools(s, key) == {p \in s.open_access \cap s.presented : KeyOf(s, p) = key}

PotentialWorks(s, key) ==
    {w \in {s.work[p] : p \in OpenAccessPools(s, key)} \ {NoWork} :
        EditionOf(s, w) = Nothing \/ s.edition[EditionOf(s, w)] = key}

\* Counter.most_common(1): of several, any.
MostCommon(s, key) ==
    LET count(w) == Cardinality(PoolsOf(s, w) \cap OpenAccessPools(s, key))
        most == {w \in PotentialWorks(s, key) : \A v \in PotentialWorks(s, key) : count(v) <= count(w)}
        first(w) == CHOOSE p \in PoolsOf(s, w) : \A q \in PoolsOf(s, w) : p <= q
    IN  CHOOSE w \in most : \A v \in most : IF s.tie THEN first(w) <= first(v) ELSE first(v) <= first(w)

Pwids(s, w) == {KeyOf(s, p).pwid : p \in PoolsOf(s, w) \cap s.presented} \ {NoPwid}

\* Work.merge_into.
MayMerge(s, from, into) ==
    PoolsOf(s, from) \cup PoolsOf(s, into) \subseteq s.open_access /\ Pwids(s, from) = Pwids(s, into)
MergeInto(s, from, into) ==
    IF ~MayMerge(s, from, into) THEN [s EXCEPT !.refused = TRUE]
    ELSE CalculatePresentation(ForgetWork(Assign(s, PoolsOf(s, from), into), from), into)

(***************************************************************************)
(* The methods that call one another.  Each returns the session, the work  *)
(* and whether it is new.                                                  *)
(***************************************************************************)
Result(s, w, is_new) == [s |-> s, work |-> w, is_new |-> is_new]

RECURSIVE CalculateWork(_, _), OpenAccessFor(_, _), MakeExclusive(_, _, _)

\* "A commercially-licensed book should have a Work to itself.  All other
\* LicensePools need to be kicked out."
KickOut(s, p, w) ==
    LET Kick(t, q) ==
            IF {p, q} \subseteq t.open_access THEN t ELSE CalculateWork(Assign(t, {q}, NoWork), q).s
    IN  FoldLeft(Kick, s, InOrder(PoolsOf(s, w) \ {p}))

\* Mutant of Consensus: it starts over in any case.
StartOver(s, p) == Forget(Assign(s, SiblingsOf(p), NoWork), IdentifierOf[p])

\* "All LicensePools with a given Identifier must share a work", or start over.
Disperse(s, p) == Assign(s, SiblingsOf(p), NoWork)
Consensus(s, p) ==
    IF Cardinality({s.work[q] : q \in SiblingsOf(p)}) = 1 THEN s
    ELSE IF SiblingsOf(p) \cap s.presented = {} THEN Disperse(s, p)
    ELSE Forget(Disperse(s, p), IdentifierOf[p])

Join(found, p) ==
    [found EXCEPT !.s = Assign(MakeExclusive(@, found.work, KeyOf(@, p)), {p}, found.work)]
JoinOpenAccess(s, p) ==
    IF p \in s.open_access THEN Join(OpenAccessFor(s, KeyOf(s, p)), p) ELSE Result(s, NoWork, FALSE)

\* The work of the pool, or the one of its presentation edition, or else the
\* one its open-access book was found to have.
OwnWork(s, p) == IF s.work[p] # NoWork THEN s.work[p] ELSE s.edition_work[IdentifierOf[p]]
ClaimOwn(s, p) == Assign(s, {p}, OwnWork(s, p))
KnownWork(s, p, found) == IF OwnWork(s, p) # NoWork THEN OwnWork(s, p) ELSE found

Occupy(s, p, w, is_new) ==
    Result(Assign(CalculatePresentation(Assign(s, {p}, w), w), SiblingsOf(p), w), w, is_new)
Create(s, p, w) == Occupy(Use(s, w), p, w, TRUE)
Settle(s, p, w, is_new) ==
    IF w = NoWork THEN Create(s, p, MakeWork(s)) ELSE Occupy(KickOut(ClaimOwn(Use(s, w), p), p, w), p, w, is_new)
FindWork(s, p, found, is_new) == Settle(s, p, KnownWork(s, p, found), is_new)
Reconcile(r, p) == FindWork(Consensus(r.s, p), p, r.work, r.is_new)

\* LicensePool.calculate_work.
CalculatePresented(s, p) ==
    IF KeyOf(s, p).pwid = NoPwid THEN Result(Assign(s, {p}, NoWork), NoWork, FALSE)
    ELSE Reconcile(JoinOpenAccess(s, p), p)
CalculateWork(s, p) == CalculatePresented(PresentPool(s, p), p)

\* Work.open_access_for_permanent_work_id.
Gather(s, pools, w, is_new) == Result(Assign(Use(s, w), pools, w), w, is_new)
MergeAll(s, key, works, w) ==
    LET Absorb(t, v) == MergeInto(MakeExclusive(t, v, key), v, w)
    IN  IF works = {w} THEN s ELSE FoldLeft(Absorb, MakeExclusive(s, w, key), SetToSeq(works \ {w}))
OpenAccessFor(s, key) ==
    IF PotentialWorks(s, key) = {} THEN Gather(s, OpenAccessPools(s, key), MakeWork(s), TRUE)
    ELSE Gather(MergeAll(s, key, PotentialWorks(s, key), MostCommon(s, key)), OpenAccessPools(s, key),
                MostCommon(s, key), FALSE)

\* Mutant of MakeExclusive: it leaves open-access pools of other books in.
KickCommercialOut(s, w, key) ==
    LET CheckOne(t, p) ==
            IF p \in t.open_access THEN t ELSE CalculateWork(Forget(Assign(t, {p}, NoWork), IdentifierOf[p]), p).s
    IN  FoldLeft(CheckOne, s, InOrder(PoolsOf(s, w)))

\* Work.make_exclusive_open_access_for_permanent_work_id.
FinishNew(r) == IF r.is_new THEN CalculatePresentation(r.s, r.work) ELSE r.s
TakeOut(s, p) ==
    IF p \in s.presented THEN Forget(Assign(s, {p}, NoWork), IdentifierOf[p]) ELSE Assign(s, {p}, NoWork)
Check(s, p, key) ==
    IF p \notin s.open_access THEN FinishNew(CalculateWork(TakeOut(s, p), p))
    ELSE IF p \notin s.presented \/ KeyOf(s, p).pwid = NoPwid THEN TakeOut(s, p)
    ELSE IF KeyOf(s, p) # key THEN FinishNew(OpenAccessFor(TakeOut(s, p), KeyOf(s, p)))
    ELSE s
MakeExclusive(s, w, key) == LET CheckOne(t, p) == Check(t, p, key) IN FoldLeft(CheckOne, s, InOrder(PoolsOf(s, w)))

(***************************************************************************)
(* The steps.                                                              *)
(***************************************************************************)
Session(tie) ==
    [metadata |-> metadata, open_access |-> open_access, work |-> work_of, presented |-> presented, edition |-> edition,
     edition_work |-> edition_work, refused |-> refused, tie |-> tie,
     used |-> {work_of[p] : p \in Pools} \cup {edition_work[i] : i \in Identifiers}]

Commit(s) ==
    /\ work_of' = s.work /\ presented' = s.presented /\ edition' = s.edition
    /\ edition_work' = s.edition_work /\ refused' = s.refused
    /\ UNCHANGED <<metadata, open_access, changes>>

GroupingInit ==
    /\ metadata \in Beginnings /\ edition = metadata
    /\ open_access \in SUBSET Pools
    /\ \A p \in open_access : SiblingsOf(p) \subseteq open_access
    /\ work_of = [p \in Pools |-> NoWork] /\ presented = {}
    /\ edition_work = [i \in Identifiers |-> NoWork]
    /\ calculated = {} /\ refused = FALSE /\ changes = 0

Calculate(p) ==
    /\ \E tie \in BOOLEAN : Commit(CalculateWork(Session(tie), p).s)
    /\ calculated' = calculated \cup {p}

\* WorkPresentationProvider and others: Work.calculate_presentation.
Present(w) ==
    /\ w # NoWork
    /\ Commit(CalculatePresentation(Session(TRUE), w))
    /\ UNCHANGED calculated

\* The metadata of an identifier changes: a presentation edition made of
\* several others is not touched; the only edition of its identifier has the
\* new language, but its permanent work ID is yet to be calculated.
ChangeMetadata(i, key) ==
    /\ changes < MaxChanges /\ changes' = changes + 1
    /\ metadata[i] # key /\ metadata' = [metadata EXCEPT ![i] = key]
    /\ edition' \in {edition, [edition EXCEPT ![i].language = key.language]}
    /\ calculated' = {}
    /\ UNCHANGED <<open_access, work_of, presented, edition_work, refused>>

\* LicensePool.set_open_access_status of the pools S of an identifier.
ChangeOpenAccess(S) ==
    /\ changes < MaxChanges /\ changes' = changes + 1
    /\ open_access' = (open_access \ S) \cup (S \ open_access)
    /\ calculated' = {}
    /\ UNCHANGED <<metadata, work_of, presented, edition, edition_work, refused>>

\* WorkReaper: works without pools are deleted.
Reap ==
    /\ edition_work' = [i \in Identifiers |-> IF \E p \in Pools : work_of[p] = edition_work[i] THEN edition_work[i] ELSE NoWork]
    /\ edition_work' # edition_work
    /\ UNCHANGED <<metadata, open_access, work_of, presented, edition, calculated, refused, changes>>

GroupingNext ==
    \/ \E p \in Pools : Calculate(p)
    \/ \E w \in {work_of[p] : p \in Pools} : Present(w)
    \/ \E i \in Identifiers, key \in Keys : ChangeMetadata(i, key)
    \/ \E p \in Pools : ChangeOpenAccess(SiblingsOf(p))
    \/ Reap

GroupingSpec == GroupingInit /\ [][GroupingNext]_groupingVars
-----------------------------------------------------------------------------
(* What calculate_work promises: "A pool that is not open-access will       *)
(* always have its own Work.  Open-access LicensePools will be grouped      *)
(* together with other open-access LicensePools based on the permanent work *)
(* ID of the LicensePool's presentation edition", and "all LicensePools     *)
(* with a given Identifier must share a work".                              *)
Belong(p, q) ==
    \/ IdentifierOf[p] = IdentifierOf[q]
    \/ {p, q} \subseteq open_access /\ metadata[IdentifierOf[p]] = metadata[IdentifierOf[q]]

Grouped == \A p, q \in Pools :
    /\ work_of[p] = NoWork <=> metadata[IdentifierOf[p]].pwid = NoPwid
    /\ work_of[p] # NoWork => (work_of[p] = work_of[q] <=> Belong(p, q))

\* Whatever metadata and open-access statuses were before, and in whatever
\* order calculate_work is called: once it has been called for every pool,
\* the pools are grouped as promised, although each call moves the pools of
\* others about; and open_access_for_permanent_work_id untangles works before it
\* merges them, so that merge_into never refuses ("Otherwise the merge may fail").
GroupedOnceCalculated == (calculated = Pools => Grouped) /\ ~refused

\* Once everything is grouped, calculating it again leaves every pool in the
\* very work it was in, which loans, custom lists and the index refer to.  Only
\* an edition without a title upsets that: calculate_work takes its pool from
\* the work and leaves it the presentation edition, so that the work no longer
\* seems to suit the pools that stay.
WorksAreStable ==
    [][/\ calculated = Pools /\ calculated' = Pools
       /\ \A i \in Identifiers : metadata[i].pwid # NoPwid
       => work_of' = work_of]_groupingVars

\* "A pool that is not open-access will always have its own Work"
\* (calculate_work): no other pool is in the work it returns.
CommercialAlone ==
    [][\A p \in Pools : p \in calculated' \ calculated /\ p \notin open_access =>
        \A q \in Pools : work_of'[p] # NoWork /\ work_of'[q] = work_of'[p] => IdentifierOf[q] = IdentifierOf[p]]_groupingVars
=============================================================================
