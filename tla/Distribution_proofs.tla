------------------------- MODULE Distribution_proofs ------------------------
(***************************************************************************)
(* Theorems about Licenses, DeliveryMechanisms, Credentials,               *)
(* SiteConfiguration and HoldQueue, for every set of licenses, patrons,    *)
(* requests, threads and copies, and every length of time.                 *)
(***************************************************************************)
EXTENDS Licenses, DeliveryMechanisms, Credentials, SiteConfiguration, HoldQueue,
        FiniteSetTheorems, SequenceTheorems, WellFoundedInduction, TLAPS

(***************************************************************************)
(* Which license is lent.                                                  *)
(***************************************************************************)
LicensesTypeOK ==
  /\ terms \in [LicenseIds -> Terms]
  /\ loans \in [Borrowers -> [license : LicenseIds, end : Nat \cup {NotSet}] \cup {NotSet}]
  /\ chosen \in [Borrowers -> LicenseIds \cup {NotSet}]
  /\ today \in Nat

\* Who borrows a license or is about to.
Claimants(l) == ActiveLoans(l) \cup {p \in Borrowers : chosen[p] = l}

LicensesInv ==
  /\ LicensesTypeOK
  /\ \A l \in LicenseIds : Cardinality(Claimants(l)) <= terms[l].concurrent + MaxRequests - 1

\* A set of naturals that is not empty has a least one.
LEMMA LeastNatural ==
  ASSUME NEW T \in SUBSET Nat, T # {}
  PROVE  \E t \in T : \A u \in T : t <= u
<1>1. PICK t \in T : \A u \in T : ~ (<<u, t>> \in OpToRel(<, Nat))
  BY NatLessThanWellFounded, WFMin, Zenon
<1>2. \A u \in T : ~ (u < t)
  BY <1>1 DEF OpToRel
<1>3. \A u \in T : u \in Nat
  OBVIOUS
<1> QED BY <1>2, <1>3

\* The loop only ever prefers licenses that may be lent.
LEMMA BestIsLendable ==
  ASSUME NEW best \in BestAvailableLicenses, best # NotSet
  PROVE  best \in LicenseIds /\ Lendable(best)
<1> DEFINE n == Cardinality(LicenseIds)
<1>1. n \in Nat
  BY FS_CardinalityType, LicensesAssumption
<1> HIDE DEF n
<1>2. PICK b \in [0..n -> LicenseIds \cup {NotSet}], order \in SetToSeqs(LicenseIds) :
        IsBestSoFar(b, order) /\ best = b[n]
  BY DEF BestAvailableLicenses, n
<1>3. order \in [1..n -> LicenseIds]
  BY DEF SetToSeqs, n
<1> DEFINE Wrong == {i \in 0..n : b[i] # NotSet /\ ~Lendable(b[i])}
<1>4. Wrong = {}
  <2> SUFFICES ASSUME Wrong # {} PROVE FALSE
    OBVIOUS
  <2>1. PICK i \in Wrong : \A j \in Wrong : i <= j
    <3>1. Wrong \in SUBSET Nat
      BY <1>1
    <3> QED BY <3>1, LeastNatural
  <2>2. i \in 1..n /\ i - 1 \in 0..n /\ i - 1 \notin Wrong
    BY <1>1, <1>2, <2>1 DEF IsBestSoFar
  <2>3. b[i] = b[i - 1] \/ (b[i] = order[i] /\ Lendable(order[i]))
    BY <1>2, <1>3, <2>2 DEF IsBestSoFar
  <2> QED BY <2>1, <2>2, <2>3
<1> QED BY <1>1, <1>2, <1>4

LEMMA ClaimantsAreFinite ==
  ASSUME NEW S \in SUBSET Borrowers
  PROVE  IsFiniteSet(S) /\ Cardinality(S) \in Nat
BY LicensesAssumption, FS_Subset, FS_CardinalityType

\* A step after which nobody new claims a license, and it is lent as often as before.
LEMMA FewerClaims ==
  ASSUME LicensesInv, LicensesTypeOK',
         \A l \in LicenseIds : terms'[l].concurrent = terms[l].concurrent /\ Claimants(l)' \subseteq Claimants(l)
  PROVE  LicensesInv'
<1>1. \A l \in LicenseIds : Claimants(l) \subseteq Borrowers
  BY DEF Claimants, ActiveLoans
<1>2. \A l \in LicenseIds : /\ Cardinality(Claimants(l)') <= Cardinality(Claimants(l))
                            /\ Cardinality(Claimants(l)') \in Nat /\ Cardinality(Claimants(l)) \in Nat
  BY <1>1, FS_Subset, ClaimantsAreFinite
<1>3. \A l \in LicenseIds : terms[l].concurrent \in Nat
  BY LicensesAssumption DEF LicensesInv, LicensesTypeOK, AllTerms
<1> QED BY <1>2, <1>3, LicensesAssumption DEF LicensesInv

LEMMA ChooseKeepsInv ==
  ASSUME LicensesInv, NEW p \in Borrowers, Choose(p)
  PROVE  LicensesInv'
<1> USE DEF LicensesInv
<1>1. /\ chosen[p] = NotSet /\ Cardinality(InFlight) < MaxRequests
      /\ UNCHANGED <<terms, loans, today>>
  BY DEF Choose
<1>2. PICK best \in LicenseIds : Lendable(best) /\ chosen' = [chosen EXCEPT ![p] = best]
  BY BestIsLendable DEF Choose
<1>3. LicensesTypeOK'
  BY <1>1, <1>2 DEF LicensesTypeOK
<1>4. ASSUME NEW l \in LicenseIds, l # best
      PROVE  Claimants(l)' = Claimants(l)
  BY <1>1, <1>2, <1>4, LicensesAssumption DEF Claimants, ActiveLoans, LicensesTypeOK
<1>5. Cardinality(Claimants(best)') <= terms[best].concurrent + MaxRequests - 1
  <2> DEFINE F == InFlight \cup {p}
  <2>1. Claimants(best)' \subseteq ActiveLoans(best) \cup F
    BY <1>1, <1>2, LicensesAssumption DEF Claimants, ActiveLoans, InFlight, LicensesTypeOK
  <2>2. IsFiniteSet(ActiveLoans(best)) /\ IsFiniteSet(InFlight) /\ Cardinality(ActiveLoans(best)) \in Nat
        /\ Cardinality(InFlight) \in Nat
    BY ClaimantsAreFinite DEF ActiveLoans, InFlight
  <2>3. IsFiniteSet(F) /\ Cardinality(F) <= MaxRequests /\ Cardinality(F) \in Nat
    <3>1. IsFiniteSet(InFlight \cup {p})
          /\ Cardinality(InFlight \cup {p}) = IF p \in InFlight THEN Cardinality(InFlight) ELSE Cardinality(InFlight) + 1
      BY <2>2, FS_AddElement
    <3> QED BY <1>1, <2>2, <3>1, LicensesAssumption
  <2>4. IsFiniteSet(ActiveLoans(best) \cup F)
        /\ Cardinality(ActiveLoans(best) \cup F) <= Cardinality(ActiveLoans(best)) + Cardinality(F)
    <3> HIDE DEF F
    <3>1. Cardinality(ActiveLoans(best) \cap F) \in Nat
      BY <2>2, <2>3, FS_Intersection, FS_CardinalityType
    <3>2. IsFiniteSet(ActiveLoans(best) \cup F)
          /\ Cardinality(ActiveLoans(best) \cup F) =
               Cardinality(ActiveLoans(best)) + Cardinality(F) - Cardinality(ActiveLoans(best) \cap F)
      BY <2>2, <2>3, FS_Union
    <3> QED BY <2>2, <2>3, <3>1, <3>2
  <2>5. Cardinality(Claimants(best)') <= Cardinality(ActiveLoans(best) \cup F)
        /\ Cardinality(Claimants(best)') \in Nat /\ Cardinality(ActiveLoans(best) \cup F) \in Nat
    BY <2>1, <2>4, FS_Subset, FS_CardinalityType
  <2>6. Cardinality(ActiveLoans(best)) < terms[best].concurrent /\ terms[best].concurrent \in Nat
    BY <1>2, LicensesAssumption DEF Lendable, LicensesTypeOK, AllTerms
  <2> HIDE DEF F
  <2> QED BY <2>2, <2>3, <2>4, <2>5, <2>6, LicensesAssumption
<1> QED BY <1>1, <1>3, <1>4, <1>5

LEMMA LoanToKeepsInv ==
  ASSUME LicensesInv, NEW p \in Borrowers, LoanTo(p)
  PROVE  LicensesInv'
<1> USE DEF LicensesInv
<1>1. chosen[p] # NotSet /\ chosen[p] \in LicenseIds /\ chosen' = [chosen EXCEPT ![p] = NotSet] /\ UNCHANGED <<terms, today>>
  BY DEF LoanTo, LicensesTypeOK
<1>2. PICK period \in LoanPeriods :
        loans' = [loans EXCEPT ![p] = [license |-> chosen[p],
                                       end |-> IF loans[p] # NotSet THEN loans[p].end
                                               ELSE IF period = NotSet THEN NotSet ELSE today + period]]
  BY DEF LoanTo
<1> DEFINE end == IF loans[p] # NotSet THEN loans[p].end
                  ELSE IF period = NotSet THEN NotSet ELSE today + period
<1>3. end \in Nat \cup {NotSet}
  <2>1. loans[p] # NotSet => loans[p].end \in Nat \cup {NotSet}
    BY DEF LicensesTypeOK
  <2>2. period \in Nat \cup {NotSet} /\ today \in Nat
    BY LicensesAssumption DEF LicensesTypeOK
  <2> QED BY <2>1, <2>2
<1> HIDE DEF end
<1>4. loans' = [loans EXCEPT ![p] = [license |-> chosen[p], end |-> end]]
  BY <1>2 DEF end
<1>5. LicensesTypeOK'
  BY <1>1, <1>3, <1>4 DEF LicensesTypeOK
<1>6. ASSUME NEW l \in LicenseIds, NEW q \in Claimants(l)'
      PROVE  q \in Claimants(l)
  <2>1. q \in Borrowers
    BY DEF Claimants, ActiveLoans
  <2>2. CASE q = p
    <3>1. chosen'[p] = NotSet /\ loans'[p].license = chosen[p]
      BY <1>1, <1>4 DEF LicensesTypeOK
    <3>2. l = chosen[p]
      BY <2>2, <3>1, LicensesAssumption DEF Claimants, ActiveLoans
    <3> QED BY <2>2, <3>2 DEF Claimants
  <2>3. CASE q # p
    <3>1. chosen'[q] = chosen[q] /\ loans'[q] = loans[q]
      BY <1>1, <1>4, <2>1, <2>3 DEF LicensesTypeOK
    <3> QED BY <1>1, <2>1, <3>1 DEF Claimants, ActiveLoans
  <2> QED BY <2>2, <2>3
<1> QED BY <1>1, <1>5, <1>6, FewerClaims

LEMMA OthersKeepInv ==
  ASSUME LicensesInv,
         \/ \E p \in Borrowers : Return(p)
         \/ \E l \in LicenseIds, t \in Terms : UpdateTerms(l, t)
         \/ NextDay \/ UNCHANGED licenseVars
  PROVE  LicensesInv'
<1> USE DEF LicensesInv
<1>1. ASSUME NEW p \in Borrowers, Return(p) PROVE LicensesInv'
  <2>1. loans' = [loans EXCEPT ![p] = NotSet] /\ UNCHANGED <<terms, chosen, today>>
    BY <1>1 DEF Return
  <2>2. LicensesTypeOK'
    BY <2>1 DEF LicensesTypeOK
  <2>3. \A l \in LicenseIds : Claimants(l)' \subseteq Claimants(l)
    BY <2>1 DEF Claimants, ActiveLoans, LicensesTypeOK
  <2> QED BY <2>1, <2>2, <2>3, FewerClaims
<1>2. ASSUME NEW l \in LicenseIds, NEW t \in Terms, UpdateTerms(l, t) PROVE LicensesInv'
  <2>1. LicensesTypeOK' /\ \A m \in LicenseIds : terms'[m].concurrent = terms[m].concurrent
    BY <1>2 DEF UpdateTerms, LicensesTypeOK
  <2>2. \A m \in LicenseIds : Claimants(m)' = Claimants(m)
    BY <1>2 DEF UpdateTerms, Claimants, ActiveLoans
  <2> QED BY <2>1, <2>2, FewerClaims
<1>3. CASE NextDay
  <2>1. today' = today + 1 /\ UNCHANGED <<terms, loans, chosen>>
    BY <1>3 DEF NextDay
  <2>2. LicensesTypeOK'
    BY <2>1 DEF LicensesTypeOK
  <2>3. \A l \in LicenseIds : Claimants(l)' \subseteq Claimants(l)
    BY <2>1, LicensesAssumption DEF Claimants, ActiveLoans, LicensesTypeOK
  <2> QED BY <2>1, <2>2, <2>3, FewerClaims
<1>4. CASE UNCHANGED licenseVars
  BY <1>4 DEF licenseVars, LicensesTypeOK, Claimants, ActiveLoans
<1> QED BY <1>1, <1>2, <1>3, <1>4

LEMMA LicensesInvIsInductive ==
  /\ LicensesInit => LicensesInv
  /\ LicensesInv /\ [LicensesNext]_licenseVars => LicensesInv'
<1>1. ASSUME LicensesInit PROVE LicensesInv
  <2>1. LicensesTypeOK
    BY <1>1 DEF LicensesInit, LicensesTypeOK
  <2>2. \A l \in LicenseIds : Claimants(l) = {}
    BY <1>1, LicensesAssumption DEF LicensesInit, Claimants, ActiveLoans
  <2>3. \A l \in LicenseIds : terms[l].concurrent \in Nat
    BY <2>1, LicensesAssumption DEF LicensesTypeOK, AllTerms
  <2>4. \A l \in LicenseIds : Cardinality(Claimants(l)) = 0
    BY <2>2, FS_EmptySet
  <2> QED BY <2>1, <2>3, <2>4, LicensesAssumption DEF LicensesInv
<1>2. ASSUME LicensesInv, [LicensesNext]_licenseVars PROVE LicensesInv'
  <2>1. ASSUME NEW p \in Borrowers, Choose(p) PROVE LicensesInv'
    BY <1>2, <2>1, ChooseKeepsInv
  <2>2. ASSUME NEW p \in Borrowers, LoanTo(p) PROVE LicensesInv'
    BY <1>2, <2>2, LoanToKeepsInv
  <2>3. ASSUME NEW p \in Borrowers, Return(p) PROVE LicensesInv'
    BY <1>2, <2>3, OthersKeepInv
  <2>4. ASSUME NEW l \in LicenseIds, NEW t \in Terms, UpdateTerms(l, t) PROVE LicensesInv'
    BY <1>2, <2>4, OthersKeepInv
  <2>5. CASE NextDay \/ UNCHANGED licenseVars
    BY <1>2, <2>5, OthersKeepInv
  <2> QED BY <1>2, <2>1, <2>2, <2>3, <2>4, <2>5 DEF LicensesNext
<1> QED BY <1>1, <1>2

\* licensing.py, best_available_license and loan_to: however many licenses, patrons and
\* requests there are, in whatever order licenses are looked at and loans begin and
\* end, a license is overdrawn by no more loans than the other requests that are
\* served at the same time.
THEOREM LicensesAreHardlyOverdrawn == LicensesSpec => []OverdrawnByAtMostTheRace
<1>1. LicensesInv => OverdrawnByAtMostTheRace
  <2> SUFFICES ASSUME LicensesInv, NEW l \in LicenseIds
               PROVE  Cardinality(ActiveLoans(l)) <= terms[l].concurrent + MaxRequests - 1
    BY DEF OverdrawnByAtMostTheRace
  <2>1. Claimants(l) \in SUBSET Borrowers /\ ActiveLoans(l) \in SUBSET Claimants(l)
    BY DEF Claimants, ActiveLoans
  <2>2. Cardinality(ActiveLoans(l)) <= Cardinality(Claimants(l))
    BY <2>1, ClaimantsAreFinite, FS_Subset
  <2>3. Cardinality(ActiveLoans(l)) \in Nat /\ Cardinality(Claimants(l)) \in Nat
    BY <2>1, ClaimantsAreFinite
  <2>4. terms[l].concurrent \in Nat
    BY LicensesAssumption DEF LicensesInv, LicensesTypeOK, AllTerms
  <2> QED BY <2>2, <2>3, <2>4, LicensesAssumption DEF LicensesInv
<1> QED BY <1>1, LicensesInvIsInductive, PTL DEF LicensesSpec

-----------------------------------------------------------------------------
(***************************************************************************)
(* The ways in which a title is delivered, and open access.                *)
(***************************************************************************)
Job ==
  [phase : {"formats", "judge"}, todo : [Mechanisms -> Rights \cup {"absent"}], doomed : SUBSET Mechanisms,
   gone : SUBSET Mechanisms, flags : [Collections -> {"same", "yes", "no"}], alone : BOOLEAN, judged : BOOLEAN]

DeliveryTypeOK ==
  /\ rights \in [Mechanisms -> Rights \cup {"absent"}]
  /\ open \in [Collections -> {"absent", "yes", "no"}]
  /\ importing \in [Collections -> Job \cup {NoImport}]
  /\ sure \subseteq Pools

\* What a pool's flag is once the import of c commits.
FlagOnceCommitted(c, d) == IF importing[c].flags[d] = "same" THEN open[d] ELSE importing[c].flags[d]

\* An import that is alone is the only one there is.
AloneIsAlone ==
  \A c \in Collections : importing[c] # NoImport /\ importing[c].alone => Importing = {c}

\* While others interfere nothing is sure.
NothingIsSureMeanwhile ==
  \A c \in Collections : importing[c] # NoImport /\ ~importing[c].alone => sure = {}

\* An import that is alone and has changed nothing yet leaves what was sure as it was;
\* one that has looked at the pools has put all of them right.
AloneIsRight ==
  \A c \in Collections :
    importing[c] # NoImport /\ importing[c].alone /\ importing[c].phase = "formats" =>
      IF importing[c].judged
      THEN \A d \in Collections : FlagOnceCommitted(c, d) \in {"absent", OpenAccess}
      ELSE \A d \in sure : open[d] = OpenAccess /\ importing[c].flags[d] = "same"

DeliveryInv ==
  /\ DeliveryTypeOK /\ AloneIsAlone /\ NothingIsSureMeanwhile /\ AloneIsRight
  /\ OpenAccessIsRight

LEMMA ImportsAreTyped ==
  ASSUME NEW import \in Imports
  PROVE  /\ import.formats \in [Mechanisms -> Rights \cup {"absent"}]
         /\ import.replace \in BOOLEAN /\ import.open \in {"yes", "no"}
<1>1. PICK feed \in Feeds :
        import = [formats |-> Formats(feed), replace |-> feed.replace, open |-> Flag(HasOpenAccessLink(feed))]
  BY DEF Imports
<1>2. /\ feed.replace \in BOOLEAN /\ feed.default \in Rights
      /\ feed.link # NoLink => feed.link.rights \in {"unset", "open", "closed"}
  BY DEF Feeds
<1>3. feed.link # NoLink => LinkRights(feed) \in Rights
  BY <1>2 DEF LinkRights, Rights
<1>4. ImpliedRights(feed) \in Rights \cup {"absent"}
  <2>1. CASE feed.link = NoLink
    BY <2>1 DEF ImpliedRights
  <2>2. CASE feed.link # NoLink /\ feed.link.rel = "open"
    BY <1>3, <2>2 DEF ImpliedRights, Rights
  <2>3. CASE feed.link # NoLink /\ feed.link.rel # "open"
    BY <2>3 DEF ImpliedRights, Rights
  <2> QED BY <2>1, <2>2, <2>3
<1>5. Formats(feed) \in [Mechanisms -> Rights \cup {"absent"}]
  BY <1>2, <1>4 DEF Formats
<1>6. Flag(HasOpenAccessLink(feed)) \in {"yes", "no"}
  BY DEF Flag
<1> QED BY <1>1, <1>2, <1>5, <1>6

LEMMA JobsAreImports == \A j \in Job : j # NoImport
BY DEF Job, NoImport

LEMMA OpenAccessIsFlag == OpenAccess \in {"yes", "no"}
BY DEF OpenAccess, Flag

\* A step of one import that leaves open who is importing and what is sure.
LEMMA StepOfImport ==
  ASSUME DeliveryInv, NEW c \in Collections, importing[c] # NoImport, DeliveryTypeOK',
         importing'[c] # NoImport, importing'[c].alone = importing[c].alone,
         \A d \in Collections : d # c => /\ importing'[d] = NoImport <=> importing[d] = NoImport
                                         /\ importing[d] # NoImport => importing'[d].alone = importing[d].alone,
         sure' = sure,
         importing[c].alone /\ importing'[c].phase = "formats" =>
           IF importing'[c].judged
           THEN \A d \in Collections : FlagOnceCommitted(c, d)' \in {"absent", OpenAccess'}
           ELSE \A d \in sure : open'[d] = OpenAccess' /\ importing'[c].flags[d] = "same"
  PROVE  DeliveryInv'
<1> USE DEF DeliveryInv
<1>1. Importing' = Importing /\ c \in Importing
  BY DEF Importing
<1>2. AloneIsAlone' /\ NothingIsSureMeanwhile'
  BY <1>1 DEF AloneIsAlone, NothingIsSureMeanwhile
<1>3. \A d \in Collections : d # c /\ importing'[d] # NoImport => ~importing'[d].alone
  BY <1>1 DEF AloneIsAlone
<1>4. AloneIsRight'
  <2> SUFFICES ASSUME NEW d \in Collections, importing'[d] # NoImport, importing'[d].alone, importing'[d].phase = "formats"
               PROVE  IF importing'[d].judged
                      THEN \A e \in Collections : FlagOnceCommitted(d, e)' \in {"absent", OpenAccess'}
                      ELSE \A e \in sure' : open'[e] = OpenAccess' /\ importing'[d].flags[e] = "same"
    BY DEF AloneIsRight
  <2>1. d = c
    BY <1>3
  <2> QED BY <2>1
<1>5. OpenAccessIsRight'
  BY <1>1 DEF OpenAccessIsRight
<1> QED BY <1>2, <1>4, <1>5

LEMMA StartKeepsInv ==
  ASSUME DeliveryInv, NEW c \in Collections, NEW import \in Imports, StartImport(c, import)
  PROVE  DeliveryInv'
<1> USE DEF DeliveryInv
<1> DEFINE job ==
      [phase |-> "formats",
       todo |-> import.formats,
       doomed |-> IF import.replace THEN {m \in Mechanisms : rights[m] # "absent" /\ import.formats[m] = "absent"} ELSE {},
       gone |-> {},
       flags |-> [NoFlags EXCEPT ![c] = IF open[c] = "absent" THEN import.open ELSE "same"],
       alone |-> Importing = {}, judged |-> FALSE]
<1>1. /\ importing[c] = NoImport /\ importing' = [Disturbed(c) EXCEPT ![c] = job]
      /\ sure' = (IF Importing = {} THEN sure ELSE {}) /\ UNCHANGED <<rights, open>>
  BY DEF StartImport
<1>2. job \in Job
  <2>1. job.flags \in [Collections -> {"same", "yes", "no"}]
    BY ImportsAreTyped DEF NoFlags
  <2>2. job.todo \in [Mechanisms -> Rights \cup {"absent"}]
    BY ImportsAreTyped
  <2>3. job.doomed \in SUBSET Mechanisms
    OBVIOUS
  <2> QED BY <2>1, <2>2, <2>3 DEF Job
<1>3. /\ ~job.judged /\ job.alone = (Importing = {})
      /\ \A d \in Collections : open[d] # "absent" => job.flags[d] = "same"
  BY DEF NoFlags
<1> HIDE DEF job
<1>4. \A d \in Collections : importing'[d] = IF d = c THEN job
                             ELSE IF importing[d] # NoImport THEN [importing[d] EXCEPT !.alone = FALSE] ELSE NoImport
  BY <1>1 DEF Disturbed
<1>5. \A d \in Collections : d # c /\ importing[d] # NoImport =>
        [importing[d] EXCEPT !.alone = FALSE] \in Job /\ [importing[d] EXCEPT !.alone = FALSE].alone = FALSE
  <2> TAKE d \in Collections
  <2>1. importing[d] # NoImport => importing[d] \in Job
    BY DEF DeliveryTypeOK
  <2> QED BY <2>1 DEF Job
<1>6. importing' \in [Collections -> Job \cup {NoImport}]
  <2>1. importing' = [d \in Collections |-> importing'[d]]
    BY <1>1 DEF Disturbed
  <2> QED BY <1>2, <1>4, <1>5, <2>1
<1>7. DeliveryTypeOK'
  BY <1>1, <1>6 DEF DeliveryTypeOK, Pools
<1>8. \A d \in Collections : /\ importing'[d] # NoImport <=> d = c \/ importing[d] # NoImport
                             /\ d # c /\ importing'[d] # NoImport => ~importing'[d].alone
  BY <1>2, <1>4, <1>5, JobsAreImports
<1>9. importing'[c] = job /\ importing'[c] # NoImport
  BY <1>4, <1>8
<1>10. Importing' = Importing \cup {c}
  BY <1>8 DEF Importing
<1>11. AloneIsAlone'
  BY <1>3, <1>8, <1>9, <1>10 DEF AloneIsAlone
<1>12. NothingIsSureMeanwhile'
  BY <1>1, <1>3, <1>8, <1>9 DEF NothingIsSureMeanwhile, Importing
<1>13. AloneIsRight'
  <2> SUFFICES ASSUME job.alone PROVE \A d \in sure' : open'[d] = OpenAccess' /\ job.flags[d] = "same"
    BY <1>3, <1>8, <1>9 DEF AloneIsRight
  <2>1. Importing = {} /\ sure' = sure /\ sure \subseteq Collections
    BY <1>1, <1>3 DEF DeliveryTypeOK, Pools
  <2>2. \A d \in sure : open[d] = OpenAccess /\ open[d] # "absent"
    BY <2>1 DEF OpenAccessIsRight, DeliveryTypeOK, Pools
  <2> QED BY <1>1, <1>3, <2>1, <2>2 DEF OpenAccess
<1>14. OpenAccessIsRight'
  BY <1>10 DEF OpenAccessIsRight
<1> QED BY <1>7, <1>11, <1>12, <1>13, <1>14

\* A commit makes flags of what was about to be.
LEMMA CommitFits ==
  ASSUME DeliveryInv, NEW c \in Collections, importing[c] # NoImport, Committed(c)
  PROVE  /\ open' \in [Collections -> {"absent", "yes", "no"}] /\ Pools \subseteq Pools'
         /\ \A d \in Collections : open'[d] = FlagOnceCommitted(c, d)
<1>1. importing[c] \in Job
  BY DEF DeliveryInv, DeliveryTypeOK
<1>2. importing[c].flags \in [Collections -> {"same", "yes", "no"}]
  BY <1>1 DEF Job
<1> QED BY <1>2 DEF Committed, Pools, DeliveryInv, DeliveryTypeOK, FlagOnceCommitted

LEMMA SetFormatKeepsInv ==
  ASSUME DeliveryInv, NEW c \in Collections, NEW m \in Mechanisms, SetFormat(c, m)
  PROVE  DeliveryInv'
<1> USE DEF DeliveryInv
<1>1. importing[c].phase = "formats" /\ importing[c] # NoImport /\ importing[c] \in Job /\ sure' = sure
  BY DEF SetFormat, NoImport, DeliveryTypeOK
<1>2. CASE /\ rights' = [rights EXCEPT ![m] = importing[c].todo[m]]
           /\ Committed(c)
           /\ importing' = [importing EXCEPT ![c].todo[m] = "absent", ![c].flags = NoFlags, ![c].phase = "judge"]
  <2> DEFINE job == [importing[c] EXCEPT !.todo[m] = "absent", !.flags = NoFlags, !.phase = "judge"]
  <2>1. importing' = [importing EXCEPT ![c] = job]
    BY <1>2 DEF DeliveryTypeOK
  <2>2. job \in Job /\ job.phase = "judge" /\ job.alone = importing[c].alone
    BY <1>1 DEF Job, NoFlags
  <2> HIDE DEF job
  <2>3. importing' \in [Collections -> Job \cup {NoImport}] /\ importing'[c] = job
        /\ \A d \in Collections : d # c => importing'[d] = importing[d]
    BY <2>1, <2>2 DEF DeliveryTypeOK
  <2>4. rights' \in [Mechanisms -> Rights \cup {"absent"}]
    BY <1>1, <1>2 DEF DeliveryTypeOK, Job
  <2>5. DeliveryTypeOK'
    BY <1>1, <1>2, <2>3, <2>4, CommitFits DEF DeliveryTypeOK
  <2> QED BY <1>1, <2>2, <2>3, <2>5, StepOfImport, JobsAreImports
<1>3. CASE /\ importing' = [importing EXCEPT ![c].todo[m] = "absent"]
           /\ UNCHANGED <<rights, open>>
  <2> DEFINE job == [importing[c] EXCEPT !.todo[m] = "absent"]
  <2>1. importing' = [importing EXCEPT ![c] = job]
    BY <1>3 DEF DeliveryTypeOK
  <2>2. job \in Job /\ job.phase = "formats" /\ job.alone = importing[c].alone /\ job.judged = importing[c].judged
        /\ job.flags = importing[c].flags
    BY <1>1 DEF Job
  <2> HIDE DEF job
  <2>3. importing' \in [Collections -> Job \cup {NoImport}] /\ importing'[c] = job
        /\ \A d \in Collections : d # c => importing'[d] = importing[d]
    BY <2>1, <2>2 DEF DeliveryTypeOK
  <2>4. DeliveryTypeOK'
    BY <1>1, <1>3, <2>3 DEF DeliveryTypeOK, Pools
  <2>5. OpenAccess' = OpenAccess /\ \A d \in Collections : FlagOnceCommitted(c, d)' = FlagOnceCommitted(c, d)
    BY <1>3, <2>2, <2>3 DEF OpenAccess, FlagOnceCommitted
  <2>6. importing[c].alone =>
          IF importing'[c].judged
          THEN \A d \in Collections : FlagOnceCommitted(c, d)' \in {"absent", OpenAccess'}
          ELSE \A d \in sure : open'[d] = OpenAccess' /\ importing'[c].flags[d] = "same"
    BY <1>1, <1>3, <2>2, <2>3, <2>5 DEF AloneIsRight
  <2> QED BY <1>1, <2>2, <2>3, <2>4, <2>6, StepOfImport, JobsAreImports
<1> QED BY <1>2, <1>3 DEF SetFormat

LEMMA DeleteFormatKeepsInv ==
  ASSUME DeliveryInv, NEW c \in Collections, NEW m \in Mechanisms, DeleteFormat(c, m)
  PROVE  DeliveryInv'
<1> USE DEF DeliveryInv
<1>1. /\ importing[c] # NoImport /\ importing[c] \in Job /\ sure' = sure /\ Committed(c)
      /\ rights' = [rights EXCEPT ![m] = "absent"]
  BY DEF DeleteFormat, NoImport, DeliveryTypeOK
<1> DEFINE job == [importing[c] EXCEPT !.doomed = @ \ {m}, !.flags = NoFlags, !.phase = "judge"]
           other(d) == [importing[d] EXCEPT !.gone = @ \cup ({m} \cap importing[d].doomed)]
<1>2. importing' = [d \in Collections |->
        IF d = c THEN job ELSE IF importing[d] = NoImport THEN NoImport ELSE other(d)]
  BY DEF DeleteFormat
<1>3. job \in Job /\ job.phase = "judge" /\ job.alone = importing[c].alone
  BY <1>1 DEF Job, NoFlags
<1>4. \A d \in Collections : importing[d] # NoImport => other(d) \in Job /\ other(d).alone = importing[d].alone
  <2> TAKE d \in Collections
  <2>1. importing[d] # NoImport => importing[d] \in Job
    BY DEF DeliveryTypeOK
  <2> QED BY <2>1 DEF Job
<1> HIDE DEF job, other
<1>5. importing' \in [Collections -> Job \cup {NoImport}]
  BY <1>2, <1>3, <1>4
<1>6. DeliveryTypeOK'
  <2>1. rights' \in [Mechanisms -> Rights \cup {"absent"}]
    BY <1>1 DEF DeliveryTypeOK
  <2> QED BY <1>1, <1>5, <2>1, CommitFits DEF DeliveryTypeOK
<1>7. importing'[c] = job
  BY <1>2
<1>8. \A d \in Collections : d # c => /\ importing'[d] = NoImport <=> importing[d] = NoImport
                                      /\ importing[d] # NoImport => importing'[d].alone = importing[d].alone
  BY <1>2, <1>4, JobsAreImports
<1> QED BY <1>1, <1>3, <1>6, <1>7, <1>8, StepOfImport, JobsAreImports

LEMMA JudgeKeepsInv ==
  ASSUME DeliveryInv, NEW c \in Collections, Judge(c)
  PROVE  DeliveryInv'
<1> USE DEF DeliveryInv
<1>1. /\ importing[c] # NoImport /\ importing[c] \in Job /\ UNCHANGED <<rights, open, sure>>
  BY DEF Judge, NoImport, DeliveryTypeOK
<1> DEFINE flags == [d \in Collections |-> IF open[d] \in {"absent", OpenAccess} THEN "same" ELSE OpenAccess]
           job == [importing[c] EXCEPT !.phase = "formats", !.judged = TRUE, !.flags = flags]
<1>2. importing' = [importing EXCEPT ![c] = job]
  BY DEF Judge, DeliveryTypeOK
<1>3. flags \in [Collections -> {"same", "yes", "no"}]
  BY OpenAccessIsFlag
<1>4. job \in Job /\ job.judged /\ job.alone = importing[c].alone /\ job.flags = flags
  <2> HIDE DEF flags
  <2> QED BY <1>1, <1>3 DEF Job
<1> HIDE DEF job
<1>5. importing' \in [Collections -> Job \cup {NoImport}] /\ importing'[c] = job
      /\ \A d \in Collections : d # c => importing'[d] = importing[d]
  BY <1>2, <1>4 DEF DeliveryTypeOK
<1>6. DeliveryTypeOK'
  BY <1>1, <1>5 DEF DeliveryTypeOK, Pools
<1>7. \A d \in Collections : FlagOnceCommitted(c, d)' \in {"absent", OpenAccess'}
  <2>1. OpenAccess' = OpenAccess /\ OpenAccess # "same"
    BY <1>1, OpenAccessIsFlag DEF OpenAccess
  <2>2. ASSUME NEW d \in Collections
        PROVE  FlagOnceCommitted(c, d)' = IF flags[d] = "same" THEN open[d] ELSE flags[d]
    <3>1. importing'[c].flags = flags
      BY <1>4, <1>5
    <3> HIDE DEF flags
    <3> QED BY <1>1, <3>1 DEF FlagOnceCommitted
  <2> QED BY <2>1, <2>2
<1> HIDE DEF flags
<1> QED BY <1>1, <1>4, <1>5, <1>6, <1>7, StepOfImport, JobsAreImports

\* The end of an import: nobody else is alone, or nobody was at all.
LEMMA EndsKeepInv ==
  ASSUME DeliveryInv, NEW c \in Collections, FinishImport(c) \/ AbortImport(c)
  PROVE  DeliveryInv'
<1> USE DEF DeliveryInv
<1>1. /\ importing[c] # NoImport /\ importing[c] \in Job /\ importing' = [importing EXCEPT ![c] = NoImport] /\ rights' = rights
  BY DEF FinishImport, AbortImport, NoImport, DeliveryTypeOK
<1>2. importing' \in [Collections -> Job \cup {NoImport}] /\ importing'[c] = NoImport
      /\ \A d \in Collections : d # c => importing'[d] = importing[d]
  BY <1>1 DEF DeliveryTypeOK
<1>3. Importing' = Importing \ {c} /\ c \in Importing
  BY <1>1, <1>2 DEF Importing
<1>4. ASSUME NEW d \in Collections, importing'[d] # NoImport
      PROVE  d # c /\ ~importing'[d].alone /\ sure = {} /\ ~importing[c].alone
  <2>1. d # c /\ importing'[d] = importing[d] /\ d \in Importing
    BY <1>2, <1>4 DEF Importing
  <2>2. Importing # {c} /\ Importing # {d}
    BY <1>3, <2>1
  <2>3. importing[d] # NoImport /\ ~importing[d].alone /\ ~importing[c].alone
    BY <1>1, <2>1, <2>2, <1>4 DEF AloneIsAlone
  <2> QED BY <2>1, <2>3 DEF NothingIsSureMeanwhile
<1>5. AloneIsAlone' /\ AloneIsRight'
  BY <1>4 DEF AloneIsAlone, AloneIsRight
<1>6. CASE AbortImport(c)
  <2>1. sure' = {} /\ open' = open
    BY <1>6 DEF AbortImport
  <2>2. DeliveryTypeOK'
    BY <1>1, <1>2, <2>1 DEF DeliveryTypeOK
  <2> QED BY <1>5, <2>1, <2>2 DEF NothingIsSureMeanwhile, OpenAccessIsRight
<1>7. CASE FinishImport(c)
  <2>1. /\ importing[c].phase = "formats" /\ Committed(c)
        /\ sure' = IF importing[c].alone /\ importing[c].judged THEN {d \in Collections : open'[d] # "absent"} ELSE sure
    BY <1>7 DEF FinishImport
  <2>2. sure' \subseteq Pools'
    BY <1>1, <2>1, CommitFits DEF DeliveryTypeOK, Pools
  <2>3. DeliveryTypeOK'
    BY <1>1, <1>2, <2>1, <2>2, CommitFits DEF DeliveryTypeOK
  <2>4. NothingIsSureMeanwhile'
    BY <1>4, <2>1 DEF NothingIsSureMeanwhile
  <2>5. ASSUME NEW d \in sure' PROVE open'[d] = OpenAccess'
    <3>1. d \in Collections /\ open'[d] = FlagOnceCommitted(c, d) /\ open'[d] # "absent" /\ OpenAccess' = OpenAccess
      BY <1>1, <2>1, <2>2, <2>5, CommitFits DEF Pools, OpenAccess
    <3>2. CASE importing[c].alone /\ importing[c].judged
      BY <1>1, <2>1, <3>1, <3>2 DEF AloneIsRight
    <3>3. CASE importing[c].alone /\ ~importing[c].judged
      BY <1>1, <2>1, <2>5, <3>1, <3>3 DEF AloneIsRight, FlagOnceCommitted
    <3>4. CASE ~importing[c].alone
      BY <1>1, <2>1, <2>5, <3>4 DEF NothingIsSureMeanwhile
    <3> QED BY <3>2, <3>3, <3>4
  <2>6. OpenAccessIsRight'
    BY <2>5 DEF OpenAccessIsRight
  <2> QED BY <1>5, <2>3, <2>4, <2>6
<1> QED BY <1>6, <1>7

LEMMA SetRightsKeepsInv ==
  ASSUME DeliveryInv, NEW m \in Mechanisms, NEW uri \in Rights, SetRightsStatus(m, uri)
  PROVE  DeliveryInv'
<1> USE DEF DeliveryInv
<1>1. /\ rights' = [rights EXCEPT ![m] = uri]
      /\ open' = [c \in Collections |-> IF open[c] = "absent" THEN "absent" ELSE OpenAccess']
      /\ importing' = [c \in Collections |-> IF importing[c] = NoImport THEN NoImport ELSE [importing[c] EXCEPT !.alone = FALSE]]
      /\ sure' = IF Importing = {} THEN Pools ELSE {}
  BY DEF SetRightsStatus
<1>2. OpenAccess' \in {"yes", "no"}
  BY DEF OpenAccess, Flag
<1>3. \A c \in Collections : importing[c] # NoImport =>
        [importing[c] EXCEPT !.alone = FALSE] \in Job /\ [importing[c] EXCEPT !.alone = FALSE].alone = FALSE
  <2> TAKE c \in Collections
  <2>1. importing[c] # NoImport => importing[c] \in Job
    BY DEF DeliveryTypeOK
  <2> QED BY <2>1 DEF Job
<1>4. /\ importing' \in [Collections -> Job \cup {NoImport}]
      /\ \A c \in Collections : /\ importing'[c] # NoImport <=> importing[c] # NoImport
                                /\ importing'[c] # NoImport => ~importing'[c].alone
  BY <1>1, <1>3, JobsAreImports
<1>5. Importing' = Importing
  BY <1>4 DEF Importing
<1>6. open' \in [Collections -> {"absent", "yes", "no"}] /\ Pools' = Pools
      /\ \A c \in Pools : open'[c] = OpenAccess'
  BY <1>1, <1>2 DEF Pools, DeliveryTypeOK
<1>7. DeliveryTypeOK'
  <2>1. rights' \in [Mechanisms -> Rights \cup {"absent"}]
    BY <1>1 DEF DeliveryTypeOK
  <2> QED BY <1>1, <1>4, <1>6, <2>1 DEF DeliveryTypeOK
<1>8. AloneIsAlone' /\ AloneIsRight' /\ NothingIsSureMeanwhile'
  BY <1>1, <1>4, <1>5 DEF AloneIsAlone, AloneIsRight, NothingIsSureMeanwhile, Importing
<1>9. OpenAccessIsRight'
  BY <1>1, <1>5, <1>6 DEF OpenAccessIsRight
<1> QED BY <1>7, <1>8, <1>9

LEMMA DeliveryInvIsInductive ==
  /\ DeliveryInit => DeliveryInv
  /\ DeliveryInv /\ [DeliveryNext]_deliveryVars => DeliveryInv'
<1>1. ASSUME DeliveryInit PROVE DeliveryInv
  <2> USE <1>1 DEF DeliveryInit
  <2>1. DeliveryTypeOK
    BY DEF DeliveryTypeOK, Pools
  <2>2. AloneIsAlone /\ NothingIsSureMeanwhile /\ AloneIsRight /\ OpenAccessIsRight
    BY DEF AloneIsAlone, NothingIsSureMeanwhile, AloneIsRight, OpenAccessIsRight
  <2> QED BY <2>1, <2>2 DEF DeliveryInv
<1>2. ASSUME DeliveryInv, [DeliveryNext]_deliveryVars PROVE DeliveryInv'
  <2>1. ASSUME NEW c \in Collections, NEW import \in Imports, StartImport(c, import) PROVE DeliveryInv'
    BY <1>2, <2>1, StartKeepsInv
  <2>2. ASSUME NEW c \in Collections, NEW m \in Mechanisms, SetFormat(c, m) \/ DeleteFormat(c, m) PROVE DeliveryInv'
    BY <1>2, <2>2, SetFormatKeepsInv, DeleteFormatKeepsInv
  <2>3. ASSUME NEW c \in Collections, Judge(c) PROVE DeliveryInv'
    BY <1>2, <2>3, JudgeKeepsInv
  <2>4. ASSUME NEW c \in Collections, FinishImport(c) \/ AbortImport(c) PROVE DeliveryInv'
    BY <1>2, <2>4, EndsKeepInv
  <2>5. ASSUME NEW m \in Mechanisms, NEW uri \in Rights, SetRightsStatus(m, uri) PROVE DeliveryInv'
    BY <1>2, <2>5, SetRightsKeepsInv
  <2>6. CASE UNCHANGED deliveryVars
    <3>1. UNCHANGED <<rights, open, importing, sure>>
      BY <2>6 DEF deliveryVars
    <3>2. OpenAccess' = OpenAccess /\ Importing' = Importing /\ Pools' = Pools
      BY <3>1 DEF OpenAccess, Importing, Pools
    <3>3. DeliveryTypeOK' /\ AloneIsAlone' /\ NothingIsSureMeanwhile' /\ OpenAccessIsRight'
      BY <1>2, <3>1, <3>2 DEF DeliveryInv, DeliveryTypeOK, AloneIsAlone, NothingIsSureMeanwhile, OpenAccessIsRight
    <3>4. AloneIsRight'
      BY <1>2, <3>1, <3>2 DEF DeliveryInv, AloneIsRight, FlagOnceCommitted
    <3> QED BY <3>3, <3>4 DEF DeliveryInv
  <2> QED BY <1>2, <2>1, <2>2, <2>3, <2>4, <2>5, <2>6 DEF DeliveryNext
<1> QED BY <1>1, <1>2

\* licensing.py, set_open_access_status, and metadata_layer.py, apply: for any number
\* of collections and formats, when no import is under way, the pools whose flags
\* nothing has disturbed are open access exactly if a mechanism of the title is.
THEOREM OpenAccessStaysRight == DeliverySpec => []OpenAccessIsRight
<1>1. DeliveryInv => OpenAccessIsRight
  BY DEF DeliveryInv
<1> QED BY <1>1, DeliveryInvIsInductive, PTL DEF DeliverySpec

-----------------------------------------------------------------------------
(***************************************************************************)
(* The credentials of patrons and collections.                             *)
(***************************************************************************)
Times == Nat \cup {Never}
Rows == [value : Nat, expires : Times]
Undertakings == [does : {"issue", "redeem", "identify", "refresh"}, found : Seq(Rows)]

RowsOK == rows \in [Keys -> Seq(Rows)]
RequestsOK == request \in [Requests -> Undertakings \cup {NoRequest}]
ValuesOK ==
  /\ values \in Nat
  /\ expiry \in Seq(Times) /\ Len(expiry) = values
  /\ redeemed \in Seq(Nat) /\ Len(redeemed) = values
  /\ raced \subseteq 1..values
CredentialsTypeOK == RowsOK /\ RequestsOK /\ ValuesOK /\ hour \in Nat

\* The row of the token says what was issued, or the token is spent.
TokenIsGood ==
  /\ Len(rows["token"]) <= 1
  /\ rows["token"] # <<>> =>
       LET row == rows["token"][1] IN
       /\ row.value \in 1..values
       /\ expiry[row.value] # Never
       /\ row.expires = expiry[row.value] \/ redeemed[row.value] > 0 \/ row.value \in raced
       /\ redeemed[row.value] > 0 => row.expires = Past

\* Who redeems a token has found it, and if another has taken its place meanwhile, that
\* one has been noted.
RedemptionsAreNoted ==
  \A r \in Requests : request[r].does = "redeem" =>
    /\ request[r].found # <<>> /\ request[r].found[1].value \in 1..values
    /\ rows["token"] # <<>>
    /\ rows["token"][1].value = request[r].found[1].value \/ rows["token"][1].value \in raced

\* What remote services were told is in the one row there is.
IdentifierIsKept ==
  /\ Len(rows["identifier"]) <= 1
  /\ told = {} \/ (rows["identifier"] # <<>> /\ told = {rows["identifier"][1].value})

CredentialsInv == CredentialsTypeOK /\ TokenIsGood /\ RedemptionsAreNoted /\ IdentifierIsKept

-----------------------------------------------------------------------------
\* A sequence whose first element is replaced, and one that grows.
LEMMA ReplacedFirst ==
  ASSUME NEW S, NEW seq \in Seq(S), Len(seq) > 0, NEW x \in S
  PROVE  /\ [seq EXCEPT ![1] = x] \in Seq(S)
         /\ Len([seq EXCEPT ![1] = x]) = Len(seq)
         /\ [seq EXCEPT ![1] = x][1] = x
OBVIOUS

LEMMA OnlyRow ==
  ASSUME NEW S, NEW seq \in Seq(S), Len(seq) = 1, NEW x \in S
  PROVE  [seq EXCEPT ![1] = x] = <<x>>
<1>1. <<x>> \in Seq(S) /\ Len(<<x>>) = 1 /\ <<x>>[1] = x
  OBVIOUS
<1> QED BY <1>1, ReplacedFirst, SeqEqual

LEMMA SingleRow ==
  ASSUME NEW S, NEW seq \in Seq(S), seq # <<>>, Len(seq) <= 1
  PROVE  Len(seq) = 1
<1>1. Len(seq) \in Nat \ {0}
  BY EmptySeq
<1> QED BY <1>1

LEMMA Appended ==
  ASSUME NEW S, NEW seq \in Seq(S), NEW x \in S
  PROVE  /\ Append(seq, x) \in Seq(S) /\ Len(Append(seq, x)) = Len(seq) + 1
         /\ Append(seq, x)[Len(seq) + 1] = x
         /\ \A i \in 1..Len(seq) : Append(seq, x)[i] = seq[i]
OBVIOUS

LEMMA TimesAre ==
  /\ Never \in Times /\ Never \notin Nat /\ \A t \in Nat : t \in Times
  /\ \A t \in Times : t # Never => t \in Nat
BY CredentialsAssumption DEF Times

LEMMA RowsAre ==
  /\ \A v \in Nat, t \in Times : [value |-> v, expires |-> t] \in Rows
  /\ \A row \in Rows : row.value \in Nat /\ row.expires \in Times
BY DEF Rows

\* A row that is indexed is made once, and then overwritten.
LEMMA WrittenOnce ==
  ASSUME RowsOK, NEW key \in IndexedKeys, Len(rows[key]) <= 1, NEW found, NEW row \in Rows
  PROVE  Written(key, found, row) = <<row>>
<1>1. rows[key] \in Seq(Rows)
  BY DEF RowsOK, Keys, IndexedKeys
<1>2. CASE rows[key] = <<>>
  <2>1. Append(rows[key], row) = <<row>>
    BY <1>2
  <2> QED BY <1>2, <2>1 DEF Written, Inserts
<1>3. CASE rows[key] # <<>>
  <2>1. Len(rows[key]) = 1
    BY <1>1, <1>3, SingleRow DEF IndexedKeys
  <2>2. [rows[key] EXCEPT ![1] = row] = <<row>>
    BY <1>1, <2>1, OnlyRow
  <2> QED BY <1>3, <2>2 DEF Written, Inserts
<1> QED BY <1>2, <1>3

LEMMA WrittenRows ==
  ASSUME RowsOK, NEW key \in Keys, NEW found, NEW row \in Rows
  PROVE  Written(key, found, row) \in Seq(Rows)
<1>1. rows[key] \in Seq(Rows)
  BY DEF RowsOK
<1>2. CASE rows[key] = <<>>
  BY <1>1, <1>2, Appended DEF Written, Inserts
<1>3. CASE rows[key] # <<>>
  <2>1. Len(rows[key]) > 0
    BY <1>1, <1>3, SingleRow DEF IndexedKeys
  <2>2. [rows[key] EXCEPT ![1] = row] \in Seq(Rows) /\ Append(rows[key], row) \in Seq(Rows)
    BY <1>1, <2>1, ReplacedFirst, Appended
  <2> QED BY <2>2 DEF Written
<1> QED BY <1>2, <1>3

LEMMA ReplacedRows ==
  ASSUME RowsOK, NEW key \in Keys, NEW new \in Seq(Rows), rows' = [rows EXCEPT ![key] = new]
  PROVE  RowsOK' /\ rows'[key] = new /\ \A k \in Keys : k # key => rows'[k] = rows[k]
BY DEF RowsOK

\* A request that is done.
LEMMA DoneRequests ==
  ASSUME RequestsOK, NEW r \in Requests, Done(r)
  PROVE  /\ RequestsOK'
         /\ \A q \in Requests : request'[q].does = "redeem" =>
              q # r /\ request[q].does = "redeem" /\ request'[q] = request[q]
BY DEF Done, RequestsOK, NoRequest

LEMMA MadeUp ==
  ASSUME ValuesOK, NEW expires \in Times, MakeUp(expires), raced' \subseteq raced \cup {values'}
  PROVE  /\ ValuesOK' /\ values' = values + 1 /\ values' \in Nat /\ expiry'[values'] = expires /\ redeemed'[values'] = 0
         /\ \A v \in 1..values : v \in 1..values' /\ expiry'[v] = expiry[v] /\ redeemed'[v] = redeemed[v]
<1>1. values' = values + 1 /\ expiry' = Append(expiry, expires) /\ redeemed' = Append(redeemed, 0)
  BY DEF MakeUp
<1>2. values \in Nat /\ expiry \in Seq(Times) /\ redeemed \in Seq(Nat)
      /\ Len(expiry) = values /\ Len(redeemed) = values
  BY DEF ValuesOK
<1>3. /\ expiry' \in Seq(Times) /\ Len(expiry') = values + 1 /\ expiry'[values + 1] = expires
      /\ \A i \in 1..values : expiry'[i] = expiry[i]
  BY <1>1, <1>2, Appended
<1>4. /\ redeemed' \in Seq(Nat) /\ Len(redeemed') = values + 1
      /\ \A i \in 1..values : redeemed'[i] = redeemed[i]
  BY <1>1, <1>2, Appended
<1>5. redeemed'[values + 1] = 0
  BY <1>1, <1>2, Appended
<1>6. raced' \subseteq 1..values'
  BY <1>1, <1>2 DEF ValuesOK
<1> QED BY <1>1, <1>2, <1>3, <1>4, <1>5, <1>6 DEF ValuesOK

LEMMA BeginKeepsInv ==
  ASSUME CredentialsInv, NEW r \in Requests, NEW does \in {"issue", "identify", "refresh"}, NEW key \in Keys,
         Begin(r, does, key)
  PROVE  CredentialsInv'
<1> USE DEF CredentialsInv, CredentialsTypeOK
<1>1. /\ request' = [request EXCEPT ![r] = [does |-> does, found |-> rows[key]]]
      /\ UNCHANGED <<rows, values, expiry, redeemed, raced, told, hour>>
  BY DEF Begin
<1>2. rows[key] \in Seq(Rows)
  BY DEF RowsOK
<1>3. [does |-> does, found |-> rows[key]] \in Undertakings
  BY <1>2 DEF Undertakings
<1>4. RequestsOK'
  BY <1>1, <1>3 DEF RequestsOK
<1>5. RowsOK' /\ ValuesOK'
  BY <1>1 DEF RowsOK, ValuesOK
<1>6. \A q \in Requests : request'[q].does = "redeem" => request'[q] = request[q]
  BY <1>1 DEF RequestsOK
<1> QED BY <1>1, <1>4, <1>5, <1>6 DEF TokenIsGood, RedemptionsAreNoted, IdentifierIsKept

LEMMA FindKeepsInv ==
  ASSUME CredentialsInv, NEW r \in Requests, FindToken(r)
  PROVE  CredentialsInv'
<1> USE DEF CredentialsInv, CredentialsTypeOK
<1>1. /\ rows["token"] # <<>>
      /\ request' = [request EXCEPT ![r] = [does |-> "redeem", found |-> rows["token"]]]
      /\ UNCHANGED <<rows, values, expiry, redeemed, raced, told, hour>>
  BY DEF FindToken, Begin
<1>2. rows["token"] \in Seq(Rows)
  BY DEF RowsOK, Keys
<1>3. [does |-> "redeem", found |-> rows["token"]] \in Undertakings
  BY <1>2 DEF Undertakings
<1>4. RequestsOK'
  BY <1>1, <1>3 DEF RequestsOK
<1>5. RowsOK' /\ ValuesOK'
  BY <1>1 DEF RowsOK, ValuesOK
<1>6. \A q \in Requests : request'[q] = request[q] \/ request'[q].found = rows["token"]
  BY <1>1 DEF RequestsOK
<1>7. RedemptionsAreNoted'
  BY <1>1, <1>6 DEF RedemptionsAreNoted, TokenIsGood
<1> QED BY <1>1, <1>4, <1>5, <1>7 DEF TokenIsGood, IdentifierIsKept

LEMMA IssueKeepsInv ==
  ASSUME CredentialsInv, NEW r \in Requests, IssueToken(r)
  PROVE  CredentialsInv'
<1> USE DEF CredentialsInv, CredentialsTypeOK
<1> DEFINE row == [value |-> values', expires |-> hour + TokenTime]
<1>1. /\ MakeUp(hour + TokenTime) /\ Done(r) /\ UNCHANGED <<told, hour>>
      /\ rows' = [rows EXCEPT !["token"] = Written("token", request[r].found, row)]
      /\ raced' = IF \E q \in Requests : request[q].does = "redeem" THEN raced \cup {values'} ELSE raced
  BY DEF IssueToken
<1>2. hour + TokenTime \in Times /\ hour + TokenTime # Never
  BY TimesAre, CredentialsAssumption
<1>3. raced' \subseteq raced \cup {values'}
  BY <1>1
<1>4. /\ ValuesOK' /\ values' = values + 1 /\ values' \in Nat /\ expiry'[values'] = hour + TokenTime /\ redeemed'[values'] = 0
      /\ \A v \in 1..values : v \in 1..values'
  BY <1>1, <1>2, <1>3, MadeUp
<1>5. row \in Rows
  BY <1>2, <1>4, RowsAre
<1>6. row.value = values' /\ row.expires = hour + TokenTime
  OBVIOUS
<1> HIDE DEF row
<1>7. Written("token", request[r].found, row) = <<row>>
  BY <1>5, WrittenOnce DEF TokenIsGood, IndexedKeys
<1>8. <<row>> \in Seq(Rows)
  BY <1>5
<1>9. RowsOK' /\ rows'["token"] = <<row>> /\ rows'["identifier"] = rows["identifier"]
  BY <1>1, <1>7, <1>8, ReplacedRows DEF Keys
<1>10. CredentialsTypeOK'
  BY <1>1, <1>4, <1>9, DoneRequests
<1>11. TokenIsGood'
  <2>1. values' \in 1..values'
    BY <1>4 DEF ValuesOK
  <2> QED BY <1>2, <1>4, <1>6, <1>9, <2>1 DEF TokenIsGood
<1>12. RedemptionsAreNoted'
  <2> SUFFICES ASSUME NEW q \in Requests, request'[q].does = "redeem"
               PROVE  /\ request'[q].found # <<>> /\ request'[q].found[1].value \in 1..values'
                      /\ rows'["token"] # <<>>
                      /\ rows'["token"][1].value \in raced'
    BY DEF RedemptionsAreNoted
  <2>1. request'[q] = request[q] /\ request[q].does = "redeem"
    BY <1>1, DoneRequests
  <2>2. raced' = raced \cup {values'} /\ rows'["token"][1].value = values' /\ rows'["token"] # <<>>
    <3>1. \E p \in Requests : request[p].does = "redeem"
      BY <2>1
    <3>2. raced' = raced \cup {values'}
      BY <1>1, <3>1
    <3>3. rows'["token"] # <<>> /\ rows'["token"][1] = row
      BY <1>9
    <3> QED BY <1>6, <3>2, <3>3
  <2>3. request[q].found # <<>> /\ request[q].found[1].value \in 1..values'
    BY <1>4, <2>1 DEF RedemptionsAreNoted
  <2> QED BY <2>1, <2>2, <2>3
<1>13. IdentifierIsKept'
  BY <1>1, <1>9 DEF IdentifierIsKept
<1> QED BY <1>10, <1>11, <1>12, <1>13

LEMMA RedeemKeepsInv ==
  ASSUME CredentialsInv, NEW r \in Requests, RedeemToken(r)
  PROVE  CredentialsInv'
<1> USE DEF CredentialsInv, CredentialsTypeOK
<1> DEFINE v == request[r].found[1].value
           row == rows["token"][1]
           spent == [row EXCEPT !.expires = Past]
<1>1. /\ request[r].does = "redeem" /\ Done(r) /\ UNCHANGED <<values, expiry, raced, told, hour>>
      /\ rows' = [rows EXCEPT !["token"] = [@ EXCEPT ![1] = spent]]
      /\ redeemed' = [redeemed EXCEPT ![v] = @ + 1]
  BY DEF RedeemToken
<1>2. v \in 1..values /\ rows["token"] # <<>> /\ (row.value = v \/ row.value \in raced)
  BY <1>1 DEF RedemptionsAreNoted
<1>3. rows["token"] \in Seq(Rows)
  BY DEF RowsOK, Keys
<1>4. Len(rows["token"]) = 1 /\ row.value \in 1..values /\ expiry[row.value] # Never
  BY <1>2, <1>3, SingleRow DEF TokenIsGood
<1>5. row \in Rows
  BY <1>3, <1>4
<1>6. spent \in Rows /\ spent.value = row.value /\ spent.expires = Past
  <2>1. Past \in Times
    BY TimesAre DEF Past
  <2> QED BY <1>5, <2>1 DEF Rows
<1> HIDE DEF row, spent
<1>7. [rows["token"] EXCEPT ![1] = spent] = <<spent>> /\ <<spent>> \in Seq(Rows)
  BY <1>3, <1>4, <1>6, OnlyRow
<1>8. RowsOK' /\ rows'["token"] = <<spent>> /\ rows'["identifier"] = rows["identifier"]
  BY <1>1, <1>7, ReplacedRows DEF Keys
<1>9. rows'["token"] # <<>> /\ Len(rows'["token"]) = 1 /\ rows'["token"][1].value = row.value /\ rows'["token"][1].expires = Past
  BY <1>6, <1>8
<1> HIDE DEF v
<1>10. ValuesOK' /\ redeemed'[v] > 0 /\ \A u \in 1..values : redeemed[u] > 0 => redeemed'[u] > 0
  <2>1. redeemed \in [1..values -> Nat]
    BY DEF ValuesOK
  <2>2. redeemed' \in Seq(Nat) /\ Len(redeemed') = values
    BY <1>1, <1>2, <2>1 DEF ValuesOK
  <2> QED BY <1>1, <1>2, <2>1, <2>2 DEF ValuesOK
<1>11. CredentialsTypeOK'
  BY <1>1, <1>8, <1>10, DoneRequests
<1>12. TokenIsGood'
  <2>1. redeemed'[row.value] > 0 \/ row.value \in raced
    BY <1>2, <1>10
  <2>2. /\ rows'["token"][1].value \in 1..values'
        /\ expiry'[rows'["token"][1].value] # Never
        /\ redeemed'[rows'["token"][1].value] > 0 \/ rows'["token"][1].value \in raced'
    BY <1>1, <1>4, <1>9, <2>1
  <2> QED BY <1>9, <2>2 DEF TokenIsGood
<1>13. RedemptionsAreNoted'
  BY <1>1, <1>9, DoneRequests DEF RedemptionsAreNoted, row
<1>14. IdentifierIsKept'
  BY <1>1, <1>8 DEF IdentifierIsKept
<1> QED BY <1>11, <1>12, <1>13, <1>14

LEMMA IdentifyKeepsInv ==
  ASSUME CredentialsInv, NEW r \in Requests, Identify(r)
  PROVE  CredentialsInv'
<1> USE DEF CredentialsInv, CredentialsTypeOK
<1>1. Done(r) /\ UNCHANGED <<raced, hour>>
      /\ told' = told \cup {rows'["identifier"][Len(rows'["identifier"])].value}
  BY DEF Identify
<1>2. CASE ~Inserts("identifier", request[r].found)
  <2>1. UNCHANGED <<rows, values, expiry, redeemed>> /\ rows["identifier"] # <<>>
    BY <1>2 DEF Identify, Inserts
  <2>2. rows["identifier"] \in Seq(Rows)
    BY DEF RowsOK, Keys
  <2>3. Len(rows["identifier"]) = 1
    BY <2>1, <2>2, SingleRow DEF IdentifierIsKept
  <2>4. told' = {rows["identifier"][1].value}
    BY <1>1, <2>1, <2>3 DEF IdentifierIsKept
  <2>5. ValuesOK' /\ RowsOK'
    BY <1>1, <2>1 DEF ValuesOK, RowsOK
  <2>6. RedemptionsAreNoted'
    BY <1>1, <2>1, DoneRequests DEF RedemptionsAreNoted
  <2> QED BY <1>1, <2>1, <2>4, <2>5, <2>6, DoneRequests DEF TokenIsGood, IdentifierIsKept
<1>3. CASE Inserts("identifier", request[r].found)
  <2> DEFINE row == [value |-> values', expires |-> Never]
  <2>1. /\ rows["identifier"] = <<>> /\ MakeUp(Never)
        /\ rows' = [rows EXCEPT !["identifier"] = Written("identifier", request[r].found, row)]
    BY <1>3 DEF Identify, Inserts, IndexedKeys
  <2>2. /\ ValuesOK' /\ values' \in Nat
        /\ \A v \in 1..values : v \in 1..values' /\ expiry'[v] = expiry[v] /\ redeemed'[v] = redeemed[v]
    BY <1>1, <2>1, TimesAre, MadeUp
  <2>3. row \in Rows
    BY <2>2, TimesAre, RowsAre
  <2> HIDE DEF row
  <2>4. Written("identifier", request[r].found, row) = <<row>>
    BY <2>3, WrittenOnce DEF IdentifierIsKept, IndexedKeys
  <2>5. <<row>> \in Seq(Rows)
    BY <2>3
  <2>6. RowsOK' /\ rows'["identifier"] = <<row>> /\ rows'["token"] = rows["token"]
    BY <2>1, <2>4, <2>5, ReplacedRows DEF Keys
  <2>7. told' = {row.value}
    BY <1>1, <2>1, <2>6 DEF IdentifierIsKept
  <2>8. TokenIsGood'
    BY <1>1, <2>2, <2>6 DEF TokenIsGood
  <2>9. RedemptionsAreNoted'
    BY <1>1, <2>2, <2>6, DoneRequests DEF RedemptionsAreNoted
  <2>10. IdentifierIsKept'
    BY <2>6, <2>7 DEF IdentifierIsKept
  <2> QED BY <1>1, <2>2, <2>6, <2>8, <2>9, <2>10, DoneRequests
<1> QED BY <1>2, <1>3

LEMMA RefreshKeepsInv ==
  ASSUME CredentialsInv, NEW r \in Requests, RefreshBearer(r)
  PROVE  CredentialsInv'
<1> USE DEF CredentialsInv, CredentialsTypeOK
<1> DEFINE row == [value |-> values', expires |-> hour + TokenTime]
<1>1. /\ MakeUp(hour + TokenTime) /\ Done(r) /\ UNCHANGED <<raced, told, hour>>
      /\ rows' = [rows EXCEPT !["bearer"] = Written("bearer", request[r].found, row)]
  BY DEF RefreshBearer
<1>2. hour + TokenTime \in Times
  BY TimesAre, CredentialsAssumption
<1>3. /\ ValuesOK' /\ values' \in Nat
      /\ \A v \in 1..values : v \in 1..values' /\ expiry'[v] = expiry[v] /\ redeemed'[v] = redeemed[v]
  BY <1>1, <1>2, MadeUp
<1>4. row \in Rows
  BY <1>2, <1>3, RowsAre
<1> HIDE DEF row
<1>5. Written("bearer", request[r].found, row) \in Seq(Rows)
  BY <1>4, WrittenRows DEF Keys
<1>6. RowsOK' /\ rows'["token"] = rows["token"] /\ rows'["identifier"] = rows["identifier"]
  BY <1>1, <1>5, ReplacedRows DEF Keys
<1>7. TokenIsGood'
  BY <1>1, <1>3, <1>6 DEF TokenIsGood
<1>8. RedemptionsAreNoted'
  BY <1>1, <1>3, <1>6, DoneRequests DEF RedemptionsAreNoted
<1> QED BY <1>1, <1>3, <1>6, <1>7, <1>8, DoneRequests DEF IdentifierIsKept

LEMMA FailKeepsInv ==
  ASSUME CredentialsInv,
         \/ \E r \in Requests : FailRequest(r)
         \/ HourPasses \/ UNCHANGED credentialVars
  PROVE  CredentialsInv'
<1> USE DEF CredentialsInv, CredentialsTypeOK
<1>1. ASSUME NEW r \in Requests, FailRequest(r) PROVE CredentialsInv'
  <2>1. Done(r) /\ UNCHANGED <<rows, values, expiry, redeemed, raced, told, hour>>
    BY <1>1 DEF FailRequest
  <2>2. RowsOK' /\ ValuesOK'
    BY <2>1 DEF RowsOK, ValuesOK
  <2>3. RedemptionsAreNoted'
    BY <2>1, DoneRequests DEF RedemptionsAreNoted
  <2> QED BY <2>1, <2>2, <2>3, DoneRequests DEF TokenIsGood, IdentifierIsKept
<1>2. CASE HourPasses \/ UNCHANGED credentialVars
  <2>1. UNCHANGED <<rows, request, values, expiry, redeemed, raced, told>> /\ hour' \in Nat
    BY <1>2 DEF HourPasses, credentialVars
  <2> QED BY <2>1 DEF RowsOK, RequestsOK, ValuesOK, TokenIsGood, RedemptionsAreNoted, IdentifierIsKept
<1> QED BY <1>1, <1>2

LEMMA CredentialsInvIsInductive ==
  /\ CredentialsInit => CredentialsInv
  /\ CredentialsInv /\ [CredentialsNext]_credentialVars => CredentialsInv'
<1>1. ASSUME CredentialsInit PROVE CredentialsInv
  <2> USE <1>1 DEF CredentialsInit
  <2>1. CredentialsTypeOK
    BY DEF CredentialsTypeOK, RowsOK, RequestsOK, ValuesOK
  <2>2. TokenIsGood /\ RedemptionsAreNoted /\ IdentifierIsKept
    BY DEF TokenIsGood, RedemptionsAreNoted, IdentifierIsKept, Keys, NoRequest
  <2> QED BY <2>1, <2>2 DEF CredentialsInv
<1>2. ASSUME CredentialsInv, [CredentialsNext]_credentialVars PROVE CredentialsInv'
  <2>1. ASSUME NEW r \in Requests,
               Begin(r, "issue", "token") \/ Begin(r, "identify", "identifier") \/ Begin(r, "refresh", "bearer")
        PROVE  CredentialsInv'
    BY <1>2, <2>1, BeginKeepsInv DEF Keys
  <2>2. ASSUME NEW r \in Requests, IssueToken(r) \/ FindToken(r) \/ RedeemToken(r) PROVE CredentialsInv'
    BY <1>2, <2>2, IssueKeepsInv, FindKeepsInv, RedeemKeepsInv
  <2>3. ASSUME NEW r \in Requests, Identify(r) \/ RefreshBearer(r) PROVE CredentialsInv'
    BY <1>2, <2>3, IdentifyKeepsInv, RefreshKeepsInv
  <2>4. ASSUME NEW r \in Requests, FailRequest(r) PROVE CredentialsInv'
    BY <1>2, <2>4, FailKeepsInv
  <2>5. CASE HourPasses \/ UNCHANGED credentialVars
    BY <1>2, <2>5, FailKeepsInv
  <2> QED BY <1>2, <2>1, <2>2, <2>3, <2>4, <2>5 DEF CredentialsNext
<1> QED BY <1>1, <1>2

\* credential.py and get_one_or_create: however many requests look rows up, make them
\* and overwrite them at the same time, the token issued last is good unless it was
\* spent, has expired or replaced one that was just being spent, one that was spent is
\* not good, and remote services know a patron by one identifier.
THEOREM CredentialsKeepServing == CredentialsSpec => []CredentialsServe
<1>1. CredentialsInv => CredentialsServe
  <2> SUFFICES ASSUME CredentialsInv PROVE CredentialsServe
    OBVIOUS
  <2>1. IssuedTokensWork
    <3> SUFFICES ASSUME NEW i \in DOMAIN rows["token"]
                 PROVE  LET row == rows["token"][i] IN
                        Valid(row) \/ expiry[row.value] <= hour \/ redeemed[row.value] > 0 \/ row.value \in raced
      BY DEF IssuedTokensWork
    <3>1. rows["token"] \in Seq(Rows)
      BY DEF CredentialsInv, CredentialsTypeOK, RowsOK, Keys
    <3>2. i = 1 /\ rows["token"] # <<>>
      BY <3>1 DEF CredentialsInv, TokenIsGood
    <3>3. rows["token"][1].value \in 1..values /\ expiry[rows["token"][1].value] # Never
      BY <3>2 DEF CredentialsInv, TokenIsGood
    <3>4. expiry[rows["token"][1].value] \in Times
      BY <3>3 DEF CredentialsInv, CredentialsTypeOK, ValuesOK
    <3>5. expiry[rows["token"][1].value] \in Nat /\ hour \in Nat
      BY <3>3, <3>4, TimesAre DEF CredentialsInv, CredentialsTypeOK
    <3> QED BY <3>2, <3>5 DEF CredentialsInv, TokenIsGood, Valid
  <2>2. IdentifiersAreStable
    <3>1. Cardinality(told) = 0 \/ Cardinality(told) = 1
      BY FS_EmptySet, FS_Singleton DEF CredentialsInv, IdentifierIsKept
    <3> QED BY <3>1 DEF IdentifiersAreStable
  <2>3. SpentTokensAreSpent
    <3> SUFFICES ASSUME NEW i \in DOMAIN rows["token"], redeemed[rows["token"][i].value] > 0
                 PROVE  ~Valid(rows["token"][i])
      BY DEF SpentTokensAreSpent
    <3>1. rows["token"] \in Seq(Rows) /\ hour \in Nat
      BY DEF CredentialsInv, CredentialsTypeOK, RowsOK, Keys
    <3>2. i = 1 /\ rows["token"] # <<>>
      BY <3>1 DEF CredentialsInv, TokenIsGood
    <3>3. rows["token"][i].expires = 0
      BY <3>2 DEF CredentialsInv, TokenIsGood, Past
    <3> QED BY <3>1, <3>3, CredentialsAssumption DEF Valid
  <2> QED BY <2>1, <2>2, <2>3 DEF CredentialsServe
<1> QED BY <1>1, CredentialsInvIsInductive, PTL DEF CredentialsSpec

-----------------------------------------------------------------------------
(***************************************************************************)
(* The configuration of a site's processes.                                *)
(***************************************************************************)
Ages == 0 .. LongAgo
Transactions == [pc : {"none", "open", "waiting"}, moved : BOOLEAN, stamp : Ages, close : BOOLEAN]

SiteTypeOK ==
  /\ finish \in Ages /\ lastChange \in Ages /\ known \in [Processes -> Ages]
  /\ tx \in [Threads -> Transactions]
  /\ locked \in Threads \cup {Nobody}
  /\ informed \subseteq Processes

\* No timestamp, nor anything that is remembered of it, is younger than the last change.
NothingIsYounger ==
  /\ lastChange <= finish
  /\ \A p \in Processes : lastChange <= known[p]
  /\ \A t \in Threads : tx[t].moved = TRUE \/ tx[t].pc = "waiting" => lastChange <= tx[t].stamp

\* Who has locked the timestamp has moved it, and does not wait.
LockIsHeld ==
  \A t \in Threads : /\ locked = t <=> tx[t].moved = TRUE
                     /\ tx[t].moved = TRUE => tx[t].pc = "open"

\* A change that is not close to another is recorded, or waits to be, and then every
\* timestamp there may be when it has waited is old enough.
LonelyChangesAreRecorded ==
  \A t \in Threads :
    /\ tx[t].pc = "open" /\ tx[t].close = FALSE => tx[t].moved = TRUE
    /\ tx[t].pc = "waiting" /\ tx[t].close = FALSE =>
         /\ tx[t].stamp <= MaxWait
         /\ finish > tx[t].stamp + Cooldown
         /\ \A u \in Threads \ {t} :
              tx[u].moved = TRUE \/ tx[u].pc = "waiting" => tx[u].stamp > tx[t].stamp + Cooldown

SiteInv == SiteTypeOK /\ NothingIsYounger /\ LockIsHeld /\ LonelyChangesAreRecorded /\ MissesOnlyCloseChanges

-----------------------------------------------------------------------------
LEMMA AgesAre ==
  /\ LongAgo \in Nat /\ LongAgo > Cooldown /\ LongAgo > MaxWait + Cooldown /\ 0 \in Ages
  /\ \A a \in Ages : a \in Nat /\ a <= LongAgo /\ Later(a) \in Ages
  /\ \A a \in Ages, b \in Ages : a <= b => Later(a) <= Later(b)
  /\ \A a \in Ages, b \in Ages : a < MaxWait /\ b > a + Cooldown => Later(a) = a + 1 /\ Later(b) > a + 1 + Cooldown
BY SiteConfigurationAssumption DEF LongAgo, Ages, Later

\* What a change makes of the other transactions.
LEMMA MadeChanges ==
  ASSUME SiteTypeOK, NEW t \in Threads, NEW own \in Transactions, tx' = Made(t, own)
  PROVE  /\ tx' \in [Threads -> Transactions] /\ tx'[t] = own
         /\ \A u \in Threads \ {t} :
              /\ tx'[u].pc = tx[u].pc /\ tx'[u].moved = tx[u].moved /\ tx'[u].stamp = tx[u].stamp
              /\ tx[u].close = TRUE \/ tx[u].pc = "waiting" => tx'[u].close = TRUE
<1>1. ASSUME NEW u \in Threads \ {t}
      PROVE  /\ tx'[u] \in Transactions
             /\ tx'[u].pc = tx[u].pc /\ tx'[u].moved = tx[u].moved /\ tx'[u].stamp = tx[u].stamp
             /\ tx[u].close = TRUE \/ tx[u].pc = "waiting" => tx'[u].close = TRUE
  <2>1. tx[u] \in Transactions
    BY DEF SiteTypeOK
  <2>2. tx'[u] = [tx[u] EXCEPT !.close = @ \/ tx[u].pc = "waiting"]
    BY DEF Made
  <2> QED BY <2>1, <2>2 DEF Transactions
<1>2. tx'[t] = own
  BY DEF Made
<1>3. tx' = [u \in Threads |-> tx'[u]]
  BY DEF Made
<1> QED BY <1>1, <1>2, <1>3

LEMMA QuietKeepsInv ==
  ASSUME SiteInv, NEW t \in Threads, ChangeQuietly(t)
  PROVE  SiteInv'
<1> USE AgesAre DEF SiteInv
<1> DEFINE own == [tx[t] EXCEPT !.pc = "open", !.close = @ \/ lastChange <= Cooldown \/ Recording(ProcessOf(t))]
<1>1. /\ tx[t].pc # "waiting" /\ tx' = Made(t, own) /\ lastChange' = 0
      /\ Recording(ProcessOf(t)) \/ ~PastCooldown(known[ProcessOf(t)])
      /\ UNCHANGED <<finish, locked, known, informed, current, excused>>
  BY DEF ChangeQuietly
<1>2. tx[t] \in Transactions /\ ProcessOf(t) \in Processes
  BY DEF SiteTypeOK, Processes
<1>3. lastChange <= Cooldown \/ Recording(ProcessOf(t))
  <2>1. known[ProcessOf(t)] \in Nat /\ lastChange \in Nat /\ lastChange <= known[ProcessOf(t)]
    BY <1>2 DEF SiteTypeOK, NothingIsYounger
  <2> QED BY <1>1, <2>1, SiteConfigurationAssumption DEF PastCooldown
<1>4. own \in Transactions /\ own.pc = "open" /\ own.moved = tx[t].moved /\ own.stamp = tx[t].stamp /\ own.close = TRUE
  BY <1>2, <1>3 DEF Transactions
<1> HIDE DEF own
<1>5. /\ tx' \in [Threads -> Transactions] /\ tx'[t] = own
      /\ \A u \in Threads \ {t} :
           /\ tx'[u].pc = tx[u].pc /\ tx'[u].moved = tx[u].moved /\ tx'[u].stamp = tx[u].stamp
           /\ tx[u].close = TRUE \/ tx[u].pc = "waiting" => tx'[u].close = TRUE
  BY <1>1, <1>4, MadeChanges
<1>6. SiteTypeOK'
  BY <1>1, <1>5 DEF SiteTypeOK
<1>7. NothingIsYounger'
  <2>1. \A u \in Threads : tx'[u].stamp \in Nat
    BY <1>5 DEF Transactions
  <2>2. finish \in Nat /\ \A p \in Processes : known[p] \in Nat
    BY DEF SiteTypeOK
  <2> QED BY <1>1, <2>1, <2>2 DEF NothingIsYounger
<1>8. LockIsHeld'
  BY <1>1, <1>4, <1>5 DEF LockIsHeld
<1>9. LonelyChangesAreRecorded'
  <2>1. \A u \in Threads : tx'[u].close = FALSE => u # t /\ tx[u].pc # "waiting" /\ tx[u].close = FALSE
    BY <1>2, <1>4, <1>5 DEF Transactions, SiteTypeOK
  <2> QED BY <1>5, <2>1 DEF LonelyChangesAreRecorded
<1> QED BY <1>1, <1>6, <1>7, <1>8, <1>9 DEF MissesOnlyCloseChanges

LEMMA RecordKeepsInv ==
  ASSUME SiteInv, NEW t \in Threads, ChangeAndRecord(t)
  PROVE  SiteInv'
<1> USE AgesAre DEF SiteInv
<1> DEFINE p == ProcessOf(t)
           timestamp == IF locked = t THEN tx[t].stamp ELSE finish
           waits == locked \notin {t, Nobody}
           own == [pc    |-> IF Due(timestamp, 0) /\ waits THEN "waiting" ELSE "open",
                   moved |-> tx[t].moved \/ (Due(timestamp, 0) /\ ~waits),
                   stamp |-> IF Due(timestamp, 0) THEN 0 ELSE tx[t].stamp,
                   close |-> tx[t].close \/ lastChange <= Cooldown]
<1>1. /\ tx[t].pc # "waiting" /\ tx' = Made(t, own) /\ lastChange' = 0
      /\ locked' = IF Due(timestamp, 0) /\ ~waits THEN t ELSE locked
      /\ known' = IF Due(timestamp, 0) /\ waits THEN known ELSE [known EXCEPT ![p] = 0]
      /\ UNCHANGED <<finish, informed, current, excused>>
  BY DEF ChangeAndRecord
<1>2. tx[t] \in Transactions /\ p \in Processes
  BY DEF SiteTypeOK, Processes
<1>3. own \in Transactions
  BY <1>2 DEF Transactions
<1>4. timestamp \in Nat /\ lastChange \in Nat /\ lastChange <= timestamp
  BY <1>2 DEF SiteTypeOK, NothingIsYounger, LockIsHeld, Transactions
<1>5. own.close = FALSE => tx[t].close = FALSE /\ lastChange > Cooldown /\ Due(timestamp, 0)
  <2>1. own.close = FALSE => tx[t].close = FALSE /\ lastChange > Cooldown
    <3>1. own.close = (tx[t].close \/ lastChange <= Cooldown)
      OBVIOUS
    <3>2. tx[t].close \in BOOLEAN
      BY <1>2 DEF Transactions
    <3> HIDE DEF own
    <3>3. CASE lastChange <= Cooldown
      <4>1. own.close = TRUE
        BY <3>1, <3>3, Zenon
      <4> QED BY <4>1
    <3>4. CASE ~(lastChange <= Cooldown)
      <4>1. own.close = tx[t].close
        BY <3>1, <3>2, <3>4, Zenon
      <4>2. lastChange > Cooldown
        BY <1>4, <3>4, SiteConfigurationAssumption
      <4> QED BY <4>1, <4>2
    <3> QED BY <3>3, <3>4
  <2> QED BY <1>4, <2>1, SiteConfigurationAssumption DEF Due
<1>6. waits => tx[t].moved = FALSE
  BY <1>2 DEF LockIsHeld, Transactions
<1>7. /\ own.pc = "open" \/ own.pc = "waiting"
      /\ own.pc = "waiting" => waits /\ own.moved = FALSE /\ own.stamp = 0 /\ Due(timestamp, 0)
      /\ own.pc = "open" /\ own.close = FALSE => own.moved = TRUE
      /\ own.moved = TRUE => own.pc = "open" /\ ~waits
      /\ own.stamp \in Nat
  BY <1>2, <1>5, <1>6 DEF Transactions
<1>8. own.moved = TRUE <=> locked' = t
  <2>1. CASE waits
    BY <1>1, <1>6, <1>7, <2>1 DEF LockIsHeld
  <2>2. CASE locked = t
    <3>1. tx[t].moved = TRUE /\ own.moved = TRUE
      BY <1>2, <2>2 DEF LockIsHeld
    <3> QED BY <1>1, <2>2, <3>1
  <2>3. CASE locked = Nobody
    <3>1. tx[t].moved = FALSE
      BY <1>2, <2>3, SiteConfigurationAssumption DEF LockIsHeld, Transactions
    <3> QED BY <1>1, <2>3, <3>1, SiteConfigurationAssumption
  <2> QED BY <2>1, <2>2, <2>3
<1>9. locked' \in Threads \cup {Nobody} /\ \A u \in Threads \ {t} : locked' = u <=> locked = u
  BY <1>1, SiteConfigurationAssumption DEF SiteTypeOK
<1>10. known' \in [Processes -> Ages] /\ \A q \in Processes : known'[q] = known[q] \/ known'[q] = 0
  BY <1>1, <1>2 DEF SiteTypeOK
<1> HIDE DEF own
<1>11. /\ tx' \in [Threads -> Transactions] /\ tx'[t] = own
       /\ \A u \in Threads \ {t} :
            /\ tx'[u].pc = tx[u].pc /\ tx'[u].moved = tx[u].moved /\ tx'[u].stamp = tx[u].stamp
            /\ tx[u].close = TRUE \/ tx[u].pc = "waiting" => tx'[u].close = TRUE
  BY <1>1, <1>3, MadeChanges
<1>12. SiteTypeOK'
  BY <1>1, <1>9, <1>10, <1>11 DEF SiteTypeOK
<1>13. NothingIsYounger'
  <2>1. \A u \in Threads : tx'[u].stamp \in Nat
    BY <1>11 DEF Transactions
  <2>2. finish \in Nat /\ \A q \in Processes : known'[q] \in Nat
    BY <1>10 DEF SiteTypeOK
  <2> QED BY <1>1, <2>1, <2>2 DEF NothingIsYounger
<1>14. LockIsHeld'
  BY <1>7, <1>8, <1>9, <1>11 DEF LockIsHeld
<1>15. LonelyChangesAreRecorded'
  <2> SUFFICES ASSUME NEW u \in Threads, tx'[u].close = FALSE
               PROVE  /\ tx'[u].pc = "open" => tx'[u].moved = TRUE
                      /\ tx'[u].pc = "waiting" =>
                           /\ tx'[u].stamp <= MaxWait
                           /\ finish' > tx'[u].stamp + Cooldown
                           /\ \A v \in Threads \ {u} :
                                tx'[v].moved = TRUE \/ tx'[v].pc = "waiting" =>
                                  tx'[v].stamp > tx'[u].stamp + Cooldown
    BY DEF LonelyChangesAreRecorded
  <2>1. CASE u # t
    <3>1. tx[u].pc # "waiting" /\ tx[u].close = FALSE
      BY <1>11, <2>1 DEF SiteTypeOK, Transactions
    <3> QED BY <1>11, <2>1, <3>1 DEF LonelyChangesAreRecorded
  <2>2. CASE u = t
    <3>1. lastChange > Cooldown /\ own.close = FALSE
      BY <1>5, <1>11, <2>2 DEF own
    <3>2. tx'[u].pc = "open" => tx'[u].moved = TRUE
      BY <1>7, <1>11, <2>2, <3>1
    <3>3. ASSUME tx'[u].pc = "waiting"
          PROVE  /\ tx'[u].stamp <= MaxWait
                 /\ finish' > tx'[u].stamp + Cooldown
                 /\ \A v \in Threads \ {u} :
                      tx'[v].moved = TRUE \/ tx'[v].pc = "waiting" =>
                        tx'[v].stamp > tx'[u].stamp + Cooldown
      <4>1. tx'[u].stamp = 0
        BY <1>7, <1>11, <2>2, <3>3
      <4>2. finish' > Cooldown
        BY <1>1, <1>4, <3>1, SiteConfigurationAssumption DEF SiteTypeOK, NothingIsYounger
      <4>3. ASSUME NEW v \in Threads \ {u}, tx'[v].moved = TRUE \/ tx'[v].pc = "waiting"
            PROVE  tx'[v].stamp > Cooldown
        <5>1. lastChange <= tx[v].stamp /\ tx'[v].stamp = tx[v].stamp
          BY <1>11, <2>2, <4>3 DEF NothingIsYounger
        <5>2. tx[v].stamp \in Nat
          BY DEF SiteTypeOK, Transactions
        <5> QED BY <1>4, <3>1, <5>1, <5>2, SiteConfigurationAssumption
      <4>4. tx'[u].stamp <= MaxWait /\ tx'[u].stamp + Cooldown = Cooldown
        BY <4>1, SiteConfigurationAssumption
      <4> QED BY <4>2, <4>3, <4>4
    <3> QED BY <3>2, <3>3
  <2> QED BY <2>1, <2>2
<1> QED BY <1>1, <1>12, <1>13, <1>14, <1>15 DEF MissesOnlyCloseChanges

\* Whoever waits, and whose change is not close to another, records it.
LEMMA UnblockKeepsInv ==
  ASSUME SiteInv, NEW t \in Threads, Unblock(t)
  PROVE  SiteInv'
<1> USE AgesAre DEF SiteInv
<1> DEFINE due == Due(finish, tx[t].stamp)
<1>1. /\ tx[t].pc = "waiting" /\ locked = Nobody
      /\ tx' = [tx EXCEPT ![t] = [@ EXCEPT !.pc = "open", !.moved = due]]
      /\ locked' = IF due THEN t ELSE Nobody
      /\ known' = [known EXCEPT ![ProcessOf(t)] = tx[t].stamp]
      /\ UNCHANGED <<finish, informed, current, lastChange, excused>>
  BY DEF Unblock, SiteTypeOK
<1>2. tx[t] \in Transactions /\ ProcessOf(t) \in Processes
  BY DEF SiteTypeOK, Processes
<1>3. due \in BOOLEAN
  BY <1>2 DEF Due
<1> HIDE DEF due
<1>4. /\ tx' \in [Threads -> Transactions]
      /\ tx'[t].pc = "open" /\ tx'[t].moved = due /\ tx'[t].stamp = tx[t].stamp /\ tx'[t].close = tx[t].close
      /\ \A u \in Threads \ {t} : tx'[u] = tx[u]
  <2>1. [tx[t] EXCEPT !.pc = "open", !.moved = due] \in Transactions
    BY <1>2, <1>3 DEF Transactions
  <2>2. tx'[t] = [tx[t] EXCEPT !.pc = "open", !.moved = due] /\ \A u \in Threads \ {t} : tx'[u] = tx[u]
    BY <1>1 DEF SiteTypeOK
  <2>3. tx' \in [Threads -> Transactions]
    BY <1>1, <2>1 DEF SiteTypeOK
  <2> QED BY <1>2, <2>2, <2>3 DEF Transactions
<1>5. \A u \in Threads : tx[u].moved = FALSE
  BY <1>1, SiteConfigurationAssumption DEF LockIsHeld, SiteTypeOK, Transactions
<1>6. SiteTypeOK'
  BY <1>1, <1>2, <1>4 DEF SiteTypeOK, Transactions
<1>7. NothingIsYounger'
  <2>1. lastChange <= tx[t].stamp
    BY <1>1 DEF NothingIsYounger
  <2>2. \A q \in Processes : lastChange <= known'[q]
    BY <1>1, <1>2, <2>1 DEF NothingIsYounger, SiteTypeOK
  <2> QED BY <1>1, <1>4, <2>1, <2>2 DEF NothingIsYounger
<1>8. LockIsHeld'
  BY <1>1, <1>3, <1>4, <1>5, SiteConfigurationAssumption DEF LockIsHeld
<1>9. LonelyChangesAreRecorded'
  <2>1. tx[t].close = FALSE => due
    BY <1>1, <1>2, SiteConfigurationAssumption DEF LonelyChangesAreRecorded, due, Due, SiteTypeOK, Transactions
  <2>2. \A u \in Threads \ {t} : tx'[u] = tx[u] /\ tx'[t].stamp = tx[t].stamp /\ tx[t].pc = "waiting"
    BY <1>1, <1>4
  <2> QED BY <1>1, <1>3, <1>4, <2>1, <2>2 DEF LonelyChangesAreRecorded
<1> QED BY <1>1, <1>6, <1>7, <1>8, <1>9 DEF MissesOnlyCloseChanges

\* A transaction that is over.
LEMMA OverKeepsInv ==
  ASSUME SiteInv, NEW t \in Threads, tx[t].pc = "open", tx' = [tx EXCEPT ![t] = NoChange],
         UNCHANGED <<known, lastChange>>,
         \/ finish' = finish /\ locked' = IF locked = t THEN Nobody ELSE locked
         \/ tx[t].moved = TRUE /\ finish' = tx[t].stamp /\ locked' = Nobody,
         informed' \subseteq Processes, MissesOnlyCloseChanges'
  PROVE  SiteInv'
<1> USE AgesAre DEF SiteInv
<1>1. NoChange \in Transactions
  BY DEF NoChange, Transactions
<1>2. /\ tx' \in [Threads -> Transactions] /\ tx'[t] = NoChange /\ \A u \in Threads \ {t} : tx'[u] = tx[u]
  BY <1>1 DEF SiteTypeOK
<1>3. NoChange.pc = "none" /\ NoChange.moved = FALSE
  BY DEF NoChange
<1>4. locked' = IF locked = t THEN Nobody ELSE locked
  BY DEF LockIsHeld
<1>5. tx[t] \in Transactions
  BY DEF SiteTypeOK
<1>6. SiteTypeOK'
  BY <1>2, <1>4, <1>5 DEF SiteTypeOK, Transactions
<1>7. NothingIsYounger'
  BY <1>2, <1>3 DEF NothingIsYounger
<1>8. LockIsHeld'
  BY <1>2, <1>3, <1>4, SiteConfigurationAssumption DEF LockIsHeld
<1>9. LonelyChangesAreRecorded'
  <2>1. \A u \in Threads : tx'[u].pc # "none" => u # t
    BY <1>2, <1>3
  <2>2. \A u \in Threads : tx'[u].moved = TRUE \/ tx'[u].pc = "waiting" => u # t
    BY <1>2, <1>3
  <2>3. \A u \in Threads : u # t /\ tx[u].pc = "waiting" /\ tx[u].close = FALSE => finish' > tx[u].stamp + Cooldown
    BY DEF LonelyChangesAreRecorded
  <2> QED BY <1>2, <2>1, <2>2, <2>3 DEF LonelyChangesAreRecorded
<1> QED BY <1>6, <1>7, <1>8, <1>9

LEMMA CheckKeepsInv ==
  ASSUME SiteInv, NEW p \in Processes, CheckSite(p)
  PROVE  SiteInv'
<1> USE DEF SiteInv
<1>1. /\ known' = [known EXCEPT ![p] = finish] /\ informed' = informed \cup {p}
      /\ current' = (IF p \in informed THEN current ELSE current \cup {p})
      /\ UNCHANGED <<finish, locked, tx, lastChange, excused>>
  BY DEF CheckSite
<1>2. SiteTypeOK' /\ NothingIsYounger'
  BY <1>1 DEF SiteTypeOK, NothingIsYounger
<1>3. MissesOnlyCloseChanges'
  BY <1>1 DEF MissesOnlyCloseChanges
<1> QED BY <1>1, <1>2, <1>3 DEF LockIsHeld, LonelyChangesAreRecorded

\* Time passes for everything that is remembered.
LEMMA TickKeepsInv ==
  ASSUME SiteInv, SiteTick
  PROVE  SiteInv'
<1> USE AgesAre DEF SiteInv
<1>1. /\ \A t \in Threads : tx[t].pc = "waiting" => tx[t].stamp < MaxWait
      /\ finish' = Later(finish) /\ lastChange' = Later(lastChange)
      /\ tx' = [t \in Threads |->
           IF tx[t].moved \/ tx[t].pc = "waiting" THEN [tx[t] EXCEPT !.stamp = Later(@)] ELSE tx[t]]
      /\ known' = [p \in Processes |-> Later(known[p])]
      /\ UNCHANGED <<locked, informed, current, excused>>
  BY DEF SiteTick
<1>2. ASSUME NEW t \in Threads
      PROVE  /\ tx'[t] \in Transactions /\ tx[t].stamp \in Ages
             /\ tx'[t].pc = tx[t].pc /\ tx'[t].moved = tx[t].moved /\ tx'[t].close = tx[t].close
             /\ tx[t].moved = TRUE \/ tx[t].pc = "waiting" => tx'[t].stamp = Later(tx[t].stamp)
  <2>1. tx[t] \in Transactions
    BY DEF SiteTypeOK
  <2>2. Later(tx[t].stamp) \in Ages
    BY <2>1 DEF Transactions
  <2>3. tx'[t] = IF tx[t].moved \/ tx[t].pc = "waiting" THEN [tx[t] EXCEPT !.stamp = Later(@)] ELSE tx[t]
    BY <1>1
  <2> QED BY <2>1, <2>2, <2>3 DEF Transactions
<1>3. SiteTypeOK'
  <2>1. tx' \in [Threads -> Transactions]
    BY <1>1, <1>2
  <2> QED BY <1>1, <2>1 DEF SiteTypeOK
<1>4. NothingIsYounger'
  <2>1. finish \in Ages /\ lastChange \in Ages /\ \A p \in Processes : known[p] \in Ages
    BY DEF SiteTypeOK
  <2> QED BY <1>1, <1>2, <2>1 DEF NothingIsYounger
<1>5. LockIsHeld'
  BY <1>1, <1>2 DEF LockIsHeld
<1>6. LonelyChangesAreRecorded'
  <2> SUFFICES ASSUME NEW u \in Threads, tx'[u].close = FALSE
               PROVE  /\ tx'[u].pc = "open" => tx'[u].moved = TRUE
                      /\ tx'[u].pc = "waiting" =>
                           /\ tx'[u].stamp <= MaxWait
                           /\ finish' > tx'[u].stamp + Cooldown
                           /\ \A v \in Threads \ {u} :
                                tx'[v].moved = TRUE \/ tx'[v].pc = "waiting" =>
                                  tx'[v].stamp > tx'[u].stamp + Cooldown
    BY DEF LonelyChangesAreRecorded
  <2>1. tx'[u].pc = "open" => tx'[u].moved = TRUE
    BY <1>2 DEF LonelyChangesAreRecorded
  <2>2. ASSUME tx'[u].pc = "waiting"
        PROVE  /\ tx'[u].stamp <= MaxWait
               /\ finish' > tx'[u].stamp + Cooldown
               /\ \A v \in Threads \ {u} :
                    tx'[v].moved = TRUE \/ tx'[v].pc = "waiting" =>
                      tx'[v].stamp > tx'[u].stamp + Cooldown
    <3>1. tx[u].pc = "waiting" /\ tx[u].close = FALSE /\ tx[u].stamp < MaxWait /\ tx[u].stamp \in Ages
          /\ tx'[u].stamp = Later(tx[u].stamp)
      BY <1>1, <1>2, <2>2
    <3>2. /\ finish > tx[u].stamp + Cooldown /\ finish \in Ages
          /\ \A v \in Threads \ {u} :
               tx[v].moved = TRUE \/ tx[v].pc = "waiting" => tx[v].stamp > tx[u].stamp + Cooldown
      BY <3>1 DEF LonelyChangesAreRecorded, SiteTypeOK
    <3>3. tx'[u].stamp = tx[u].stamp + 1 /\ finish' > tx'[u].stamp + Cooldown
      BY <1>1, <3>1, <3>2
    <3>4. ASSUME NEW v \in Threads \ {u}, tx'[v].moved = TRUE \/ tx'[v].pc = "waiting"
          PROVE  tx'[v].stamp > tx'[u].stamp + Cooldown
      <4>1. tx[v].stamp > tx[u].stamp + Cooldown /\ tx[v].stamp \in Ages /\ tx'[v].stamp = Later(tx[v].stamp)
        BY <1>2, <3>2, <3>4
      <4> QED BY <3>1, <3>3, <4>1
    <3>5. tx'[u].stamp <= MaxWait
      BY <3>1, <3>3, SiteConfigurationAssumption
    <3> QED BY <3>3, <3>4, <3>5
  <2> QED BY <2>1, <2>2
<1> QED BY <1>1, <1>3, <1>4, <1>5, <1>6 DEF MissesOnlyCloseChanges

LEMMA SiteInvIsInductive ==
  /\ SiteInit => SiteInv
  /\ SiteInv /\ [SiteNext]_siteVars => SiteInv'
<1>1. ASSUME SiteInit PROVE SiteInv
  <2> USE <1>1, AgesAre, SiteConfigurationAssumption DEF SiteInit, NoChange
  <2>1. LongAgo \in Ages /\ NoChange \in Transactions
    BY DEF Ages, Transactions
  <2>2. SiteTypeOK
    BY <2>1 DEF SiteTypeOK
  <2>3. NothingIsYounger /\ LockIsHeld /\ LonelyChangesAreRecorded /\ MissesOnlyCloseChanges
    BY <2>1 DEF NothingIsYounger, LockIsHeld, LonelyChangesAreRecorded, MissesOnlyCloseChanges
  <2> QED BY <2>2, <2>3 DEF SiteInv
<1>2. ASSUME SiteInv, [SiteNext]_siteVars PROVE SiteInv'
  <2>1. ASSUME NEW t \in Threads, ChangeQuietly(t) \/ ChangeAndRecord(t) \/ Unblock(t) PROVE SiteInv'
    BY <1>2, <2>1, QuietKeepsInv, RecordKeepsInv, UnblockKeepsInv
  <2>2. ASSUME NEW t \in Threads, CommitChange(t) PROVE SiteInv'
    <3>1. tx[t].pc = "open" /\ tx' = [tx EXCEPT ![t] = NoChange] /\ current' = {} /\ UNCHANGED <<known, lastChange>>
      BY <2>2 DEF CommitChange
    <3>2. CASE tx[t].moved = TRUE
      <4>1. finish' = tx[t].stamp /\ locked' = Nobody /\ informed' = {} /\ excused' = {}
        BY <2>2, <3>2 DEF CommitChange
      <4> QED BY <1>2, <3>1, <3>2, <4>1, OverKeepsInv DEF MissesOnlyCloseChanges
    <3>3. CASE tx[t].moved = FALSE
      <4>1. tx[t].close = TRUE /\ locked # t
        BY <1>2, <3>1, <3>3 DEF SiteInv, SiteTypeOK, Transactions, LonelyChangesAreRecorded, LockIsHeld
      <4>2. excused' = excused \cup informed /\ UNCHANGED <<finish, locked, informed>>
        BY <2>2, <3>3, <4>1 DEF CommitChange
      <4>3. MissesOnlyCloseChanges'
        BY <4>2 DEF MissesOnlyCloseChanges
      <4> QED BY <1>2, <3>1, <4>1, <4>2, <4>3, OverKeepsInv DEF SiteInv, SiteTypeOK
    <3> QED BY <1>2, <3>2, <3>3 DEF SiteInv, SiteTypeOK, Transactions
  <2>3. ASSUME NEW t \in Threads, RollBackChange(t) PROVE SiteInv'
    <3>1. /\ tx[t].pc = "open" /\ tx' = [tx EXCEPT ![t] = NoChange]
          /\ locked' = (IF locked = t THEN Nobody ELSE locked)
          /\ UNCHANGED <<finish, known, informed, current, lastChange, excused>>
      BY <2>3 DEF RollBackChange
    <3>2. MissesOnlyCloseChanges'
      BY <1>2, <3>1 DEF SiteInv, MissesOnlyCloseChanges
    <3> QED BY <1>2, <3>1, <3>2, OverKeepsInv DEF SiteInv, SiteTypeOK
  <2>4. ASSUME NEW p \in Processes, CheckSite(p) PROVE SiteInv'
    BY <1>2, <2>4, CheckKeepsInv
  <2>5. CASE SiteTick
    BY <1>2, <2>5, TickKeepsInv
  <2>6. CASE UNCHANGED siteVars
    BY <1>2, <2>6 DEF siteVars, SiteInv, SiteTypeOK, NothingIsYounger, LockIsHeld, LonelyChangesAreRecorded,
                      MissesOnlyCloseChanges
  <2> QED BY <1>2, <2>1, <2>2, <2>3, <2>4, <2>5, <2>6 DEF SiteNext
<1> QED BY <1>1, <1>2

\* site_configuration_has_changed with its cooldown, its lock and its UPDATE: however the
\* threads of any number of processes change the configuration, wait for each other, commit
\* and roll back, a process that checks the timestamp misses a change only if it was made
\* close to another.
THEOREM CooldownIsTheOnlyLoss == SiteSpec => []MissesOnlyCloseChanges
<1>1. SiteInv => MissesOnlyCloseChanges
  BY DEF SiteInv
<1> QED BY <1>1, SiteInvIsInductive, PTL DEF SiteSpec

-----------------------------------------------------------------------------
(***************************************************************************)
(* The line for a title.                                                   *)
(***************************************************************************)
Period == ReservationTime + LoanTime

\* The latest time at which a copy is given back.
BackAt(c) == IF copy[c].use = "lent" THEN copy[c].until ELSE copy[c].until + LoanTime

\* The times a copy is given back before the promise is due, if everybody takes all the
\* time there is: the one that uses it, and everybody after them.
Returns == {s \in (DOMAIN copy) \X (0 .. promise) : BackAt(s[1]) + s[2] * Period <= promise}

HoldTypeOK ==
  /\ minute \in Nat /\ behind \in Nat /\ counted \in Nat
  /\ ahead \in Nat \cup {Unknown}
  /\ promise \in Nat \cup {Unknown}
  /\ hold # Unknown => hold.position \in Nat \cup {Unknown}
  /\ IsFiniteSet(DOMAIN copy)
  /\ copy \in [DOMAIN copy -> [use : {"free", "lent", "ours", "theirs"}, until : Nat]]

\* Nothing is used longer than it may be.
UsesEnd ==
  \A c \in DOMAIN copy :
    /\ copy[c].use # "free" => copy[c].until >= minute
    /\ copy[c].use = "lent" => copy[c].until <= minute + LoanTime
    /\ copy[c].use \in {"ours", "theirs"} => copy[c].until <= minute + ReservationTime

\* While our patron waits, copies are in use, and what has been said of their place, if
\* anything has, is an old truth.
PatronWaits ==
  IF Waiting
  THEN /\ \A c \in DOMAIN copy : copy[c].use \in {"lent", "theirs"}
       /\ hold.position \in Nat \cup {Unknown}
       /\ placeKnown => Place > ahead
  ELSE promise = Unknown

\* Copies will come back often enough before the promise is due.
PromiseIsKept == promise # Unknown => Cardinality(Returns) > ahead

HoldInv == HoldTypeOK /\ UsesEnd /\ PatronWaits /\ PromiseIsKept

-----------------------------------------------------------------------------
LEMMA PeriodIs == Period \in Nat \ {0} /\ LoanTime \in Nat /\ ReservationTime \in Nat
BY HoldQueueAssumption DEF Period

LEMMA Multiples ==
  ASSUME NEW j \in Nat, NEW k \in Nat, NEW p \in Nat \ {0}
  PROVE  /\ j * p \in Nat /\ j <= j * p
         /\ (j + 1) * p = j * p + p
         /\ j > 0 => (j - 1) * p = j * p - p
         /\ j < k => (j + 1) * p <= k * p
BY Z3

LEMMA CyclesCover ==
  ASSUME NEW position \in Nat \ {0}, NEW total \in Nat \ {0}
  PROVE  Cycles(position, total) \in Nat \ {0} /\ total * Cycles(position, total) >= position
<1> DEFINE q == position \div total
           r == position % total
<1>1. q \in Nat /\ r \in 0 .. total - 1 /\ position = total * q + r
  BY Z3
<1> HIDE DEF q, r
<1>2. CASE position <= total
  BY <1>2 DEF Cycles
<1>3. CASE position > total /\ total > 1 /\ r = 0
  <2>1. Cycles(position, total) = q
    BY <1>1, <1>3 DEF Cycles, q, r
  <2>2. q # 0
    BY <1>1, <1>3
  <2> QED BY <1>1, <1>3, <2>1, <2>2
<1>4. CASE position > total /\ ~(total > 1 /\ r = 0)
  <2>1. Cycles(position, total) = q + 1
    BY <1>1, <1>4 DEF Cycles, q, r
  <2>2. total * (q + 1) = total * q + total
    BY <1>1
  <2> QED BY <1>1, <2>1, <2>2
<1> QED BY <1>2, <1>3, <1>4

LEMMA FinitelyManyUpTo == \A n \in Nat : IsFiniteSet(0 .. n)
<1>1. SUFFICES ASSUME NEW n \in Nat PROVE IsFiniteSet(0 .. n)
  OBVIOUS
<1>2. 0 \in Int /\ n \in Int
  OBVIOUS
<1> QED BY <1>2, FS_Interval

LEMMA ReturnsAreFinite ==
  ASSUME HoldTypeOK, promise \in Nat
  PROVE  IsFiniteSet(Returns) /\ Cardinality(Returns) \in Nat
<1>1. IsFiniteSet(0 .. promise)
  BY FinitelyManyUpTo
<1>2. IsFiniteSet((DOMAIN copy) \X (0 .. promise))
  BY <1>1, FS_Product DEF HoldTypeOK
<1>3. Returns \in SUBSET ((DOMAIN copy) \X (0 .. promise))
  BY DEF Returns
<1>4. IsFiniteSet(Returns)
  BY <1>2, <1>3, FS_Subset
<1> QED BY <1>4, FS_CardinalityType

LEMMA BacksAre ==
  ASSUME HoldTypeOK, NEW c \in DOMAIN copy
  PROVE  /\ copy[c].use \in {"free", "lent", "ours", "theirs"} /\ copy[c].until \in Nat
         /\ BackAt(c) \in Nat /\ BackAt(c) >= copy[c].until
BY PeriodIs DEF HoldTypeOK, BackAt

\* The copies come back as often as before.
LEMMA NoReturnIsLost ==
  ASSUME HoldTypeOK, HoldTypeOK', promise \in Nat, promise' = promise,
         DOMAIN copy' = DOMAIN copy,
         \A c \in DOMAIN copy : BackAt(c)' <= BackAt(c)
  PROVE  Cardinality(Returns') >= Cardinality(Returns)
<1>1. \A c \in DOMAIN copy : BackAt(c)' \in Nat /\ BackAt(c) \in Nat
  <2>1. \A c \in DOMAIN copy : BackAt(c) \in Nat
    BY BacksAre
  <2>2. \A c \in DOMAIN copy : BackAt(c)' \in Nat
    BY PeriodIs DEF HoldTypeOK, BackAt
  <2> QED BY <2>1, <2>2
<1>2. ASSUME NEW s \in Returns PROVE s \in Returns'
  <2>1. s[1] \in DOMAIN copy /\ s[2] \in Nat /\ s \in (DOMAIN copy) \X (0 .. promise)
    BY DEF Returns
  <2>2. s[2] * Period \in Nat
    BY <2>1, PeriodIs, Multiples
  <2> QED BY <1>1, <2>1, <2>2 DEF Returns
<1>3. IsFiniteSet(Returns') /\ Cardinality(Returns') \in Nat
  <2>1. IsFiniteSet(0 .. promise')
    <3>1. IsFiniteSet(0 .. promise)
      BY FinitelyManyUpTo
    <3> QED BY <3>1
  <2>2. IsFiniteSet((DOMAIN copy') \X (0 .. promise'))
    BY <2>1, FS_Product DEF HoldTypeOK
  <2>3. Returns' \in SUBSET ((DOMAIN copy') \X (0 .. promise'))
    BY DEF Returns
  <2>4. IsFiniteSet(Returns')
    BY <2>2, <2>3, FS_Subset
  <2> QED BY <2>4, FS_CardinalityType
<1>4. Returns \in SUBSET Returns'
  BY <1>2
<1>5. Cardinality(Returns) <= Cardinality(Returns')
  BY <1>3, <1>4, FS_Subset
<1>6. Cardinality(Returns) \in Nat
  BY ReturnsAreFinite
<1> QED BY <1>3, <1>5, <1>6

\* A copy that comes back and goes out again comes back once less.
LEMMA OneReturnIsUsed ==
  ASSUME HoldTypeOK, HoldTypeOK', promise \in Nat, promise' = promise,
         DOMAIN copy' = DOMAIN copy, NEW c \in DOMAIN copy,
         BackAt(c)' <= BackAt(c) + Period,
         \A d \in DOMAIN copy \ {c} : BackAt(d)' = BackAt(d)
  PROVE  Cardinality(Returns') >= Cardinality(Returns) - 1
<1> DEFINE first == <<c, 0>>
           rest == Returns \ {first}
           shift == [s \in rest |-> <<s[1], IF s[1] = c THEN s[2] - 1 ELSE s[2]>>]
<1>1. \A d \in DOMAIN copy : BackAt(d)' \in Nat /\ BackAt(d) \in Nat
  <2>1. \A d \in DOMAIN copy : BackAt(d) \in Nat
    BY BacksAre
  <2>2. \A d \in DOMAIN copy : BackAt(d)' \in Nat
    BY PeriodIs DEF HoldTypeOK, BackAt
  <2> QED BY <2>1, <2>2
<1>2. IsFiniteSet(Returns') /\ Cardinality(Returns') \in Nat
  <2>1. IsFiniteSet(0 .. promise')
    <3>1. IsFiniteSet(0 .. promise)
      BY FinitelyManyUpTo
    <3> QED BY <3>1
  <2>2. IsFiniteSet((DOMAIN copy') \X (0 .. promise'))
    BY <2>1, FS_Product DEF HoldTypeOK
  <2>3. Returns' \in SUBSET ((DOMAIN copy') \X (0 .. promise'))
    BY DEF Returns
  <2>4. IsFiniteSet(Returns')
    BY <2>2, <2>3, FS_Subset
  <2> QED BY <2>4, FS_CardinalityType
<1>3. ASSUME NEW s \in rest PROVE shift[s] \in Returns'
  <2>1. PICK d \in DOMAIN copy, j \in 0 .. promise : s = <<d, j>> /\ BackAt(d) + j * Period <= promise
    BY DEF Returns
  <2>2. j \in Nat /\ j * Period \in Nat
    BY <2>1, PeriodIs, Multiples
  <2>3. CASE d # c
    <3>1. shift[s] = <<d, j>>
      BY <2>1, <2>3
    <3>2. <<d, j>> \in Returns'
      BY <2>1, <2>3 DEF Returns
    <3> QED BY <3>1, <3>2
  <2>4. CASE d = c
    <3>1. j > 0
      BY <2>1, <2>2, <2>4
    <3>2. shift[s] = <<d, j - 1>>
      BY <2>1, <2>4
    <3>3. (j - 1) * Period = j * Period - Period
      BY <2>2, <3>1, PeriodIs, Multiples
    <3>4. BackAt(d)' + (j - 1) * Period <= promise'
      BY <1>1, <2>1, <2>2, <2>4, <3>3, PeriodIs
    <3>5. j - 1 \in 0 .. promise'
      BY <2>2, <3>1
    <3>6. <<d, j - 1>> \in Returns'
      BY <3>4, <3>5 DEF Returns
    <3> QED BY <3>2, <3>6
  <2> QED BY <2>3, <2>4
<1>4. ASSUME NEW s \in rest, NEW u \in rest, shift[s] = shift[u] PROVE s = u
  <2>1. PICK d \in DOMAIN copy, j \in 0 .. promise : s = <<d, j>>
    BY DEF Returns
  <2>2. PICK e \in DOMAIN copy, k \in 0 .. promise : u = <<e, k>>
    BY DEF Returns
  <2>3. shift[s] = <<d, IF d = c THEN j - 1 ELSE j>> /\ shift[u] = <<e, IF e = c THEN k - 1 ELSE k>>
    BY <2>1, <2>2
  <2>4. d = e /\ j = k
    BY <1>4, <2>3
  <2> QED BY <2>1, <2>2, <2>4
<1>5. shift \in Injection(rest, Returns')
  <2>1. shift \in [rest -> Returns']
    BY <1>3
  <2> HIDE DEF shift
  <2> QED BY <1>4, <2>1 DEF Injection, IsInjective
<1> HIDE DEF shift
<1>6. Cardinality(rest) <= Cardinality(Returns')
  BY <1>2, <1>5, FS_Injection
<1>7. IsFiniteSet(Returns) /\ Cardinality(Returns) \in Nat
  BY ReturnsAreFinite
<1>8. Cardinality(rest) >= Cardinality(Returns) - 1 /\ Cardinality(rest) \in Nat
  <2>1. Cardinality(rest) = IF first \in Returns THEN Cardinality(Returns) - 1 ELSE Cardinality(Returns)
    BY <1>7, FS_RemoveElement
  <2>2. IsFiniteSet(rest)
    BY <1>7, FS_RemoveElement
  <2>3. Cardinality(rest) \in Nat
    BY <2>2, FS_CardinalityType
  <2> QED BY <1>7, <2>1, <2>3
<1> QED BY <1>2, <1>6, <1>7, <1>8

-----------------------------------------------------------------------------
LEMMA PassOnKeepsInv ==
  ASSUME HoldInv, NEW c \in DOMAIN copy, PassOn(c), UNCHANGED <<counted, hold, minute>>,
         copy[c].use = "lent" \/ (copy[c].use \in {"ours", "theirs"} /\ copy[c].until = minute)
  PROVE  HoldInv'
<1> USE PeriodIs DEF HoldInv
<1>1. /\ copy[c].use # "free" /\ copy[c].until \in Nat /\ copy[c].until >= minute /\ minute \in Nat
  BY DEF HoldTypeOK, UsesEnd
<1>2. CASE Waiting /\ ahead = 0
  <2>1. /\ copy' = [copy EXCEPT ![c] = [use |-> "ours", until |-> minute + ReservationTime]]
        /\ ahead' = Unknown /\ promise' = Unknown /\ placeKnown' = FALSE /\ UNCHANGED behind
    BY <1>2 DEF PassOn
  <2>2. HoldTypeOK'
    BY <1>1, <2>1 DEF HoldTypeOK
  <2>3. UsesEnd'
    BY <1>1, <2>1 DEF UsesEnd
  <2> QED BY <2>1, <2>2, <2>3 DEF PatronWaits, PromiseIsKept, Waiting
<1>3. CASE ~(Waiting /\ ahead = 0) /\ Queue = 0
  <2>1. /\ copy' = [copy EXCEPT ![c] = [use |-> "free", until |-> minute]]
        /\ UNCHANGED <<ahead, behind, placeKnown, promise>>
    BY <1>3 DEF PassOn
  <2>2. ~Waiting
    BY <1>3 DEF Queue, HoldTypeOK, Waiting
  <2>3. HoldTypeOK'
    BY <1>1, <2>1 DEF HoldTypeOK
  <2>4. UsesEnd'
    BY <1>1, <2>1 DEF UsesEnd
  <2> QED BY <2>1, <2>2, <2>3, <2>4 DEF PatronWaits, PromiseIsKept, Waiting
<1>4. CASE ~(Waiting /\ ahead = 0) /\ Queue # 0
  <2>1. /\ copy' = [copy EXCEPT ![c] = [use |-> "theirs", until |-> minute + ReservationTime]]
        /\ IF Waiting THEN ahead' = ahead - 1 /\ UNCHANGED behind
                      ELSE behind' = behind - 1 /\ UNCHANGED ahead
        /\ UNCHANGED <<placeKnown, promise>>
    BY <1>4 DEF PassOn
  <2>2. ahead' \in Nat \cup {Unknown} /\ behind' \in Nat /\ Waiting' = Waiting
    <3>1. CASE Waiting
      BY <1>4, <2>1, <3>1, HoldQueueAssumption DEF HoldTypeOK, Waiting
    <3>2. CASE ~Waiting
      BY <1>4, <2>1, <3>2 DEF HoldTypeOK, Waiting, Queue
    <3> QED BY <3>1, <3>2
  <2>3. HoldTypeOK'
    BY <1>1, <2>1, <2>2 DEF HoldTypeOK
  <2>4. UsesEnd'
    BY <1>1, <2>1 DEF UsesEnd
  <2>5. PatronWaits'
    <3>1. CASE Waiting
      BY <1>4, <2>1, <2>2, <3>1 DEF PatronWaits, HoldTypeOK, Waiting, Place
    <3>2. CASE ~Waiting
      BY <2>1, <2>2, <3>2 DEF PatronWaits, Waiting
    <3> QED BY <3>1, <3>2
  <2>6. PromiseIsKept'
    <3> SUFFICES ASSUME promise # Unknown PROVE Cardinality(Returns') > ahead'
      BY <2>1 DEF PromiseIsKept
    <3>1. Waiting /\ promise \in Nat /\ ahead \in Nat /\ ahead' = ahead - 1
      BY <2>1 DEF PatronWaits, HoldTypeOK, Waiting
    <3>2. DOMAIN copy' = DOMAIN copy /\ copy'[c].use = "theirs" /\ copy'[c].until = minute + ReservationTime
          /\ \A d \in DOMAIN copy \ {c} : copy'[d] = copy[d]
      BY <2>1
    <3>3. BackAt(c)' = minute + ReservationTime + LoanTime
      BY <3>2 DEF BackAt
    <3>4. BackAt(c)' <= BackAt(c) + Period
      <4>1. BackAt(c) >= copy[c].until /\ BackAt(c) \in Nat
        BY BacksAre
      <4> QED BY <1>1, <3>3, <4>1 DEF Period
    <3>5. \A d \in DOMAIN copy \ {c} : BackAt(d)' = BackAt(d)
      BY <3>2 DEF BackAt
    <3>6. Cardinality(Returns') >= Cardinality(Returns) - 1
      BY <2>1, <2>3, <3>1, <3>2, <3>4, <3>5, OneReturnIsUsed
    <3>7. Cardinality(Returns) \in Nat /\ Cardinality(Returns) > ahead
      BY <3>1, ReturnsAreFinite DEF PromiseIsKept
    <3>8. Cardinality(Returns') \in Nat
      <4>1. IsFiniteSet(0 .. promise')
        <5>1. IsFiniteSet(0 .. promise)
          BY <3>1, FinitelyManyUpTo
        <5> QED BY <2>1, <5>1
      <4>2. IsFiniteSet((DOMAIN copy') \X (0 .. promise'))
        BY <2>3, <4>1, FS_Product DEF HoldTypeOK
      <4>3. Returns' \in SUBSET ((DOMAIN copy') \X (0 .. promise'))
        BY DEF Returns
      <4> QED BY <4>2, <4>3, FS_Subset, FS_CardinalityType
    <3> QED BY <3>1, <3>6, <3>7, <3>8
  <2> QED BY <2>3, <2>4, <2>5, <2>6
<1> QED BY <1>2, <1>3, <1>4

\* What the patron is told leaves every copy the time to come back often enough.
LEMMA TellKeepsInv ==
  ASSUME HoldInv, TellPatron
  PROVE  HoldInv'
<1> USE PeriodIs DEF HoldInv
<1> DEFINE position == Place
           cycles == Cycles(position, Owned)
<1>1. /\ hold # Unknown /\ Waiting /\ Until # Unknown /\ promise' = Until /\ FromTheirPlace
      /\ UNCHANGED <<copy, ahead, behind, counted, hold, placeKnown, minute>>
  BY DEF TellPatron
<1>2. ahead \in Nat /\ minute \in Nat /\ behind \in Nat
  BY <1>1 DEF PatronWaits, HoldTypeOK, Waiting
<1>3. Until = CalculateUntil(position, Owned)
  BY <1>1 DEF Until, FromTheirPlace
<1>4. position \in Nat \ {0} /\ position > ahead
  BY <1>1, <1>2 DEF Place, FromTheirPlace, HoldTypeOK
<1>5. Owned \in Nat
  BY FS_CardinalityType DEF Owned, HoldTypeOK
<1> HIDE DEF position
<1>6. Owned # 0 /\ Until = minute + (ReservationTime + LoanTime) * cycles
  BY <1>1, <1>3, <1>4, <1>5 DEF CalculateUntil
<1>7. cycles \in Nat \ {0} /\ Owned * cycles >= position
  BY <1>4, <1>5, <1>6, CyclesCover
<1> HIDE DEF cycles
<1>8. promise' = minute + cycles * Period
  <2>1. (ReservationTime + LoanTime) * cycles = cycles * Period
    BY <1>7, Z3 DEF Period
  <2> QED BY <1>1, <1>6, <2>1
<1>9. cycles * Period \in Nat /\ cycles <= cycles * Period
  BY <1>7, Multiples
<1>10. promise' \in Nat
  BY <1>2, <1>8, <1>9
<1>11. HoldTypeOK'
  BY <1>1, <1>10 DEF HoldTypeOK
<1>12. \A c \in DOMAIN copy : BackAt(c)' = BackAt(c) /\ BackAt(c) \in Nat /\ BackAt(c) <= minute + Period
  <2>1. \A c \in DOMAIN copy : copy[c].use \in {"lent", "theirs"}
    BY <1>1 DEF PatronWaits
  <2> QED BY <1>1, <1>2, <2>1, BacksAre DEF UsesEnd, BackAt, Period
<1>13. (DOMAIN copy) \X (0 .. cycles - 1) \subseteq Returns'
  <2> SUFFICES ASSUME NEW c \in DOMAIN copy, NEW j \in 0 .. cycles - 1
               PROVE  <<c, j>> \in Returns'
    OBVIOUS
  <2>1. j \in Nat /\ j < cycles
    BY <1>7
  <2>2. j * Period \in Nat /\ (j + 1) * Period = j * Period + Period /\ (j + 1) * Period <= cycles * Period
    BY <1>7, <2>1, Multiples
  <2>3. BackAt(c)' + j * Period <= promise'
    BY <1>2, <1>8, <1>9, <1>12, <2>2
  <2>4. j \in 0 .. promise'
    BY <1>2, <1>7, <1>8, <1>9, <1>10, <2>1
  <2> QED BY <1>1, <2>3, <2>4 DEF Returns
<1>14. Cardinality(Returns') >= Owned * cycles
  <2>1. IsFiniteSet(0 .. cycles - 1) /\ Cardinality(0 .. cycles - 1) = cycles
    BY <1>7, FS_Interval
  <2>2. Cardinality((DOMAIN copy) \X (0 .. cycles - 1)) = Owned * cycles
    BY <2>1, FS_Product DEF HoldTypeOK, Owned
  <2>3. IsFiniteSet(Returns')
    <3>1. IsFiniteSet(0 .. promise')
      BY <1>10, FinitelyManyUpTo
    <3>2. IsFiniteSet((DOMAIN copy') \X (0 .. promise'))
      BY <1>11, <3>1, FS_Product DEF HoldTypeOK
    <3>3. Returns' \in SUBSET ((DOMAIN copy') \X (0 .. promise'))
      BY DEF Returns
    <3> QED BY <3>2, <3>3, FS_Subset
  <2>4. Cardinality((DOMAIN copy) \X (0 .. cycles - 1)) <= Cardinality(Returns')
    BY <1>13, <2>3, FS_Subset
  <2>5. Cardinality(Returns') \in Nat /\ Owned * cycles \in Nat
    BY <1>5, <1>7, <2>3, FS_CardinalityType, Z3
  <2> QED BY <2>2, <2>4, <2>5
<1>15. Cardinality(Returns') > ahead
  <2>1. Cardinality(Returns') \in Int
    <3>1. IsFiniteSet(0 .. promise')
      BY <1>10, FinitelyManyUpTo
    <3>2. IsFiniteSet((DOMAIN copy') \X (0 .. promise'))
      BY <1>11, <3>1, FS_Product DEF HoldTypeOK
    <3>3. Returns' \in SUBSET ((DOMAIN copy') \X (0 .. promise'))
      BY DEF Returns
    <3> QED BY <3>2, <3>3, FS_Subset, FS_CardinalityType
  <2> QED BY <1>2, <1>4, <1>5, <1>7, <1>14, <2>1
<1> QED BY <1>1, <1>11, <1>15 DEF UsesEnd, PatronWaits, PromiseIsKept, Waiting, Place

\* A reservation is used, and the book comes back no later than it might have.
LEMMA BorrowKeepsInv ==
  ASSUME HoldInv, NEW c \in DOMAIN copy, Borrow(c)
  PROVE  HoldInv'
<1> USE PeriodIs DEF HoldInv
<1>1. /\ copy[c].use \in {"free", "ours", "theirs"}
      /\ copy' = [copy EXCEPT ![c] = [use |-> "lent", until |-> minute + LoanTime]]
      /\ IF copy[c].use = "ours" THEN hold' \in {hold, Unknown} ELSE UNCHANGED hold
      /\ UNCHANGED <<ahead, behind, counted, placeKnown, promise, minute>>
  BY DEF Borrow, Lent
<1>2. minute \in Nat /\ copy[c].until \in Nat
  BY DEF HoldTypeOK
<1>3. HoldTypeOK'
  BY <1>1, <1>2 DEF HoldTypeOK
<1>4. UsesEnd'
  BY <1>1, <1>2 DEF UsesEnd
<1>5. PatronWaits'
  BY <1>1 DEF PatronWaits, Waiting, Place
<1>6. PromiseIsKept'
  <2> SUFFICES ASSUME promise # Unknown PROVE Cardinality(Returns') > ahead
    BY <1>1 DEF PromiseIsKept
  <2>1. Waiting /\ promise \in Nat /\ ahead \in Nat /\ copy[c].use = "theirs"
    BY <1>1 DEF PatronWaits, HoldTypeOK, Waiting
  <2>2. BackAt(c)' = minute + LoanTime /\ BackAt(c) = copy[c].until + LoanTime /\ copy[c].until >= minute
    BY <1>1, <2>1 DEF BackAt, UsesEnd
  <2>3. \A d \in DOMAIN copy : BackAt(d)' <= BackAt(d)
    <3>1. \A d \in DOMAIN copy : BackAt(d) \in Nat
      BY BacksAre
    <3>2. \A d \in DOMAIN copy \ {c} : BackAt(d)' = BackAt(d)
      BY <1>1 DEF BackAt
    <3> QED BY <1>2, <2>2, <3>1, <3>2
  <2>4. Cardinality(Returns') >= Cardinality(Returns)
    BY <1>1, <1>3, <2>1, <2>3, NoReturnIsLost
  <2>5. Cardinality(Returns) \in Nat /\ Cardinality(Returns) > ahead
    BY <2>1, ReturnsAreFinite DEF PromiseIsKept
  <2>6. Cardinality(Returns') \in Int
    <3>1. IsFiniteSet(0 .. promise)
      BY <2>1, FinitelyManyUpTo
    <3>2. IsFiniteSet((DOMAIN copy') \X (0 .. promise'))
      BY <1>1, <1>3, <3>1, FS_Product DEF HoldTypeOK
    <3>3. Returns' \in SUBSET ((DOMAIN copy') \X (0 .. promise'))
      BY DEF Returns
    <3> QED BY <3>2, <3>3, FS_Subset, FS_CardinalityType
  <2> QED BY <2>1, <2>4, <2>5, <2>6
<1> QED BY <1>3, <1>4, <1>5, <1>6

\* What does not touch the copies nor the promise.
LEMMA QueueKeepsInv ==
  ASSUME HoldInv, PlaceHold \/ Recount \/ Join \/ SyncHold
  PROVE  HoldInv'
<1> USE DEF HoldInv
<1>1. CASE PlaceHold
  <2> DEFINE row == IF hold = Unknown THEN [position |-> Unknown, end |-> Unknown] ELSE hold
  <2>1. /\ ~Waiting /\ \A c \in DOMAIN copy : copy[c].use \notin {"free", "ours"}
        /\ ahead' = behind /\ behind' = 0 /\ UNCHANGED <<copy, counted, promise, minute>>
        /\ \E position \in {Unknown, behind + 1} :
             /\ hold' = UpdatedHold(row, Unknown, position)
             /\ placeKnown' = (position # Unknown)
    BY <1>1 DEF PlaceHold
  <2>2. PICK position \in {Unknown, behind + 1} :
          /\ hold' = [position |-> IF position = Unknown THEN row.position ELSE position, end |-> row.end]
          /\ placeKnown' = (position # Unknown)
    BY <2>1 DEF UpdatedHold
  <2>3. row.position \in Nat \cup {Unknown} /\ behind \in Nat
    BY DEF HoldTypeOK
  <2> HIDE DEF row
  <2>4. hold'.position = IF position = Unknown THEN row.position ELSE position
    BY <2>2
  <2>5. hold'.position \in Nat \cup {Unknown} /\ (position # Unknown => hold'.position = behind + 1)
    BY <2>3, <2>4
  <2>6. HoldTypeOK' /\ UsesEnd' /\ promise' = Unknown
    BY <2>1, <2>2, <2>5 DEF HoldTypeOK, UsesEnd, PatronWaits
  <2>7. \A c \in DOMAIN copy : copy[c].use \in {"lent", "theirs"}
    BY <2>1 DEF HoldTypeOK
  <2>8. ASSUME placeKnown' PROVE Place' > ahead'
    <3>1. position # Unknown
      BY <2>2, <2>8
    <3> QED BY <2>1, <2>3, <2>5, <3>1, HoldQueueAssumption DEF Place
  <2> QED BY <2>1, <2>5, <2>6, <2>7, <2>8 DEF PatronWaits, PromiseIsKept
<1>2. CASE Join
  <2>1. behind' = behind + 1 /\ UNCHANGED <<copy, ahead, counted, hold, placeKnown, promise, minute>>
    BY <1>2 DEF Join
  <2> QED BY <2>1 DEF HoldTypeOK, UsesEnd, PatronWaits, PromiseIsKept, Waiting, Returns, BackAt, Place
<1>3. CASE Recount
  <2>1. /\ counted' = Queue /\ placeKnown' = (placeKnown \/ (Waiting /\ hold.position = Unknown))
        /\ UNCHANGED <<copy, ahead, behind, hold, promise, minute>>
    BY <1>3 DEF Recount
  <2>2. Queue \in Nat /\ (Waiting => Queue > ahead)
    BY DEF Queue, HoldTypeOK, Waiting
  <2>3. HoldTypeOK'
    BY <2>1, <2>2 DEF HoldTypeOK
  <2>4. PatronWaits'
    <3>1. CASE Waiting
      <4>1. placeKnown' => Place' > ahead'
        BY <2>1, <2>2, <3>1 DEF PatronWaits, Place
      <4> QED BY <2>1, <3>1, <4>1 DEF PatronWaits, Waiting
    <3>2. CASE ~Waiting
      BY <2>1, <3>2 DEF PatronWaits, Waiting
    <3> QED BY <3>1, <3>2
  <2> QED BY <2>1, <2>3, <2>4 DEF UsesEnd, PromiseIsKept, Returns, BackAt
<1>4. CASE SyncHold
  <2>1. hold # Unknown /\ placeKnown' = Waiting /\ UNCHANGED <<copy, ahead, behind, counted, promise, minute>>
    BY <1>4 DEF SyncHold
  <2>2. ASSUME Waiting PROVE hold' = [position |-> ahead + 1, end |-> hold.end] /\ ahead \in Nat
    <3>1. {c \in DOMAIN copy : copy[c].use = "ours"} = {}
      BY <2>2 DEF PatronWaits
    <3>2. hold' = UpdatedHold(hold, Unknown, ahead + 1)
      BY <1>4, <2>2, <3>1 DEF SyncHold
    <3>3. ahead \in Nat /\ ahead + 1 # Unknown
      BY <2>2, HoldQueueAssumption DEF HoldTypeOK, Waiting
    <3> QED BY <3>2, <3>3 DEF UpdatedHold
  <2>3. hold' # Unknown => hold'.position \in Nat \cup {Unknown}
    <3>1. CASE Waiting
      BY <2>2, <3>1
    <3>2. CASE ~Waiting
      <4>1. \/ hold' = Unknown
            \/ \E end : hold' = UpdatedHold(hold, end, 0)
        BY <1>4, <3>2 DEF SyncHold
      <4> QED BY <4>1, HoldQueueAssumption DEF UpdatedHold
    <3> QED BY <3>1, <3>2
  <2>4. PatronWaits'
    <3>1. CASE Waiting
      <4>1. hold' = [position |-> ahead + 1, end |-> hold.end] /\ ahead \in Nat
        BY <2>2, <3>1
      <4>2. hold'.position \in Nat \cup {Unknown}
        BY <4>1
      <4>3. Place' > ahead'
        BY <2>1, <4>1, HoldQueueAssumption DEF Place
      <4> QED BY <2>1, <3>1, <4>2, <4>3 DEF PatronWaits, Waiting
    <3>2. CASE ~Waiting
      BY <2>1, <3>2 DEF PatronWaits, Waiting
    <3> QED BY <3>1, <3>2
  <2> QED BY <2>1, <2>3, <2>4 DEF HoldTypeOK, UsesEnd, PromiseIsKept, Returns, BackAt, Waiting
<1> QED BY <1>1, <1>2, <1>3, <1>4

LEMMA MinuteKeepsInv ==
  ASSUME HoldInv, MinutePasses
  PROVE  HoldInv'
<1> USE PeriodIs DEF HoldInv
<1>1. /\ \A c \in DOMAIN copy : copy[c].use = "free" \/ copy[c].until > minute
      /\ minute' = minute + 1 /\ UNCHANGED <<copy, ahead, behind, counted, hold, placeKnown, promise>>
  BY DEF MinutePasses
<1>2. HoldTypeOK'
  BY <1>1 DEF HoldTypeOK
<1>3. UsesEnd'
  BY <1>1 DEF UsesEnd, HoldTypeOK
<1> QED BY <1>1, <1>2, <1>3 DEF PatronWaits, PromiseIsKept, Waiting, Returns, BackAt, Place

LEMMA HoldInvIsInductive ==
  /\ HoldInit => HoldInv
  /\ HoldInv /\ [HoldNext]_holdVars => HoldInv'
<1>1. ASSUME HoldInit PROVE HoldInv
  <2>1. PICK owned \in SUBSET Copies :
          copy \in [owned -> {Lent(until) : until \in 1 .. LoanTime}]
    BY <1>1 DEF HoldInit
  <2>2. /\ ahead = Unknown /\ behind \in 0 .. MaxQueue /\ promise = Unknown /\ minute = 0
        /\ counted \in {0, behind} /\ hold = Unknown /\ placeKnown = FALSE
    BY <1>1 DEF HoldInit
  <2>3. DOMAIN copy = owned /\ IsFiniteSet(owned)
    BY <2>1, HoldQueueAssumption, FS_Subset
  <2>4. ASSUME NEW c \in owned
        PROVE  copy[c] \in [use : {"free", "lent", "ours", "theirs"}, until : Nat] /\ copy[c].use = "lent"
               /\ copy[c].until \in 1 .. LoanTime
    <3>1. PICK until \in 1 .. LoanTime : copy[c] = [use |-> "lent", until |-> until]
      BY <2>1 DEF Lent
    <3> QED BY <3>1, HoldQueueAssumption
  <2>5. copy \in [DOMAIN copy -> [use : {"free", "lent", "ours", "theirs"}, until : Nat]]
    BY <2>1, <2>3, <2>4
  <2>6. HoldTypeOK
    BY <2>2, <2>3, <2>5, HoldQueueAssumption DEF HoldTypeOK
  <2>7. UsesEnd
    BY <2>2, <2>3, <2>4, HoldQueueAssumption DEF UsesEnd
  <2> QED BY <2>2, <2>6, <2>7 DEF HoldInv, PatronWaits, PromiseIsKept, Waiting
<1>2. ASSUME HoldInv, [HoldNext]_holdVars PROVE HoldInv'
  <2>1. CASE PlaceHold \/ Recount \/ Join \/ SyncHold
    BY <1>2, <2>1, QueueKeepsInv
  <2>2. CASE TellPatron \/ MinutePasses
    BY <1>2, <2>2, TellKeepsInv, MinuteKeepsInv
  <2>3. ASSUME NEW c \in DOMAIN copy, GiveBack(c) \/ Lapse(c) PROVE HoldInv'
    BY <1>2, <2>3, PassOnKeepsInv DEF GiveBack, Lapse
  <2>4. ASSUME NEW c \in DOMAIN copy, Borrow(c) PROVE HoldInv'
    BY <1>2, <2>4, BorrowKeepsInv
  <2>5. CASE UNCHANGED holdVars
    BY <1>2, <2>5 DEF holdVars, HoldInv, HoldTypeOK, UsesEnd, PatronWaits, PromiseIsKept, Waiting, Returns, BackAt, Place
  <2> QED BY <1>2, <2>1, <2>2, <2>3, <2>4, <2>5 DEF HoldNext
<1> QED BY <1>1, <1>2

\* Hold._calculate_until "takes the worst case": whatever a patron in line is told from a
\* place that is not before theirs, however old, for any number of copies, anywhere in the
\* line, they have the book by then, even if every loan and every reservation lasts to its
\* end; and once the distributor has said where they are, or counted them in the line, the
\* place that Hold.until takes is never before theirs.
THEOREM EstimatesAreKept == HoldSpec => []NobodyWaitsLongerThanTold
<1>1. ASSUME HoldInv, Waiting, placeKnown PROVE Place >= ahead + 1
  <2>1. ahead \in Nat /\ Place > ahead /\ hold.position \in Nat \cup {Unknown}
    BY <1>1 DEF HoldInv, HoldTypeOK, PatronWaits, Waiting
  <2>2. Place \in Nat
    BY <1>1, <2>1 DEF HoldInv, HoldTypeOK, Place
  <2> QED BY <2>1, <2>2
<1>2. ASSUME HoldInv, Waiting, promise # Unknown PROVE minute <= promise
  <2>1. promise \in Nat /\ minute \in Nat /\ ahead \in Nat /\ Cardinality(Returns) > ahead
    BY <1>2 DEF HoldInv, HoldTypeOK, PromiseIsKept, Waiting
  <2>2. Returns # {}
    BY <2>1, FS_EmptySet
  <2>3. PICK c \in DOMAIN copy, j \in 0 .. promise : BackAt(c) + j * Period <= promise
    BY <2>2 DEF Returns
  <2>4. j \in Nat /\ j * Period \in Nat
    BY <2>1, PeriodIs, Multiples
  <2>5. BackAt(c) \in Nat /\ BackAt(c) >= copy[c].until /\ copy[c].until \in Nat
    BY <1>2, BacksAre DEF HoldInv
  <2>6. copy[c].until >= minute
    BY <1>2 DEF HoldInv, PatronWaits, UsesEnd
  <2> QED BY <2>1, <2>3, <2>4, <2>5, <2>6
<1>3. HoldInv => NobodyWaitsLongerThanTold
  BY <1>1, <1>2 DEF NobodyWaitsLongerThanTold
<1> QED BY <1>3, HoldInvIsInductive, PTL DEF HoldSpec
=============================================================================
