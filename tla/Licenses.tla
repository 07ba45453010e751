------------------------------ MODULE Licenses ------------------------------
(***************************************************************************)
(* Which of a pool's individual Licenses a request lends out               *)
(* (LicensePool.best_available_license, License.loan_to), for distributors *)
(* that tell us about each license.  A request first chooses a license and *)
(* then lends it; nothing locks the license in between.                    *)
(***************************************************************************)
EXTENDS Integers, FiniteSets, SequencesExt

CONSTANTS
  NotSet,       \* Python's None
  LicenseIds,   \* the licenses of one pool
  Borrowers,    \* the patrons who borrow
  Terms,        \* the terms a license may have: [expires, remaining, concurrent]
  LoanPeriods,  \* how long a loan may last; NotSet is for ever
  MaxRequests,  \* how many requests the application serves at a time
  LastDay       \* bound: the clock stops here

AllTerms == [expires: Nat \cup {NotSet}, remaining: Nat \cup {NotSet}, concurrent: Nat]

ASSUME LicensesAssumption ==
  /\ NotSet \notin Int /\ NotSet \notin LicenseIds
  /\ IsFiniteSet(Borrowers) /\ IsFiniteSet(LicenseIds)
  /\ Terms \subseteq AllTerms
  /\ LoanPeriods \subseteq Nat \cup {NotSet}
  /\ MaxRequests \in Nat \ {0} /\ LastDay \in Nat

VARIABLES
  terms,   \* the licenses table
  loans,   \* each patron's Loan of the pool: [license, end], or NotSet
  chosen,  \* the license each patron's request has chosen, or NotSet
  today      \* utc_now()

licenseVars == <<terms, loans, chosen, today>>

-----------------------------------------------------------------------------
IsPerpetual(t)   == t.expires = NotSet /\ t.remaining = NotSet
IsTimeLimited(t) == t.expires # NotSet
IsLoanLimited(t) == t.remaining # NotSet
IsExpired(t) ==
  \/ IsTimeLimited(t) /\ t.expires <= today
  \/ IsLoanLimited(t) /\ t.remaining <= 0

ActiveLoans(l) ==
  {p \in Borrowers : /\ loans[p] # NotSet
                     /\ loans[p].license = l
                     /\ loans[p].end = NotSet \/ loans[p].end > today}

\* Mutant of Lendable: one loan too many.
LendableOnceMore(l) ==
  ~IsExpired(terms[l]) /\ Cardinality(ActiveLoans(l)) <= terms[l].concurrent

Lendable(l) ==
  /\ ~IsExpired(terms[l])
  /\ Cardinality(ActiveLoans(l)) < terms[l].concurrent

\* Does the loop prefer a license to the best one it has met so far?
Beats(license, best) ==
  \/ IsTimeLimited(license) /\ ~IsTimeLimited(best)
  \/ IsTimeLimited(license) /\ IsTimeLimited(best) /\ license.expires < best.expires
  \/ IsPerpetual(license) /\ ~IsTimeLimited(best)
  \/ IsLoanLimited(license) /\ IsLoanLimited(best) /\ license.remaining > best.remaining

\* best_available_license, when the database returns the licenses in `order`: the best
\* one met so far, after each of them.
IsBestSoFar(best, order) ==
  /\ best[0] = NotSet
  /\ \A i \in DOMAIN order :
       LET met == best[i - 1] IN
       best[i] = IF Lendable(order[i]) /\ (met = NotSet \/ Beats(terms[order[i]], terms[met])) THEN order[i] ELSE met

BestAvailableLicenses ==
  {best[Cardinality(LicenseIds)] : best \in
     {b \in [0..Cardinality(LicenseIds) -> LicenseIds \cup {NotSet}] :
        \E order \in SetToSeqs(LicenseIds) : IsBestSoFar(b, order)}}

-----------------------------------------------------------------------------
LicensesInit ==
  /\ terms \in [LicenseIds -> Terms]
  /\ loans = [p \in Borrowers |-> NotSet]
  /\ chosen = [p \in Borrowers |-> NotSet]
  /\ today = 1

InFlight == {p \in Borrowers : chosen[p] # NotSet}

\* LicensePool.licenses has no order_by: any order will do.
Choose(p) ==
  /\ chosen[p] = NotSet
  /\ Cardinality(InFlight) < MaxRequests
  /\ \E best \in BestAvailableLicenses \ {NotSet} : chosen' = [chosen EXCEPT ![p] = best]
  /\ UNCHANGED <<terms, loans, today>>

\* License.loan_to: a patron who already has a loan of this pool keeps its
\* start and end, and the loan moves to the chosen license.
LoanTo(p) ==
  /\ chosen[p] # NotSet
  /\ \E period \in LoanPeriods :
       LET end == IF loans[p] # NotSet THEN loans[p].end
                  ELSE IF period = NotSet THEN NotSet ELSE today + period
       IN  loans' = [loans EXCEPT ![p] = [license |-> chosen[p], end |-> end]]
  /\ chosen' = [chosen EXCEPT ![p] = NotSet]
  /\ UNCHANGED <<terms, today>>

\* The patron returns the book: the circulation manager deletes the Loan.
Return(p) ==
  /\ chosen[p] = NotSet
  /\ loans[p] # NotSet
  /\ loans' = [loans EXCEPT ![p] = NotSet]
  /\ UNCHANGED <<terms, chosen, today>>

\* CirculationData.apply reports a license's terms anew; the number of
\* concurrent checkouts is part of what the library bought.
UpdateTerms(l, t) ==
  /\ t.concurrent = terms[l].concurrent
  /\ t # terms[l]
  /\ terms' = [terms EXCEPT ![l] = t]
  /\ UNCHANGED <<loans, chosen, today>>

NextDay ==
  /\ today < LastDay
  /\ today' = today + 1
  /\ UNCHANGED <<terms, loans, chosen>>

LicensesNext ==
  \/ \E p \in Borrowers : Choose(p) \/ LoanTo(p) \/ Return(p)
  \/ \E l \in LicenseIds, t \in Terms : UpdateTerms(l, t)
  \/ NextDay

LicensesSpec == LicensesInit /\ [][LicensesNext]_licenseVars

-----------------------------------------------------------------------------
\* A license is overdrawn only by requests that were in flight together: with
\* one request at a time, never, and with n of them by at most n - 1 loans,
\* because a request that starts once the license is full does not choose it.
OverdrawnByAtMostTheRace ==
  \A l \in LicenseIds :
    Cardinality(ActiveLoans(l)) <= terms[l].concurrent + MaxRequests - 1
=============================================================================
