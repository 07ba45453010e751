--------------------------- MODULE MCDistribution ---------------------------
(* What the distributors' books come down to for the patrons: a title's     *)
(* counters, the licenses it is lent under, the line for it, the            *)
(* credentials patrons and collections present, and the ways in which a     *)
(* title is delivered.  A behaviour is the story of one of them, and the    *)
(* others stay as they were.                                                *)
EXTENDS DistributorFeed, Licenses, HoldQueue, Credentials, DeliveryMechanisms, TLC

Report(owned, available, reserved, holds) ==
  [owned |-> owned, available |-> available, reserved |-> reserved, holds |-> holds]

\* Complete reports; the one OPDS2Importer makes for an unlimited title; the
\* one Overdrive makes when the book is not in our accounts, with neither
\* `owned` nor `available`.
MCSnapshots ==
  {Report(2, 1, 0, 0), Report(1, 0, 1, 1), Report(0, 0, 0, 0),
   Report(Unlimited, Unlimited, 0, 0), Report(None, None, 0, 2)}

\* Dated and undated events.
MCEventDates == {NoDate, 1, 2}

T(expires, remaining, concurrent) ==
  [expires |-> expires, remaining |-> remaining, concurrent |-> concurrent]

\* Terms with at most one limit.
SimpleTerms ==
  {T(NotSet, NotSet, 1), T(2, NotSet, 1), T(3, NotSet, 1), T(NotSet, 0, 1), T(NotSet, 1, 1), T(NotSet, 2, 1)}
MCLoanPeriods == {NotSet, 1}

VARIABLE story

feedAndPoolVars == <<vars, feedVars>>
distributionVars == <<story, feedAndPoolVars, licenseVars, holdVars, credentialVars, deliveryVars>>

DistributionInit ==
  /\ story \in {"feed", "licenses", "holds", "credentials", "formats"}
  /\ FeedInit /\ LicensesInit /\ HoldInit /\ CredentialsInit /\ DeliveryInit
  /\ story # "feed" => ~trusted
  /\ story # "licenses" => \A l \in LicenseIds : terms[l] = T(NotSet, NotSet, 1)
  /\ story # "holds" => DOMAIN copy = {} /\ behind = 0 /\ counted = 0

DistributionNext ==
  /\ UNCHANGED story
  /\ \/ story = "feed" /\ FeedNext /\ UNCHANGED <<licenseVars, holdVars, credentialVars, deliveryVars>>
     \/ story = "licenses" /\ LicensesNext /\ UNCHANGED <<feedAndPoolVars, holdVars, credentialVars, deliveryVars>>
     \/ story = "holds" /\ HoldNext /\ UNCHANGED <<feedAndPoolVars, licenseVars, credentialVars, deliveryVars>>
     \/ story = "credentials" /\ CredentialsNext /\ UNCHANGED <<feedAndPoolVars, licenseVars, holdVars, deliveryVars>>
     \/ story = "formats" /\ DeliveryNext /\ UNCHANGED <<feedAndPoolVars, licenseVars, holdVars, credentialVars>>

DistributionSymmetry == Permutations(Collections) \cup Permutations(Copies)

DistributionSpec == DistributionInit /\ [][DistributionNext]_distributionVars
=============================================================================
