---------------------------- MODULE Credentials ----------------------------
(***************************************************************************)
(* The credentials table (model/credential.py) under several requests at a *)
(* time: temporary tokens that are redeemed once, the identifier by which  *)
(* a remote service knows a patron, and the bearer token of a collection.  *)
(* A request looks its row up and writes later; the only thing between two *)
(* requests are the unique indexes, which get_one_or_create falls back on. *)
(***************************************************************************)
EXTENDS Integers, Sequences, FiniteSets

CONSTANTS
  Requests,     \* requests that are served at the same time
  TokenTime,    \* how long a temporary token or a bearer token lasts
  MaxValues,    \* bound: how many values are made up
  LastHour,     \* bound: the clock stops here
  Never         \* expires is NULL

Keys == {"token", "identifier", "bearer"}
Past == 0

\* A NULL is never equal to another: the index on (data_source, type,
\* collection) does not hold for a type that is None, as Overdrive's is.
IndexedKeys == {"token", "identifier"}

ASSUME CredentialsAssumption ==
  /\ Never \notin Int
  /\ IsFiniteSet(Requests)
  /\ TokenTime \in Nat \ {0} /\ MaxValues \in Nat /\ LastHour \in Nat

VARIABLES
  rows,       \* the rows of each key: [value, expires]
  request,    \* what each request does, and what it has read
  values,     \* values made up so far; each is new
  expiry,     \* history: when each value expires
  redeemed,   \* history: how often each has been redeemed
  raced,      \* history: values issued while a token was being redeemed
  told,       \* history: the identifiers that remote services were told
  hour        \* utc_now()

credentialVars == <<rows, request, values, expiry, redeemed, raced, told, hour>>

NoRequest == [does |-> "nothing"]
Valid(row) == row.expires = Never \/ row.expires > hour

-----------------------------------------------------------------------------
\* Mutant of Inserts: two requests that found nothing both insert.
InsertsWhatItMissed(key, found) == found = <<>>

\* get_one_or_create found nothing and inserts a row; the insertion of a second
\* row fails if an index forbids it, and the first one is taken instead.
Inserts(key, found) == rows[key] = <<>> \/ (found = <<>> /\ key \notin IndexedKeys)

Written(key, found, row) ==
  IF Inserts(key, found) THEN Append(rows[key], row) ELSE [rows[key] EXCEPT ![1] = row]

CredentialsInit ==
  /\ rows = [key \in Keys |-> <<>>]
  /\ request = [r \in Requests |-> NoRequest]
  /\ values = 0
  /\ expiry = <<>> /\ redeemed = <<>>
  /\ raced = {} /\ told = {}
  /\ hour = 1

\* A row is looked up; query.one() raises an error if there are two.
Begin(r, does, key) ==
  /\ request[r] = NoRequest
  /\ Len(rows[key]) <= 1
  /\ request' = [request EXCEPT ![r] = [does |-> does, found |-> rows[key]]]
  /\ UNCHANGED <<rows, values, expiry, redeemed, raced, told, hour>>

MakeUp(expires) ==
  /\ values < MaxValues
  /\ values' = values + 1
  /\ expiry' = Append(expiry, expires)
  /\ redeemed' = Append(redeemed, 0)

Done(r) == request' = [request EXCEPT ![r] = NoRequest]

\* Mutant of IssueToken: a row that exists keeps the time at which it expires.
IssueWithoutTime(r) ==
  /\ request[r].does = "issue"
  /\ MakeUp(hour + TokenTime)
  /\ LET expires == IF rows["token"] = <<>> THEN hour + TokenTime ELSE rows["token"][1].expires IN
     rows' = [rows EXCEPT !["token"] = Written("token", request[r].found, [value |-> values', expires |-> expires])]
  /\ raced' = IF \E q \in Requests : request[q].does = "redeem" THEN raced \cup {values'} ELSE raced
  /\ Done(r)
  /\ UNCHANGED <<told, hour>>

\* temporary_token_create: the new token overwrites the old one.
IssueToken(r) ==
  /\ request[r].does = "issue"
  /\ MakeUp(hour + TokenTime)
  /\ rows' = [rows EXCEPT !["token"] = Written("token", request[r].found, [value |-> values', expires |-> hour + TokenTime])]
  /\ raced' = IF \E q \in Requests : request[q].does = "redeem" THEN raced \cup {values'} ELSE raced
  /\ Done(r)
  /\ UNCHANGED <<told, hour>>

\* lookup_by_token: a token that is unknown, expired or that lasts for ever is
\* refused; the request for a token that was replaced does not find it.
FindToken(r) ==
  /\ rows["token"] # <<>>
  /\ rows["token"][1].expires # Never
  /\ Valid(rows["token"][1])
  /\ Begin(r, "redeem", "token")

\* lookup_and_expire_temporary_token writes the one column it has changed,
\* whatever token the row holds by now.
RedeemToken(r) ==
  /\ request[r].does = "redeem"
  /\ rows' = [rows EXCEPT !["token"][1].expires = Past]
  /\ redeemed' = [redeemed EXCEPT ![request[r].found[1].value] = @ + 1]
  /\ Done(r)
  /\ UNCHANGED <<values, expiry, raced, told, hour>>

\* identifier_to_remote_service: the identifier is made up for a new row.
Identify(r) ==
  /\ request[r].does = "identify"
  /\ IF Inserts("identifier", request[r].found)
     THEN /\ MakeUp(Never)
          /\ rows' = [rows EXCEPT !["identifier"] =
                        Written("identifier", request[r].found, [value |-> values', expires |-> Never])]
     ELSE UNCHANGED <<rows, values, expiry, redeemed>>
  /\ told' = told \cup {rows'["identifier"][Len(rows'["identifier"])].value}
  /\ Done(r)
  /\ UNCHANGED <<raced, hour>>

\* OverdriveAPI.check_creds: a token that has expired, or that was refused, is
\* replaced by one Overdrive sends.
RefreshBearer(r) ==
  /\ request[r].does = "refresh"
  /\ MakeUp(hour + TokenTime)
  /\ rows' = [rows EXCEPT !["bearer"] = Written("bearer", request[r].found, [value |-> values', expires |-> hour + TokenTime])]
  /\ Done(r)
  /\ UNCHANGED <<raced, told, hour>>

\* A request fails before it commits.
FailRequest(r) ==
  /\ request[r] # NoRequest
  /\ Done(r)
  /\ UNCHANGED <<rows, values, expiry, redeemed, raced, told, hour>>

HourPasses ==
  /\ hour < LastHour
  /\ hour' = hour + 1
  /\ UNCHANGED <<rows, request, values, expiry, redeemed, raced, told>>

CredentialsNext ==
  \/ \E r \in Requests :
       \/ Begin(r, "issue", "token") \/ IssueToken(r) \/ FindToken(r) \/ RedeemToken(r)
       \/ Begin(r, "identify", "identifier") \/ Identify(r)
       \/ Begin(r, "refresh", "bearer") \/ RefreshBearer(r)
       \/ FailRequest(r)
  \/ HourPasses

CredentialsSpec == CredentialsInit /\ [][CredentialsNext]_credentialVars

-----------------------------------------------------------------------------
\* The token that was issued last is good until it expires or is redeemed; only
\* the redemption of its predecessor, under way when it was issued, takes it
\* away.
IssuedTokensWork ==
  \A row \in {rows["token"][i] : i \in DOMAIN rows["token"]} :
    \/ Valid(row)
    \/ expiry[row.value] <= hour
    \/ redeemed[row.value] > 0
    \/ row.value \in raced

\* A token that has been redeemed is good no more, so that a request redeems it again
\* only if it had looked it up before: the race of lookup_and_expire_temporary_token.
SpentTokensAreSpent ==
  \A row \in {rows["token"][i] : i \in DOMAIN rows["token"]} : redeemed[row.value] > 0 => ~Valid(row)

\* Remote services know a patron by one identifier, however many requests make
\* it up at the same time.
IdentifiersAreStable == Cardinality(told) <= 1

\* What get_one_or_create finds or makes while others do the same serves those it
\* was made for: tokens are good until they are redeemed, and no longer, and identifiers
\* do not change.
CredentialsServe == IssuedTokensWork /\ SpentTokensAreSpent /\ IdentifiersAreStable

\* "Unique indexes to prevent the creation of redundant credentials."
OneCredentialEach == \A key \in Keys : Len(rows[key]) <= 1
=============================================================================
