SPECIFICATION DistributionSpec
CONSTANTS
  None = None
  NoDate = NoDate
  Snapshots <- MCSnapshots
  EventDates <- MCEventDates
  Deltas = {1, 2}
  Toggles = {TRUE, FALSE}
  MaxCopies = 2
  MaxTime = 3
  MaxEvents = 5
  MaxRepeats = 1
  NotSet = NotSet
  LicenseIds = {l1, l2}
  Borrowers = {"p1", "p2", "p3"}
  Terms <- SimpleTerms
  LoanPeriods <- MCLoanPeriods
  MaxRequests = 2
  LastDay = 3
  Copies = {c1, c2, c3}
  LoanTime = 2
  ReservationTime = 1
  MaxQueue = 4
  LastMinute = 9
  Unknown = Unknown
  Requests = {r1, r2}
  TokenTime = 1
  MaxValues = 4
  LastHour = 2
  Never = Never
  Collections = {"k1", "k2"}
  OtherFormats = {"drm"}
  NoLink = NoLink
CHECK_DEADLOCK FALSE
INVARIANTS
  OneCredentialEach
