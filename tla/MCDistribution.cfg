SPECIFICATION DistributionSpec
CONSTANTS
  None = None
  NoDate = NoDate
  Snapshots <- MCSnapshots
  EventDates <- MCEventDates
  Deltas = {1, 2}
  Toggles = {TRUE, FALSE}
  MaxCopies = 2
  MaxTime = 2
  MaxEvents = 4
  MaxRepeats = 1
  NotSet = NotSet
  LicenseIds = {l1, l2}
  Borrowers = {"p1", "p2", "p3"}
  Terms <- SimpleTerms
  LoanPeriods <- MCLoanPeriods
  MaxRequests = 2
  LastDay = 2
  Copies = {c1, c2}
  LoanTime = 2
  ReservationTime = 1
  MaxQueue = 3
  LastMinute = 6
  Unknown = Unknown
  Requests = {r1, r2}
  TokenTime = 1
  MaxValues = 3
  LastHour = 2
  Never = Never
  Collections = {k1, k2}
  OtherFormats = {"drm"}
  NoLink = NoLink
SYMMETRY DistributionSymmetry
CHECK_DEADLOCK FALSE
INVARIANTS
  AvailableWithinOwned
  IndexIsCurrent
  CountsAreThoseOfLastChecked
  OverdrawnByAtMostTheRace
  NobodyWaitsLongerThanTold
  CredentialsServe
  OpenAccessIsRight
PROPERTIES
  OnlyReservedCheckoutsGoUnrecorded
