SPECIFICATION SweepsSpec
CONSTANTS
  MaxId = 4
  BatchSize = 2
  MayRaise = {3}
  MaxDeaths = 1
  Pools <- MCPools
  Titles = {"w1", "w2", "w3"}
  MaxReaperDeaths = 1
  Sources <- MCSources
  Own = "license"
  Staff = "staff"
  Offers <- MCOffers
  Unchecked = {"staff"}
  None = 0
  Cleared = 99
  MaxTime = 2
  Rows <- MCRows
  LibraryStaff = "staff"
  LicenseSource = "overdrive"
  Genre <- MCGenre
  Imprints <- MCImprints
  Unsaid = "unsaid"
  MaxRows = 4
INVARIANTS
  StaffHaveTheLastWord
  NothingIsForgotten
PROPERTIES
  SweepsAreComplete
  EveryRowIsProcessed
  ReapersClearUp
CHECK_DEADLOCK FALSE
