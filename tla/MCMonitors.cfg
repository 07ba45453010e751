SPECIFICATION MonitorsSpec
CONSTANTS
  None = None
  Overlap = 2
  DefaultStart = 1
  Increment = 2
  Delays = {0, 1, 2}
  MayFail = TRUE
  MaxEvents = 2
  MaxTime = 8
  Files <- MCFiles
  MayGoWrong <- MCMayGoWrong
  a = a
  b = b
  c = c
  Entries = {a, b, c}
  Offered = {a, b}
  Perils <- MCPerils
  PageSize = 2
  Forced = {TRUE, FALSE}
  MaxVersion <- MCMaxVersion
  Rels = {"open-access", "image"}
  Uploads = {"done"}
  NamesType = TRUE
  NoRow = NoRow
  Books = {1, 2}
  QueryBatch = 1
  NoTime <- MCNoTime
  LastTick = 2
  MaxEdits = 2
  WorkPools = {b1, b2}
  PoolStates = {"licensed", "superceded"}
  EntryClients = {e1, e2}
  MaxEntryChanges = 2
INVARIANTS
  NothingIsMissed
  NothingIsHidden
  SuccessMeansImported
  WorksFollowEditions
  MirroredVersionIsFine
  ChangesAreExported
  EntriesFollowTheWork
PROPERTIES
  OnlyFailedOrOvertakenFilesAreLost
CHECK_DEADLOCK FALSE
