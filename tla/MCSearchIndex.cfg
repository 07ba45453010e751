SPECIFICATION IndexSpec
CONSTANTS
  Works = {w1}
  Versions = {v1, v2}
  Clients = {c1, c2}
  Servers = {c1}
  MaxFaults = 1
  Editions = {"overdrive", "isbn", "gutenberg"}
  ListWorks = {"w1", "w2"}
  PoolWork <- MCPoolWork
  InCollection = {"overdrive"}
  TitleOf <- MCTitleOf
  Claims <- MCClaims
  Levels = 3
  Threshold = 50
  NoWork = "none"
  MaxEntries = 3
  MaxListTime = 2
  MaxActs = 3
  Scripts <- MCScripts
  Contexts <- MCContexts
  Fields <- MCFields
  Unsafe = {"unsafe method"}
  Builtins = {"len"}
INVARIANTS
  RecordsAreHonest
  MeansWhatPythonSays
PROPERTIES
  SearchRecovers
  ListsAreKept
