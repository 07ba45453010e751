SPECIFICATION CoverageSpec
CONSTANTS
  Items = {1, 2, 3}
  BatchSize = 2
  Settings <- MCSettings
  MaxOutside = 1
  MaxDeaths = 0
  Workers = {w1, w2}
  MaxJobs = 9
  Backlog = {1, 2, 3, 4}
  JobSize = 1
INVARIANTS
  AllAreAttempted
CHECK_DEADLOCK FALSE
