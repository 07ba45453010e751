SPECIFICATION SearchSpec
CONSTANTS
  Works = {w1}
  Versions = {v1, v2}
  Clients = {c1, c2}
  Servers = {c1}
  MaxFaults = 1
PROPERTIES
  UnreadyWorksLeave
