SPECIFICATION FairSpec
CONSTANTS
  w1 = w1
  w2 = w2
  w3 = w3
  s1 = s1
  s2 = s2
  Config = Config
  Workflows = {w1, w2}
  Watched <- MCWatched2
  Unknown = {w1}
  Services = {}
  Requests <- MCNilRequests
  Pagination = 1
  MaxLinks = 1
PROPERTY KeepsPolling
CHECK_DEADLOCK FALSE
