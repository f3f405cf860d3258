SPECIFICATION QuietSpec
CONSTANTS
  w1 = w1
  w2 = w2
  w3 = w3
  s1 = s1
  s2 = s2
  Config = Config
  Workflows = {w1}
  Watched <- MCWatched1
  Unknown = {}
  Services = {s1, s2}
  Requests <- MCPastRequests
  Pagination = 5
  MaxLinks = 5
INVARIANT StartsAtRequest
CHECK_DEADLOCK FALSE
