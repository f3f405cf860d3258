SPECIFICATION QuietSpec
CONSTANTS
  w1 = w1
  w2 = w2
  w3 = w3
  s1 = s1
  s2 = s2
  Config = Config
  Workflows = {w1, w2, w3}
  Watched <- MCWatched1
  Unknown = {w3}
  Services = {s1, s2}
  Requests <- MCRequests
  Pagination = 2
  MaxLinks = 3
INVARIANTS
  TypeOK
  InOrder
PROPERTY FeedSpec
SYMMETRY Symmetry
CHECK_DEADLOCK FALSE
