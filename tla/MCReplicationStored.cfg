SPECIFICATION Spec
CONSTANTS
  p = p
  b = b
  MaxLinks = 5
  MaxFailures = 1
  Pagination = 2
  Parent <- MCParent
  Readable = {2, 5}
  Parsers = {p}
  Indexers = {b}
  Order <- MCOrder
INVARIANT StoredUnderItsHash
CHECK_DEADLOCK FALSE
