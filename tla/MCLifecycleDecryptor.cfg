SPECIFICATION Spec
CONSTANTS
  Files <- MCFiles
  MaxBoots = 3
  MaxHits = 1
  MaxLinks = 2
INVARIANTS
  ConfiguredDecryptor
CHECK_DEADLOCK FALSE
