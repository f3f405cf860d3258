SPECIFICATION FairSpec
CONSTANTS
  Files <- MCFiles
  MaxBoots = 3
  MaxHits = 1
  MaxLinks = 2
INVARIANTS
  TypeOK
  CurrentWiring
  PolledIsStored
  LinesWrittenOnce
PROPERTIES
  ReloadTakesEffect
CHECK_DEADLOCK FALSE
