SPECIFICATION FairSpec
CONSTANTS
  PoolSize = 2
  MaxSpawns = 3
  MaxWaits = 3
  SubsMayCall = FALSE
INVARIANTS WaitReturnsOwn JoinedOnce
PROPERTIES ResultKept NobodyWaitsForever
