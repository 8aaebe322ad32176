SPECIFICATION FairSpec
CONSTANTS
  num_threads = 3
  NoThread = NoThread
  MaySpawnFail = FALSE
PROPERTY EveryThreadRaces
