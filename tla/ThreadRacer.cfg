SPECIFICATION FairSpec
CONSTANTS
  num_threads = 4
  NoThread = NoThread
  MaySpawnFail = TRUE
INVARIANTS FairStart
PROPERTY SleepersReleased
