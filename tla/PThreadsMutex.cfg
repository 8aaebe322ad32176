SPECIFICATION PThreadsSpec
CONSTANTS
  t1 = t1  t2 = t2  t3 = t3  m1 = m1
  Threads <- MCThreads
  Mutexes <- MCMutexes
  NoOwner = NoOwner
  NoMutex = NoMutex
  CallsMayFail = TRUE
INVARIANTS ConstructionCleansUp MutualExclusion NoSelfDeadlock
