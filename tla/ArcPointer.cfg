SPECIFICATION Spec
CONSTANTS
  t1 = t1  t2 = t2  h1 = h1  h2 = h2  h3 = h3  b1 = b1  b2 = b2
  Threads <- MCThreads
  Handles <- MCHandles
  Blocks <- MCBlocks
  Null = Null
INVARIANTS CountIsReferences NoUseAfterFree NoLeak NoNullDereference
CHECK_DEADLOCK FALSE
