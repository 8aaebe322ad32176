SPECIFICATION PartsSpec
CONSTANTS
  a = a  b = b  c = c
  Values <- MCValues
  m_capacity = 4
  Raw = Raw
  MayThrow = TRUE
  PoolCapacity = 4
  NullSlot = NullSlot
  Wild = Wild
  ConstructorWrites = FALSE
  o1 = o1  o2 = o2  o3 = o3  x = x  y = y
  Optionals <- MCOptionals
  OptionalValues <- MCOptionalValues
  MovedFrom = MovedFrom
  NoObject = NoObject
  f1 = f1  f2 = f2  c1 = c1  c2 = c2  c3 = c3
  Functions <- MCFunctions
  Callables <- MCCallables
  NoCallable = NoCallable
  MaxDepth = 2
  Bits = 5
  Maxima = {3, 7, 15, 31, 63, 127, 255, 511, 1023, 2047, 4095, 8191, 16383, 32767, 65535}
  MaxYields = 30
  t1 = t1  t2 = t2
  TestThreads <- MCTestThreads
  Objects = {1, 2}
  NoOne = NoOne
  MaxEvents = 3
INVARIANTS
  LiveSlots FreeListConsistent LiveIffHasValue CallablesOwnedOnce RunningExists
  ResultIsGcd YieldsWholeSequence TestsDoNotInterfere StreamsNotReentered
PROPERTIES ImplementsQueue ImplementsPool
CHECK_DEADLOCK FALSE
