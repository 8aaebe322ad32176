SPECIFICATION PoolSpec
CONSTANTS
  PoolCapacity = 4
  NullSlot = NullSlot
  Wild = Wild
  ConstructorWrites = TRUE
INVARIANT FreeListConsistent
