SPECIFICATION Spec
CONSTANTS
  j = j  k = k  l = l
  x = x  y = y
  n1 = n1  n2 = n2  n3 = n3  n4 = n4
  Keys <- MCKeys
  Values <- MCValues
  Nodes <- MCNodes
  m_capacity = 2
  Freed = Freed
  MayThrow = TRUE
INVARIANTS NoDanglingIterator KeysWithinCapacity
PROPERTY ImplementsLRU
