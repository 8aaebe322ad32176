SPECIFICATION Spec
CONSTANTS
  x = x  y = y  u = u  v = v  w = w
  Values <- MCValues
  Default = x
  Vectors <- MCVectors
  Capacity <- MCCapacity
  Lists <- MCLists
  Sizes <- MCSizes
  Raw = Raw
  Absent = Absent
  MayThrow = TRUE
INVARIANTS LivePrefix NoStrayElement
PROPERTY ImplementsVectors
