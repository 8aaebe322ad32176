SPECIFICATION Spec
CONSTANTS
  h1 = h1  h2 = h2  h3 = h3
  o1 = o1  o2 = o2  o3 = o3
  d1 = d1  d2 = d2
  Handles <- MCHandles
  Objects <- MCObjects
  Deleters <- MCDeleters
  NoObject = NoObject
  MovedFrom = MovedFrom
  NoDeleter = NoDeleter
INVARIANTS UniqueOwnership NoLeak OwnerHasDeleter
