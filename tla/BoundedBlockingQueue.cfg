SPECIFICATION WSpec
CONSTANTS
  p1 = p1  p2 = p2  c1 = c1  c2 = c2  a = a  b = b
  Producers <- MCProducers
  Consumers <- MCConsumers
  Values <- MCValues
  Capacity = 2
  NoThread = NoThread
  NoValue = NoValue
  Calls = 2
  MaxSpurious = 1
INVARIANTS TypeOK NoLostWakeup MutexHeldInside
PROPERTIES ImplementsFifo EveryCallReturns
CHECK_DEADLOCK FALSE
