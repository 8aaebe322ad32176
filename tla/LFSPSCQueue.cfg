SPECIFICATION SpinSpec
CONSTANTS
  a = a  b = b
  Values <- MCValues
  Capacity = 2
  NoValue = NoValue
  MaxPushes = 7
INVARIANTS NoDataRace LifetimesRespected
PROPERTIES ImplementsFifo EveryElementDelivered
