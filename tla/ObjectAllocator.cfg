SPECIFICATION MCSpec
CONSTANTS
  t1 = t1
  t2 = t2
  T1 = T1
  T2 = T2
  NoThread = NoThread
  Thread <- MCThread
  Type <- MCType
  Address <- MCAddress
  MaxObjects = 3
INVARIANTS MapsExact ObserverExact ObserverComplete
PROPERTIES NeverValidAgain CallsReturn
CHECK_DEADLOCK FALSE
