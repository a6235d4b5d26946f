SPECIFICATION FairSpec
CONSTANTS
  ta = ta
  tb = tb
  x = x
  y = y
  z = z
  Types <- TwoTypes
  Callbacks <- ThreeCallbacks
  None = none
  MaxEvents = 3
  MaxDepth = 3
INVARIANT DeliveredOnce
INVARIANT SeenInOrder
PROPERTY StorageIsStable
PROPERTY DispatchDrains
CHECK_DEADLOCK FALSE
