SPECIFICATION Spec
CONSTANTS
  IdSpace = 3
  Keys <- ThreeIds
  MaxPlayerId = 2
  Deltas <- NoDeltas
  IntMax = 0
  MaxRequests = 1
  Kinds <- SnapshotOrUnset
PROPERTY UnsetIsAnswered
CHECK_DEADLOCK FALSE
