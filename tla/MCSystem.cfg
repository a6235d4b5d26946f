SPECIFICATION Spec
CONSTANTS
  c1 = c1
  c2 = c2
  d1 = d1
  r1 = r1
  r2 = r2
  None = none
  Connects <- TwoConnects
  Disconnects <- OneDisconnect
  Requests <- TwoRequests
  MaxPending = 2
  Keys <- ThreeIds
  IdSpace = 3
  MaxPlayerId = 3
  Deltas <- NoDeltas
  IntMax = 0
  MaxRequests = 2
  Kinds <- SnapshotOnly
  MaxBreaks = 1
SYMMETRY CallSymmetry
INVARIANT NextResponseMatches
PROPERTY ServiceSpec
CHECK_DEADLOCK FALSE
