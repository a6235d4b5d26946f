SPECIFICATION Spec
CONSTANTS
  c1 = c1
  c2 = c2
  d1 = d1
  d2 = d2
  r1 = r1
  r2 = r2
  r3 = r3
  None = none
  Connects <- TwoConnects
  Disconnects <- TwoDisconnects
  Requests <- ThreeRequests
  MaxPending = 2
SYMMETRY CallSymmetry
INVARIANT TypeOK
INVARIANT StateIsTruthful
INVARIANT NoLostWakeUp
INVARIANT WaitingOnLiveConnection
INVARIANT OwnAnswer
PROPERTY LegalTransitions
CHECK_DEADLOCK FALSE
