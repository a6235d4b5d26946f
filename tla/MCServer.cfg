SPECIFICATION FairSpec
CONSTANTS
  IdSpace = 3
  Keys <- ThreeIds
  MaxPlayerId = 2
  Deltas <- NoDeltas
  IntMax = 0
  MaxRequests = 2
  Kinds <- SnapshotOrUnset
INVARIANT NoGhostPlayer
INVARIANT RegistryMatches
INVARIANT AnswersInOrder
PROPERTY StopEmptiesServer
PROPERTY RequestsAreAnswered
CHECK_DEADLOCK FALSE
