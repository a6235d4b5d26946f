SPECIFICATION WorldSpec
CONSTANTS
  k1 = k1
  k2 = k2
  k3 = k3
  Keys <- ThreeKeys
  MaxPlayerId = 5
  Deltas <- UnitDeltas
  IntMax = 1
SYMMETRY KeySymmetry
INVARIANT WorldTypeOK
INVARIANT PlayersAreBound
PROPERTY IdsAreFresh
PROPERTY OthersUndisturbed
