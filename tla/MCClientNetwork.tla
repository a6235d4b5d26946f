--------------------------- MODULE MCClientNetwork ---------------------------
(* Model values and symmetry for ClientNetwork.                          *)
EXTENDS ClientNetwork, TLC

CONSTANTS c1, c2, d1, d2, r1, r2, r3

TwoConnects == {c1, c2}
TwoDisconnects == {d1, d2}
OneRequest == {r1}
ThreeRequests == {r1, r2, r3}

\* Calls of the same kind are interchangeable.
CallSymmetry ==
  Permutations(TwoConnects) \cup Permutations(TwoDisconnects)
    \cup Permutations(ThreeRequests)
==============================================================================
