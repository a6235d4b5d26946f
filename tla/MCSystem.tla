------------------------------ MODULE MCSystem ------------------------------
(* A small instance of System: two dials, one disconnect, two requests.    *)
EXTENDS System, TLC

CONSTANTS c1, c2, d1, r1, r2

TwoConnects == {c1, c2}

OneDisconnect == {d1}

TwoRequests == {r1, r2}

\* Calls of the same kind are interchangeable.
CallSymmetry == Permutations(TwoConnects) \cup Permutations(TwoRequests)

ThreeIds == 0 .. 2

NoDeltas == {}

SnapshotOnly == {"state_snapshot"}
===============================================================================
