---------------------------- MODULE MCWorldService ----------------------------
(* Model values for WorldService: three-bit coordinates, four player ids.  *)
EXTENDS WorldService, TLC

CONSTANTS k1, k2, k3

ThreeKeys == {k1, k2, k3}

KeySymmetry == Permutations(ThreeKeys)

UnitDeltas == {-1, 1}
===============================================================================
