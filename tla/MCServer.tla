------------------------------- MODULE MCServer -------------------------------
(* A small instance of Server: the third connection wraps the id counter   *)
(* around, and the world has room for one player.                          *)
EXTENDS Server

ThreeIds == 0 .. 2

NoDeltas == {}

SnapshotOrUnset == {"state_snapshot", "unset"}
===============================================================================
