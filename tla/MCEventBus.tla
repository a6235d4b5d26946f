------------------------------ MODULE MCEventBus ------------------------------
(* Model values for EventBus: two types of events and three callbacks.     *)
EXTENDS EventBus

CONSTANTS ta, tb, x, y, z

TwoTypes == {ta, tb}

ThreeCallbacks == {x, y, z}
===============================================================================
