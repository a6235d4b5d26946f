------------------------------ MODULE StateStack ------------------------------
(***************************************************************************)
(* What StateManager promises to the code that requests changes: a stack   *)
(* of screens that is never empty and that changes with the requests only, *)
(* each applied once and in their order; a pop of the last screen has no   *)
(* effect.                                                                 *)
(***************************************************************************)
EXTENDS Naturals, Sequences

CONSTANTS States, Initial

VARIABLES
  screens,      \* the stack, bottom first
  requests      \* requests made so far

vars == <<screens, requests>>

Init == screens = <<Initial>> /\ requests = 0

Push == \E s \in States : screens' = Append(screens, s)

ResetTo == \E s \in States : screens' = <<s>>

Pop ==
  screens' = IF Len(screens) = 1 THEN screens ELSE SubSeq(screens, 1, Len(screens) - 1)

Next == (Push \/ ResetTo \/ Pop) /\ requests' = requests + 1

Spec == Init /\ [][Next]_vars
===============================================================================
