---------------------------- MODULE MCStateManager ----------------------------
(* Model values for StateManager: the initial screen, an overlay that lets *)
(* everything through, one that only lets the screen below be drawn, and a *)
(* screen that hides what is below.                                        *)
EXTENDS StateManager

CONSTANTS initial, overlay, dialog, screen

FourStates == {initial, overlay, dialog, screen}

OverlayOnly == {overlay}

OverlayAndDialog == {overlay, dialog}
===============================================================================
