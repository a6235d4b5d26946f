SPECIFICATION Spec
CONSTANTS
  initial = initial
  overlay = overlay
  dialog = dialog
  screen = screen
  States <- FourStates
  Initial = initial
  UpdatesBelow <- OverlayOnly
  DrawsBelow <- OverlayAndDialog
  MaxPops = 4
INVARIANT TopIsInteractive
CHECK_DEADLOCK FALSE
