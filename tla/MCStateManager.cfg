SPECIFICATION Spec
CONSTANTS
  initial = initial
  overlay = overlay
  dialog = dialog
  screen = screen
  States <- FourStates
  Initial = initial
  UpdatesBelow <- OverlayOnly
  DrawsBelow <- OverlayAndDialog
  MaxPops = 3
INVARIANT ScreenIsStack
INVARIANT HandlerOwnerLives
PROPERTY StateStackSpec
CHECK_DEADLOCK FALSE
