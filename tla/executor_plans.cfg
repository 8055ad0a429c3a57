SPECIFICATION Spec
CONSTANTS
  None = None
  MaxMoves = 1
  Callers = {"callback"}
  FalseConfirm = TRUE
INVARIANTS LaneTypeOK EndLandingUncontested
PROPERTIES NoTakeoffUnderLanding TouchdownEndsPlan HoldSticks
