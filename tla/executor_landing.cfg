SPECIFICATION FairLaneSpec
CONSTANTS
  None = None
  MaxMoves = 1
  Callers = {}
  FalseConfirm = TRUE
PROPERTIES LandingLands
