SPECIFICATION FairSpec
CONSTANTS
    MaxMoves = 2
    ReturnMoves = 2
    HoldsOnLoss = TRUE
    None = None
CHECK_DEADLOCK FALSE
INVARIANT ManualTypeOK
PROPERTY SearchContinues
PROPERTY ControlPromise
PROPERTY HandsOff
PROPERTY SearchGoesOn
