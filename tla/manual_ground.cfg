SPECIFICATION FairSpec
CONSTANTS
    MaxClicks = 2
    None = None
CHECK_DEADLOCK FALSE
INVARIANT ControlTypeOK
PROPERTY ReleaseIsReal
PROPERTY ControlIsReal
PROPERTY UnattendedLands
