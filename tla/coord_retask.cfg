SPECIFICATION FairSpec
CONSTANTS
  d1 = d1
  d2 = d2
  d3 = d3
  None = None
  Transit = Transit
  Links <- ThreeLinks
  LaneCount <- LanesOfThree
  MaxPlans = 2
  MaxTurns = 3
INVARIANTS CoordTypeOK LanesConserved AckedIsFlown CoveredIsAccepted LandAllIsLast
PROPERTIES RetaskReported
CHECK_DEADLOCK FALSE
