SPECIFICATION Spec
CONSTANTS
    Landers = {l1, l2}
    l1 = l1
    l2 = l2
    None = None
SYMMETRY LanderSymmetry
INVARIANTS TelloTypeOK AirborneIsMarked
PROPERTIES LandReturnsDown AutoLandUndisturbed
