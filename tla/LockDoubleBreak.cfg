SPECIFICATION Spec
CONSTANTS
    c1 = c1
    c2 = c2
    c3 = c3
    Callers <- ThreeCallers
    TTL = 1
    Timely <- ThreeCallers
    MayCrash <- ThreeCallers
SYMMETRY AlikeCallers
INVARIANT Exclusion
