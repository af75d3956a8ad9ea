SPECIFICATION Spec
CONSTANTS
    c1 = c1
    c2 = c2
    c3 = c3
    Callers <- ThreeCallers
    TTL = 2
    Timely <- ThreeCallers
    MayCrash <- Nobody
PROPERTY ImplementsMutex
