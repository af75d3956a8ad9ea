SPECIFICATION FairSpec
CONSTANTS
    c1 = c1
    c2 = c2
    c3 = c3
    Callers <- ThreeCallers
    TTL = 1
    Timely <- OtherCallers
    MayCrash <- OneCaller
INVARIANTS
    FileHasItsRun UnrobbedOwnsFile
PROPERTIES
    RobbedLeavesSuccessorAlone AbandonedLockRecovers AcquireTerminates
