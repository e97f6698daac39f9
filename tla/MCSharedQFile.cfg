CONSTANTS
    c1 = c1
    c2 = c2
    s1 = s1
    s2 = s2
    r1 = r1
    r2 = r2
    Ctrls <- MCCtrls
    CacheName <- MCCollidingCaches
    ObjName <- MCObjName
    SigOf <- MCSigOf
    Rows <- MCRows
    States = {0, 121}
    MaxRuns = 2
    MaxEpochsPerRun = 2
SPECIFICATION Spec
SYMMETRY MCRowSymmetry
CHECK_DEADLOCK FALSE
PROPERTIES
    OwnTableResumed
