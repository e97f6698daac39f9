CONSTANTS
    s1 = s1
    s2 = s2
    r1 = r1
    r2 = r2
    Sigs <- MCSigs
    Rows <- MCRows
    States = {0, 121}
    CanFailOpen = TRUE
    MaxRuns = 3
    MaxEpochsPerRun = 2
SPECIFICATION Spec
SYMMETRY MCSymmetry
CHECK_DEADLOCK FALSE
PROPERTIES
    LoadAllOrNothing
    RoundTrip
