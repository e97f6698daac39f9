CONSTANTS
    a1 = a1
    a2 = a2
    a3 = a3
    Addrs <- MCAddrs
    K = 3
    QueuedChildren = {0, 1}
    MaxTrackedPrefetches = 2
    MaxCandidates = 2
    MaxQueries = 4
SPECIFICATION Spec
SYMMETRY AddrSymmetry
CHECK_DEADLOCK FALSE
INVARIANTS
    TypeOK
    TableBounded
    TrackedByNewestIssuer
