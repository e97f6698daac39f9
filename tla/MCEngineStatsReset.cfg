CONSTANTS
    K = 3
    InitAction = 0
    HasCache = TRUE
    HasCpu = TRUE
    TicksPerEpoch = 10000
    LearningRate <- MCLearningRate
    ExploreInit = "positive"
    CounterWidth = 4
    CanResetStats = TRUE
    MaxEpochs = 2
    MaxRuns = 1
    MaxAccessesPerEpoch = 2
    MaxOpsPerEpoch = 1
SPECIFICATION Spec
CHECK_DEADLOCK FALSE
INVARIANTS
    QValuesBounded
