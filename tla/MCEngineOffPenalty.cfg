CONSTANTS
    K = 2
    InitAction = 0
    HasCache = TRUE
    HasCpu = TRUE
    TicksPerEpoch = 10000
    LearningRate <- MCLearningRate
    ExploreInit = "positive"
    CounterWidth = 4
    CanResetStats = FALSE
    MaxEpochs = 2
    MaxRuns = 1
    MaxAccessesPerEpoch = 1
    MaxOpsPerEpoch = 1
SPECIFICATION Spec
CHECK_DEADLOCK FALSE
PROPERTIES
    OffUnpenalised
