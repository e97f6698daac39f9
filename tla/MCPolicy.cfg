CONSTANTS
    K = 3
    QValues <- MCQValues
INIT Init
NEXT Next
INVARIANTS
    EncodersMatchSpec
    GreedyIsLowestArgMax
