SPECIFICATION FairSpec
CONSTANTS
    w1 = w1
    w2 = w2
    Worker <- MCWorker
    Warm = 1
    Dur = 1
    Batch = 2
    Horizon = 4
    MaxOps = 2
INVARIANTS
    TypeOK
    CountsAgree
    ElapsedCovers
    PctIsPercentile
PROPERTIES
    RunReturns
