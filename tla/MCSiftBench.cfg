SPECIFICATION FairSpec
CONSTANTS
    N = 3
    PipeBatch = 2
    CONC = 2
    DUR = 1
    Batch = 2
    MaxStart = 1
    MaxTime = 3
    MaxN = 4
    None = None
    K = 2
    EF_SWEEP <- MCSweep
    LAT_N = 2
    Groundtruth <- MCGroundtruth
INVARIANTS
    MeasuredIsBuilt
    RowIsTrue
    QpsIsHonest
PROPERTIES
    RunEnds
