SPECIFICATION Spec
CONSTANTS
    w1 = w1
    w2 = w2
    Worker <- MCWorker
    PoolSize = 2
    MaxPuts = 1
    MaxBreaks = 0
INVARIANTS
    AckedIsReplicated
