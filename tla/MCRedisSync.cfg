SPECIFICATION FairSpec
CONSTANTS
    w1 = w1
    w2 = w2
    Worker <- MCWorker
    PoolSize = 2
    MaxPuts = 2
    MaxBreaks = 1
INVARIANTS
    TypeOK
    SameConnAckIsReplicated
PROPERTIES
    EveryPutReturns
