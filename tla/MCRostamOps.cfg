SPECIFICATION FairSpec
CONSTANTS
    w1 = w1
    w2 = w2
    o1 = o1
    o2 = o2
    k1 = k1
    k2 = k2
    NoOne = NoOne
    Worker <- MCWorker
    Other <- MCOthers
    Key <- MCKey
    NumShards = 2
    ShardIndex <- MCShardIndex
    Streaks = {1, 2}
    Retries = 2
    Width = 2
    MaxOps <- MCMaxOps
    MaxBarriers = 1
INVARIANTS
    NoLostUpdate
    NilMeansAppliedOnce
    BarrierIsExclusive
PROPERTIES
    EveryOpReturns
