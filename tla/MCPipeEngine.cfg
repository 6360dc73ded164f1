SPECIFICATION FairSpec
CONSTANTS
    w1 = w1
    w2 = w2
    n1 = n1
    n2 = n2
    NoOne = NoOne
    NoAddr = NoAddr
    Worker <- MCWorker
    Node <- MCNode
    PerNode = 1
    MaxDials = 2
    MaxMoves = 1
INVARIANTS
    TypeOK
    NilMeansExecuted
    AtMostTwice
PROPERTIES
    EveryCallReturns
    StaleRoutesEnd
