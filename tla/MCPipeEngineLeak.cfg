SPECIFICATION Spec
CONSTANTS
    w1 = w1
    w2 = w2
    n1 = n1
    n2 = n2
    NoOne = NoOne
    NoAddr = NoAddr
    Worker <- MCWorker
    Node <- MCNode
    PerNode = 1
    MaxDials = 3
    MaxMoves = 0
INVARIANTS
    ConnsPerNode
