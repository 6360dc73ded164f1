SPECIFICATION FairSpec
CONSTANTS
    w1 = w1
    w2 = w2
    Worker <- MCWorker
    NumNodes = 2
    Attempts = 2
    Total = 5
    Chunk = 2
    NoJob = NoJob
INVARIANTS
    TypeOK
    PointsConserved
    RowMeansSearchable
PROPERTIES
    EveryRunPrints
