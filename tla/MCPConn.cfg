SPECIFICATION FairSpec
CONSTANTS
    w1 = w1
    w2 = w2
    w3 = w3
    Caller <- MCCaller
    Window = 2
    MaxCalls = 2
    NoOne = NoOne
    Empty = Empty
    Dead = Dead
INVARIANTS
    TypeOK
    ResponseMatches
    NoStrandedWaiter
    PushAfterDrainHasRoom
    InFlightBounded
    SlotAnsweredOnce
PROPERTIES
    EveryCallReturns
    ImplementsConn
    DeadConnDrained
