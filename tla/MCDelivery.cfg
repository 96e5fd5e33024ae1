SPECIFICATION FairSpec
CONSTANTS
    Sessions <- FarSessions
    Founders <- OneFounder
    Capacities <- OneCapacity
    DefaultClusterCapacity = 1
    NarrowLimit = 4
    UpperSize = 32
    MiddleSize = 4
    LowerSize = 4
    MaxGenerated = 3
    MaxOps = 3
INVARIANTS
    DocInv
    ResumeIsExact
PROPERTIES
    KeepsPromise
    TakenIdsFinalized
CHECK_DEADLOCK FALSE
