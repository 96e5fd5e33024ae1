SPECIFICATION Spec
CONSTANTS
    Sessions <- CloseSessions
    Founders <- CloseSessions
    Capacities <- OneCapacity
    DefaultClusterCapacity = 1
    NarrowLimit = 4
    UpperSize = 32
    MiddleSize = 4
    LowerSize = 4
    MaxGenerated = 2
    MaxOps = 2
INVARIANTS
    FinalsAgree
CHECK_DEADLOCK FALSE
