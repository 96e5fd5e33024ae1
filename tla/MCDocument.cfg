SPECIFICATION Spec
CONSTANTS
    Sessions <- FarSessions
    Founders <- OneFounder
    Capacities <- TwoCapacities
    DefaultClusterCapacity = 1
    NarrowLimit = 4
    UpperSize = 32
    MiddleSize = 4
    LowerSize = 4
    MaxGenerated = 3
    MaxOps = 4
INVARIANTS
    TypeOK
    Convergence
    RangesAccepted
    DeliveredIdsKeepTheirMeaning
    FinalsAgree
CHECK_DEADLOCK FALSE
