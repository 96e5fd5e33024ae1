SPECIFICATION Spec
CONSTANTS
    Sessions <- ThreeSessions
    Founders <- OneFounder
    Capacities = {}
    DefaultClusterCapacity = 1
    NarrowLimit = 4
    UpperSize = 32
    MiddleSize = 4
    LowerSize = 4
    MaxGenerated = 2
    MaxOps = 3
INVARIANTS
    DeliveredIdsKeepTheirMeaning
    RelayedIdsKeepTheirMeaning
CHECK_DEADLOCK FALSE
