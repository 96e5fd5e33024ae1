SPECIFICATION Spec
CONSTANTS
    Sessions <- CloseSessions
    Capacities <- MCCapacities
    DefaultClusterCapacity = 1
    LocalSession = 100
    MaxGenerated = 3
INVARIANTS
    IssuedIdsDecompress
