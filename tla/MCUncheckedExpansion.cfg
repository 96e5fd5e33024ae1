SPECIFICATION Spec
CONSTANTS
    Sessions <- NearSessions
    Capacities <- MCCapacities
    DefaultClusterCapacity = 1
    LocalSession = 100
    MaxGenerated = 4
INVARIANTS
    ChainsDisjoint
