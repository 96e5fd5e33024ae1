SPECIFICATION Spec
CONSTANTS
    Sessions <- FarSessions
    Capacities <- MCCapacities
    DefaultClusterCapacity = 1
    LocalSession = 100
    MaxGenerated = 2
INVARIANTS
    SummariesCanBeWritten
