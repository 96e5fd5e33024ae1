SPECIFICATION Spec
CONSTANTS
    Sessions <- FarSessions
    Capacities <- MCCapacities
    DefaultClusterCapacity = 1
    LocalSession = 100
    MaxGenerated = 4
INVARIANTS
    RewriteInv
    SpacesAgree
    TranslationsAgree
    RecompressionAgrees
    ResumeIsExact
    SummariesConverge
PROPERTIES
    ImplementsRust
