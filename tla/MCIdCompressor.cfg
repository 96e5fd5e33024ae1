SPECIFICATION Spec
CONSTANTS
    Sessions <- MCSessions
    Capacities <- MCCapacities
    DefaultClusterCapacity = 1
    LocalSession = 100
    MaxGenerated = 4
INVARIANTS
    IndInv
    ClustersTile
    IssuedIdsDecompress
    IssuedIdsRecompress
    IssuedIdsRoundTrip
    FinalsNormalize
PROPERTIES
    FinalsPermanent
    TranslationsPermanent
    TokensPermanent
