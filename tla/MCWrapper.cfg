SPECIFICATION Spec
CONSTANTS
    Sessions <- ThreeSessions
    LocalSession = 14
    NoSession = NoSession
    NaN = NaN
    WithFraction = WithFraction
    CapacityNumbers <- Numbers
    DefaultClusterCapacity = 1
    MaxClusterCapacity = 2
    NarrowLimit = 4
    UpperSize = 2
    MiddleSize = 4
    LowerSize = 4
    ExactLimit = 6
    MaxSize = 2
    Target = 1
    MaxGenerated = 3
    RemoteRanges <- RangesOfOthers
INVARIANTS
    WrapperInv
    TokensCurrent
    LastUsedIsCached
    CacheBounded
    IdsCrossTheBoundary
    AnswersAreCurrent
    StatsAddUp
CHECK_DEADLOCK FALSE
