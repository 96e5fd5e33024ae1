SPECIFICATION BothSpec
CONSTANTS
    MaxGenerated = 9
INVARIANTS
    TypeOK
    ContainsIsExact
    SearchIsOrdered
    MapImplementsList
    NeighboursAreNearest
    RangesAreExact
CHECK_DEADLOCK FALSE
