SPECIFICATION Spec
CONSTANTS
    s1 = s1
    s2 = s2
    s3 = s3
    s4 = s4
    s5 = s5
    NoSession = NoSession
    Sessions <- MCSessions
    LocalSession = s1
    MaxSize = 3
    Target = 2
INVARIANTS
    NilTokenOnlyForFinals
CHECK_DEADLOCK FALSE
