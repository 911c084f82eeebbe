SPECIFICATION Spec
CONSTANTS
    Callers = {c1, c2}
    Refresher = Refresher
    Free = Free
    Lifetimes = {20}
    MaxAttempts = 2
    MaxFetch = 1
INVARIANTS
    TypeOK
    CacheIsConservative
    NoHerd
    CacheStaysWarm
PROPERTIES
    CallEnds
