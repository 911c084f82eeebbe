SPECIFICATION Spec
CONSTANTS
    Texts = {hello, thanks}
    NoText = NoText
    Tasks = {t1, t2}
    Free = Free
    SilenceMax = 2
    EarlyMax = 2
    TimeoutCounts = {2}
    MaxPending = 2
    MaxPlaybacks = 1
SYMMETRY Symmetry
INVARIANTS
    TypeOK
    LockHeldByPhrase
    NeverDeaf
    EndedQuietly
    ApologisedOnce
PROPERTIES
    OnlyHandlersEcho
CHECK_DEADLOCK FALSE
