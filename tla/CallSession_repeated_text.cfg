SPECIFICATION Spec
CONSTANTS
    Texts = {hello, thanks}
    NoText = NoText
    Tasks = {t1}
    Free = Free
    SilenceMax = 1
    EarlyMax = 1
    TimeoutCounts = {}
    MaxPending = 0
    MaxPlaybacks = 3
SYMMETRY Symmetry
INVARIANTS
    FailureApologised
CHECK_DEADLOCK FALSE
