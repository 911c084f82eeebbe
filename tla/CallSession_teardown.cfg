SPECIFICATION Spec
CONSTANTS
    Texts = {hello}
    NoText = NoText
    Tasks = {t1}
    Free = Free
    SilenceMax = 1
    EarlyMax = 1
    TimeoutCounts = {}
    MaxPending = 0
    MaxPlaybacks = 2
INVARIANTS
    NoPlaybackAfterCancel
CHECK_DEADLOCK FALSE
