SPECIFICATION Spec
CONSTANTS
    Texts = {}
    NoText = NoText
    Tasks = {t1, t2}
    Free = Free
    SilenceMax = 2
    EarlyMax = 2
    TimeoutCounts = {}
    MaxPending = 0
    MaxPlaybacks = 1
PROPERTIES
    FarewellNeedsSilence
    ClosedCallEnds
    EarlyClosesHangUp
    RealSilenceHangsUp
CHECK_DEADLOCK FALSE
