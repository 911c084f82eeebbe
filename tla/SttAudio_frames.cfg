SPECIFICATION Spec
CONSTANTS
    QueueMax = 2
    MaxFrames = 5
INVARIANTS
    TypeOK
PROPERTIES
    FeedsTurn
    FramesFlow
CHECK_DEADLOCK FALSE
