SPECIFICATION Spec
CONSTANTS
    Texts = {hello, thanks}
    NoText = NoText
    QueueMax = 2
    SilentEnds = TRUE
    MaxTurns = 3
    MaxSays = 2
    MaxCommands = 2
INVARIANTS
    ServiceTypeOK
    OnlyFreshAudio
PROPERTIES
    CommandsProcessed
    LostConnectionEnds
CHECK_DEADLOCK FALSE
