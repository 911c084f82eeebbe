SPECIFICATION Spec
CONSTANTS
    Texts = {hello}
    NoText = NoText
    MaxSilences = 1
    MaxCommands = 2
    MaxWire = 9
    QueueMax = 1
    SilentEnds = FALSE
    MaxTurns = 1
    MaxSays = 1
INVARIANTS
    NoLostStart
CHECK_DEADLOCK FALSE
