SPECIFICATION Spec
CONSTANTS
    Texts = {hello, thanks}
    NoText = NoText
    MaxSilences = 2
    MaxCommands = 2
    MaxWire = 2
INVARIANTS
    TypeOK
    ServiceToldRight
PROPERTIES
    EosFollowsFinal
    NoDuplicateFinal
    RejoinsTurn
CHECK_DEADLOCK FALSE
