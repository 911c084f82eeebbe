SPECIFICATION Spec
CONSTANTS
    Tasks = {t1, t2, t3}
    Free = Free
    Phrases = {sure, wait}
    NoPhrase = NoPhrase
    MaxRetries = 1
INVARIANTS
    TypeOK
    OneVoice
    OnlyLateCancelLeaks
PROPERTIES
    OnlyOverlapsRepeat
    EveryPhraseEnds
CHECK_DEADLOCK FALSE
