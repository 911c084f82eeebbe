SPECIFICATION SpeechSpec
CONSTANTS
    speech = speech
    Clients = {speech, player}
    Phrases <- MCPhrases
    Keys = {"bye"}
    Texts <- MCTexts
    Replies <- MCReplies
    Others <- MCOthers
    MaxRetries = 1
    MaxJobs = 0
    WordLen = 2
    SoftMax = 6
    CutFrom = 4
    CutTo = 7
    MinLen = 3
    MinCtx = 2
INVARIANTS NoPileUp SaidInOrder PlacesAreExact
PROPERTIES PhraseServed ReplyEnds
CHECK_DEADLOCK FALSE
