SPECIFICATION PoliteSpec
CONSTANTS
    Text = text
    Units <- PoliteUnits
    Ends <- PoliteEnds
    NonAscii = {}
    Handlers <- MCHandlers
    NoHandler = NoHandler
    RecvBufSize = 2
    SendBufSize = 1
    SendRoom = 2
    IntMod = 8
    Lengths <- MCLengths
    MaxInput = 5
    MaxOutput = 10
    MaxWrite = 2
    Replies <- AllReplies
    RespLen = 2
INVARIANTS
    NoRequestSwallowed
    NoNestedRequest
    AnswerComplete
PROPERTY
    PoliteServed
CHECK_DEADLOCK FALSE
