SPECIFICATION Spec
CONSTANTS
    Text = text
    Units <- TestEnds
    Ends <- TestEnds
    NonAscii = {}
    Handlers <- MCHandlers
    NoHandler = NoHandler
    RecvBufSize = 1
    SendBufSize = 2
    SendRoom = 4
    IntMod = 8
    Lengths <- MCLengths
    MaxInput = 2
    MaxOutput = 4
    MaxWrite = 2
    Replies <- OkReplies
    RespLen = 2
INVARIANT
    KeepsServing
CHECK_DEADLOCK FALSE
