SPECIFICATION FairSpec
CONSTANTS
    Text = text
    Units <- MixedUnits
    Ends <- MixedEnds
    NonAscii = {}
    Handlers <- MCHandlers
    NoHandler = NoHandler
    RecvBufSize = 2
    SendBufSize = 2
    SendRoom = 1
    IntMod = 8
    Lengths <- MCLengths
    MaxInput = 3
    MaxOutput = 6
    MaxWrite = 2
    Replies <- AllReplies
    RespLen = 2
INVARIANTS
    TypeOK
    AlwaysListening
    
    LivePeerNeverFreed
PROPERTIES
    StreamSpec
    LifecycleSpec
    RequestReplySpec
    ConnectionEnds
CHECK_DEADLOCK FALSE
