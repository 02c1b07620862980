SPECIFICATION StreamSpec
CONSTANTS
    Units = {txt, end}
    Ends = {end}
    NonAscii = {txt}
    Handlers = {h}
    NoHandler = NoHandler
    RecvBufSize = 1
    SendBufSize = 1
    SendRoom = 1
    IntMod = 4
    Lengths <- MCLengths
    MaxInput = 2
    MaxOutput = 2
    MaxWrite = 1
INVARIANTS
    InputOrder
    OutputOrder
    NoLostReadEdge
    NoLostWriteEdge
    NoStrandedRead
CHECK_DEADLOCK FALSE
