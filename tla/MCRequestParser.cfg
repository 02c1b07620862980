SPECIFICATION Spec
CONSTANTS
    Chars <- MCChars
    tolower <- MCtolower
    toupper <- MCtoupper
    Blocks <- AllBlocks
    LaterBlocks <- ReuseBlocks
    MaxRequests = 3
INVARIANTS
    TypeOK
    LineRead
    HeadersRead
CHECK_DEADLOCK FALSE
