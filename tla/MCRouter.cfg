SPECIFICATION Spec
CONSTANTS
    Patterns <- MCPatterns
    Language <- MCLanguage
    Malformed <- MCMalformed
    Uris <- MCUris
    Methods = {"GET", "POST", "TRACE"}
    h1 = h1
    h2 = h2
    NoHandler = NoHandler
    Handlers = {h1, h2}
    Overrides <- MCOverrides
    MaxRegistered = 4
    MaxRequests = 2
INVARIANTS
    TypeOK
    CallOrder
    NewestServes
    NotFoundIsRight
CHECK_DEADLOCK FALSE
