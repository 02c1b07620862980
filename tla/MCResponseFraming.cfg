SPECIFICATION Spec
CONSTANTS
    Chars <- MCChars
    tolower <- MCtolower
    HeaderMaps <- MCHeaderMaps
    Bodies <- MCBodies
    ErrorPage <- MCErrorPage
    Decimal <- MCDecimal
    MaxResponses = 3
INVARIANTS
    InStep
    OneContentType
CHECK_DEADLOCK FALSE
