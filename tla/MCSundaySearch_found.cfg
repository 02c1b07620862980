SPECIFICATION Spec
CONSTANTS
    cr = cr
    lf = lf
    ascii = ascii
    high = high
    Chars <- MCChars
    Negative <- MCNegative
    Until <- MCUntil
    MaxLen = 6
    Slack = 2
INVARIANT
    FoundIsThere
CHECK_DEADLOCK FALSE
