SPECIFICATION FairSpec
CONSTANTS
    cr = cr
    lf = lf
    ascii = ascii
    high = high
    Chars <- MCChars
    Negative <- MCNegative
    Until <- MCUntil
    MaxLen = 7
    Slack = 1
INVARIANTS
    FindsFirst
    CompleteIsSafe
PROPERTY
    CompleteIsFound
CHECK_DEADLOCK FALSE
