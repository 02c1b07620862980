SPECIFICATION FairLoopSpec
CONSTANTS
    f1 = f1
    f2 = f2
    t1 = t1
    t2 = t2
    Fds <- MCFds
    Tokens <- MCTokens
    NoToken = NoToken
    NoFd = NoFd
    WakeFd = wake
    MaxEvents = 2
INVARIANT
    TableMatchesEpoll
PROPERTIES
    NoEventLost
    StopEnds
    EdgeHandled
CHECK_DEADLOCK FALSE
