SPECIFICATION FairSpec
CONSTANTS
    c1 = c1
    c2 = c2
    c3 = c3
    Conns <- MCConns
    Tokens <- MCTokens
    Server = server
    NoConn = NoConn
    NoToken = NoToken
    NoFd = NoFd
    Fds = {f0, f1, f2}
    ListenFd = f0
    WakeFd = wake
    MaxEvents = 2
INVARIANTS
    NoDanglingHandler
    NoFdLeak
    NeverDeaf
    NoStaleEvent
PROPERTIES
    LoopSpec
    ClientAccepted
CHECK_DEADLOCK FALSE
