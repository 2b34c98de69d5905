CONSTANTS
    c1 = c1  c2 = c2
    Conns <- TwoConns
    Tokens <- SomeTokens
    MaxPerSec <- OnePerSec
    MaxConnections = 1
    WsPingInterval = 1
    TicksPerSec = 2
    MaxLag = 1
    MaxTime = 7
    MaxRequests = 3
SPECIFICATION Spec
SYMMETRY Symmetric
INVARIANTS ConnectionsExact AtMostTwice LimitersAgree OpenIsAlive
PROPERTY PingGrace
CHECK_DEADLOCK FALSE
