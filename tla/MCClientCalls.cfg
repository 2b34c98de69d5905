SPECIFICATION FairSpec
CONSTANTS
    Calls <- TwoCalls
    Conns <- TwoConns
    Kinds = {"ts", "py", "java"}
    MaxStrayErrors = 1
INVARIANTS CallsOnce RightCallRejected LostStaysLost
PROPERTY EverySettles
CHECK_DEADLOCK FALSE
