CONSTANTS
    a = a
    m = m
    Nil = Nil
    Keys = {a}
    Sessions = {1, 2}
    Mutators = {m}
    Mutations = {"set", "append"}
    Methods = {"append", "delete"}
    Watchable = {a}
    WatchLists <- ListOfA
    Refused = {"WATCH", "CALL"}
    LogCap = 1
    JobCap = 1
    Backpressure = 2
    WatchLimit = 1
    MaxMutations = 1
    MaxRequests = 2
    MaxLosses = 1
    MaxReaps = 1
SPECIFICATION FairSpec
INVARIANTS
    ReplayComplete
    NoLeak
    ConvergesUnlessSpoiled
PROPERTY FanoutNeverStalls
CHECK_DEADLOCK FALSE
