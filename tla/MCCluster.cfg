CONSTANTS
    a = a  b = b  k1 = k1  v1 = v1  v2 = v2
    Null = Null  Unwatched = Unwatched
    Nodes <- TwoNodes
    Keys <- OneKey
    Values <- TwoValues
    Persistent <- OneLogs
    MaxMutations = 2
    MaxFaults = 1
    MaxCrashes = 1
SPECIFICATION FairSpec
INVARIANTS VersionsBelowCounter DeliveredOnce RedisCurrent
PROPERTY EventuallyConverge
CHECK_DEADLOCK FALSE
