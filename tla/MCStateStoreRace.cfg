CONSTANTS
    w1 = w1  w2 = w2  k1 = k1  k2 = k2  v1 = v1  v2 = v2
    Null = Null  Absent = Absent  Torn = Torn
    Writers <- TwoWriters
    Keys <- OneKey
    Values <- OneValue
    MaxDeltaLog = 1
    MaxCalls = 3
    MaxFaults = 1
    MaxIoErrors = 1
    MaxEntriesPerSegment = 1
    MaxSegmentsBeforeCompact = 1
SPECIFICATION FairSpec
INVARIANTS DiskVersionsAgree
PROPERTY CallsReturn
CHECK_DEADLOCK FALSE
