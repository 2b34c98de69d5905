CONSTANTS
    w1 = w1  w2 = w2  k1 = k1  k2 = k2  v1 = v1  v2 = v2
    Null = Null  Absent = Absent  Torn = Torn
    Writers <- TwoWriters
    Keys <- TwoKeys
    Values <- OneValue
    MaxDeltaLog = 2
    MaxCalls = 3
    MaxFaults = 0
    MaxIoErrors = 0
    MaxEntriesPerSegment = 1
    MaxSegmentsBeforeCompact = 1
SPECIFICATION Spec
INVARIANT AckedSurvive
CHECK_DEADLOCK FALSE
