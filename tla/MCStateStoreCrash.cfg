CONSTANTS
    w1 = w1  w2 = w2  k1 = k1  k2 = k2  v1 = v1  v2 = v2
    Null = Null  Absent = Absent  Torn = Torn
    Writers <- OneWriter
    Keys <- TwoKeys
    Values <- OneValue
    MaxDeltaLog = 2
    MaxCalls = 4
    MaxFaults = 2
    MaxIoErrors = 0
    MaxEntriesPerSegment = 1
    MaxSegmentsBeforeCompact = 2
SPECIFICATION Spec
INVARIANTS AckedSurvive MemoryMatchesDisk DeltaChain
PROPERTY ImplementsVersionedStore
CHECK_DEADLOCK FALSE
