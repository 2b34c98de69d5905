CONSTANTS
    s1 = s1  s2 = s2  w1 = w1  w2 = w2  h1 = h1
    Senders <- MCSenders
    Workers <- MCWorkers
    Handles <- MCHandles
    Unencodable <- MCUnencodable
    Capacity = 2
    MaxMsgs = 2
    MaxStuck = 1
SPECIFICATION FairSpec
INVARIANTS TypeOK PendingExact SingleDrainer NoStranded DeliveredInOrder
           BackpressureEvicts
PROPERTY Drains
CHECK_DEADLOCK FALSE
