CONSTANTS
    t1 = t1
    t2 = t2
    io = io
    m1 = m1
    m2 = m2
    m3 = m3
    Io = io
    Threads <- TwoThreads
    Msgs <- OneMessage
    Requests <- NoMessages
    Receivers <- TwoThreads
    Pipelined = FALSE
    Parts = 1
    Timeout = 0
    MaxTime = 1
    MaxInbound = 1
    Garbage = Garbage
    Event = Event
    Unknown = Unknown
    None = None
SPECIFICATION FairSpec
CHECK_DEADLOCK FALSE
PROPERTY ReceiveFindsMessage
