CONSTANTS
    t1 = t1
    t2 = t2
    io = io
    m1 = m1
    m2 = m2
    m3 = m3
    Io = io
    Threads <- TwoThreads
    Msgs <- ThreeMessages
    Requests <- NoMessages
    Receivers <- NoThreads
    Pipelined = TRUE
    Parts = 1
    Timeout = 0
    MaxTime = 1
    MaxInbound = 0
    Garbage = Garbage
    Event = Event
    Unknown = Unknown
    None = None
SPECIFICATION Spec
CHECK_DEADLOCK FALSE
INVARIANT NoStrandedMessage
