CONSTANTS
    t1 = t1
    t2 = t2
    io = io
    m1 = m1
    m2 = m2
    m3 = m3
    Io = io
    Threads <- TwoThreads
    Msgs <- TwoMessages
    Requests <- TwoMessages
    Receivers <- NoThreads
    Pipelined = TRUE
    Parts = 1
    Timeout = 0
    MaxTime = 2
    MaxInbound = 3
    Garbage = Garbage
    Event = Event
    Unknown = Unknown
    None = None
SPECIFICATION Spec
SYMMETRY Interchangeable
CHECK_DEADLOCK FALSE
INVARIANTS
    TypeOK
    PendingLedger
    NoReplyOvertakes
PROPERTIES
    ImplementsOutcome
