CONSTANTS
    t1 = t1
    t2 = t2
    io = io
    m1 = m1
    m2 = m2
    m3 = m3
    Io = io
    Threads <- OneThread
    Msgs <- ThreeMessages
    Requests <- TwoMessages
    Receivers <- OneThread
    Pipelined = FALSE
    Parts = 2
    Timeout = 1
    MaxTime = 3
    MaxInbound = 2
    Garbage = Garbage
    Event = Event
    Unknown = Unknown
    None = None
SPECIFICATION FairSpec
CHECK_DEADLOCK FALSE
INVARIANTS
    IntactWire
    NoStrandedMessage
PROPERTIES
    EveryMessageLeaves
    RequestsSettle
    ShutdownObserved
