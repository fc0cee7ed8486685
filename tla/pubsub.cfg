CONSTANTS
    t1 = t1
    t2 = t2
    s1 = s1
    s2 = s2
    m1 = m1
    m2 = m2
    Threads <- TwoThreads
    Sessions <- TwoSessions
    Msgs <- TwoMessages
    None = None
SPECIFICATION FairSpec
CHECK_DEADLOCK FALSE
INVARIANTS
    TypeOK
    Registry
    SubscribersRegistered
    SameOrder
    LeavesOnce
PROPERTIES
    ReachesAll
    CallsReturn
