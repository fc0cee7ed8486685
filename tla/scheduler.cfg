CONSTANTS
    t1 = t1
    t2 = t2
    t3 = t3
    Tasks <- ThreeTasks
    Delays <- UpToTwo
    MaxDelay = 2
    MaxSpurious = 1
    Infinite = 100
SPECIFICATION FairSpec
CHECK_DEADLOCK FALSE
INVARIANTS
    TypeOK
    WaitFinite
    NotBeforeItsTime
PROPERTIES
    EveryActionExecuted
    TerminationHeard
