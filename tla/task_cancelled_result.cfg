CONSTANTS
    w1 = w1
    w2 = w2
    r1 = r1
    a = a
    b = b
    Tasks <- TwoTasks
    Workers <- TwoWorkers
    Runners <- OneRunner
    Performers <- TheThreads
    Spurious = FALSE
    NDebug = FALSE
    None = None
SPECIFICATION Spec
CHECK_DEADLOCK FALSE
INVARIANT CancelledTaskReports
