CONSTANTS
    t1 = t1
    t2 = t2
    t3 = t3
    m1 = m1
    m2 = m2
    s1 = s1
    e1 = e1
    e2 = e2
    Thread = {t1, t2, t3}
    Mutex = {m1, m2}
    Semaphore = {}
    Event = {}
    ResetType <- NoEvents
    MaxCount <- NoCounts
    InitialCount <- NoCounts
    ReleaseCount <- UpAndDown
    MinCount <- MinusOne
    WaitList <- SingleLists
    ThreadPrioLowest = 1
    MaxLock = 2
    None = None
SPECIFICATION Spec
INVARIANT NoPriorityInversion
CHECK_DEADLOCK FALSE
