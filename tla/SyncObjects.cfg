CONSTANTS
    t1 = t1
    t2 = t2
    t3 = t3
    m1 = m1
    m2 = m2
    s1 = s1
    e1 = e1
    e2 = e2
    Thread = {t1, t2}
    Mutex = {m1}
    Semaphore = {s1}
    Event = {e1, e2}
    ResetType <- OneShotPulse
    MaxCount <- OneSlot
    InitialCount <- OneSlot
    ReleaseCount <- UpAndDown
    MinCount <- MinusOne
    WaitList <- ObjectLists
    ThreadPrioLowest = 0
    MaxLock = 2
    None = None
SPECIFICATION FairSpec
INVARIANTS NoLostWakeup AcquireAvailable OnlyWaitersListed
PROPERTY CallEnds
CHECK_DEADLOCK FALSE
