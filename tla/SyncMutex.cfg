CONSTANTS
    t1 = t1
    t2 = t2
    t3 = t3
    m1 = m1
    m2 = m2
    s1 = s1
    e1 = e1
    e2 = e2
    Thread = {t1, t2, t3}
    Mutex = {m1, m2}
    Semaphore = {}
    Event = {}
    ResetType <- NoEvents
    MaxCount <- NoCounts
    InitialCount <- NoCounts
    ReleaseCount = {1}
    MinCount <- MinusOne
    WaitList <- MutexLists
    ThreadPrioLowest = 1
    MaxLock = 1
    None = None
SPECIFICATION Spec
CHECK_DEADLOCK FALSE
INVARIANTS TypeOK OwnershipAgrees WaitListsAgree NoLostWakeup PriorityInherited WaiterBoosts
SYMMETRY Symmetry
