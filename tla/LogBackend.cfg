CONSTANTS
    p1 = p1
    p2 = p2
    p3 = p3
    Producer = {p1, p2, p3}
    Capacity = 2
    IndexRange = 4
    MaxEntries = 7
    Entry = {1, 2, 3, 4, 5, 6, 7}
    NoEntry = 0
    HasJthread = TRUE
    MaxLogs = 3
SPECIFICATION FairSpec
INVARIANTS TypeOK LogFaithful
PROPERTIES RefinesFifo PushReturns StopReturns
CHECK_DEADLOCK FALSE
