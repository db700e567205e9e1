CONSTANTS
    t1 = t1
    t2 = t2
    t3 = t3
    p1 = p1
    p2 = p2
    Thread = {t1, t2}
    Process = {p1}
    NumCores = 2
    ThreadPrioLowest = 1
    Owner <- PairOwner
    CoreOf <- TwoCoreOf
    AsyncThread = {t1}
    NoThread = NoThread
    NoProcess = NoProcess
SPECIFICATION Spec
INVARIANTS SvcProcessRunning
