CONSTANTS
    t1 = t1
    t2 = t2
    t3 = t3
    p1 = p1
    p2 = p2
    Thread = {t1, t2, t3}
    Process = {p1, p2}
    NumCores = 1
    ThreadPrioLowest = 1
    Owner <- OneCoreOwner
    CoreOf <- OneCoreOf
    AsyncThread = {t3}
    NoThread = NoThread
    NoProcess = NoProcess
SPECIFICATION Spec
INVARIANTS TypeOK ReadyIffQueued NoSchedulerFault TimeoutCancelled SvcProcessRunning
PROPERTY PicksBest
SYMMETRY OneCoreSymmetry
