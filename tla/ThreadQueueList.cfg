CONSTANTS
    Thread = {t1, t2}
    NumQueues = 4
    NoThread = NoThread
    Base = 2
SPECIFICATION FairSpec
INVARIANTS TypeOK ChainSorted WalkStaysInside
PROPERTIES RefinesReadyQueue WalkEnds
