SPECIFICATION FairSpec
CONSTANTS
    Threads = {t1, t2}
    Consumers = {c1, c2}
    NoThread = NoThread
    MAX_RING_BUFFER_NUM = 2
INVARIANTS
    StreamInv
    DiesOnlyOfOverlap
    SlotFollowsStream
PROPERTIES
    SuccessStays
    StopReturns
    DataReturns
CHECK_DEADLOCK FALSE
