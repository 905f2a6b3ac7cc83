SPECIFICATION ProcFairSpec
CONSTANTS
    Threads = {t1, t2}
    Objs = {o1}
    NoObj = NoObj
    Percents = {60}
    Serial = FALSE
INVARIANTS
    ProcesserInv
    SingleRunner
    ActionAlive
PROPERTIES
    ImplementsTask
    RunEnds
