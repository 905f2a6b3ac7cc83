SPECIFICATION MonFairSpec
CONSTANTS
    Sas = {sa1, sa2}
    Modules = {m1, m2}
    Unmapped = {sa2}
    MAX_SIZE = 2
CHECK_DEADLOCK FALSE
INVARIANTS
    MonTypeOK
    NoOverrun
    Fifo
PROPERTIES
    StartReturns
    ImplementsChannel
