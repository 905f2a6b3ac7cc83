SPECIFICATION FairSpec
CONSTANTS
    Modules = {m1, m2}
    Foreign = {f1, f2}
    NoImage = NoImage
    MaxLoops = 5
    LOOP_DEVICE_SETUP_ATTEMPTS = 3
INVARIANTS
    FailureFreesDevice
    DevicesInv
    ForeignKept
PROPERTIES
    EveryModuleSettles
CHECK_DEADLOCK FALSE
