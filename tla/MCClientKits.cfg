SPECIFICATION FairSpec
CONSTANTS
    Users = {u1, u2}
    NoUser = NoUser
    MaxInstances = 2
    MaxLeaks = 1
INVARIANTS
    KitsInv
    InitHolds
    CallbackIsOwn
PROPERTIES
    ExitSparesOthers
    LockReleased
