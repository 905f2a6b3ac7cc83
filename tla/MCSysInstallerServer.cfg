SPECIFICATION SrvFairSpec
CONSTANTS
    Threads = {t1, t2}
    Objs = {o1}
    NoObj = NoObj
    Percents = {60}
    Serial = TRUE
    Tasks = {k1}
    Called = {"SysInstallerInit", "StartUpdatePackageZip", "GetUpdateResult", "StartVabMerge"}
    MAX_RUNNING_SET_SIZE = 256
    EXIT_CHECK_IDLE_COUNT_THRESHOLD = 3
INVARIANTS
    SrvTypeOK
    UnloadSparesUpdates
    UpdateKeepsGuard
PROPERTY IdleServiceExits
