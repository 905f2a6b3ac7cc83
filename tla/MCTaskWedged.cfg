SPECIFICATION MgrSpec
CONSTANTS
    Threads = {t1, t2}
    Objs = {o1, o2}
    NoObj = NoObj
    Percents = {60}
    Serial = TRUE
    Tasks = {k1}
    Called = {"SysInstallerInit", "GetUpdateResult"}
INVARIANT InitializedTaskCanStart
