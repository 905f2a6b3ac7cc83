SPECIFICATION MgrSpec
CONSTANTS
    Threads = {t1, t2, t3}
    Objs = {o1, o2}
    NoObj = NoObj
    Percents = {60}
    Serial = TRUE
    Tasks = {k1}
    Called = {"SysInstallerInit", "StartUpdatePackageZip", "SetUpdateCallback", "GetUpdateStatus", "GetUpdateResult", "StartVabMerge"}
SYMMETRY Symmetry
INVARIANTS
    VerifiedBeforeInstall
    SuccessMeansActivated
