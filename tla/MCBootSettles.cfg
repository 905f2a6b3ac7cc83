SPECIFICATION BootFairSpec
CONSTANTS
    Hmps = {h1}
    First = h1
    Versions = {1, 2, 3}
    LINE = 10
    PRE = 1
    PackageKinds = {"incr"}
    MAX_FAULT = 1
PROPERTIES BootSettles
INVARIANT RunsWhatItReports
