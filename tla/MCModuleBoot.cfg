SPECIFICATION BootSpec
CONSTANTS
    Hmps = {h1}
    First = h1
    Versions = {1, 2, 3}
    LINE = 10
    PRE = 1
    PackageKinds = {"full"}
    MAX_FAULT = 1
INVARIANTS BootInv PromiseKept PreviousSurvives RunsWhatItReports
