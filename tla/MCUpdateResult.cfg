SPECIFICATION Spec
CONSTANTS
    Hmps = {h1, h2}
    CurrentHmp = h1
    NL = NL
    Scrap = Scrap
    MaxResults = 3
INVARIANTS
    RevertedNotSuccessful
    ResultInv
PROPERTIES
    NothingRemovedUntold
