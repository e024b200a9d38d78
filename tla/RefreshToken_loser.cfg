CONSTANTS
    Calls = {c1, c2, c3}
    Logouts = {}
    Fingerprints = {f1}
    Modes = {TRUE}
    RefreshTTL = 2
    GracePeriod = 1
    MaxTime = 2
    CacheMayFail = FALSE
    StaleReads = FALSE
    None = None
SYMMETRY Symmetry
SPECIFICATION Spec
PROPERTIES LoserGetsWinnersResponse
CHECK_DEADLOCK FALSE
