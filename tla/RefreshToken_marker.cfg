CONSTANTS
    Calls = {c1, c2, c3, c4}
    Logouts = {}
    Fingerprints = {f1}
    Modes = {TRUE}
    RefreshTTL = 4
    GracePeriod = 1
    MaxTime = 4
    CacheMayFail = FALSE
    StaleReads = FALSE
    None = None
SYMMETRY Symmetry
SPECIFICATION Spec
PROPERTIES ReuseEndsFamily
CHECK_DEADLOCK FALSE
