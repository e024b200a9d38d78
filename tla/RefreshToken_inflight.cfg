CONSTANTS
    Calls = {c1, c2, c3, c4, c5}
    Logouts = {}
    Fingerprints = {f1}
    Modes = {TRUE}
    RefreshTTL = 3
    GracePeriod = 1
    MaxTime = 2
    CacheMayFail = FALSE
    StaleReads = FALSE
    None = None
SYMMETRY Symmetry
SPECIFICATION Spec
PROPERTIES ReuseEndsFamilyWhileMarked
CHECK_DEADLOCK FALSE
