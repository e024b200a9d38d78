CONSTANTS
    Calls = {c1, c2, c3}
    Logouts = {l1}
    Fingerprints = {f1}
    Modes = {TRUE}
    RefreshTTL = 2
    GracePeriod = 1
    MaxTime = 2
    CacheMayFail = FALSE
    StaleReads = TRUE
    None = None
SYMMETRY Symmetry
SPECIFICATION Spec
INVARIANTS LogoutEndsFamilies
CHECK_DEADLOCK FALSE
