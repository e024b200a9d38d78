CONSTANTS
    Calls = {c1, c2}
    Logouts = {l1}
    Fingerprints = {f1}
    Modes = {TRUE}
    RefreshTTL = 2
    GracePeriod = 1
    MaxTime = 1
    CacheMayFail = FALSE
    StaleReads = FALSE
    None = None
SYMMETRY Symmetry
SPECIFICATION Spec
INVARIANTS RevokedAccessTokenRefused
CHECK_DEADLOCK FALSE
