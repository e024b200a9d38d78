CONSTANTS
    Calls = {c1, c2, c3}
    Logouts = {}
    Fingerprints = {f1, f2}
    Modes = {TRUE, FALSE}
    RefreshTTL = 2
    GracePeriod = 1
    MaxTime = 3
    CacheMayFail = TRUE
    StaleReads = TRUE
    None = None
SYMMETRY Symmetry
SPECIFICATION Spec
INVARIANTS OneLiveTokenPerFamily RefreshesAgree RotationInv
PROPERTY ImplementsTokenFamily
CHECK_DEADLOCK FALSE
