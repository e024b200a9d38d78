CONSTANTS
    a1 = a1
    a2 = a2
    u1 = u1
    b1 = b1
    b2 = b2
    v1 = v1
    public = public
    confidential = confidential
    Nobody = Nobody
    Slots = {a1, a2}
    MaxRequests = 3
    MaxLogins = 1
    Users = {u1}
    Clients = {public, confidential}
    Client <- MCClient
    URIs = {b1, b2}
    Verifiers = {v1}
    Asks = {{}, {"offline_access"}}
    StoresFail = TRUE
    StaleReads = TRUE
    GapLocks = TRUE
    Polls = {a1, a2}
    Deciders = {b1, b2}
    Second = 2
    DeviceTTL = 4
    Interval = 4
    MaxTime = 5
SYMMETRY Symmetry
SPECIFICATION MCSpec
INVARIANT NotAskedAgain
CHECK_DEADLOCK FALSE
