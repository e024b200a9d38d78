CONSTANTS
    a1 = a1
    a2 = a2
    u1 = u1
    ip1 = ip1
    p1 = p1
    p2 = p2
    Nobody = Nobody
    Logins = {a1, a2}
    MaxTries = 4
    Users = {u1}
    Spellings <- MCSpellings
    Account <- MCAccount
    Username <- MCUsername
    IPs = {ip1}
    Passwords = {p1, p2}
    MaxFailuresPerUser = 2
    UserLockThreshold = 2
    PermanentUserLockThreshold = 2
    MaxFailuresPerIP = 2
    CtxMayCancel = TRUE
    FailingStores = {"mysql"}
    MaxAdminCalls = 1
    Slots = {a1, a2}
    MaxRequests = 3
    Identities <- MCIdentities
    Claims <- MCClaims
    Sanitized <- MCSanitized
    Forms <- MCForms
    Earlier <- MCEarlier
    o1 = o1
    o2 = o2
    States = {o1, o2}
    MaxCandidates = 2
    StaleReads = FALSE
    StoresFail = TRUE
SPECIFICATION MCSpec
INVARIANTS WrongPasswordsBounded LockoutHolds LockIsBacked AccountsTypeOK IdentityFindsItsRow
CHECK_DEADLOCK FALSE
SYMMETRY Symmetry
