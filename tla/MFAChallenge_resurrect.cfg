CONSTANTS
    Requests = {r1, r2, r3}
    LoginModes = {"totp", "passkey"}
    Words = {"approved", "denied"}
    TOTPSteps = {s1, s2}
    VersionLimit = 9
    TornReads = TRUE
    Unset = Unset
    r1 = r1
    r2 = r2
    r3 = r3
    s1 = s1
    s2 = s2
SYMMETRY Symmetry
SPECIFICATION MCSpec
PROPERTY ConsumedStaysGone
CHECK_DEADLOCK FALSE
