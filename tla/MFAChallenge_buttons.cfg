CONSTANTS
    Requests = {r1, r2, r3}
    LoginModes = {"push"}
    Words = {"approve", "deny"}
    TOTPSteps = {s1, s2}
    VersionLimit = 2
    TornReads = FALSE
    Unset = Unset
    r1 = r1
    r2 = r2
    r3 = r3
    s1 = s1
    s2 = s2
SYMMETRY Symmetry
SPECIFICATION MCSpec
PROPERTY ButtonsDecide
CHECK_DEADLOCK FALSE
