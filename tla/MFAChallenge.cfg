CONSTANTS
    Requests = {r1, r2, r3}
    LoginModes = {"totp", "passkey", "push"}
    Words = {"approved", "denied", "approve"}
    TOTPSteps = {s1, s2}
    VersionLimit = 2
    TornReads = TRUE
    Unset = Unset
    r1 = r1
    r2 = r2
    r3 = r3
    s1 = s1
    s2 = s2
SYMMETRY Symmetry
SPECIFICATION MCSpec
INVARIANTS StateMatchesHash OneSessionPerTOTPStep PushSessionWasApproved CookieWhileOpen
PROPERTIES DecisionIsFinal GoneForGood TripKeepsState
CHECK_DEADLOCK FALSE
