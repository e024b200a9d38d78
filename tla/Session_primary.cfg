CONSTANTS
    s1 = s1
    s2 = s2
    s3 = s3
    u1 = u1
    u2 = u2
    c1 = c1
    c2 = c2
    Nobody = Nobody
    Sessions = {s1, s2, s3}
    Users = {u1, u2}
    Owner <- TwoUsers
    Calls = {c1, c2}
    StaleReads = TRUE
    StrongRead = TRUE
    Slots = {c1, c2}
    MaxRequests = 4
    t1 = t1
    t2 = t2
    Enrolling = {t1, t2}
    MaxSecrets = 3
    MaxCeremonies = 1
    TimeSteps = {1, 2}
    Credentials = {"k"}
    StoresFail = TRUE
SYMMETRY Symmetry
SPECIFICATION MCSpec
INVARIANTS IndexCoversCache EndedStaysEnded FactorsWereProved ChallengeReplacesSession
CHECK_DEADLOCK FALSE
