CONSTANTS
    s1 = s1
    s2 = s2
    s3 = s3
    u1 = u1
    u2 = u2
    c1 = c1
    c2 = c2
    Nobody = Nobody
    Sessions = {s1, s2}
    Users = {u1, u2}
    Owner <- OneUser
    Calls = {c1, c2}
    StaleReads = TRUE
    StrongRead = FALSE
    Slots = {c1, c2}
    MaxRequests = 4
    t1 = t1
    t2 = t2
    Enrolling = {t1, t2}
    MaxSecrets = 3
    MaxCeremonies = 1
    TimeSteps = {1, 2}
    Credentials = {"k"}
    StoresFail = TRUE
SYMMETRY Symmetry
SPECIFICATION MCSpec
PROPERTIES NotFoundMeansNoRow
CHECK_DEADLOCK FALSE
