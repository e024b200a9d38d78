CONSTANTS
    Events = {e1, e2}
    Malformed = {e2}
    Processes = {k1}
    BatchSize = 2
    MaxRetryCount = 2
    MaxMessages = 3
    MaxFaults = 2
    e1 = e1
    e2 = e2
    k1 = k1
SPECIFICATION FairSpec
INVARIANTS NothingLost DeadLettersWereRetried
PROPERTY EventuallyAcknowledged
CHECK_DEADLOCK FALSE
