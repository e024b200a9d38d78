CONSTANTS
    n1 = n1
    n2 = n2
    Seed = Seed
    Nodes = {n1, n2}
    SeedRotates = 2
    Lifetime = 10
    RotateBefore = 1
    RetireAfter = 2
    RotateTimeout = 0
    MaxStale = 1
    TokenTTL = 1
    MaxTime = 1
    MaxForced = 1
    MaxFaults = 1
SPECIFICATION FairSpec
INVARIANTS TokensOutliveRotation KeyInv
PROPERTY EventuallyInSync
