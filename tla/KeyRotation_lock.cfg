CONSTANTS
    n1 = n1
    n2 = n2
    Seed = Seed
    Nodes = {n1, n2}
    SeedRotates = 2
    Lifetime = 10
    RotateBefore = 1
    RetireAfter = 3
    RotateTimeout = 1
    MaxStale = 1
    TokenTTL = 1
    MaxTime = 3
    MaxForced = 0
    MaxFaults = 0
SYMMETRY Symmetry
SPECIFICATION Spec
PROPERTIES ReplacedKeyWasDue
