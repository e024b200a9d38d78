CONSTANTS
    c1 = c1
    c2 = c2
    c3 = c3
    Callers = {c1, c2, c3}
    IOWorkers = 1
    CPUWorkers = 1
    IOQueueSize = 1
    CPUQueueSize = 1
SPECIFICATION PoolSpec
INVARIANT JobsInOnePlace
PROPERTIES EveryCallReturns EveryJobEnds
