SPECIFICATION FairSpec
CONSTANTS
    c1 = c1
    c2 = c2
    c3 = c3
    Callers = {c1, c2, c3}
    Numbers = {1, 2}
    CacheSize = 1
    InitialDelay = 1
    MaxDelay = 3
    MaxWait = 4
    Durations = {0, 2}
    MaxBranch = 1
INVARIANTS
    OneExecutionPerNumber
    NeverRefetched
    BoundedWait
PROPERTIES
    CallReturns
