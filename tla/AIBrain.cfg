\* Three tasks, two of which may be inside at once, with one retry each.
SPECIFICATION FairSpec
CONSTANTS
    Tasks = {t1, t2, t3}
    MaxConcurrent = 2
    MaxRetries = 1
    BreakerThreshold = 2
INVARIANTS
    OpensOnLostCalls
    OpenBreakerDrains
PROPERTIES
    DecideEnds
