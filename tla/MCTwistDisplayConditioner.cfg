SPECIFICATION FairSpec
CONSTANTS
    InitialHold = 5
    ActiveTimeout = 2
    AgeCap = 7
    Velocities = {left, right}
    left = left
    right = right
    Zero = zero
    None = none
    DisplayPeriod = 1
    QueueDepth = 2
INVARIANTS
    TypeOK
    NoGhostMotion
    CacheFollowsMachine
PROPERTIES
    QuickRelease
    KeepsPromise
    Released
