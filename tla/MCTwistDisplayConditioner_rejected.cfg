SPECIFICATION Spec
CONSTANTS
    InitialHold = 2
    ActiveTimeout = 1
    AgeCap = 4
    Velocities = {left}
    left = left
    right = right
    Zero = zero
    None = none
    DisplayPeriod = 1
    QueueDepth = 1
INVARIANTS
    NeverHeldAcrossRejection
