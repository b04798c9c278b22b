SPECIFICATION FairSpec
CONSTANTS
    Positions = {home}
    Home = home
    None = none
    AutoSwitchForHome = TRUE
    ReturnToServoAfterHome = FALSE
    ManageServoNode = TRUE
    SeedOnSwitch = FALSE
    Faults = {}
    UnityKeys = {"w"}
    JointsActions = {"space", "x", "h"}
    PoseActions = {"h", "r", "c"}
    QueueDepth = 1
    MaxPending = 2
INVARIANTS
    TypeOK
    ClearedStaysClear
PROPERTIES
    ReleaseZeroes
    StopPublished
    KeepsPublishing
