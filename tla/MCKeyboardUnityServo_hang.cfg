SPECIFICATION FairSpec
CONSTANTS
    Positions = {home}
    Home = home
    None = none
    AutoSwitchForHome = FALSE
    ReturnToServoAfterHome = FALSE
    ManageServoNode = FALSE
    SeedOnSwitch = FALSE
    Faults = {"goal_hangs"}
    UnityKeys = {"w"}
    JointsActions = {"space", "h"}
    PoseActions = {}
    QueueDepth = 1
    MaxPending = 1
PROPERTIES
    KeepsPublishing
