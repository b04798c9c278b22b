SPECIFICATION FairMotionSpec
CONSTANTS
    Positions = {home, p1, p2}
    Home = home
    p1 = p1
    p2 = p2
    None = none
    AutoSwitchForHome = TRUE
    ReturnToServoAfterHome = TRUE
    ManageServoNode = TRUE
    SeedOnSwitch = TRUE
    Faults = {"list_fails", "switch_refused", "goal_unavailable", "goal_aborted"}
INVARIANTS
    StreamNeedsController
    ModesAgree
PROPERTIES
    SeedIsCurrent
    RestoresServo
    RoutineEnds
