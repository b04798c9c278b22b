SPECIFICATION MotionSpec
CONSTANTS
    Positions = {home, p1}
    Home = home
    p1 = p1
    p2 = p2
    None = none
    AutoSwitchForHome = TRUE
    ReturnToServoAfterHome = TRUE
    ManageServoNode = TRUE
    SeedOnSwitch = TRUE
    Faults = {"list_fails", "trigger_fails", "trigger_late", "switch_refused", "switch_late", "goal_unavailable", "goal_aborted", "goal_hangs", "external_motion"}
INVARIANTS
    MotionTypeOK
    GoalUnderTrajectory
    StartedUnderServo
CHECK_DEADLOCK FALSE
