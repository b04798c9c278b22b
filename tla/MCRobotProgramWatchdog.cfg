SPECIFICATION FairSpec
CONSTANTS
    CheckPeriod = 2
    GateDebounce = 2
    FalseDebounce = 3
    ResendCooldown = 6
    ServiceWait = 1
    MaxResends = 2
    GateMinPublishers = 1
    RequireControlActive = TRUE
    Enable = TRUE
    MaxPublishers = 1
    AgeCap = 6
    Faults = {"respawn", "lost_call"}
INVARIANTS
    TypeOK
    OutageBudget
    OneRequestAtATime
    LatchedView
PROPERTIES
    ResendSpacing
    NoUnsolicitedResend
    NoResendAgainstNews
    OutageAnswered
