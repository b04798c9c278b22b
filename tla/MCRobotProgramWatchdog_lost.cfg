SPECIFICATION FairSpec
CONSTANTS
    CheckPeriod = 1
    GateDebounce = 1
    FalseDebounce = 1
    ResendCooldown = 3
    ServiceWait = 1
    MaxResends = 2
    GateMinPublishers = 1
    RequireControlActive = TRUE
    Enable = TRUE
    MaxPublishers = 1
    AgeCap = 3
    Faults = {"lost_call"}
PROPERTIES
    ResendsAutomatically
