SPECIFICATION FairSpec
CONSTANTS
    Order <- Nodes
    Managers = {m1, m2}
    m1 = m1
    m2 = m2
    bridge = bridge
    endpoint = endpoint
    MaxSpawns = 2
    Respawning = {m1}
    None = none
    Faults = {"node_crashes", "wrapper_dies", "ignores_sigterm", "stuck", "unkillable", "constructor_raises", "spawn_fails", "manager_killed"}
INVARIANTS
    TypeOK
    OneSupervisor
    OneCopyPerManager
    NothingLeftRunning
PROPERTIES
    Respawns
CHECK_DEADLOCK FALSE
