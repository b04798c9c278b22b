SPECIFICATION Spec
CONSTANTS
    Order <- Nodes
    Managers = {m1, m2}
    m1 = m1
    m2 = m2
    bridge = bridge
    endpoint = endpoint
    MaxSpawns = 2
    Respawning = {m1}
    None = none
    Faults = {}
INVARIANTS
    NoCompetingCopies
CHECK_DEADLOCK FALSE
