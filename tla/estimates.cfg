SPECIFICATION Spec
CONSTANTS
    OVENS = 1
    TRAYS_PER_OVEN = 1
    Orders = {1, 2, 3}
    NoTask = NoTask
    Priority <- MCPriority
    Units <- OneUnitEach
    BakeTimes = {1, 2}
    FirstBake <- MCFirstBake
    Requests = {r1, r2}
    MaxTime = 2
    MaxPayments = 3
    MaxPatches = 1
    MaxFaults = 1
    MaxCrashes = 1
SYMMETRY Symmetry
INVARIANTS
    TypeOK
    StoredNeverLate
    StoredNotPastReady
    EstimatesSettle
CHECK_DEADLOCK FALSE
