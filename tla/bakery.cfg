SPECIFICATION Spec
CONSTANTS
    OVENS = 1
    TRAYS_PER_OVEN = 2
    Orders = {1, 2}
    NoTask = NoTask
    Priority <- MCPriority
    Units <- MCUnits
    Requests = {r1, r2}
    MaxPayments = 3
    MaxFaults = 1
    MaxCrashes = 1
SYMMETRY Symmetry
INVARIANTS
    TypeOK
    NoLostOrder
    UnitsTakenUpOnce
    ReadyMeansBaked
    PersistedIsDurable
    UnpaidOnlyAfterRollback
PROPERTIES
    StatusNeverRegresses
    FollowsLifecycle
CHECK_DEADLOCK FALSE
