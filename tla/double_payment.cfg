SPECIFICATION Spec
CONSTANTS
    OVENS = 1
    TRAYS_PER_OVEN = 1
    Orders = {1}
    NoTask = NoTask
    Priority <- MCPriority
    Units <- OneUnitEach
    Requests = {r1, r2}
    MaxPayments = 2
    MaxFaults = 0
    MaxCrashes = 0
SYMMETRY Symmetry
INVARIANTS
    NeverBakedTwice
CHECK_DEADLOCK FALSE
