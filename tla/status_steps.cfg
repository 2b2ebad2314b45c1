SPECIFICATION Spec
CONSTANTS
    OVENS = 1
    TRAYS_PER_OVEN = 1
    Orders = {1, 2}
    NoTask = NoTask
    Priority <- MCPriority
    Units <- OneUnitEach
    Requests = {r1}
    MaxPayments = 2
    MaxFaults = 0
    MaxCrashes = 0
PROPERTIES
    StatusFollowsTransitions
CHECK_DEADLOCK FALSE
