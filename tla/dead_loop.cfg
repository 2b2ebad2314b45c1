SPECIFICATION FairSpec
CONSTANTS
    OVENS = 1
    TRAYS_PER_OVEN = 1
    Orders = {1, 2, 3}
    NoTask = NoTask
    Priority <- MCPriority
    Units <- OneUnitEach
    Requests = {r1, r2}
    MaxPayments = 3
    MaxFaults = 0
    MaxCrashes = 0
PROPERTIES
    EveryPaidOrderGetsReady
CHECK_DEADLOCK FALSE
