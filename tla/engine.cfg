SPECIFICATION MCSpec
CONSTANTS
    OVENS = 1
    TRAYS_PER_OVEN = 2
    Orders = {o1, o2}
    NoTask = NoTask
    Specs <- MCSpecs
    SECOND = 2
    RECONCILE_SECONDS = 3
    MaxTime = 6
    MaxUnits = 4
SYMMETRY Symmetry
INVARIANTS
    TypeOK
    UnitsConserved
    WorkConserving
    NoOversleep
    EtaNeverLate
    ProvisionalIsAuthoritative
    EtaExact
PROPERTIES
    NoPriorityInversion
    NoPreemption
    EtaOnlyMovesBack
    OthersKeepTheirPlace
    StatusForetells
