CONSTANTS
    Keys = {k1, k2, k3, k4}
    Few = {k1, k2, k3}
    MaxRead = 3
    MaxDeps = 2
    MaxForks = 1
    Specs <- MCSpecs
SPECIFICATION CycleSpec
CHECK_DEADLOCK FALSE
INVARIANTS
    DegreesCountWaiting
    OrderIsSound
    ReportedCycleIsReal
PROPERTIES
    BuildableIsBuilt
    CycleIsFound
