SPECIFICATION Spec
CONSTANTS
    s1 = s1
    s2 = s2
    Section <- MCSection
    Operator <- MCOperator
    Others = {"decision"}
    None = None
    PoolSize = 2
    Window = 2
    MaxId = 3
    MaxOrders = 2
    MaxBus = 2
    MaxInflight = 2
    MaxFaults = 1
SYMMETRY Symmetry
INVARIANTS TimelineWhole LiftedByOrder
PROPERTIES TrailStands
CHECK_DEADLOCK FALSE
