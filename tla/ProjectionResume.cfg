CONSTANTS
    o1 = o1
    k1 = k1
    k2 = k2
    c1 = c1
    Orders = {o1}
    Skus = {k1, k2}
    Customers = {c1}
    OrderStatus = {"open", "cancelled"}
    Payloads <- OneOrder
    Projectors = {i1, i2}
    None = None
    RebuildFrom = {0}
    Redelivers = FALSE
    MaxRows = 3
    MaxRemovals = 1
    MaxCalls = 3
    MaxFaults = 1
SPECIFICATION Spec
SYMMETRY Symmetry
VIEW ButMetrics
CHECK_DEADLOCK FALSE
INVARIANTS
    TypeOK
    CheckpointCovers
    TotalUpToDate
    TablesAtCheckpoint
PROPERTIES
    RebuildHeals
