CONSTANTS
    o1 = o1
    k1 = k1
    k2 = k2
    c1 = c1
    Orders = {o1}
    Skus = {k1, k2}
    Customers = {c1}
    OrderStatus = {"open", "cancelled"}
    Payloads <- Cancellation
    Projectors = {i1}
    None = None
    RebuildFrom = {}
    Redelivers = TRUE
    MaxRows = 2
    MaxRemovals = 0
    MaxCalls = 3
    MaxFaults = 0
SPECIFICATION Spec
CHECK_DEADLOCK FALSE
INVARIANTS
    CheckpointCovers
