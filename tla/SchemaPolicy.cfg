CONSTANTS
    t1 = t1
    t2 = t2
    f1 = f1
    f2 = f2
    EventTypes = {t1, t2}
    Versions = {0, 1, 2, 4}
    Fields = {f1, f2}
    Annotations = {"plain", "described"}
    Schemas <- Evolution
    MaxCalls = 4
SPECIFICATION Spec
SYMMETRY Symmetry
CHECK_DEADLOCK FALSE
INVARIANTS
    TypeOK
    AscendingIsAdditive
    OldPayloadsPass
    OnlyBreakingRefused
