CONSTANTS
    t1 = t1
    t2 = t2
    f1 = f1
    f2 = f2
    EventTypes = {t1}
    Versions = {1, 2}
    Fields = {f1}
    Annotations = {"plain"}
    Schemas <- TwoTypes
    MaxCalls = 2
SPECIFICATION Spec
CHECK_DEADLOCK FALSE
INVARIANTS
    FieldTypesKept
