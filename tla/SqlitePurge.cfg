CONSTANTS
    e1 = e1
    e2 = e2
    w1 = w1
    w2 = w2
    Events = {e1}
    Workers = {w1, w2}
    Publishers = {p1}
    None = None
    MaxRetries <- UnequalRetries
    Backoff = 1
    Faults = {"drop", "crash", "db"}
    MaxFaults = 1
    Stuck = {}
    ClockErrors = {}
    Removable <- RowStatus
    MaxPublishes = 3
    MaxRequeues = 1
SPECIFICATION Spec
INVARIANTS
    AckedWasProcessed
    SuccessPerInsert
