CONSTANTS
    e1 = e1
    e2 = e2
    w1 = w1
    w2 = w2
    Events = {e1}
    Workers = {w1}
    Publishers = {p1}
    None = None
    MaxRetries <- OneRetry
    Backoff = 1
    Faults = {"crash"}
    MaxFaults = 1
    Stuck = {}
    ClockErrors = {}
    Removable = {}
    MaxPublishes = 1
    MaxRequeues = 0
SPECIFICATION FairSpec
PROPERTIES
    AtLeastOnce
