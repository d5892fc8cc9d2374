CONSTANTS
    e1 = e1
    e2 = e2
    w1 = w1
    w2 = w2
    Events = {e1, e2}
    Workers = {w1, w2}
    Publishers = {p1}
    None = None
    MaxRetries <- OneRetry
    Backoff = 1
    Faults = {"drop", "crash", "db"}
    MaxFaults = 1
    Stuck = {w2}
    ClockErrors = {}
    Removable = {}
    MaxPublishes = 2
    MaxRequeues = 0
SPECIFICATION FairSpec
INVARIANTS
    OnlyFaultsStrand
    CountersAgree
PROPERTIES
    SettlesOrStrands
    StrandedIsForever
