CONSTANTS
    Events = {e1, e2}
    Publishers = {p1, p2}
    Subscribers = {s1, s2}
    None = None
    Capacity = 2
    Stuck = {}
    MaxPublishes = 3
SPECIFICATION Spec
SYMMETRY Symmetry
CHECK_DEADLOCK FALSE
INVARIANTS
    TypeOK
    LastSeenChain
    DuplicateMeansEarlier
    PerPublisherFifo
    AccountedFor
