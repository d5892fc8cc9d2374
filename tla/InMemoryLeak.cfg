CONSTANTS
    Events = {e1, e2}
    Publishers = {p1, p2}
    Subscribers = {s1, s2}
    None = None
    Capacity = 1
    Stuck = {}
    MaxPublishes = 1
SPECIFICATION FairSpec
CHECK_DEADLOCK FALSE
PROPERTIES
    UnsubscribedLeaves
