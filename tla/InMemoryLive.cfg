CONSTANTS
    Events = {e1}
    Publishers = {p1}
    Subscribers = {s1, s2}
    None = None
    Capacity = 1
    Stuck = {s1}
    MaxPublishes = 3
SPECIFICATION FairSpec
CHECK_DEADLOCK FALSE
PROPERTIES
    PublishReturns
    AcceptedIsHandled
