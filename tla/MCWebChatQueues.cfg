CONSTANTS
    Messages = {m1, m2, m3}
    Maxsize = 2
    MaxQueues = 3
SPECIFICATION FairSpec
INVARIANTS
    InOrder
    OneLateAtMost
PROPERTY SentIsHandled
CHECK_DEADLOCK FALSE
