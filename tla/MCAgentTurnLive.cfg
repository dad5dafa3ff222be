CONSTANTS
    e1 = e1
    e2 = e2
    e3 = e3
    e4 = e4
    alice = alice
    bob = bob
    Events = {e1, e2, e3}
    Senders = {alice, bob}
    Sender <- OneAuthor
    NoEvent = NoEvent
    RunsMayFail = FALSE
    MaxStops = 1
SPECIFICATION FairSpec
INVARIANT NoOrphanTicket
PROPERTY EveryMessageEnds
CHECK_DEADLOCK FALSE
