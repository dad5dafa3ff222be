CONSTANTS
    e1 = e1
    e2 = e2
    e3 = e3
    e4 = e4
    alice = alice
    bob = bob
    Events = {e1, e2, e3, e4}
    Senders = {alice, bob}
    Sender <- TwoAuthors
    NoEvent = NoEvent
    RunsMayFail = TRUE
    MaxStops = 1
SYMMETRY SameAuthor
SPECIFICATION Spec
INVARIANTS
    StrictOrder
    MergedXorAnswered
    OrderStateKept
    NoAbandonedSlot
PROPERTY TakesTurns
CHECK_DEADLOCK FALSE
