CONSTANTS
    Messages = {m1, m2, m3}
    Wakeups = {w1}
    UniqueSession = FALSE
    NoEvent = NoEvent
SPECIFICATION Spec
INVARIANTS
    TurnsStayInConversation
    AbortedIsSaved
PROPERTY ChatTurnsKept
SYMMETRY SameMessages
