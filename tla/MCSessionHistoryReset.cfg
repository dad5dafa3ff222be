CONSTANTS
    Messages = {m1, m2, m3}
    Wakeups = {}
    UniqueSession = FALSE
    NoEvent = NoEvent
SPECIFICATION Spec
PROPERTY ClearedStaysCleared
