CONSTANTS
    MaxMessages = 3
    MaxWaits = 2
    MaxKeeps = 1
SPECIFICATION WaiterFairSpec
INVARIANTS
    AloneIsReachable
    DroppedOnlyAtEnd
PROPERTY WaitersEnd
