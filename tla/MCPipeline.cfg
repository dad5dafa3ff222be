CONSTANTS
    Handlers = 2
    MaxYields = 3
SPECIFICATION Spec
INVARIANTS
    HandlersOnce
    RepliesInOrder
    ResentOnlyIfStopped
PROPERTY StopIsFinal
