CONSTANTS
    Names = {a, b}
    Configured = {a}
    Requests = {r1, r2}
    Contrary = {r1}
CHECK_DEADLOCK FALSE
SPECIFICATION FairSpec
INVARIANTS
    LiveIsListed
    ToolsAreServed
    RunsAsConfigured
PROPERTIES
    DisabledIsDown
    EveryCallEnds
