CONSTANTS
    MaxSteps = 2
    MaxCalls = 2
    MaxResults = 2
    Fallbacks = 1
    MaxAttempts = 2
    MaxTurns = 2
    DropTurns = 1
    SkillsLike = TRUE
SPECIFICATION LoopSpec
INVARIANTS
    NoOrphans
    SentIsPaired
    CallsKeepResults
CHECK_DEADLOCK FALSE
