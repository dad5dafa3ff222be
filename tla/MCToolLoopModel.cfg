CONSTANTS
    MaxSteps = 2
    MaxCalls = 1
    MaxResults = 1
    Fallbacks = 1
    MaxAttempts = 1
    MaxTurns = 2
    DropTurns = 1
    SkillsLike = FALSE
SPECIFICATION LoopSpec
INVARIANT ModelGoesToPrimary
CHECK_DEADLOCK FALSE
