CONSTANTS
    Calls = {c1, c2}
    Runs = {r1, r2}
    MaxRestarts = 1
    None = None
SPECIFICATION Spec
SYMMETRY Symmetry
INVARIANTS
    ScheduledAsStored
    OneShotRunsOnce
CHECK_DEADLOCK FALSE
