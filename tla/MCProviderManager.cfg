CONSTANTS
    Ids = {p, q}
    Sourced = {p}
    Default = q
    Requests = {r1, r2}
    None = None
CHECK_DEADLOCK FALSE
SPECIFICATION FairSpec
INVARIANTS
    RunsAsConfigured
    GivenIsOpen
PROPERTY RequestsEnd
