CONSTANTS
    Names = {a, b}
    Configured = {a, b}
    Requests = {r1, r2}
    Contrary = {}
CHECK_DEADLOCK FALSE
SPECIFICATION Spec
INVARIANT OneServerPerName
