SPECIFICATION Spec
CONSTANTS
    URLs = {u1, u2}
    Allowed = {u1, u2}
    Seeds = {u1, u2}
    Producers = {p1}
    Visitors = {v1, v2}
    MaxJobRetries = 1
    Capacity = 10
    Outcomes <- Survivable
    None = None
INVARIANTS
    QuiescentIsFinished
CHECK_DEADLOCK FALSE
