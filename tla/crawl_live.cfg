SPECIFICATION FairSpec
CONSTANTS
    URLs = {u1, u2, u3}
    Allowed = {u1, u2}
    Seeds = {u1, u2, u3}
    Producers = {p1}
    Visitors = {v1}
    MaxJobRetries = 1
    Capacity = 4
    Outcomes <- Survivable
    None = None
INVARIANTS
    NothingLost
PROPERTIES
    Settles
CHECK_DEADLOCK FALSE
