SPECIFICATION Spec
CONSTANTS
    URLs = {u1, u2}
    Allowed = {u1, u2}
    Seeds = {u1}
    Producers = {p1}
    Visitors = {v1, v2}
    MaxJobRetries = 1
    Capacity = 2
    Outcomes = {"page", "busy", "unhandled"}
    None = None
SYMMETRY Symmetry
INVARIANTS
    TypeOK
    OncePerEnqueuer
    BoundedVisits
    NoFalseFinish
CHECK_DEADLOCK FALSE
