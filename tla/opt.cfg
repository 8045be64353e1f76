SPECIFICATION Spec
CONSTANTS
    Visitors = {v1, v2}
    Announced <- Headers
    NoHeader = NoHeader
    Latencies = {0, 500, 2000}
INVARIANTS
    TypeOK
    AtLeastMin
    Bounded
PROPERTIES
    ErrorSlowsDown
    BusyHostGetsAnnouncedRate
