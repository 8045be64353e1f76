SPECIFICATION FairSpec
CONSTANTS
    Hosts = {h1}
    Producers = {p1}
    Visitors = {v1}
    NoQueue = NoQueue
    NoMessage = NoMessage
    BufferSize = 1
    TicksPerSecond = 2
    RecalcDelay = 4
    InitialInterval = 2
    Intervals = {1, 2}
    RetryAfters = {3}
    CounterMod = 1000
    MaxMessages = 3
    Horizon = 6
    MaxTime = 20
INVARIANTS
    HostRate
PROPERTIES
    NotEarly
    Retrieved
CHECK_DEADLOCK FALSE
