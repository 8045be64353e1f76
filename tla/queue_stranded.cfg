SPECIFICATION FairSpec
CONSTANTS
    Hosts = {h1}
    Producers = {p1, p2}
    Visitors = {v1}
    NoQueue = NoQueue
    NoMessage = NoMessage
    BufferSize = 2
    TicksPerSecond = 2
    RecalcDelay = 4
    InitialInterval = 2
    Intervals = {2}
    RetryAfters = {}
    CounterMod = 1000
    MaxMessages = 2
    Horizon = 3
    MaxTime = 10
PROPERTIES
    Retrieved
CHECK_DEADLOCK FALSE
