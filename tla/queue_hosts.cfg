SPECIFICATION Spec
CONSTANTS
    Hosts = {h1, h2}
    Producers = {p1}
    Visitors = {v1}
    NoQueue = NoQueue
    NoMessage = NoMessage
    BufferSize = 1
    TicksPerSecond = 1
    RecalcDelay = 1
    InitialInterval = 1
    Intervals = {1}
    RetryAfters = {}
    CounterMod = 2
    MaxMessages = 3
    Horizon = 2
    MaxTime = 2
INVARIANTS
    TypeOK
    TokenPerPromotion
    Funded
PROPERTIES
    SingleQueue
CHECK_DEADLOCK FALSE
