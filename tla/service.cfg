SPECIFICATION FairSpec
CONSTANTS
    RunIDs = {r1}
    URLs = {u1}
    Callers = {h1, v1, v2}
    Handlers = {h1}
    Requested <- MCRequested
    Workers = {v1, v2}
    MaxParallelRuns = 1
    BufferSize = 1
    MaxMessages = 2
    Teardowns <- MCTeardowns
INVARIANTS
    TypeOK
    NilOnlyIfDeleted
PROPERTIES
    SeenKept
    Stops
    Served
CHECK_DEADLOCK FALSE
