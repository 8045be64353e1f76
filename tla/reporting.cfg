SPECIFICATION FairSpec
CONSTANTS
    URLs <- MCURLs
    Seeds <- MCSeeds
    Page <- MCPage
    Unwritable = {"u1"}
    Visitors = {v1, v2}
    Buffer = 1
    MinVisit = 2
    MaxGap = 4
    Horizon = 1
    None = None
INVARIANTS
    TypeOK
    SucceededIsSaved
    NotLeftEarly
    PulseNeverOvercounts
    
PROPERTIES
    Exits
    VisitsGoOn
CHECK_DEADLOCK FALSE
