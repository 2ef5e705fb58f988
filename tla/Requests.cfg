SPECIFICATION FairRequests
CONSTANTS
    Stream <- Messages
    Reads = {1, 2, 3, 5, 7, 8, 16}
    Small = 15
    Workers = {w1, w2}
    WorkCap = 2
    WriteCap = 1
INVARIANTS
    RequestsInv
    InStep
    HandledInStep
PROPERTIES
    JobsDrain
CHECK_DEADLOCK FALSE
