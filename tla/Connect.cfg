CHECK_DEADLOCK FALSE
SPECIFICATION FairSpec
CONSTANTS
    Workers = {w1}
    Pushers = {p1}
    WriteCap = 1
    WorkCap = 1
    Timeout = 1
    HeartBonus = 1
    MaxCalls = 2
INVARIANTS
    ConnectInv
    ClosedOnce
PROPERTIES
    HeartbeatSparesPinger
    StreamSpec
    Teardown
    SilentDropped
    AcceptedGoesOut
