CHECK_DEADLOCK FALSE
SPECIFICATION Spec
CONSTANTS
    Workers = {w1}
    Pushers = {p1}
    WriteCap = 1
    WorkCap = 1
    Timeout = 1
    HeartBonus = 1
    MaxCalls = 1
INVARIANT
    NoSendOnClosedChannel
