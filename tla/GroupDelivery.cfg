CONSTRAINT FewLogins
SPECIFICATION Spec
CONSTANTS
    Msgs = {m1}
    Receivers = {u1, u2}
    S1 = S1
    S2 = S2
    Servers <- TwoServers
    Origin = S1
    None = None
    Faulty = {"redis", "db"}
    MaxLogins = 2
    MaxCrashes = 1
SYMMETRY Symmetry
INVARIANTS
    
    ConfirmedKept
    
PROPERTIES
    RowsLeaveReceived
CHECK_DEADLOCK FALSE
