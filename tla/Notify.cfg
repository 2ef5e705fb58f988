SPECIFICATION Spec
CONSTANTS
    Agreements = {a1, a2}
    Asks = {k1}
    Servers = {s1, s2}
    None = None
    Faulty = {"rpc", "write", "db"}
    MaxLogins = 2
SYMMETRY Symmetry
INVARIANTS
    NotifyInv
    NotifyKept
CHECK_DEADLOCK FALSE
