SPECIFICATION Spec
CONSTANTS
    Users = {u1, u2}
    Requests = {r1, r2, r3}
    Checks = {c1, c2}
    Ops = {"add", "agree", "refuse", "delete", "clear"}
    Faulty = {"redis", "db"}
    None = None
SYMMETRY Symmetry
INVARIANTS
    FriendInv
    CacheFresh
    BothRows
PROPERTIES
    StrangersRefused
CHECK_DEADLOCK FALSE
