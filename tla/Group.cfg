SPECIFICATION Spec
CONSTANTS
    Groups = {g1, g2}
    Users = {u1, u2}
    Requests = {r1, r2}
    Checks = {c1}
    Ops = {"create", "quit", "dissolve", "invite", "remove", "get"}
    Faulty = {"redis", "db"}
    None = None
SYMMETRY Symmetry
INVARIANTS
    GroupInv
    CacheFresh
    OwnerIsMember
CHECK_DEADLOCK FALSE
