SPECIFICATION FairSpec
CONSTANTS
    Clients = {c1}
    Names = {n1}
    Passwords = {p1, p2}
    Servers = {s1}
    Nil = Nil
    TokenOut = 1
    Slack = 1
    Behind = 1
    MaxTime = 1
    MaxConns = 2
    MaxStarts = 1
    MaxDeaths = 1
INVARIANTS
    SessionInv

    
CHECK_DEADLOCK FALSE
