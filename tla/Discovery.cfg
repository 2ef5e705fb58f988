SPECIFICATION FairSpec
CONSTANTS
    Servers = {s1, s2}
    MaxStarts = 2
    MaxLogins = 1
    Faulty = {"etcd", "dial", "lease"}
    None = None

    
PROPERTIES
    
    DeadForgotten
CHECK_DEADLOCK FALSE
