CONSTRAINT CrashOrMove
SPECIFICATION Spec
CONSTANTS
    Msgs = {m1}
    U = U
    S1 = S1
    S2 = S2
    C1 = C1
    C2 = C2
    Users <- MCUsers
    Servers <- MCServers
    Conns <- MCConns
    Receiver <- MCReceiver
    Owner <- MCOwner
    Origin <- MCOrigin
    Home <- Moves
    None = None
    Faulty = {"redis", "db"}
    MaxCrashes = 1
INVARIANTS
    CleanIsRegistered
    
PROPERTIES
    MailboxSpec
CHECK_DEADLOCK FALSE
