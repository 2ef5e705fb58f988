SPECIFICATION FairSpec
CONSTANTS
    Msgs = {m1, m2}
    Conns = {c1}
    U = u
    Users <- MCUsers
    Receiver <- MCReceiver
    Owner <- MCOwner
    NoConn = NoConn
    NoMsg = NoMsg
    RetryDelay = 0
    RetryLimit = 1
    PushCap = 1
    DelCap = 1
    MaxAcks = 1
PROPERTIES
    RetriesEnd
    HandlersReturn
