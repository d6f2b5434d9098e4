SPECIFICATION Spec
CONSTANTS
    TcpSockMax = 2
    BufferSize = 2
    Clients = {c1, c2}
    MaxSessions = 3
    MaxSent = 3
    MaxReply = 3
    MaxRead = 2
    MaxFailures = 1
INVARIANTS
    StreamOrder
    NothingLost
    NoWedge
    RecvOutstanding
PROPERTIES
    EverythingRead
