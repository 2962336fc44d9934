\* synthetic_nginx with a client that resets its connection: two accept threads share conns_.
SPECIFICATION Spec
CONSTANTS
    Conns = {c1,c2}
    Disorderly = {c1}
    Slow = {}
    Acceptors = {a1,a2}
    NetworkThreadNumber = 0
    NETWORKDISPATCH = FALSE
    FdLimit = 1
    ReadBufferSize = 2
    MaxRequests = 1
    IdxFloor = 1
    NoConn = NoConn
    NoEpoll = NoEpoll
CHECK_DEADLOCK FALSE
INVARIANT MonitoredIsUsable
