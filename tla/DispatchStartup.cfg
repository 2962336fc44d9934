\* synthetic_memcached at startup.
SPECIFICATION Spec
CONSTANTS
    Conns = {c1}
    Disorderly = {}
    Slow = {}
    Acceptors = {main}
    NetworkThreadNumber = 2
    NETWORKDISPATCH = TRUE
    FdLimit = 1
    ReadBufferSize = 2
    MaxRequests = 1
    IdxFloor = 1
    NoConn = NoConn
    NoEpoll = NoEpoll
CHECK_DEADLOCK FALSE
INVARIANT AcceptedIsMonitored
