\* synthetic_memcached: a network thread serves a connection that the main thread is still initialising.
SPECIFICATION Spec
CONSTANTS
    Conns = {c1}
    Disorderly = {}
    Slow = {}
    Acceptors = {main}
    NetworkThreadNumber = 1
    NETWORKDISPATCH = TRUE
    FdLimit = 1
    ReadBufferSize = 2
    MaxRequests = 1
    IdxFloor = 1
    NoConn = NoConn
    NoEpoll = NoEpoll
CHECK_DEADLOCK FALSE
INVARIANT NoLostRequest
