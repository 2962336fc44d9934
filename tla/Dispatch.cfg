\* synthetic_memcached: the main thread dispatches to two network threads; orderly clients.
SPECIFICATION FairSpec
CONSTANTS
    Conns = {c1, c2}
    Disorderly = {}
    Slow = {}
    Acceptors = {main}
    NetworkThreadNumber = 2
    NETWORKDISPATCH = TRUE
    FdLimit = 2
    ReadBufferSize = 2
    MaxRequests = 2
    IdxFloor = 1
    NoConn = NoConn
    NoEpoll = NoEpoll
CHECK_DEADLOCK FALSE
INVARIANTS RightReceiver ReadInBuffer MonitoredIsUsable
PROPERTIES DispatchedIsServed
