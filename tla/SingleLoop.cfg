\* synthetic_redis: one thread accepts and serves.
SPECIFICATION FairSpec
CONSTANTS
    Conns = {c1, c2}
    Disorderly = {c1, c2}
    Slow = {c1}
    Acceptors = {main}
    NetworkThreadNumber = 0
    NETWORKDISPATCH = FALSE
    FdLimit = 1
    ReadBufferSize = 2
    MaxRequests = 3
    IdxFloor = 1
    NoConn = NoConn
    NoEpoll = NoEpoll
CHECK_DEADLOCK FALSE
INVARIANTS TypeOK EventLoopInv NoLostRequest ReadInBuffer AcceptedIsMonitored
PROPERTIES EventuallyAnswered EventuallyReleased
