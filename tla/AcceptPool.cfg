\* synthetic_nginx: two accept threads serve what they accept; orderly clients.
SPECIFICATION FairSpec
CONSTANTS
    Conns = {c1, c2}
    Disorderly = {}
    Slow = {}
    Acceptors = {a1, a2}
    NetworkThreadNumber = 0
    NETWORKDISPATCH = FALSE
    FdLimit = 2
    ReadBufferSize = 2
    MaxRequests = 2
    IdxFloor = 1
    NoConn = NoConn
    NoEpoll = NoEpoll
CHECK_DEADLOCK FALSE
INVARIANTS EventLoopInv RightReceiver
PROPERTIES EventuallyAnswered
